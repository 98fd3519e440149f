# kasir.mu in TLA+

kasir.mu is an offline-first point of sale. Every till keeps its own SQLite database
and never waits for a network; a cloud queue carries what a till did to the others.
The hard part of the program is that path: a sale is settled in one transaction,
travels as an *outbox row* through workers that crash, race, time out and retry, and
must change every other till's stock exactly once. At either end of it are the books
of one store: what a sale, a payment, a refund, a transfer or a count may do to stock,
money and points. This directory holds the specifications of both, the TLC instances
that check them, and the TLAPS proofs of what matters most. Source paths below are
relative to `src/`.

## 1. The system

| Component | State it keeps | Operations | What is hard |
|---|---|---|---|
| Checkout settlement (`crates/kasirmu-core/src/db/sales_checkout.rs`) | sales, stock, outbox rows | settle: deduct stock and queue `complete_sale` in one transaction | second row by the event handler; shortfalls |
| Sale lifecycle (`db/sales_lifecycle.rs`) | sale status, deduction locations | finalize, void, reap | capture against reaper, what is replicated |
| Refunds and loyalty (`db/refunds.rs`, `db/refunds/credit.rs`, `db/loyalty.rs`) | refund rows, points and their ledger | refund, award, redeem, reverse | bounds and rounding over several calls |
| Stock room (`db/stock_transfers.rs`, `db/stock_counts.rs`, `db/purchase_orders.rs`) | documents with a status, stock | send, receive, cancel; count, apply; order, receive | stock that moves under an open document |
| Kitchen display (`db/kds_orders.rs`, `kds_lines.rs`, `kds_ops.rs`) | one ticket per sale and zone | fan out, advance, acknowledge, cancel | displays that act on what they last saw |
| Payments and webhooks (`apps/cloud-server/src/webhooks/midtrans.rs`, `midtrans_ledger.rs`, `ui/src/features/sales/payment/`) | charge ledger, `processed_webhooks`, the till's dialog | charge, notify, poll, settle | late, repeated, reordered notifications; tills that restart |
| Terminal outbox (`db/offline.rs`, `db/offline/enqueue.rs`) | `offline_queue`: status, stamp, priority | enqueue, list pending, mark synced or failed, delete | marks by two workers at once |
| Sync daemon (`platform/sync/src/daemon.rs`, `daemon_tick.rs`) | `sync_pull_state` (anchor and cursor) | push, pull one page, recover from 410 | lost replies, rewinds in mid-pull, crashes |
| Manual "sync now", tablet loop (`crates/kasirmu-bridge/src/sync.rs`, `apps/mobile-tauri/src/lib.rs`) | none | push only | their own reaction to errors |
| Remote apply (`platform/sync/src/queue.rs`, `db/offline/remote.rs`) | receipts and effect keys, quarantine | apply at most once, count failures, dead-letter, requeue | redelivery under another id, own rows coming back |
| Remote appliers (`platform/sync/src/queue/appliers.rs`) | stock and settings of the other terminals | one branch per action name | refund before sale, missing stock, two writers of stock |
| Cloud sync API (`apps/cloud-server/src/sync_api.rs`, `sync_store*.rs`) | the tenant's queue | insert a batch, serve a page, answer 410 | duplicates, cursors that outlive retention |
| Conflict detection (`sync_store/conflicts.rs`, `conflict_resolution.rs`, `platform/sync/src/crdt/`) | one version vector per entity, reviews; one clock per terminal | stamp, compare, merge, file, resolve | detection may fail, push must not; clocks that are not persisted |
| Retention (`apps/cloud-server/src/prune.rs`) | | delete old rows | terminals that lag |
| Daemon lifecycle (`platform/sync/src/pg_daemon.rs`, `daemon.rs`) | running flag, shutdown slot, join handle | start, stop, status, guard | panics, time-outs, contended locks |
| Gift cards, shifts, sync engine, resolver, kernel event bus, startup, shells, UI, licensing, HAL, plugins, reporting | see `PROJECT.json` | | section 7 |

How they interact. A checkout and the daemon of one till share a SQLite connection
behind a mutex, except on *split* terminals, where commands use a database per
store and the daemon, the reaper and the event handlers use the global one; the
event handlers always have a connection of their own. Workers talk to the cloud by
HTTP; each request may be lost before or after it took effect. Tills never talk to
each other: whatever one does reaches another through the cloud queue and its pull
anchor. A payment gateway talks to the cloud only; what it says reaches the till as
a `finalize_sale` row in that same queue, while the till polls the charge ledger.

What makes each part correct is listed as properties in section 3; the places where
the code is exposed, with line numbers, are the hazards of `PROJECT.json`.

## 2. Modules

| Module | Role |
|---|---|
| `OfflineSync` | outbox, push, cloud queue, pull, apply, quarantine, retention, crashes: everything from checkout to retention, where a row is the effect it names |
| `EffectDelivery` | the abstract promise: an effect happens once at its origin and reaches every other terminal at most once |
| `Replicas` | the same channel from above, with what a row does when it arrives: stock, its two writers, quarantine, settings |
| `StockCounter` | the abstract promise of replicated stock: a counter per terminal that sees each effect at most once |
| `StockLedger` | stock by location: the route waterfall, debit and credit |
| `Kitchen` | tickets and displays |
| `SaleLedger` | sales, reaper, refunds, loyalty over `StockLedger` and `Kitchen` |
| `StockRoom` | transfers, counts and purchase orders over `StockLedger` |
| `Store` | `SaleLedger` and `StockRoom` sharing the stock of one store |
| `PaymentWebhooks` | `SaleLedger` with charges, gateway, webhook requests, queue, daemon and the till's dialog |
| `VersionVector` | stamps, comparison and join of version vectors |
| `ConflictReview` | tills that stamp and push, the server that compares, files, merges and stores |
| `DaemonLifecycle` | start, stop, run loop and flag guard of a background daemon |
| `MCOfflineSync`, `MCReplicas`, `MCStore`, `MCPaymentWebhooks`, `MCConflictReview`, `MCDaemonLifecycle` | instances for TLC |
| `OfflineSyncProofs`, `ReplicasProofs`, `SaleLedgerProofs`, `StoreProofs`, `PaymentWebhooksProofs`, `ConflictReviewProofs`, `DaemonLifecycleProofs` | inductive invariants and theorems |
| `Sums` | lemmas about sums over finite sets |

### OfflineSync

The unit of atomicity is the SQLite transaction or the HTTP round trip; anything
between two of them (an `await`, a released mutex) is a point where other workers,
commands, retention, the operator and crashes run.

* **Rows.** A row is its id (a UUID v7, a number here) and what it says is the
  *effect* it names, `Effect[i]`. Two rows may name one sale. `Home[i]` is the
  terminal that queues it, `Sales` the rows whose action is `complete_sale` (they
  carry an effect key), `Unstamped` the rows without an origin terminal,
  `Attributed` the sales whose `sales` row names its terminal.
* **Terminal state.** `status`, `createdAt` are `offline_queue`; `receipts` and
  `effectKeys` are the two unique columns of `sync_applied_items`; `attempts` and
  `dead` are `sync_remote_failures`; `anchor` is `sync_pull_state`; `done[t][e]`
  counts how often `t`'s inventory carries effect `e`.
* **Cloud state.** `log` is the tenant's queue, `pruned` what retention deleted.
* **Workers.** `pc[w]` with the local variables of one cycle. A *puller* is a
  SyncDaemon; a *tablet* worker is the tablet's push loop; any other is the manual
  command. They differ where the code differs: what they read (`ReadBatch`), how they
  mark (`apply_push_results` row by row, one transaction each, under the connection's
  mutex; `apply_sync_outcomes` the whole batch in one transaction), and what they do with a transport error (nothing,
  or `mark_all_failed`).
* **Actions** carry the names of the functions they translate; `PushDelivered`,
  `PushLost` and `PushGated` are the outcomes of one push request, `PullDelivered`,
  `PullLost`, `PullExpired` those of one pull. The map in `PROJECT.json` gives the
  lines of each.
* **Applying a page** goes row by row in `(created_at, id)` order:
  `SkipQuarantined`, `ReceiptOwn` (origin gate), `SkipApplied`, `ApplyRow` or
  `FailRow`, the branches of `apply_remote_atomic_full` in its order.

Abstractions: priorities, stamps and ids are small numbers; `NULL` anchors are 0;
quantities, prices, tenants, authentication, 401 re-login, rate limits and vector
conflict flags are left out; the branches inside the appliers are one effect each;
a snapshot carries no stock, so importing it only moves the anchor. Errors of
the local database itself (rebuilding the stock summary, persisting the anchor) are
not actions of their own: they retain the anchor after the page, as a crash does.

### EffectDelivery

Two actions, an effect happening at its origin and an effect being delivered
elsewhere, each at most once per terminal. `OfflineSync` implements it for the
*protected* effects under the mapping `carried <- done`. An effect is protected when
every unstamped row naming it is a sale its terminal recognises as its own (and keeps
in the database its daemon uses). An unstamped stock adjustment, queued before the
terminal was paired, has no such guard: a terminal with an anonymous token that is
sent it back applies it again, which is why the promise is stated for protected
effects only.

### Replicas and StockCounter

`OfflineSync` shows that a row is applied at most once; `Replicas` asks what the
terminals hold if it is. Its channel is the conclusion of the other: a pushed row
reaches another terminal at any time, in any order, again and again until there is a
receipt, and never its own. `stock` and `total` are `stock_summary` and `inventory`,
written by two functions that the code really has: `WriteAt`
(`adjust_stock_at_location_with_reason`, the aggregate is the sum of the rows) and
`WriteTotal` (`adjust_stock_in_tx`, the default row becomes the aggregate). `Sell`,
`SellResolved`, `Refund` and `Adjust` are what happens at home; `Apply`, `Fail` and
`Requeue` the branches of `apply_remote_atomic_full` with the arms of `complete_sale`,
`refund_sale` (where the sale is absent) and `stock.adjusted`; `ReceiveChange` the
settings arm. `Overselling` is the opt-in `allow_negative_stock` of a location. A
checkout takes only what is available (`Sell`); a shortfall the cashier resolved
(`SellResolved`) may take a location below zero where the opt-in is set, and when the
aggregate itself would be negative the code writes the row and leaves `inventory.qty`
as it was, which is what `After`, `FitsSale` and `Sold` say. Terminals without the
opt-in are `Firm`. A sale the aggregate cannot cover is quarantined at once, the other
two after `Budget` attempts. `Crash` loses adjustments whose event was not handled.
`StockCounter` has three actions - issue, see once, take back at home - and no
receipts, quarantine, locations or queue; it says what a firm terminal's value is and
nothing of an overselling one's.

### SaleLedger, StockRoom, Store

Every action is one `BEGIN IMMEDIATE` transaction, or one command under the store's
mutex; the reaper is two, because it lists the stale sales first (`FindStale`) and
voids them one by one (`Reap`). `taken[s]` is `sales.deduction_locations`, in order,
which is what a void or a refund reads; `back[s]` sums the refund rows of a sale the
way `create_refund` does; `returned` is the stock movements with reason `refund` or
`void_pending`. The award of points at completion and their reversal at a refund may fail
inside a transaction that commits without them, since the code logs the error. A
resolved shortfall stays within what the locations have here; the opt-in to oversell
is in `Replicas`. `Capture` is the customer's payment and independent of what the
store does meanwhile. `Waterfall` is the one fold behind the checkout's route and
the drain of a stock count; a part of no units stands for an entry the code leaves
out. `Record` writes any allocation the locations cover. In `StockRoom` a document
is a record with a status; a count remembers `expected`, what the grid showed,
because the code leaves a line alone that agrees with it and otherwise corrects
against the stock of the moment. `Store` interleaves the two over one stock. One
product and one line per document: lines are treated alike, each in the same
transaction.

### Kitchen

`ReadTicket` is the read and the validation of `update_kds_status`, `WriteTicket` its
compare-and-set; a display may be between the two while a cancellation (`Cancelled`,
part of voiding a sale) or another display moves the ticket.

### PaymentWebhooks

`Charge` issues a code or a card intent for a pending sale; `GatewayMoves` is the
customer paying, paying another amount, or letting it expire. A webhook request is
`Receive` (signature, ledger look-up), `Enqueue` (the `finalize_sale` row), `Respond`
(`mark_status`, 200), with `Fail` at any point; the gateway delivers again until it
sees a 2xx, in any order. `ApplyFinalize` is the daemon's arm of that row with its
receipt; `Confirm`, `FinalizeAtTill`, `CancelAtTill` are the payment dialog, and
`TillRestarts` forgets it. How a row travels is `OfflineSync`'s subject, so here it
waits in `queue[s]` until it is applied.

### VersionVector, ConflictReview

A push is `Push` (the rows stamped with one counter after the other), a request at the
server row by row - `Detect`, `File`, `Save`, `Insert` - and `Return`, where the
terminal marks the rows and persists its counter; `GiveUp` is the terminal's time-out
while the request goes on, `DetectionFails` the error that is logged and swallowed,
`ServerCrash` the end of a request. Requests overlap at the server, step by step. With
`Sqlite`, the arm of the SQLite store, a read of the stored vector that fails is taken
for an entity never seen (`Read`), and the merge starts from the empty vector.
`policy[e]` ranges over the four answers of `policy_for`, chosen at the start. Bodies
beside the vectors are left out.

### DaemonLifecycle

`PgSyncDaemon` and `SyncDaemon` share the code. A member of `Callers` is one of those
that call it, serialised by nothing: the task spawned at startup, the administrator's
commands. `StartCheck`, `StartInstall`, `StartMark`, `StartSpawn`, `StartStore` are
the steps of `start_inner` between its awaits; `StopSignal`, `StopTake`, `StopJoined`,
`StopTimeout` those of `stop`; `Exit`, `ClearCheck`, `ClearWrite` the orderly end of a
loop; `Panic`, `DropGuard`, `ThreadClear` the other one. `reading` stands for a
`status()` reader that holds the lock, which is what makes `try_write` fail. A run's
channel is its identity; it never closes, because the guard keeps a clone of the
sender.

## 3. Properties and runs

Every passing run explores its whole state space; each of its properties is
falsified by a mutant of a mapped definition that stands for a plausible bug. What the
repository says of itself and the code does not keep is in section 4.

| Run | Question | Instance | States |
|---|---|---|---|
| `replay` | is nothing forgotten and nothing applied twice (`SyncedOnServer`, `AtMostOnce`), and does the protocol refine delivery (`ImplementsDelivery`) | two rows of one sale, one unstamped; two daemons and a manual command; anonymous token, lost replies, one crash | 59 k |
| `retention` | does an anchor pass over unsettled rows when one terminal produces them (`AnchorCovers`), does a row in reach stay there until it settles (`NothingPassed`) | a tablet and a desktop, three rows, one that cannot be applied at first, one deletable; clock to 4, page 2, requeues | 1.7 M |
| `fair` | is every row acknowledged in the end (`Drains`), does what is in reach stay (`NothingPassed`) and settle (`Arrives`); types | two rows, stored also in the order opposite to their stamps, the newer one refused or faulty; page 1; two fair daemons, requeues, one crash | 47 k |
| `till` | does stock, money and loyalty add up (`StockConserved`, `ReturnsMatch`, `LoyaltyAgrees`, `RefundsBounded`), is a sale settled once (`SettledOnce`); types | two sales of a member over two locations, up to two units each, reaper, partial refunds, awards and reversals that fail | 253 k |
| `room` | `StockConserved` with everything else that moves stock; `CountHolds` | one sale, transfer, count and order over two locations | 685 k |
| `settle` | is what is completed paid (`CompletedIsPaid`), what is on the ledger queued (`SettledQueued`), does a paid code reach the till (`PaidReachesTill`), does an incident stay (`IncidentKept`), do tickets only move forward (`TicketsOnlyAdvance`); types | one sale, two codes, one card, one request at a time, one zone, one display | 56 k |
| `review` | is divergence noticed and no row lost to noticing it (`DivergenceFiled`, `AckedStored`), do clocks stay ahead (`ClockAhead`); types | two tills, three rows of one entity, two requests at once on the SQLite store, every policy, one unpersisted clock | 4.0 M |
| `replicas` | does a firm terminal's stock follow from the effects it has (`Accounted`), and is it the counter of `StockCounter` (`ImplementsCounter`); types | three terminals, one of which may oversell; two sales, a refund, an adjustment, a settings change; stock that does not suffice | 471 k |
| `restart` | does the flag come down (`FlagReleased`), does a signalled loop end (`StopEnds`) | startup and an administrator calling at once, two runs | 356 k |
| `tablet_outage` | `Drains` fails | one tablet, one row | |
| `locations` | `AggregateAgrees` fails | two terminals, two locations | |
| `settings` | `LatestHeld` fails | one key saved twice | |

Why the bounds suffice. One producer and one puller exhibit every race between a
terminal and the cloud that the passing properties are about, late rows included; the
third terminal of `replicas` is there so that two others receive the same effects in
different orders. Two rows give order, pages with a cursor (page size 1) and two rows
of one sale; three rows give a page in the middle, which is what retention cuts, and
in `review` two rows of one till around one of the other, looked at by two requests in
every interleaving (requests are alike, so they are a symmetry set; the run has no
liveness). In `fair` the priorities let the older row be pushed last, after another
terminal's anchor may have passed its stamp. Two callers and two runs in `restart` are
the least in which a start overlaps another call and an old guard meets a newer run. A
budget of 2 separates the first failure, the last one and quarantine. One crash can
hit any step; a second one finds nothing a first one leaves behind, since volatile
state is emptied. The clock needs one tick per row and one for the retention window.
In the store, two units on a line over two locations with one unit each make a sale
that spans both, partial refunds, a shortfall and its resolution; `PointCost` 2 with
`Price` 1 makes every share of points a rounding case; two sales let one wait in the
reaper's list while the other is voided, and share one loyalty account. In `settle`
two codes are a code and its re-issue; there is one database, because only there can a
webhook's row complete a sale, which is the harder case of `CompletedIsPaid` (the
theorem covers both layouts, and whether a row reaches the till does not depend on the
layout); and the queue holds the two rows a duplicated notification leaves. `MaxTime`,
`MaxCrashes`, `MaxQty`, `MaxLine`, `MaxOrder`, `MaxReceipts`, `MaxRows`, `MaxClock`,
`MaxLosses`, `Budget` and `MaxAttempts` (the last two are constants of the code) are
the caps on counters; `Runs` caps the number of starts. Deadlock is not checked where
the instance stops once every sale, document and row is settled and the clocks are at
their bounds; `restart` does check it.

**Fairness.** Only loops are fair. *OfflineSync*: the daemon repeats for ever (timer
60-120 s, nudges, back-off capped at 60 s) and so does the tablet's. Local steps are
weakly fair. Round trips are strongly fair: a network that is up infinitely often lets
a request that keeps being tried succeed, which is the weakest assumption under which
a retry loop can be said to work. Manual commands, checkouts, the operator, retention
and the clock are not fair. `Arrives` also assumes that the operator stops requeueing
eventually, because each requeue rewinds the anchor. It speaks of rows in reach: one
that retention deleted before a terminal pulled it never settles there, by design of
the snapshot, nor does one that was stored behind the anchor (section 4). Both
liveness properties are of the form []<>, which says the same as ~> because what they
ask for lasts. *Store* (for `Store_reaper.cfg`): the reaper's worker wakes every 60 s,
so `FindStale` and each `Reap` are weakly fair; cashiers and customers are not.
*PaymentWebhooks*: a gateway redelivers a settlement until it gets a 2xx and not every
request fails at the same point, so delivery and `Enqueue` are strongly fair;
answering and the daemon are weakly fair; the till is not, since `PaidReachesTill` is
about tills that restart. *DaemonLifecycle*: cycles end (every request has a timeout),
readers let go, the lock queues its writers (`ClearWrite`) and `select!` picks among
its ready arms at random, which is strong fairness of `Exit`. Nothing is asked of the
callers: a start or a stop may be abandoned half way.

## 4. Where code and documents disagree

Three are runs with a finding in `PROJECT.json` that quotes the text.

* `tablet_outage`: the tablet marks a whole batch failed on a transport error, and
  failed rows have no way back.
* `locations`: a replicated sale stamps the default location with the aggregate of all
  locations, so the rows no longer sum to it.
* `settings`: the effect key of a settings row is the key, so every change after the
  first is dropped by terminals that received the first.

The others are properties of the modules with a configuration of their own, which TLC
finds violated within a minute or so
(`tlc -config OfflineSync_race.cfg MCOfflineSync`). None of them is a property of a
passing run, and no theorem assumes one.

| Property | Configuration | What happens |
|---|---|---|
| `FailedNotOnServer` | `OfflineSync_race` | `mark_offline_failed` (`db/offline.rs:454`) has no status guard: daemon and command race, and a stored row is stranded as failed, what `sync_client.rs:123` wants to avoid |
| `ExpiryDetected` | `OfflineSync_stale_cursor` | `sync_api.rs:414` skips the 410 check for cursors, taking them for the next page of a checked pull; cursors are durable and outlive retention |
| `Converges` | `OfflineSync_late_row` | the anchor is the producer's stamp (`daemon_tick.rs:958`): a row pushed late lands behind it, against `platform/sync/tests/convergence_replay.rs:7` |
| `OneLoop` | `DaemonLifecycle_overlap` | `start` looks at the flag two steps before it raises it: startup and administrator both spawn a loop, where `pg_daemon.rs:151` promises false |
| `NewRunSpared` | `DaemonLifecycle_superseded` | the guard looks at the slot, lets go of it and writes the flag later; a newer run that started in between is shown as stopped, which `still_owns_slot` is there to prevent |
| `FlagCleared` | `DaemonLifecycle_panic_reader` | a panic while readers hold the lock: the thread that should clear the flag gives up as well (`daemon.rs:207`) |
| `StopHonest` | `DaemonLifecycle_stop_reply` | after a stop that timed out, the next one finds nothing to wait for and reports success (`pg_daemon.rs:730`) |
| `CaptureCompletes` | `Store_finalizers` | of finalize and void the second is told Ok, not `SaleAlreadyFinalized` as row 20-6 of `docs/decisions/2026-07-19-payment-capture-ordering.md` has it: `finalize_sale` returns Ok when it changed nothing, so a capture after a void is dropped silently |
| `StaleVoided` | `Store_reaper` | scoped commands write sales to `store-<id>.sqlite` (`ctx.rs:389`, `apps/mobile-tauri/src/state.rs:372`), the reaper works on the global database and never sees them (row 20-5 of the same document) |
| `PaidSettles` | `PaymentWebhooks_store_database` | the same layout: the daemon applies `finalize_sale` to the global database, and a sale whose till was restarted stays pending, against `queue.rs:498` |
| `CardCompletedIsPaid` | `PaymentWebhooks_card_declined` | a card's `payments` row is synced before its capture, and the daemon finalizes the sale on any queued notification although `queue.rs:498` takes it for captured |
| `RefundsReturnToSource` | `Store_refund_source` | two partial refunds of a line taken from two locations: each starts again at the first entry, which gets both units (`refunds/credit.rs:3`) |
| `ReceivedOnce` | `Store_received_twice` | `update_po_status` puts a received order back to approved and it is received again, the double credit `purchase_orders_tests.rs:1237` guards against on the direct path |
| `VectorGrows` | `ConflictReview_vector_race` | load, merge and save of a vector are separate statements; of two requests the second writer loses the first one's counter, the race that `migrations/20261003_sync_entity_vectors.sql:16` excludes |
| | `ConflictReview_vector_misread` | one request suffices on SQLite: a failed read is taken for an unseen entity (`conflicts.rs:366`) and the stored vector is overwritten |
| `SummaryAccurate` | `Replicas_oversold` | an oversold location leaves `inventory.qty` at its last value (`db/products_stock_adjust/adjust.rs:314`), and the next remote sale computes with it and stamps it over the row |

Read in the code and not stated as a property: `void_pending_sale` queues no row, so
other terminals keep the deduction of a voided sale (`Accounted` takes it off its home
only); a sale delivered before the restock that covers it is quarantined at its first
attempt; redeeming a gift card again after the redemption that emptied it is refused
by the balance check (`gift_cards.rs:373`) before the look-up that would recognise the
retry promised at line 330.

## 5. Proofs

All theorems hold for every value of the constants that satisfies the assumptions
named in the modules: their types; that terminals, rows, sales and documents are
finitely many where something is summed over them; in `OfflineSync` also that rows
naming one effect come from one terminal and only sales have more than one. TLC
evaluates the assumptions in every run. A theorem with a condition of its own states
it as ASSUME.

| Module | Theorem | States |
|---|---|---|
| `OfflineSyncProofs` | `TypeCorrect` | `Spec => []TypeOK` |
| | `NothingForgotten` | `Spec => []SyncedOnServer` |
| | `NothingTwice` | `Spec => []AtMostOnce` |
| | `Refinement` | `Spec => ImplementsDelivery` |
| | `Invariance` | `Spec => []IInv`, the invariant behind them |
| | `AnchorPassesNothing` | `Spec => NothingPassed` |
| `ReplicasProofs` | `ReplicasTyped` | `Spec => []TypeOK` |
| | `StockAccounted` | `Spec => []Accounted` with one location, for terminals that do not oversell |
| | `ReplicasAreCounters` | `Spec => ImplementsCounter` with one location |
| `DaemonLifecycleProofs` | `FlagComesDown` | `Spec => []FlagReleased`, however calls overlap |
| `StoreProofs` | `StoreInvariance` | `StoreSpec => []StoreInv` |
| | `RefundsNeverExceed` | `StoreSpec => []RefundsBounded` |
| | `SettledForGood` | `StoreSpec => SettledOnce` |
| | `BooksInvariance` | `StoreSpec => []Books` |
| | `StoreTyped` | `StoreSpec => []StoreTypeOK` |
| | `StockIsConserved` | `StoreSpec => []StockConserved` |
| | `ReturnsAreRight` | `StoreSpec => []ReturnsMatch` |
| | `AccountAgrees` | `StoreSpec => []LoyaltyAgrees` |
| | `CountsHold` | `StoreSpec => CountHolds` |
| `PaymentWebhooksProofs` | `PaymentInvariance` | `PaymentSpec => []PaymentInv` |
| | `PaymentTypes` | `PaymentSpec => []PaymentTypeOK` |
| | `SettlementsReachTheTill` | `PaymentSpec => []SettledQueued` |
| | `PaidBeforeCompleted` | `PaymentSpec => []CompletedIsPaid` |
| | `IncidentsStay` | `PaymentSpec => IncidentKept` |
| | `BoardAdvances` | `PaymentSpec => TicketsOnlyAdvance` |
| `ConflictReviewProofs` | `Invariance`, `TypeCorrect` | the inductive invariant, and `ReviewTypeOK` |
| | `NothingDropped` | `Spec => []AckedStored` |
| | `ClockNeverReused` | `Spec => []ClockAhead` |
| | `DivergenceIsFiled` | `Spec => []DivergenceFiled` |
| | `JoinIsLeastUpperBound`, `JoinCommutes`, `CompareMirrors` | the algebra of version vectors |

**The inductive invariant of OfflineSync.** None of the properties is inductive.
`TypeOK` needs `Bounded`: a row that is not quarantined has budget left, so counting
one more failure stays in range. `SyncedOnServer` needs `Acknowledged`: between reply
and marking, every row of the batch that was not refused is in the cloud (or was, and
was pruned). `AtMostOnce` needs a reason per terminal. At home (`CarriedAtHome`), the
effect counts one as soon as a row naming it was queued, because `Checkout` is its
first row, and the origin gate or the sale guard keeps every delivery from adding to
it. Elsewhere (`CarriedElsewhere`), an effect that was applied has left its effect
key, or for an effect with a single row its receipt, and both are only ever added to.
`Known` ties the two: whatever is in a batch, in the cloud, on a page or announced
stems from a queued row, so no delivery precedes its effect. `NeverNamed` covers
effects without rows. `OfflineSyncProofs` has one lemma per group of actions, one
step per action, and frame lemmas for the conjuncts an action leaves alone.

**The refinement.** The mapped state is `done` restricted to protected effects. Only
`Checkout` and `ApplyRow` change `done`; by the invariant the first is an occurrence
at the origin and the second, when it changes a protected effect, a delivery to a
terminal that did not carry it. Everything else is a stutter.

**The pull anchor.** That an anchor never lies beyond an unsettled row needs rows that
arrive in order, which several pushers do not give. What holds for any order is about
steps: `NothingPassed`. A row is in reach of a terminal (`InReach`) if the next pull
would be sent it and neither a page nor a snapshot that is being worked on would take
the anchor over it. `Anchored` says that every anchor, durable or in a worker's hands,
was taken at a row the cloud has held, so that rows queued later cannot change what
lies beyond it (`ReachIsBeyond` puts the property in terms of that order). A pull's
page is a prefix of the rows beyond its anchor, and with finitely many rows before its
last one, a row in reach that the new anchor would pass is on the page; it leaves the
page settled or makes the page retain the anchor, and the re-check against the
captured anchor keeps a rewind from being overwritten (`ReachByPull`). A requeue moves
the anchor back only (`ReachByRequeue`), and all other steps leave every anchor alone
(`ReachByOthers`).

**The replicas.** `ReplicaInv` is the types with where rows can be: what is queued,
announced or applied has happened, a sale has taken stock, a row that may still be
sent has an attempt left. `SingleInv` adds `Accounted` and that the default location
holds the aggregate; there both writers move the same number, and each step is one of
the counter's or none. With two locations `WriteTotal` overwrites what `WriteAt` wrote
(run `locations`), which is why the hypothesis is there, and a terminal that oversells
keeps an aggregate that no longer follows (`Replicas_oversold.cfg`), which is why
`Accounted` speaks of firm terminals; the others may oversell.

**Sums.** Stock over locations, units over the entries of an allocation and points
over sales are `SumFunctionOnSet` of the library, whose definition is a recursive
function inside a CHOOSE. `Sums` derives from it, for a finite set, the facts the
other modules cite: a change of one summand, disjoint sets, a sum by places, bounds.
No induction theorem with an operator parameter is needed: each induction looks at a
minimal counterexample among the subsets of the finite set (`MinimalSet`), which the
library's well-foundedness of the strict subset ordering provides.

**The books of one store.** `Books` is the conjunction of `StoreInv` (below),
`SaleBooks` (what is on record as taken adds up to what was sold), `RoomBooks` (a transfer received no more than it carries, a count corrects
nothing before it completes) and the three properties themselves. Every step of sales
and stock room leaves `Held`, the difference between the two sides of `StockConserved`,
as it was; that the waterfall of a checkout finds all units or rolls back, and that the
one of a count finds the whole correction, are lemmas about `Waterfall` for any number
of locations.

**Sales and kitchen.** `SaleInv` says that nothing is refunded before completion, that
a sale on the books has units, and that units, money and points given back stay within
what was sold, paid and earned; `KitchenInv` that a display's intent is a legal move
of the ticket it read, which the compare-and-set turns into a legal move of the ticket.
`SaleLedgerProofs` proves both for the steps of `SaleLedger`, without a bound on the
number of sales, refunds or displays; `StoreProofs` shows that the steps of the stock
room leave them alone, `PaymentWebhooksProofs` that they survive the gateway.

**Payments.** None of the properties is inductive alone. `PaymentInv` adds to the above
`GatewayInv` (what was charged is what the ledger knows, and a paid code has a sale
whose customer has paid), `HookInv` (a request in progress was delivered by a gateway
in that state, and one marked as queued has its row or its receipt) and `QueuePaid` (a
waiting row belongs to a paid sale, unless a card is charged for it). The heart is the
order of `Enqueue` and `Respond`: a settlement reaches the ledger only from a request
that has queued.

**Conflicts.** `IInv` is the types with `AnswerStored` (rows a request has passed are
in the queue) and `AckedStored`. Two more invariants build on it: `ClockInv`, every
counter in a batch, a request's memory or a stored vector is at most the `Latest` of
its terminal as long as no clock was lost; and `FiledInv`, a request about to save a
merged vector under the never-merge policy has filed its pair. Both hold for any number
of overlapping requests and for reads that fail.

**The lifecycle.** Starts and stops overlap freely, so neither the flag nor the slot
alone says anything. A guard that leaves the flag up found another run in the slot;
`SlotInv` says that this run is being started, alive or panicked (`SlotLive`), because
a run ends only after a stop took its sender (`EndedBySignal`) and no sender returns to
the slot (`SignalledOnce`). The starts between check and spawn are about fresh runs of
their own (`StartsFresh`).

**The conditions.** Only the one-location theorems of `Replicas` have one; run
`replicas` meets it and run `locations` shows what happens outside. What holds only
with one worker per outbox, one pusher, a short backlog, one request or one caller is
not claimed.

**Only model-checked.** `Drains`, `Arrives`, `StopEnds` and `PaidReachesTill` are
liveness under fairness, out of the prover's reach. `AnchorCovers` is checked for one
producer (`retention`); the theorem is `NothingPassed`. Every other property of a
passing run is a theorem. Each inductive invariant was checked by TLC on an instance
before it was proved.

## 6. Plan

Done: replication with its refinement, the books of one store, payments, conflict
detection, the effects on replicas with their refinement, the daemon lifecycle, and
their safety properties as theorems.
What would add most next, in this order:

1. An abstract ledger of one store, units passing between holders, as a specification
   that `Store` implements: `StockConserved` and `ReturnsMatch` would follow from it.
2. The PostgreSQL daemon's several pages in one cycle as further pullers of
   `OfflineSync`, which needs a page counter in the worker.
3. Shifts and cash over `SaleLedger`: which sale is counted in which shift when it is
   pending at the close.

## 7. Not modelled, and why

* *Gift cards, shifts and cash, customer register, promotions*: commands of one
  terminal under one mutex whose state is a guarded counter or a report over stamps.
* *Sync engine library path, conflict resolver, delta envelopes, `stock.movement`*:
  no shipped shell produces or calls them.
* *PostgreSQL outbox drainer, outbound webhooks*: nothing writes the drainer's table;
  outbound notifications are best effort and no state depends on them.
* *Catalogue rows* (products, taxes, users): a row overwrites a record; which of two
  concurrent ones wins is what `ConflictReview` files.
* *Sessions, permissions, licensing, provisioning, audit, LAN and local API, desktop
  and mobile commands*: request routing, permission checks and entitlement decisions
  onto the same stores. They make up most of the code by size; what they do to shared
  state is the store functions that are modelled. Licensing appears as the 403 answer.
* *Presentation, hardware, images, logging, reporting, plugins*: no protocol state.
* *Money, tax and currency arithmetic*: property-tested in the repository; the one
  rounding that several calls must agree on, loyalty points, is in `SaleLedger`.

`PROJECT.json` lists every component with its reason.

## 8. Running

    tlc -workers 2 -config OfflineSync_replay.cfg MCOfflineSync
    tlc -workers 2 -config Store_till.cfg MCStore
    tlc -workers 2 -config PaymentWebhooks_settle.cfg MCPaymentWebhooks
    tlapm OfflineSyncProofs.tla

A configuration `<Module>_<run>.cfg` belongs to module `MC<Module>` and run `<run>`;
the longest, `review`, `fair` and `retention`, take about two and a half minutes each.
Configurations whose name is not a run are those of section 4. Each `*Proofs` module
and `Sums` is checked by itself.
