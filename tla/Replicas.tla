------------------------------ MODULE Replicas ------------------------------
(***************************************************************************)
(* What the rows of one terminal do to the stock and the settings of the    *)
(* others.  The channel is the one OfflineSync shows, seen from above: a    *)
(* pushed row reaches another terminal any number of times, at any time, in *)
(* any order (lost replies, late pushes, requeues), and never its own.  One *)
(* product, whose stock_summary rows exist, and one settings key.  Nothing  *)
(* enqueues stock.movement, so no summary is rebuilt; payments and voids of *)
(* active sales have no effect where the sale is absent.  Every action is   *)
(* one transaction.                                                        *)
(***************************************************************************)
EXTENDS Integers, FiniteSets, Functions

CONSTANTS
    Terminals,
    Locations, DefaultLocation,   \* CANONICAL_DEFAULT_LOCATION_UUID
    OpeningStock,                 \* units at each location of every terminal
    Overselling,                  \* Overselling[t]: locations t's binding lets go
                                  \* below zero (allow_negative_stock)
    Sales, Refunds, Adjustments,  \* effects on stock
    Changes,                      \* saves of the settings key
    Home,                         \* Home[e]: the terminal that originates e
    SaleOf,                       \* SaleOf[r]: the sale refund r is of
    MaxQty,                       \* bound: units of a sale, refund or adjustment
    Budget,                       \* attempts of a transient failure (3)
    Unset                         \* the value of the key before any change

Effects == Sales \union Refunds \union Adjustments
Rows == Effects \union Changes

ASSUME ReplicaConstants ==
    /\ DefaultLocation \in Locations
    /\ OpeningStock \in [Locations -> Nat]
    /\ Overselling \in [Terminals -> SUBSET Locations]
    /\ IsFiniteSet(Locations) /\ IsFiniteSet(Effects)
    /\ Sales \intersect (Refunds \union Adjustments) = {}
    /\ Effects \intersect Changes = {}
    /\ Home \in [Rows -> Terminals]
    /\ SaleOf \in [Refunds -> Sales]
    /\ \A r \in Refunds : Home[r] = Home[SaleOf[r]]
    /\ MaxQty \in Nat \ {0} /\ Budget \in Nat \ {0}
    /\ Unset \notin Changes

VARIABLES
    stock,      \* stock[t][l]: stock_summary.qty
    total,      \* total[t]: inventory.qty, the aggregate over locations
    status,     \* sales.status at home
    place,      \* location the sale was deducted at
    delta,      \* units the effect adds, 0 before it happens
    announced,  \* adjustments committed whose StockAdjusted is not handled yet
    outbox,     \* rows pending in the offline_queue of their home
    cloud,      \* rows pushed
    applied,    \* applied[t]: effects t has performed or has a receipt for
    attempts,   \* attempts[t][e]: sync_remote_failures.attempts
    dead,       \* dead[t]: rows t has quarantined
    setting,    \* setting[t]: the value of the key at t
    keyed,      \* keyed[t]: t has a receipt with effect key setting:<key>
    handled     \* handled[t]: changes t was sent and is done with

saleVars == <<status, place>>
stockVars == <<stock, total>>
settingVars == <<setting, keyed, handled>>
failureVars == <<attempts, dead>>
vars == <<stockVars, saleVars, delta, announced, outbox, cloud, applied, failureVars,
          settingVars>>

\* The terminals that sell only what they have.
Firm == {t \in Terminals : Overselling[t] = {}}

TypeOK ==
    /\ stock \in [Terminals -> [Locations -> Int]]
    /\ \A t \in Terminals : \A l \in Locations \ Overselling[t] : stock[t][l] >= 0
    /\ total \in [Terminals -> Nat]
    /\ status \in [Sales -> {"none", "pending", "completed", "voided"}]
    /\ place \in [Sales -> Locations]
    /\ delta \in [Effects -> -MaxQty .. MaxQty]
    /\ announced \subseteq Adjustments
    /\ outbox \subseteq Rows
    /\ cloud \subseteq Rows
    /\ applied \in [Terminals -> SUBSET Effects]
    /\ attempts \in [Terminals -> [Effects -> 0 .. Budget]]
    /\ dead \in [Terminals -> SUBSET Effects]
    /\ setting \in [Terminals -> Changes \union {Unset}]
    /\ keyed \in [Terminals -> BOOLEAN]
    /\ handled \in [Terminals -> SUBSET Changes]

Sum(f) == SumFunction(f)

Init ==
    /\ stock = [t \in Terminals |-> OpeningStock]
    /\ total = [t \in Terminals |-> Sum(OpeningStock)]
    /\ status = [s \in Sales |-> "none"]
    /\ place = [s \in Sales |-> DefaultLocation]
    /\ delta = [e \in Effects |-> 0]
    /\ announced = {}
    /\ outbox = {}
    /\ cloud = {}
    /\ applied = [t \in Terminals |-> {}]
    /\ attempts = [t \in Terminals |-> [e \in Effects |-> 0]]
    /\ dead = [t \in Terminals |-> {}]
    /\ setting = [t \in Terminals |-> Unset]
    /\ keyed = [t \in Terminals |-> FALSE]
    /\ handled = [t \in Terminals |-> {}]

-----------------------------------------------------------------------------
(* The two writers of stock *)

After(t, l, d) == [stock[t] EXCEPT ![l] = @ + d]

\* A call that names no terminal keeps the row and the aggregate above zero.
FitsAt(t, l, d) == stock[t][l] + d >= 0 /\ Sum(After(t, l, d)) >= 0

\* A sale names its terminal, whose binding may allow less.
FitsSale(t, l, d) == l \in Overselling[t] \/ FitsAt(t, l, d)

\* adjust_stock_at_location_with_reason: the aggregate is the sum of the rows.  A
\* negative one is refused by its CHECK, and an overselling call goes on without.
WriteAt(t, l, d) ==
    /\ stock' = [stock EXCEPT ![t] = After(t, l, d)]
    /\ total' = IF Sum(After(t, l, d)) >= 0
                THEN [total EXCEPT ![t] = Sum(After(t, l, d))]
                ELSE total

FitsTotal(t, d) == total[t] + d >= 0

\* adjust_stock_in_tx: the aggregate moves, and the default row becomes it.
WriteTotal(t, d) ==
    /\ total' = [total EXCEPT ![t] = @ + d]
    /\ stock' = [stock EXCEPT ![t][DefaultLocation] = total[t] + d]

-----------------------------------------------------------------------------
(* What happens at home *)

\* The effect e of size d, once, at location l of its home.
Perform(e, l, d) ==
    /\ delta[e] = 0
    /\ WriteAt(Home[e], l, d)
    /\ delta' = [delta EXCEPT ![e] = d]
    /\ applied' = [applied EXCEPT ![Home[e]] = @ \union {e}]
    /\ UNCHANGED <<cloud, failureVars, settingVars>>

\* A sale of q units at l, with its complete_sale row in the same transaction.
Sold(s, l, q, outcome) ==
    /\ FitsSale(Home[s], l, -q)
    /\ Perform(s, l, -q)
    /\ status' = [status EXCEPT ![s] = outcome]
    /\ place' = [place EXCEPT ![s] = l]
    /\ outbox' = outbox \union {s}
    /\ UNCHANGED announced

\* Checkout allocates only what the location holds.
Sell(s, l, q) == q <= stock[Home[s]][l] /\ Sold(s, l, q, "pending")

\* complete_sale_with_resolved_shortfalls takes the cashier's allocation instead,
\* and the sale is complete at once.
SellResolved(s, l, q) == Sold(s, l, q, "completed")

Finalize(s) ==
    /\ status[s] = "pending"
    /\ status' = [status EXCEPT ![s] = "completed"]
    /\ UNCHANGED <<stockVars, place, delta, announced, outbox, cloud, applied, failureVars,
                   settingVars>>

\* void_pending_sale: the stock comes back at home, and no row says so.
VoidPending(s) ==
    /\ status[s] = "pending"
    /\ FitsAt(Home[s], place[s], -delta[s])
    /\ status' = [status EXCEPT ![s] = "voided"]
    /\ WriteAt(Home[s], place[s], -delta[s])
    /\ UNCHANGED <<place, delta, announced, outbox, cloud, applied, failureVars, settingVars>>

Refunded(s) == SumFunctionOnSet(delta, {r \in Refunds : SaleOf[r] = s})

\* create_refund of q units, with its refund_sale row, which names no location.
Refund(r, q) ==
    /\ status[SaleOf[r]] = "completed"
    /\ Refunded(SaleOf[r]) + q <= -delta[SaleOf[r]]
    /\ FitsAt(Home[r], place[SaleOf[r]], q)
    /\ Perform(r, place[SaleOf[r]], q)
    /\ outbox' = outbox \union {r}
    /\ UNCHANGED <<saleVars, announced>>

\* adjust_stock_scoped commits, then publishes StockAdjusted.
Adjust(a, d) ==
    /\ d # 0
    /\ FitsAt(Home[a], DefaultLocation, d)
    /\ Perform(a, DefaultLocation, d)
    /\ announced' = announced \union {a}
    /\ UNCHANGED <<saleVars, outbox>>

\* InventorySyncEnqueuer queues the row from a connection of its own.
EnqueueAdjusted(a) ==
    /\ a \in announced
    /\ announced' = announced \ {a}
    /\ outbox' = outbox \union {a}
    /\ UNCHANGED <<stockVars, saleVars, delta, cloud, applied, failureVars, settingVars>>

\* The process dies: an event not handled yet is gone.
Crash(t) ==
    /\ \E a \in announced : Home[a] = t
    /\ announced' = {a \in announced : Home[a] # t}
    /\ UNCHANGED <<stockVars, saleVars, delta, outbox, cloud, applied, failureVars, settingVars>>

\* enqueue_settings_update_superseding: queue the change, then drop the rows of
\* earlier changes of the same terminal that are still pending.
ChangeSetting(c) ==
    /\ c \notin outbox \union cloud
    /\ setting[Home[c]] # c
    /\ setting' = [setting EXCEPT ![Home[c]] = c]
    /\ outbox' = {i \in outbox : i \notin Changes \/ Home[i] # Home[c]} \union {c}
    /\ UNCHANGED <<stockVars, saleVars, delta, announced, cloud, applied, failureVars,
                   keyed, handled>>

Push(i) ==
    /\ i \in outbox
    /\ outbox' = outbox \ {i}
    /\ cloud' = cloud \union {i}
    /\ UNCHANGED <<stockVars, saleVars, delta, announced, applied, failureVars, settingVars>>

-----------------------------------------------------------------------------
(* What happens elsewhere: apply_remote_atomic_full *)

\* MUTANT: receipts are not looked at.
ArrivesAgain(t, e) ==
    /\ e \in cloud
    /\ t # Home[e]
    /\ e \notin dead[t]

\* The row of e is sent to t, which has neither quarantined it nor a receipt.
Arrives(t, e) ==
    /\ e \in cloud
    /\ t # Home[e]
    /\ e \notin applied[t] \union dead[t]

\* MUTANT: stock may go below zero.
FitsAlways(t, e) == TRUE

\* The arms of apply_remote_in_tx for the three effects.
Fits(t, e) ==
    IF e \in Sales THEN FitsTotal(t, delta[e]) ELSE FitsAt(t, DefaultLocation, delta[e])

Effect(t, e) ==
    IF e \in Sales THEN WriteTotal(t, delta[e]) ELSE WriteAt(t, DefaultLocation, delta[e])

\* Effect and receipt in one transaction, which also forgets earlier failures.
Apply(t, e) ==
    /\ Arrives(t, e)
    /\ Fits(t, e)
    /\ Effect(t, e)
    /\ applied' = [applied EXCEPT ![t] = @ \union {e}]
    /\ attempts' = [attempts EXCEPT ![t][e] = 0]
    /\ UNCHANGED <<saleVars, delta, announced, outbox, cloud, dead, settingVars>>

\* is_permanent: a sale the aggregate cannot cover is a Validation error and is
\* quarantined at once; an adjustment is InsufficientStockAtLocation.
Permanent(e) == e \in Sales

\* MUTANT: a row that is given up counts as applied.
FailConsumed(t, e) ==
    /\ Arrives(t, e)
    /\ ~Fits(t, e)
    /\ applied' = [applied EXCEPT ![t] = @ \union {e}]
    /\ UNCHANGED <<stockVars, saleVars, delta, announced, outbox, cloud, failureVars,
                   settingVars>>

\* record_remote_failure: the failure is counted in a transaction of its own, and
\* the last one quarantines the row.
Fail(t, e) ==
    /\ Arrives(t, e)
    /\ ~Fits(t, e)
    /\ attempts' = [attempts EXCEPT ![t][e] = @ + 1]
    /\ dead' = IF Permanent(e) \/ attempts[t][e] + 1 >= Budget
               THEN [dead EXCEPT ![t] = @ \union {e}]
               ELSE dead
    /\ UNCHANGED <<stockVars, saleVars, delta, announced, outbox, cloud, applied, settingVars>>

\* requeue_remote_failure deletes the record; the row comes again.
Requeue(t, e) ==
    /\ e \in dead[t]
    /\ dead' = [dead EXCEPT ![t] = @ \ {e}]
    /\ attempts' = [attempts EXCEPT ![t][e] = 0]
    /\ UNCHANGED <<stockVars, saleVars, delta, announced, outbox, cloud, applied, settingVars>>

\* A change whose effect key t has already is taken for a repetition.
ReceiveChange(t, c) ==
    /\ c \in cloud
    /\ t # Home[c]
    /\ c \notin handled[t]
    /\ setting' = IF keyed[t] THEN setting ELSE [setting EXCEPT ![t] = c]
    /\ keyed' = [keyed EXCEPT ![t] = TRUE]
    /\ handled' = [handled EXCEPT ![t] = @ \union {c}]
    /\ UNCHANGED <<stockVars, saleVars, delta, announced, outbox, cloud, applied, failureVars>>

-----------------------------------------------------------------------------
AtHome ==
    \/ \E s \in Sales, l \in Locations, q \in 1 .. MaxQty :
          Sell(s, l, q) \/ SellResolved(s, l, q)
    \/ \E s \in Sales : Finalize(s) \/ VoidPending(s)
    \/ \E r \in Refunds, q \in 1 .. MaxQty : Refund(r, q)
    \/ \E a \in Adjustments, d \in -MaxQty .. MaxQty : Adjust(a, d)
    \/ \E a \in Adjustments : EnqueueAdjusted(a)
    \/ \E t \in Terminals : Crash(t)
    \/ \E c \in Changes : ChangeSetting(c)
    \/ \E i \in Rows : Push(i)

Elsewhere ==
    \E t \in Terminals :
        \/ \E e \in Effects : Apply(t, e) \/ Fail(t, e) \/ Requeue(t, e)
        \/ \E c \in Changes : ReceiveChange(t, c)

Next == AtHome \/ Elsewhere

Spec == Init /\ [][Next]_vars

-----------------------------------------------------------------------------
\* What t should hold: the opening stock, its own effects and those it has
\* receipts for, less the sales voided at home, which the others keep.
Balance(t) ==
    Sum(OpeningStock) + SumFunctionOnSet(delta, applied[t])
      - SumFunctionOnSet(delta, {s \in Sales : Home[s] = t /\ status[s] = "voided"})

\* A terminal that does not oversell holds its balance, whatever order effects
\* came in and however often a row was refused or requeued: so terminals that
\* applied the same effects agree (apply_remote_atomic_full,
\* convergence_replay.rs:7).
Accounted == \A t \in Firm : total[t] = Balance(t)

\* Replicas that do not oversell behave as counters that see an effect at most once.
Counter == INSTANCE StockCounter WITH
    Opening <- Sum(OpeningStock),
    Deltas <- -MaxQty .. MaxQty \ {0},
    value <- total,
    known <- applied,
    size <- delta,
    undone <- {s \in Sales : status[s] = "voided"}

ImplementsCounter == Counter!Spec

\* appliers.rs:97: the aggregate is the sum over the locations, never a stamp.
AggregateAgrees == \A t \in Terminals : total[t] = Sum(stock[t])

\* adjust.rs:329, of a terminal that oversells: "The `stock_summary` table already
\* has the accurate count", the aggregate being the one left behind.
SummaryAccurate == \A t \in Terminals : Sum(stock[t]) = Balance(t)

\* enqueue.rs:153, "never a lost update": with one terminal saving the key, a
\* terminal that was sent the value now in force has it.
LatestHeld ==
    \A t \in Terminals : \A c \in handled[t] : setting[Home[c]] = c => setting[t] = c
=============================================================================
