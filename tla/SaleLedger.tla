------------------------------ MODULE SaleLedger ------------------------------
(***************************************************************************)
(* The sales of one store: checkout takes the stock and leaves the sale     *)
(* pending, then payment finalizes it, or the cashier or the reaper voids   *)
(* it and puts the stock back; refunds credit stock and reverse loyalty     *)
(* points.  A sale has one line of one product (the code treats lines       *)
(* alike) at Price minor units a unit.  Refund and ledger rows of a sale    *)
(* are kept as the sums the code reads.  Every action is one IMMEDIATE      *)
(* transaction, except the reaper, which lists first and voids one by one.  *)
(***************************************************************************)
EXTENDS StockLedger, Kitchen

CONSTANTS
    Members,      \* sales with a customer attached (one customer)
    MaxQty,       \* bound: units on a line
    Price,        \* minor units per unit
    PointCost,    \* minor units that earn one point (tier rate)
    SplitStore    \* sales are kept in a store database, the reaper has the global one

ASSUME SaleConstants ==
    /\ IsFiniteSet(Sales) /\ Members \subseteq Sales
    /\ MaxQty \in Nat \ {0} /\ Price \in Nat \ {0} /\ PointCost \in Nat \ {0}
    /\ SplitStore \in BOOLEAN

VARIABLES
    status,    \* sales.status, "none" before checkout
    sold,      \* sale_lines.qty
    taken,     \* sales.deduction_locations
    stale,     \* pending_expires_at has passed
    reaping,   \* the reaper's list of stale sales, not yet voided
    paid,      \* the customer's payment was captured
    told,      \* the till's last finalize_sale returned Ok
    back,      \* back[s]: [qty, money, points] summed over the refunds of s
    returned,  \* returned[s][l]: stock_movements with reason "refund" or "void_pending"
    earned,    \* the 'earn' row of s, 0 without one
    redeemed,  \* the 'redeem' row of s, 0 without one
    points,    \* loyalty_accounts.points
    lifetime   \* loyalty_accounts.lifetime_points

loyaltyVars == <<earned, redeemed, points, lifetime>>
moneyVars == <<paid, told>>
saleVars == <<status, sold, taken, stale, reaping, moneyVars, back, returned, loyaltyVars>>
vars == <<stock, kitchenVars, saleVars>>

Statuses == {"none", "pending", "completed", "voided"}
Total(s) == sold[s] * Price

SaleInit ==
    /\ status = [s \in Sales |-> "none"]
    /\ sold = [s \in Sales |-> 0]
    /\ taken = [s \in Sales |-> <<>>]
    /\ stale = [s \in Sales |-> FALSE]
    /\ reaping = {}
    /\ paid = [s \in Sales |-> FALSE]
    /\ told = [s \in Sales |-> FALSE]
    /\ back = [s \in Sales |-> [qty |-> 0, money |-> 0, points |-> 0]]
    /\ returned = [s \in Sales |-> [l \in Locations |-> 0]]
    /\ earned = [s \in Sales |-> 0]
    /\ redeemed = [s \in Sales |-> 0]
    /\ points = 0
    /\ lifetime = 0

Init == stock = OpeningStock /\ KitchenInit /\ SaleInit

-----------------------------------------------------------------------------
(* Loyalty *)

\* num / den rounded half up: compute_points, reverse_loyalty_on_refund.
Rounded(num, den) == (2 * num + den) \div (2 * den)

\* apply_customer_stats_on_completion: one award per sale, none without a
\* customer or below half a point.  A failing award (before its first row is
\* written) is logged and the sale completes without it.
Award(s, total) ==
    /\ \E p \in {0, IF s \in Members /\ earned[s] = 0 THEN Rounded(total, PointCost) ELSE 0} :
        /\ earned' = [earned EXCEPT ![s] = earned[s] + p]
        /\ points' = points + p
        /\ lifetime' = lifetime + p
    /\ UNCHANGED redeemed

\* MUTANT: no cap.
ReversalUncapped(s, m) == Rounded(earned[s] * m, Total(s))

\* Points a refund of m minor units takes back, never more than what is left.
Reversal(s, m) ==
    Lesser(Rounded(earned[s] * m, Total(s)), earned[s] - back[s].points)

\* redeem_points: on a completed sale of the customer, once.
RedeemPoints(s, p) ==
    /\ s \in Members
    /\ status[s] = "completed"
    /\ redeemed[s] = 0
    /\ p \in 1 .. Lesser(points, Total(s))
    /\ redeemed' = [redeemed EXCEPT ![s] = p]
    /\ points' = points - p
    /\ UNCHANGED <<stock, kitchenVars, status, sold, taken, stale, reaping, moneyVars,
                   back, returned, earned, lifetime>>

-----------------------------------------------------------------------------
(* Checkout *)

\* A sale of q units, taken from the locations as alloc says: every location
\* still has its part when adjust_stock_batch comes to it.
Record(s, q, alloc, st) ==
    /\ status[s] = "none"
    /\ Covers(alloc)
    /\ status' = [status EXCEPT ![s] = st]
    /\ sold' = [sold EXCEPT ![s] = q]
    /\ taken' = [taken EXCEPT ![s] = alloc]
    /\ stock' = Debit(alloc)
    /\ UNCHANGED <<kitchenVars, stale, reaping, told, back, returned>>

\* complete_sale_deduction: the route is filled in order; a shortfall rolls back.
Checkout(s, q) ==
    LET alloc == Waterfall([i \in DOMAIN Route |->
                     [loc |-> Route[i], qty |-> stock[Route[i]]]], q) IN
    /\ Units(alloc) = q
    /\ Record(s, q, alloc, "pending")
    /\ UNCHANGED <<paid, loyaltyVars>>

\* complete_sale_with_resolved_shortfalls: the cashier's split, in any order of
\* locations, settles a payment already taken and completes the sale at once.
CheckoutResolved(s, q, alloc) ==
    /\ Record(s, q, alloc, "completed")
    /\ paid' = [paid EXCEPT ![s] = TRUE]
    /\ Award(s, q * Price)

\* Splits of q units over two locations.
Resolutions(q) ==
    { <<[loc |-> l, qty |-> n], [loc |-> m, qty |-> q - n]>> :
        l \in Locations, m \in Locations, n \in 1 .. q - 1 }

-----------------------------------------------------------------------------
(* Payment, finalize and void *)

\* The customer pays: cash at once, a gateway any time later, whatever the
\* store has done with the sale meanwhile.
Capture(s) ==
    /\ status[s] # "none"
    /\ ~paid[s]
    /\ paid' = [paid EXCEPT ![s] = TRUE]
    /\ UNCHANGED <<stock, kitchenVars, status, sold, taken, stale, reaping, told, back,
                   returned, loyaltyVars>>

\* settleGatewaySale and the direct checkout send the order to the kitchen.
SendToKitchen(s) ==
    /\ paid[s]
    /\ FanOut(s)
    /\ UNCHANGED <<stock, saleVars>>

\* MUTANT: no status predicate.
SettleBlind(s) ==
    status' = [status EXCEPT ![s] = "completed"] /\ Award(s, Total(s))

\* finalize_sale and finalize_sale_in_tx: a compare-and-set that returns Ok
\* whether or not it matched the row.
Settle(s) ==
    IF status[s] = "pending"
    THEN status' = [status EXCEPT ![s] = "completed"] /\ Award(s, Total(s))
    ELSE UNCHANGED <<status, loyaltyVars>>

Finalize(s) ==
    /\ paid[s]
    /\ ~told[s]
    /\ Settle(s)
    /\ told' = [told EXCEPT ![s] = TRUE]
    /\ UNCHANGED <<stock, kitchenVars, sold, taken, stale, reaping, paid, back, returned>>

\* MUTANT: no status predicate.
VoidPendingBlind(s) ==
    /\ status[s] # "none"
    /\ status' = [status EXCEPT ![s] = "voided"]
    /\ stock' = Credit(taken[s])
    /\ returned' = [returned EXCEPT ![s] = [l \in Locations |-> UnitsAt(taken[s], l)]]
    /\ ticket' = Cancelled(s)
    /\ UNCHANGED <<intent, sold, taken, stale, moneyVars, back, loyaltyVars>>

\* void_pending_sale: refused (NotFound) unless pending, puts back all it took.
VoidPending(s) ==
    /\ status[s] = "pending"
    /\ status' = [status EXCEPT ![s] = "voided"]
    /\ stock' = Credit(taken[s])
    /\ returned' = [returned EXCEPT ![s] = [l \in Locations |-> UnitsAt(taken[s], l)]]
    /\ ticket' = Cancelled(s)
    /\ UNCHANGED <<intent, sold, taken, stale, moneyVars, back, loyaltyVars>>

\* The charge or finalize failed, or the cashier cancels (useAutoQr, PaymentModal):
\* the till does not ask whether the customer has paid meanwhile.
CancelCheckout(s) ==
    /\ VoidPending(s)
    /\ UNCHANGED reaping

-----------------------------------------------------------------------------
(* Reaper *)

\* 30 minutes pass.
Expire(s) ==
    /\ status[s] = "pending"
    /\ ~stale[s]
    /\ stale' = [stale EXCEPT ![s] = TRUE]
    /\ UNCHANGED <<stock, kitchenVars, status, sold, taken, reaping, moneyVars, back,
                   returned, loyaltyVars>>

\* find_stale_pending_sales, on the database the worker was given.
FindStale ==
    /\ reaping = {}
    /\ ~SplitStore
    /\ \E s \in Sales : status[s] = "pending" /\ stale[s]
    /\ reaping' = {s \in Sales : status[s] = "pending" /\ stale[s]}
    /\ UNCHANGED <<stock, kitchenVars, status, sold, taken, stale, moneyVars, back,
                   returned, loyaltyVars>>

\* One sale of the list; a failure is logged and the next one is tried.
Reap(s) ==
    /\ s \in reaping
    /\ reaping' = reaping \ {s}
    /\ \/ VoidPending(s)
       \/ /\ status[s] # "pending"
          /\ UNCHANGED <<stock, kitchenVars, status, sold, taken, stale, moneyVars, back,
                         returned, loyaltyVars>>

-----------------------------------------------------------------------------
(* Refunds *)

\* MUTANT: quantity ignored.
RefundCreditWhole(s, q) == taken[s]

\* credit_refund_from_deduction_locations: the whole line goes back entry by
\* entry, less than the line from the last entry on.
RefundCredit(s, q) ==
    IF q >= Units(taken[s]) THEN taken[s] ELSE Waterfall(Reverse(taken[s]), q)

\* MUTANT: each refund looked at on its own.
WithinBoundsEach(s, q, m) ==
    /\ m <= Total(s)
    /\ q <= sold[s]
    /\ m <= (Total(s) * q) \div sold[s] + 1

\* Both bounds are cumulative, and a line is worth its pro-rata share plus one
\* minor unit of rounding.
WithinBounds(s, q, m) ==
    /\ back[s].money + m <= Total(s)
    /\ back[s].qty + q <= sold[s]
    /\ m <= (Total(s) * q) \div sold[s] + 1

\* create_refund of q units for m minor units.  A failing reversal is logged and
\* the refund stands without it.
CreateRefund(s, q, m) ==
    LET credit == RefundCredit(s, q)
        full == back[s].money + m >= Total(s) IN
    /\ status[s] = "completed"
    /\ WithinBounds(s, q, m)
    /\ \E p \in {0, Reversal(s, m)} :
        /\ back' = [back EXCEPT ![s] = [qty |-> @.qty + q, money |-> @.money + m,
                                        points |-> @.points + p]]
        /\ points' = IF points >= p THEN points - p ELSE 0
        /\ lifetime' = IF lifetime >= p THEN lifetime - p ELSE 0
    /\ stock' = Credit(credit)
    /\ returned' = [returned EXCEPT ![s] =
                       [l \in Locations |-> @[l] + UnitsAt(credit, l)]]
    /\ ticket' = IF full THEN Cancelled(s) ELSE ticket
    /\ UNCHANGED <<intent, status, sold, taken, stale, reaping, moneyVars, earned, redeemed>>

-----------------------------------------------------------------------------
SaleStep(s) ==
    \/ \E q \in 1 .. MaxQty : Checkout(s, q) \/ \E a \in Resolutions(q) : CheckoutResolved(s, q, a)
    \/ Capture(s) \/ SendToKitchen(s) \/ Finalize(s) \/ CancelCheckout(s)
    \/ Expire(s) \/ Reap(s)
    \/ \E q \in 1 .. MaxQty, m \in 0 .. MaxQty * Price : CreateRefund(s, q, m)
    \/ \E p \in 1 .. MaxQty * Price : RedeemPoints(s, p)

Next ==
    \/ \E s \in Sales : SaleStep(s)
    \/ FindStale
    \/ KitchenNext /\ UNCHANGED <<stock, saleVars>>

Spec == Init /\ [][Next]_vars

\* The worker wakes every 60 seconds as long as the process runs.
Reaper == FindStale \/ \E s \in Sales : Reap(s)
Fairness == WF_vars(FindStale) /\ \A s \in Sales : WF_vars(Reap(s))
FairSpec == Spec /\ Fairness

-----------------------------------------------------------------------------
SaleTypeOK ==
    /\ status \in [Sales -> Statuses]
    /\ sold \in [Sales -> Nat]
    /\ stale \in [Sales -> BOOLEAN]
    /\ reaping \subseteq Sales
    /\ paid \in [Sales -> BOOLEAN]
    /\ told \in [Sales -> BOOLEAN]
    /\ back \in [Sales -> [qty : Nat, money : Nat, points : Nat]]
    /\ earned \in [Sales -> Nat]
    /\ redeemed \in [Sales -> Nat]
    /\ points \in Nat
    /\ lifetime \in Nat

TypeOK ==
    /\ SaleTypeOK
    /\ KitchenTypeOK
    /\ stock \in [Locations -> Nat]
    /\ returned \in [Sales -> [Locations -> Nat]]
    /\ \A s \in Sales : \A i \in DOMAIN taken[s] :
          taken[s][i] \in [loc : Locations, qty : Nat]
=============================================================================
