----------------------------- MODULE StockLedger -----------------------------
(***************************************************************************)
(* The stock of one product at the locations of a store: stock_summary.qty, *)
(* the column that sales, refunds, transfers, counts and purchase orders    *)
(* all write through adjust_stock_at_location_with_reason.  An allocation   *)
(* is a sequence of [loc, qty]: the order is the order of the waterfall.    *)
(* Not modelled: allow_negative_stock, the legacy `inventory` aggregate and *)
(* the threshold alerts.                                                   *)
(***************************************************************************)
EXTENDS Integers, FiniteSets, SequencesExt, Functions

CONSTANTS
    Route,            \* locations of the sale route, in route order
    DefaultLocation,  \* CANONICAL_DEFAULT_LOCATION_UUID
    OpeningStock      \* units at each location at the start

Locations == ToSet(Route) \union {DefaultLocation}

ASSUME StockConstants ==
    /\ Route \in Seq(Locations)
    /\ OpeningStock \in [Locations -> Nat]

VARIABLE stock   \* stock[l]: stock_summary.qty at l

Lesser(a, b) == IF a <= b THEN a ELSE b

Quantities(alloc) == [i \in DOMAIN alloc |-> alloc[i].qty]

Units(alloc) == SumFunction(Quantities(alloc))

UnitsAt(alloc, l) ==
    SumFunctionOnSet(Quantities(alloc), {i \in DOMAIN alloc : alloc[i].loc = l})

OnHand(st) == SumFunction(st)

\* The waterfall: each entry gives what it has, until q units are found.  A part
\* of no units is an entry the code leaves out.
Waterfall(entries, q) ==
    LET before(i) == SumFunctionOnSet(Quantities(entries), 1 .. i - 1)
        part(i) == IF before(i) < q THEN Lesser(entries[i].qty, q - before(i)) ELSE 0
    IN  [i \in DOMAIN entries |-> [loc |-> entries[i].loc, qty |-> part(i)]]

Credit(alloc) == [l \in Locations |-> stock[l] + UnitsAt(alloc, l)]

\* MUTANT: stock may go below zero.
CoversAnything(alloc) == TRUE

\* A deduction below zero refuses the whole transaction.
Covers(alloc) == \A l \in Locations : UnitsAt(alloc, l) <= stock[l]

Debit(alloc) == [l \in Locations |-> stock[l] - UnitsAt(alloc, l)]
=============================================================================
