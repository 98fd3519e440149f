------------------------------ MODULE StockRoom ------------------------------
(***************************************************************************)
(* The back office of one store: transfers between locations, stock counts  *)
(* and purchase orders, each one line of the one product.  Every command    *)
(* runs under the mutex of the store database, so each is one action.       *)
(***************************************************************************)
EXTENDS StockLedger

CONSTANTS
    Transfers, Counts, Orders,   \* ids
    MaxLine,                     \* bound: units on a line, units counted
    MaxOrder,                    \* bound: units on a purchase order
    MaxReceipts,                 \* bound: times an order is received
    Uncounted                    \* counted_qty NULL

ASSUME RoomConstants ==
    /\ IsFiniteSet(Transfers) /\ IsFiniteSet(Counts) /\ IsFiniteSet(Orders)
    /\ MaxLine \in Nat /\ MaxOrder \in Nat /\ MaxReceipts \in Nat

VARIABLES
    transfer,   \* [status, src, dst, qty (0: no line), received]
    count,      \* [status, expected, counted, net (adjusted - previous)]
    order       \* [status, qty, receipts, credited (received into stock)]

roomVars == <<transfer, count, order>>

OrderStatus == {"draft", "pending", "approved", "received", "cancelled"}

RoomTypeOK ==
    /\ transfer \in [Transfers -> [
          status : {"none", "draft", "in_transit", "received_partial", "received",
                    "cancelled"},
          src : Locations, dst : Locations, qty : Nat, received : Nat]]
    /\ count \in [Counts -> [status : {"none", "open", "completed", "cancelled"},
                             expected : Nat, counted : Nat \union {Uncounted}, net : Int]]
    /\ order \in [Orders -> [status : OrderStatus \union {"none"},
                             qty : Nat, receipts : Nat, credited : Nat]]

RoomInit ==
    /\ transfer = [t \in Transfers |-> [status |-> "none", src |-> DefaultLocation,
                                        dst |-> DefaultLocation, qty |-> 0, received |-> 0]]
    /\ count = [c \in Counts |-> [status |-> "none", expected |-> 0,
                                  counted |-> Uncounted, net |-> 0]]
    /\ order = [p \in Orders |-> [status |-> "none", qty |-> 0, receipts |-> 0,
                                  credited |-> 0]]

Parcel(l, q) == <<[loc |-> l, qty |-> q]>>

-----------------------------------------------------------------------------
(* Transfers *)

\* create_transfer, with or without its line.
CreateTransfer(t, src, dst, q) ==
    /\ transfer[t].status = "none"
    /\ transfer' = [transfer EXCEPT ![t] = [status |-> "draft", src |-> src, dst |-> dst,
                                            qty |-> q, received |-> 0]]
    /\ UNCHANGED <<stock, count, order>>

\* add_transfer_line and remove_transfer_line: drafts only.
EditTransfer(t, q) ==
    /\ transfer[t].status = "draft"
    /\ transfer[t].qty = 0 \/ q = 0
    /\ transfer' = [transfer EXCEPT ![t].qty = q]
    /\ UNCHANGED <<stock, count, order>>

SendTransfer(t) ==
    LET parcel == Parcel(transfer[t].src, transfer[t].qty) IN
    /\ transfer[t].status = "draft"
    /\ transfer[t].qty > 0
    /\ Covers(parcel)
    /\ stock' = Debit(parcel)
    /\ transfer' = [transfer EXCEPT ![t].status = "in_transit"]
    /\ UNCHANGED <<count, order>>

\* MUTANT: credits the cumulative quantity.
ReceiveTransferAgain(t, n) ==
    LET tr == transfer[t] IN
    /\ tr.status \in {"in_transit", "received_partial"}
    /\ n \in tr.received .. tr.qty
    /\ stock' = Credit(Parcel(tr.dst, n))
    /\ transfer' = [transfer EXCEPT ![t].received = n,
           ![t].status = IF n = tr.qty THEN "received" ELSE "received_partial"]
    /\ UNCHANGED <<count, order>>

\* receive_transfer: n is the quantity received so far, as the caller counts it;
\* only what is new is credited.
ReceiveTransfer(t, n) ==
    LET tr == transfer[t] IN
    /\ tr.status \in {"in_transit", "received_partial"}
    /\ n \in tr.received .. tr.qty
    /\ stock' = Credit(Parcel(tr.dst, n - tr.received))
    /\ transfer' = [transfer EXCEPT
           ![t].received = n,
           ![t].status = IF n = tr.qty THEN "received"
                         ELSE IF n > 0 THEN "received_partial" ELSE "in_transit"]
    /\ UNCHANGED <<count, order>>

\* cancel_transfer: what was sent and not received goes back to the source.
CancelTransfer(t) ==
    LET tr == transfer[t] IN
    /\ tr.status \in {"draft", "in_transit"}
    /\ stock' = IF tr.status = "in_transit" THEN Credit(Parcel(tr.src, tr.qty)) ELSE stock
    /\ transfer' = [transfer EXCEPT ![t].status = "cancelled"]
    /\ UNCHANGED <<count, order>>

-----------------------------------------------------------------------------
(* Stock counts *)

\* create_stock_count and add_count_line: expected is what the grid showed.
OpenCount(c) ==
    /\ count[c].status = "none"
    /\ count' = [count EXCEPT ![c].status = "open", ![c].expected = OnHand(stock)]
    /\ UNCHANGED <<stock, transfer, order>>

\* update_count_line
EnterCount(c, n) ==
    /\ count[c].status = "open"
    /\ count' = [count EXCEPT ![c].counted = n]
    /\ UNCHANGED <<stock, transfer, order>>

\* update_stock_count to cancelled.
CancelCount(c) ==
    /\ count[c].status = "open"
    /\ count' = [count EXCEPT ![c].status = "cancelled"]
    /\ UNCHANGED <<stock, transfer, order>>

\* Locations by quantity, largest first; equal ones in the order of Route.
Holders ==
    LET rank(l) == CHOOSE i \in 1 .. Len(Route) + 1 : l = Append(Route, DefaultLocation)[i]
        ahead(l) == {m \in Locations : \/ stock[m] > stock[l]
                                       \/ stock[m] = stock[l] /\ rank(m) < rank(l)}
        at(i) == CHOOSE l \in Locations : Cardinality(ahead(l)) = i - 1
    IN  [i \in 1 .. Cardinality(Locations) |-> [loc |-> at(i), qty |-> stock[at(i)]]]

\* MUTANT: the grid's quantity.
CorrectionStale(c) == count[c].counted - count[c].expected

\* Units to add: counted less the stock at this moment, not less expected.
Correction(c) == count[c].counted - OnHand(stock)

\* complete_stock_count: a line that agrees with the grid is left alone;
\* a shrink drains the largest holders, a surplus goes to the first.
CompleteCount(c) ==
    LET delta == Correction(c) IN
    /\ count[c].status = "open"
    /\ IF count[c].counted \in {Uncounted, count[c].expected}
       THEN /\ count' = [count EXCEPT ![c].status = "completed"]
            /\ UNCHANGED stock
       ELSE /\ count' = [count EXCEPT ![c].status = "completed", ![c].net = delta]
            /\ stock' = IF delta < 0 THEN Debit(Waterfall(Holders, -delta))
                        ELSE Credit(Parcel(Holders[1].loc, delta))
    /\ UNCHANGED <<transfer, order>>

-----------------------------------------------------------------------------
(* Purchase orders *)

CreateOrder(p, q) ==
    /\ order[p].status = "none"
    /\ order' = [order EXCEPT ![p].status = "draft", ![p].qty = q]
    /\ UNCHANGED <<stock, transfer, count>>

\* update_po_status: the status the order moves away from is not restricted.
UpdateOrderStatus(p, to) ==
    /\ order[p].status \in OrderStatus \ {to}
    /\ order' = [order EXCEPT ![p].status = to]
    /\ UNCHANGED <<stock, transfer, count>>

\* receive_purchase_order (all units) and receive_purchase_order_with_lines
\* (the good ones).
ReceiveOrder(p, good) ==
    /\ order[p].status = "approved"
    /\ order[p].receipts < MaxReceipts
    /\ good \in 0 .. order[p].qty
    /\ order' = [order EXCEPT ![p].status = "received", ![p].receipts = @ + 1,
                              ![p].credited = @ + good]
    /\ stock' = Credit(Parcel(DefaultLocation, good))
    /\ UNCHANGED <<transfer, count>>

-----------------------------------------------------------------------------
TransferStep(t) ==
    \/ \E src \in Locations, dst \in Locations, q \in 0 .. MaxLine :
          CreateTransfer(t, src, dst, q)
    \/ \E q \in 0 .. MaxLine : EditTransfer(t, q) \/ ReceiveTransfer(t, q)
    \/ SendTransfer(t)
    \/ CancelTransfer(t)

CountStep(c) ==
    \/ OpenCount(c) \/ CancelCount(c) \/ CompleteCount(c)
    \/ \E n \in 0 .. MaxLine : EnterCount(c, n)

OrderStep(p) ==
    \/ \E q \in 1 .. MaxOrder : CreateOrder(p, q)
    \/ \E to \in OrderStatus : UpdateOrderStatus(p, to)
    \/ \E good \in 0 .. MaxOrder : ReceiveOrder(p, good)

RoomNext ==
    \/ \E t \in Transfers : TransferStep(t)
    \/ \E c \in Counts : CountStep(c)
    \/ \E p \in Orders : OrderStep(p)
=============================================================================
