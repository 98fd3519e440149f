-------------------------------- MODULE Store --------------------------------
(***************************************************************************)
(* The sales, the kitchen and the back office of one store, over the same   *)
(* stock.                                                                  *)
(***************************************************************************)
EXTENDS SaleLedger, StockRoom

storeVars == <<vars, roomVars>>

StoreInit == Init /\ RoomInit

StoreNext ==
    \/ Next /\ UNCHANGED roomVars
    \/ RoomNext /\ UNCHANGED <<kitchenVars, saleVars>>

StoreSpec == StoreInit /\ [][StoreNext]_storeVars

StoreFairSpec ==
    /\ StoreSpec
    /\ WF_storeVars(FindStale /\ UNCHANGED roomVars)
    /\ \A s \in Sales : WF_storeVars(Reap(s) /\ UNCHANGED roomVars)

StoreTypeOK == TypeOK /\ RoomTypeOK

-----------------------------------------------------------------------------
\* Units out of stock because of a sale: taken at checkout, not yet put back.
WithCustomer(s) ==
    IF status[s] \in {"pending", "completed"} THEN sold[s] - back[s].qty ELSE 0

WithCustomers == SumFunction([s \in Sales |-> WithCustomer(s)])

OnTheRoad ==
    SumFunction([t \in Transfers |->
        IF transfer[t].status \in {"in_transit", "received_partial"}
        THEN transfer[t].qty - transfer[t].received ELSE 0])

Supplied == SumFunction([p \in Orders |-> order[p].credited])

Corrected == SumFunction([c \in Counts |-> count[c].net])

\* No unit is lost or minted: what the locations hold, what customers have and
\* what is on the road is the opening stock plus receipts plus corrections,
\* through any interleaving of sales, voids, the reaper, refunds, transfers and
\* counts (sales_checkout.rs, sales_lifecycle.rs, refunds, stock_transfers.rs).
StockConserved ==
    OnHand(stock) + WithCustomers + OnTheRoad = OnHand(OpeningStock) + Supplied + Corrected

\* A sale gives back what it took and no more: a voided sale all of it, where it
\* came from; a completed one the units refunded (void_pending_sale, create_refund).
ReturnsMatch ==
    \A s \in Sales :
        LET total == SumFunction(returned[s]) IN
        CASE status[s] = "voided" -> \A l \in Locations : returned[s][l] = UnitsAt(taken[s], l)
          [] status[s] = "completed" -> total = back[s].qty /\ total <= sold[s]
          [] OTHER -> total = 0

\* A completed count leaves on hand what was counted, however the stock moved
\* between the count and its completion, unless the line agreed with what the
\* grid showed (complete_stock_count).
CountHolds ==
    [][\A c \in Counts :
          /\ count[c].status = "open" /\ count'[c].status = "completed"
          /\ count[c].counted \notin {Uncounted, count[c].expected}
          => OnHand(stock') = count[c].counted]_count

\* The account agrees with its ledger: lifetime points are what completed sales
\* earned less what refunds reversed, so the floor at zero never hides a
\* reversal; only redeemed points can make the balance floor; and a sale earns
\* the points of its total, once and only by completing, or none where the award
\* failed (earn_points_with_conn, reverse_loyalty_on_refund).
LoyaltyAgrees ==
    LET kept == SumFunction([s \in Sales |-> earned[s] - back[s].points])
        spent == SumFunction(redeemed) IN
    /\ lifetime = kept
    /\ points >= kept - spent
    /\ spent = 0 => points = kept
    /\ \A s \in Sales :
          earned[s] \in {0} \union IF s \in Members /\ status[s] = "completed"
                                  THEN {Rounded(Total(s), PointCost)} ELSE {}

\* A sale is settled once: completed and voided are final, whichever of the
\* till, the sync daemon and the reaper comes second (finalize_sale,
\* void_pending_sale).
SettledOnce ==
    [][\A s \in Sales : status[s] \in {"completed", "voided"} => status'[s] = status[s]]_status

\* Cumulative refunds never exceed what was paid or earned, over any number of
\* partial refunds and whatever rounding gives each one (create_refund).
RefundsBounded ==
    \A s \in Sales :
        /\ back[s].money <= Total(s)
        /\ back[s].qty <= sold[s]
        /\ back[s].points <= earned[s]

\* ADR 2026-07-19 row 20-5: a pending sale nobody settles is voided by the reaper
\* and its stock released.  (The code does not keep it where the sales are in a
\* store database.)
StaleVoided == \A s \in Sales : stale[s] /\ status[s] = "pending" ~> status[s] # "pending"

\* ADR-19 and credit.rs:3: a refund puts stock back where it was deducted from.
RefundsReturnToSource ==
    \A s \in Sales, l \in Locations : returned[s][l] <= UnitsAt(taken[s], l)

\* ADR 2026-07-19 row 20-6: of two finalizers of one sale only the first
\* succeeds, so a till that was told Ok has a completed sale.
CaptureCompletes == \A s \in Sales : told[s] => status[s] = "completed"

\* purchase_orders_tests.rs: a received order is not received again.
ReceivedOnce == \A p \in Orders : order[p].credited <= order[p].qty
=============================================================================
