---------------------------- MODULE PaymentWebhooks ----------------------------
(***************************************************************************)
(* How a gateway payment reaches the sale it pays for: the till charges and *)
(* shows a code, the gateway notifies the cloud at least once and in any    *)
(* order, the webhook queues a finalize_sale row, the daemon of the         *)
(* terminal applies it, and the till polls the ledger and finalizes too.    *)
(* QRIS settles through the midtrans ledger, cards (Stripe, Square) through *)
(* processed_webhooks and the synced payments row.  The gateway is external.*)
(* Not modelled: tenants, signatures, the subscription events, and how a    *)
(* queued row travels to the terminal (OfflineSync).                       *)
(***************************************************************************)
EXTENDS SaleLedger

CONSTANTS
    Codes,      \* QRIS orders
    Cards,      \* card payment intents
    Hooks,      \* webhook requests the server works on at once
    MaxRows,    \* bound: finalize_sale rows of a sale waiting in the queue
    NoIntent

Payments == Codes \union Cards

ASSUME WebhookConstants ==
    /\ Codes \intersect Cards = {}
    /\ MaxRows \in Nat \ {0}
    /\ NoIntent \notin Payments \union Sales \union {"settling"}

VARIABLES
    gateway,    \* gateway[i]: "none", "open", "paid", "short" (other amount), "closed" (expired, declined)
    payee,      \* payee[i]: the sale i is charged for, or NoIntent
    ledger,     \* midtrans_transactions.status; of a card, "issued" once its payments row is synced
    processed,  \* processed_webhooks: <<intent, event>>
    hook,       \* hook[h]: request in progress, or Idle
    queue,      \* queue[s]: finalize_sale rows waiting
    receipt,    \* receipt[s]: the terminal has the receipt sale:<s>:finalize
    screen      \* screen[s]: intent the till waits for, "settling", or NoIntent

cloudVars == <<ledger, processed, hook, queue>>
webhookVars == <<gateway, payee, cloudVars, receipt, screen>>
paymentVars == <<vars, webhookVars>>

\* The statuses mark_status never overwrites ("capture" is a "settlement" here).
Terminal == {"settlement", "amount_mismatch"}
LedgerStatus == Terminal \union {"none", "issued"}
\* "update" stands for every other notification (pending, expire, cancel, failed ...),
\* "issued" for every status such a notification is recorded as.
Events == {"settlement", "update"}
Requests == [intent : Payments, event : Events, seen : LedgerStatus, queued : BOOLEAN]
Request(i, event, seen, queued) ==
    [intent |-> i, event |-> event, seen |-> seen, queued |-> queued]

WebhookInit ==
    /\ gateway = [i \in Payments |-> "none"]
    /\ payee = [i \in Payments |-> NoIntent]
    /\ ledger = [i \in Payments |-> "none"]
    /\ processed = {}
    /\ hook = [h \in Hooks |-> Idle]
    /\ queue = [s \in Sales |-> 0]
    /\ receipt = [s \in Sales |-> FALSE]
    /\ screen = [s \in Sales |-> NoIntent]

PaymentInit == Init /\ WebhookInit

-----------------------------------------------------------------------------
(* The till and the customer *)

\* qris_charge_handler: the order exists at the gateway before the ledger row is
\* written; a failure in between leaves a code nobody is shown.  The first charge
\* of a sale, or a re-issue once the code on screen has expired.  A sale is paid
\* by codes or by one card.
Charge(s, i) ==
    LET others == {j \in Payments : payee[j] = s} IN
    /\ status[s] # "none"
    /\ gateway[i] = "none"
    /\ \/ others = {}
       \/ screen[s] \in Codes /\ i \in Codes /\ gateway[screen[s]] = "closed"
    /\ gateway' = [gateway EXCEPT ![i] = "open"]
    /\ payee' = [payee EXCEPT ![i] = s]
    /\ \/ /\ screen' = [screen EXCEPT ![s] = i]
          /\ ledger' = IF i \in Codes THEN [ledger EXCEPT ![i] = "issued"] ELSE ledger
       \/ /\ i \in Codes
          /\ UNCHANGED <<screen, ledger>>
    /\ UNCHANGED <<vars, processed, hook, queue, receipt>>

\* The push of the outbox brings the payments row of a card to the cloud.
PaymentSynced(i) ==
    /\ i \in Cards
    /\ gateway[i] # "none"
    /\ ledger[i] = "none"
    /\ ledger' = [ledger EXCEPT ![i] = "issued"]
    /\ UNCHANGED <<vars, gateway, payee, processed, hook, queue, receipt, screen>>

\* External: a code that was shown is paid, exactly or not, or runs out; a card
\* is captured or declined.
GatewayMoves(i) ==
    /\ gateway[i] = "open"
    /\ i \in Codes => ledger[i] # "none"
    /\ \E g \in {"paid", "closed"} \union IF i \in Codes THEN {"short"} ELSE {} :
          /\ gateway' = [gateway EXCEPT ![i] = g]
          /\ paid' = [paid EXCEPT ![payee[i]] = @ \/ g = "paid"]
    /\ UNCHANGED <<stock, kitchenVars, status, sold, taken, stale, reaping, told, back,
                   returned, loyaltyVars, payee, cloudVars, receipt, screen>>

\* qris_status_handler polled by the till, or the answer of the card terminal.
Confirm(s) ==
    /\ screen[s] \in Payments
    /\ IF screen[s] \in Codes THEN ledger[screen[s]] = "settlement"
                              ELSE gateway[screen[s]] = "paid"
    /\ screen' = [screen EXCEPT ![s] = "settling"]
    /\ UNCHANGED <<vars, gateway, payee, cloudVars, receipt>>

\* settleGatewaySale: kitchen first (it may fail), then finalize.
TicketsOut(s) ==
    /\ screen[s] = "settling"
    /\ SendToKitchen(s)
    /\ UNCHANGED webhookVars

FinalizeAtTill(s) ==
    /\ screen[s] = "settling"
    /\ Finalize(s)
    /\ screen' = [screen EXCEPT ![s] = NoIntent]
    /\ UNCHANGED <<gateway, payee, cloudVars, receipt>>

\* handleAutoCancel, or a failed charge: the code stays payable at the gateway.
CancelAtTill(s) ==
    /\ screen[s] # "settling"
    /\ \/ CancelCheckout(s)
       \/ status[s] \in {"completed", "voided"} /\ screen[s] # NoIntent /\ UNCHANGED vars
    /\ screen' = [screen EXCEPT ![s] = NoIntent]
    /\ UNCHANGED <<gateway, payee, cloudVars, receipt>>

\* The modal is gone after a restart; the pending sale stays.
TillRestarts(s) ==
    /\ screen[s] # NoIntent
    /\ screen' = [screen EXCEPT ![s] = NoIntent]
    /\ UNCHANGED <<vars, gateway, payee, cloudVars, receipt>>

-----------------------------------------------------------------------------
(* The webhook handlers of the cloud *)

\* What the gateway may deliver, late, again and in any order.
Deliverable(i, event) ==
    IF event = "settlement" THEN gateway[i] \in {"paid", "short"} ELSE gateway[i] # "none"

\* The handler reads: the ledger row of a code, or processed_webhooks and the
\* payments row of a card.  Without a row it answers and nothing changes.
Receive(h, i, event) ==
    /\ hook[h] = Idle
    /\ Deliverable(i, event)
    /\ ledger[i] # "none"
    /\ <<i, event>> \notin processed
    /\ hook' = [hook EXCEPT ![h] = Request(i, event, ledger[i], FALSE)]
    /\ UNCHANGED <<vars, gateway, payee, ledger, processed, queue, receipt, screen>>

\* MUTANT: the signed amount is not compared with the ledger's.
SettlesAnyAmount(r) ==
    \/ r.intent \in Cards
    \/ r.event = "settlement" /\ r.seen \notin Terminal

\* A card event of any type finalizes; a code does when the signed amount agrees
\* and the status read is not terminal.
Settles(r) ==
    \/ r.intent \in Cards
    \/ /\ r.event = "settlement"
       /\ gateway[r.intent] = "paid"
       /\ r.seen \notin Terminal

\* enqueue_finalize_sale, before the event is recorded.
Enqueue(h) ==
    /\ hook[h] # Idle
    /\ Settles(hook[h])
    /\ ~hook[h].queued
    /\ queue[payee[hook[h].intent]] < MaxRows
    /\ queue' = [queue EXCEPT ![payee[hook[h].intent]] = @ + 1]
    /\ hook' = [hook EXCEPT ![h] = Request(@.intent, @.event, @.seen, TRUE)]
    /\ UNCHANGED <<vars, gateway, payee, ledger, processed, receipt, screen>>

\* The status mark_status is given for a code.
Verdict(r) ==
    IF r.event = "update" THEN "issued"
    ELSE IF gateway[r.intent] = "short" THEN "amount_mismatch" ELSE "settlement"

\* MUTANT: whatever is delivered last is recorded.
MarkAlways(i, st) == ledger' = [ledger EXCEPT ![i] = st]

\* mark_status
Mark(i, st) ==
    ledger' = IF ledger[i] \in Terminal THEN ledger ELSE [ledger EXCEPT ![i] = st]

\* MUTANT: the event is recorded whether or not its row was queued.
MayRespondEarly(r) == TRUE

\* A request that finalizes records its event after the row was queued.
MayRespond(r) == Settles(r) => r.queued

\* The last write of a request, and its 200.
Respond(h) ==
    LET r == hook[h] IN
    /\ r # Idle
    /\ MayRespond(r)
    /\ IF r.intent \in Cards
       THEN processed' = processed \union {<<r.intent, r.event>>} /\ UNCHANGED ledger
       ELSE Mark(r.intent, Verdict(r)) /\ UNCHANGED processed
    /\ hook' = [hook EXCEPT ![h] = Idle]
    /\ UNCHANGED <<vars, gateway, payee, queue, receipt, screen>>

\* A failed write or a crash of the server: no 200, so the gateway redelivers.
Fail(h) ==
    /\ hook[h] # Idle
    /\ hook' = [hook EXCEPT ![h] = Idle]
    /\ UNCHANGED <<vars, gateway, payee, ledger, processed, queue, receipt, screen>>

\* MUTANT: a row that has been taken is taken again.
ApplyFinalizeAgain(s) ==
    /\ queue' = [queue EXCEPT ![s] = @ - 1]
    /\ receipt' = [receipt EXCEPT ![s] = TRUE]
    /\ UNCHANGED <<vars, gateway, payee, ledger, processed, hook, screen>>

\* apply_remote_atomic_full: a receipt makes a duplicate a no-op; on a split
\* terminal the daemon's database does not have the sale.
ApplyFinalize(s) ==
    /\ queue[s] > 0
    /\ queue' = [queue EXCEPT ![s] = @ - 1]
    /\ receipt' = [receipt EXCEPT ![s] = TRUE]
    /\ IF receipt[s] \/ SplitStore
       THEN UNCHANGED vars
       ELSE /\ Settle(s)
            /\ UNCHANGED <<stock, kitchenVars, sold, taken, stale, reaping, moneyVars, back,
                           returned>>
    /\ UNCHANGED <<gateway, payee, ledger, processed, hook, screen>>

-----------------------------------------------------------------------------
TillStep(s) ==
    \/ \E i \in Payments : Charge(s, i)
    \/ Confirm(s) \/ TicketsOut(s) \/ FinalizeAtTill(s) \/ CancelAtTill(s) \/ TillRestarts(s)

HookStep(h) ==
    \/ \E i \in Payments, event \in Events : Receive(h, i, event)
    \/ Enqueue(h) \/ Respond(h) \/ Fail(h)

\* What else happens to the sales: checkout, reaper, full refunds.
LedgerStep ==
    \/ \E s \in Sales : Checkout(s, MaxQty) \/ Expire(s) \/ Reap(s)
                        \/ CreateRefund(s, sold[s], Total(s))
    \/ FindStale
    \/ KitchenNext /\ UNCHANGED <<stock, saleVars>>

PaymentNext ==
    \/ \E s \in Sales : TillStep(s) \/ ApplyFinalize(s)
    \/ \E i \in Payments : PaymentSynced(i) \/ GatewayMoves(i)
    \/ \E h \in Hooks : HookStep(h)
    \/ LedgerStep /\ UNCHANGED webhookVars

PaymentSpec == PaymentInit /\ [][PaymentNext]_paymentVars

\* Requests are answered, the gateway redelivers a settlement until one succeeds
\* (a request that fails again and again succeeds in the end), the daemon ticks.
PaymentFairness ==
    /\ \A i \in Codes : SF_paymentVars(\E h \in Hooks : Receive(h, i, "settlement"))
    /\ \A h \in Hooks : WF_paymentVars(Respond(h)) /\ SF_paymentVars(Enqueue(h))
    /\ \A s \in Sales : WF_paymentVars(ApplyFinalize(s))

PaymentFairSpec == PaymentSpec /\ PaymentFairness

-----------------------------------------------------------------------------
WebhookTypeOK ==
    /\ gateway \in [Payments -> {"none", "open", "paid", "short", "closed"}]
    /\ payee \in [Payments -> Sales \union {NoIntent}]
    /\ ledger \in [Payments -> LedgerStatus]
    /\ processed \subseteq Payments \X Events
    /\ hook \in [Hooks -> Requests \union {Idle}]
    /\ queue \in [Sales -> 0 .. MaxRows]
    /\ receipt \in [Sales -> BOOLEAN]
    /\ screen \in [Sales -> Payments \union {"settling", NoIntent}]

PaymentTypeOK == SaleTypeOK /\ KitchenTypeOK /\ WebhookTypeOK

\* A settlement the ledger records was queued first: whatever request, crash or
\* duplicate marked it, the terminal has the row or will get it
\* (midtrans_webhook_handler enqueues, then marks).
SettledQueued ==
    \A i \in Codes :
        ledger[i] = "settlement" => queue[payee[i]] > 0 \/ receipt[payee[i]]

\* A sale is completed only when its customer has paid: no late, short or
\* expired code finalizes it, nor does the till (useAutoQr, midtrans.rs).
CompletedIsPaid ==
    \A s \in Sales :
        status[s] = "completed" /\ (\A i \in Cards : payee[i] # s) => paid[s]

\* The daemon's comment: a queued card sale had its payment captured (queue.rs:498).
CardCompletedIsPaid ==
    \A i \in Cards : payee[i] \in Sales =>
        (status[payee[i]] = "completed" => paid[payee[i]])

\* A settlement and an amount incident stay on record whatever is delivered
\* later (mark_status).
IncidentKept ==
    [][\A i \in Codes : ledger[i] \in Terminal => ledger'[i] = ledger[i]]_ledger

\* A code that was paid reaches the terminal of its sale, though requests fail, tills
\* restart and nobody polls: the gateway redelivers until the row is queued, and the
\* daemon applies it (midtrans.rs: enqueue before mark, 200 only after both).
PaidReachesTill ==
    \A i \in Codes, s \in Sales :
        gateway[i] = "paid" /\ payee[i] = s ~> receipt[s]

\* The daemon's comment says that with the finalize_sale row applied a sale whose
\* payment was captured does not stay pending (queue.rs:498).  The code does not keep
\* it where the tills write a store database: the daemon finalizes in the global one.
PaidSettles ==
    \A i \in Codes, s \in Sales :
        gateway[i] = "paid" /\ payee[i] = s ~> status[s] # "pending"
=============================================================================
