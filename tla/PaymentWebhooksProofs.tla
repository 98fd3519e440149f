------------------------- MODULE PaymentWebhooksProofs -------------------------
(***************************************************************************)
(* What PaymentWebhooks promises for every number of sales, codes, cards    *)
(* and concurrent webhook requests.  That a paid sale is settled in the end *)
(* needs fairness and stays with the runs.                                 *)
(***************************************************************************)
EXTENDS PaymentWebhooks, SaleLedgerProofs

-----------------------------------------------------------------------------
(* The invariant *)

\* A payment that was charged has its sale, and money that moved was captured.
GatewayInv ==
    \A i \in Payments :
        /\ payee[i] \in Sales <=> gateway[i] # "none"
        /\ ledger[i] # "none" => gateway[i] # "none"
        /\ gateway[i] = "paid" => paid[payee[i]]

\* The finalize_sale row of s waits, or was taken.
Covered(s) == queue[s] > 0 \/ receipt[s]

\* What a request has read still holds, and what it did is there.
Sound(r) ==
    /\ ledger[r.intent] # "none"
    /\ r.event = "settlement" => gateway[r.intent] \in {"paid", "short"}
    /\ r.intent \in Codes /\ r.seen \in Terminal => ledger[r.intent] = r.seen
    /\ r.queued => Covered(payee[r.intent])

HookInv == \A h \in Hooks : hook[h] # Idle => Sound(hook[h])

\* A row waits for a sale without a card only when its customer has paid.
QueuePaid ==
    \A s \in Sales : queue[s] > 0 /\ (\A i \in Cards : payee[i] # s) => paid[s]

PaymentInv ==
    /\ SaleInv /\ KitchenInv /\ WebhookTypeOK
    /\ GatewayInv /\ HookInv /\ SettledQueued
    /\ QueuePaid /\ CompletedIsPaid

LEMMA CodesAreNotCards == \A i \in Codes : i \in Payments /\ i \notin Cards
BY WebhookConstants DEF Payments

LEMMA NoIntentIsNoSale == NoIntent \notin Sales
BY WebhookConstants

LEMMA PaymentInitEstablishes == PaymentInit => PaymentInv
<1> SUFFICES ASSUME PaymentInit PROVE PaymentInv
  OBVIOUS
<1>1. SaleInv /\ KitchenInv
  BY SaleInitEstablishes, KitchenInitEstablishes DEF PaymentInit, Init
<1>2. WebhookTypeOK
  BY WebhookConstants DEF PaymentInit, WebhookInit, WebhookTypeOK, LedgerStatus
<1>3. GatewayInv /\ HookInv
  BY NoIntentIsNoSale DEF PaymentInit, WebhookInit, GatewayInv, HookInv
<1>4. SettledQueued
  BY CodesAreNotCards DEF PaymentInit, WebhookInit, SettledQueued
<1>5. QueuePaid /\ CompletedIsPaid
  BY DEF PaymentInit, Init, SaleInit, WebhookInit, QueuePaid, CompletedIsPaid
<1> QED
  BY <1>1, <1>2, <1>3, <1>4, <1>5 DEF PaymentInv

-----------------------------------------------------------------------------
(* Steps that leave gateway, cloud and queue alone *)

LEMMA WebhooksStand ==
    ASSUME PaymentInv, SaleInv', KitchenInv', WebhookTypeOK',
           UNCHANGED <<gateway, payee, ledger, hook, queue, receipt, paid>>,
           \A s \in Sales : status'[s] = "completed" => status[s] = "completed" \/ paid[s]
    PROVE  PaymentInv'
<1>1. GatewayInv' /\ SettledQueued' /\ QueuePaid'
  BY DEF PaymentInv, GatewayInv, SettledQueued, QueuePaid
<1>2. HookInv'
  BY DEF PaymentInv, HookInv, Sound, Covered
<1>3. CompletedIsPaid'
  BY DEF PaymentInv, CompletedIsPaid
<1> QED
  BY <1>1, <1>2, <1>3 DEF PaymentInv

\* The screen of a till is the only thing that changes.
LEMMA ScreenStep ==
    ASSUME PaymentInv, NEW s \in Sales, Confirm(s) \/ TillRestarts(s)
    PROVE  PaymentInv' /\ StatusFinal /\ Advances
<1>1. /\ UNCHANGED vars
      /\ UNCHANGED <<gateway, payee, ledger, processed, hook, queue, receipt>>
      /\ screen' \in [Sales -> Payments \union {"settling", NoIntent}]
  BY DEF Confirm, TillRestarts, cloudVars, PaymentInv, WebhookTypeOK
<1>2. SaleInv' /\ StatusFinal
  BY <1>1, OtherKept DEF vars, saleVars, moneyVars, PaymentInv, SaleInv, SaleTypeOK
<1>3. KitchenInv' /\ Advances
  BY <1>1, KitchenKept DEF vars, KitchenStep, PaymentInv
<1>4. WebhookTypeOK'
  BY <1>1 DEF PaymentInv, WebhookTypeOK
<1>5. UNCHANGED <<paid, status>>
  BY <1>1 DEF vars, saleVars, moneyVars
<1> QED
  BY <1>1, <1>2, <1>3, <1>4, <1>5, WebhooksStand

LEMMA TicketsOutStep ==
    ASSUME PaymentInv, NEW s \in Sales, TicketsOut(s)
    PROVE  PaymentInv' /\ StatusFinal /\ Advances
<1>1. UNCHANGED saleVars /\ FanOut(s) /\ UNCHANGED webhookVars
  BY DEF TicketsOut, SendToKitchen
<1>2. SaleInv' /\ StatusFinal
  BY <1>1, OtherKept DEF saleVars, moneyVars, PaymentInv, SaleInv, SaleTypeOK
<1>3. KitchenInv' /\ Advances
  BY <1>1, KitchenKept DEF KitchenStep, PaymentInv
<1>4. WebhookTypeOK'
  BY <1>1 DEF PaymentInv, WebhookTypeOK, webhookVars, cloudVars
<1> QED
  BY <1>1, <1>2, <1>3, <1>4, WebhooksStand DEF webhookVars, cloudVars, saleVars, moneyVars

LEMMA FinalizeAtTillStep ==
    ASSUME PaymentInv, NEW s \in Sales, FinalizeAtTill(s)
    PROVE  PaymentInv' /\ StatusFinal /\ Advances
<1>1. /\ paid[s] /\ Settle(s) /\ told' = [told EXCEPT ![s] = TRUE]
      /\ UNCHANGED <<kitchenVars, sold, stale, reaping, paid, back>>
      /\ screen' = [screen EXCEPT ![s] = NoIntent]
      /\ UNCHANGED <<gateway, payee, ledger, processed, hook, queue, receipt>>
  BY DEF FinalizeAtTill, Finalize, cloudVars
<1>2. SaleInv' /\ StatusFinal
  BY <1>1, SettleKept DEF PaymentInv, SaleInv, SaleTypeOK
<1>3. KitchenInv' /\ Advances
  BY <1>1, KitchenKept DEF KitchenStep, PaymentInv
<1>4. WebhookTypeOK'
  BY <1>1 DEF PaymentInv, WebhookTypeOK
<1>5. \A x \in Sales : status'[x] = "completed" => status[x] = "completed" \/ paid[x]
  BY <1>1 DEF Settle, PaymentInv, SaleInv, SaleTypeOK
<1> QED
  BY <1>1, <1>2, <1>3, <1>4, <1>5, WebhooksStand

LEMMA CancelAtTillStep ==
    ASSUME PaymentInv, NEW s \in Sales, CancelAtTill(s)
    PROVE  PaymentInv' /\ StatusFinal /\ Advances
<1>1. /\ screen' = [screen EXCEPT ![s] = NoIntent]
      /\ UNCHANGED <<gateway, payee, ledger, processed, hook, queue, receipt>>
      /\ (VoidPending(s) /\ UNCHANGED reaping) \/ UNCHANGED vars
  BY DEF CancelAtTill, CancelCheckout, cloudVars
<1>2. WebhookTypeOK'
  BY <1>1 DEF PaymentInv, WebhookTypeOK
<1>3. CASE VoidPending(s) /\ UNCHANGED reaping
  <2>1. SaleInv' /\ StatusFinal
    BY <1>3, VoidKept DEF PaymentInv, SaleInv, SaleTypeOK
  <2>2. KitchenInv' /\ Advances
    BY <1>3, KitchenKept DEF KitchenStep, PaymentInv, VoidPending
  <2>3. paid' = paid /\ \A x \in Sales : status'[x] = "completed" => status[x] = "completed"
    BY <1>3 DEF VoidPending, moneyVars, PaymentInv, SaleInv, SaleTypeOK
  <2> QED
    BY <1>1, <1>2, <2>1, <2>2, <2>3, WebhooksStand
<1>4. CASE UNCHANGED vars
  <2>1. SaleInv' /\ StatusFinal
    BY <1>4, OtherKept DEF vars, saleVars, moneyVars, PaymentInv, SaleInv, SaleTypeOK
  <2>2. KitchenInv' /\ Advances
    BY <1>4, KitchenKept DEF vars, KitchenStep, PaymentInv
  <2> QED
    BY <1>1, <1>2, <1>4, <2>1, <2>2, WebhooksStand DEF vars, saleVars, moneyVars
<1> QED
  BY <1>1, <1>3, <1>4

\* Checkout, reaper, refunds and the kitchen complete nothing.
LEMMA LedgerStepStep ==
    ASSUME PaymentInv, LedgerStep, UNCHANGED webhookVars
    PROVE  PaymentInv' /\ StatusFinal /\ Advances
<1>0. SaleInv /\ SaleTypeOK /\ KitchenInv
  BY DEF PaymentInv, SaleInv
<1>1. WebhookTypeOK' /\ UNCHANGED <<gateway, payee, ledger, hook, queue, receipt>>
  BY DEF PaymentInv, WebhookTypeOK, webhookVars, cloudVars
<1>2. ASSUME SaleInv', StatusFinal, KitchenStep, paid' = paid,
             \A s \in Sales : status'[s] = "completed" => status[s] = "completed"
      PROVE  PaymentInv' /\ StatusFinal /\ Advances
  BY <1>0, <1>1, <1>2, KitchenKept, WebhooksStand
<1>3. ASSUME NEW s \in Sales, Checkout(s, MaxQty)
      PROVE  PaymentInv' /\ StatusFinal /\ Advances
  <2>1. PICK alloc : Record(s, MaxQty, alloc, "pending")
    BY <1>3 DEF Checkout
  <2>2. "pending" \in Statuses /\ paid' = paid /\ UNCHANGED loyaltyVars
    BY <1>3 DEF Checkout, Statuses
  <2>3. SaleInv' /\ StatusFinal
    BY <1>0, <2>1, <2>2, RecordKept, SaleConstants DEF SaleTypeOK
  <2>4. KitchenStep
    BY <2>1 DEF Record, KitchenStep
  <2>5. \A x \in Sales : status'[x] = "completed" => status[x] = "completed"
    BY <1>0, <2>1 DEF Record, SaleTypeOK
  <2> QED
    BY <1>2, <2>2, <2>3, <2>4, <2>5
<1>4. ASSUME NEW s \in Sales, Expire(s)
      PROVE  PaymentInv' /\ StatusFinal /\ Advances
  <2>1. SaleInv' /\ StatusFinal
    BY <1>0, <1>4, OtherKept DEF Expire, moneyVars, SaleTypeOK
  <2> QED
    BY <1>2, <1>4, <2>1 DEF Expire, KitchenStep, moneyVars
<1>5. ASSUME NEW s \in Sales, Reap(s)
      PROVE  PaymentInv' /\ StatusFinal /\ Advances
  <2>1. reaping' \subseteq Sales
    BY <1>0, <1>5 DEF Reap, SaleTypeOK
  <2>2. CASE VoidPending(s)
    <3>1. SaleInv' /\ StatusFinal
      BY <1>0, <2>1, <2>2, VoidKept
    <3>2. KitchenStep /\ paid' = paid
      BY <2>2 DEF VoidPending, KitchenStep, moneyVars
    <3>3. \A x \in Sales : status'[x] = "completed" => status[x] = "completed"
      BY <1>0, <2>2 DEF VoidPending, SaleTypeOK
    <3> QED
      BY <1>2, <3>1, <3>2, <3>3
  <2>3. CASE UNCHANGED <<stock, kitchenVars, status, sold, taken, stale, moneyVars, back,
                         returned, loyaltyVars>>
    <3>1. SaleInv' /\ StatusFinal
      BY <1>0, <2>1, <2>3, OtherKept DEF moneyVars, SaleTypeOK
    <3> QED
      BY <1>2, <2>3, <3>1 DEF KitchenStep, moneyVars
  <2> QED
    BY <1>5, <2>2, <2>3 DEF Reap
<1>6. ASSUME NEW s \in Sales, CreateRefund(s, sold[s], Total(s))
      PROVE  PaymentInv' /\ StatusFinal /\ Advances
  <2>1. sold[s] \in Nat /\ Total(s) \in Nat
    BY <1>0, ProductType, SaleConstants DEF SaleTypeOK, Total
  <2>2. SaleInv' /\ StatusFinal
    BY <1>0, <1>6, <2>1, RefundKept
  <2>3. KitchenStep /\ paid' = paid /\ status' = status
    BY <1>6 DEF CreateRefund, KitchenStep, moneyVars, kitchenVars
  <2> QED
    BY <1>2, <2>2, <2>3
<1>7. ASSUME FindStale
      PROVE  PaymentInv' /\ StatusFinal /\ Advances
  <2>1. SaleInv' /\ StatusFinal
    BY <1>0, <1>7, OtherKept DEF FindStale, moneyVars, SaleTypeOK
  <2> QED
    BY <1>2, <1>7, <2>1 DEF FindStale, KitchenStep, moneyVars
<1>8. ASSUME KitchenNext, UNCHANGED <<stock, saleVars>>
      PROVE  PaymentInv' /\ StatusFinal /\ Advances
  <2>1. SaleInv' /\ StatusFinal
    BY <1>0, <1>8, OtherKept DEF saleVars, moneyVars, SaleTypeOK
  <2> QED
    BY <1>2, <1>8, <2>1 DEF KitchenStep, saleVars, moneyVars
<1> QED
  BY <1>3, <1>4, <1>5, <1>6, <1>7, <1>8 DEF LedgerStep

-----------------------------------------------------------------------------
(* The gateway *)

\* The sales and the board stand still.
LEMMA SalesStand ==
    ASSUME PaymentInv, UNCHANGED <<kitchenVars, status, sold, back, loyaltyVars, stale, reaping, told>>,
           paid' \in [Sales -> BOOLEAN]
    PROVE  SaleInv' /\ StatusFinal /\ KitchenInv' /\ Advances
<1>1. SaleInv' /\ StatusFinal
  BY OtherKept DEF PaymentInv, SaleInv, SaleTypeOK
<1>2. KitchenInv' /\ Advances
  BY KitchenKept DEF KitchenStep, PaymentInv
<1> QED
  BY <1>1, <1>2

\* So does everything that belongs to the store.
LEMMA StoreStands ==
    ASSUME PaymentInv, UNCHANGED vars
    PROVE  /\ SaleInv' /\ StatusFinal /\ KitchenInv' /\ Advances
           /\ UNCHANGED <<status, paid>>
<1>1. UNCHANGED <<kitchenVars, status, sold, back, loyaltyVars, stale, reaping, told, paid>>
  BY DEF vars, saleVars, moneyVars
<1> QED
  BY <1>1, SalesStand DEF PaymentInv, SaleInv, SaleTypeOK

LEMMA ChargeStep ==
    ASSUME PaymentInv, NEW s \in Sales, NEW i \in Payments, Charge(s, i)
    PROVE  PaymentInv' /\ StatusFinal /\ Advances
<1>1. /\ gateway[i] = "none"
      /\ gateway' = [gateway EXCEPT ![i] = "open"]
      /\ payee' = [payee EXCEPT ![i] = s]
      /\ ledger' = ledger \/ ledger' = [ledger EXCEPT ![i] = "issued"]
      /\ screen' = screen \/ screen' = [screen EXCEPT ![s] = i]
      /\ UNCHANGED vars /\ UNCHANGED <<processed, hook, queue, receipt>>
  BY DEF Charge
<1>2. SaleInv' /\ StatusFinal /\ KitchenInv' /\ Advances /\ UNCHANGED <<status, paid>>
  BY <1>1, StoreStands
<1>3. WebhookTypeOK'
  BY <1>1 DEF PaymentInv, WebhookTypeOK, LedgerStatus
<1>4. payee[i] \notin Sales /\ ledger[i] = "none"
  BY <1>1 DEF PaymentInv, GatewayInv
<1>5. GatewayInv'
  BY <1>1, <1>2, <1>4 DEF PaymentInv, GatewayInv, WebhookTypeOK
<1>6. HookInv'
  <2> SUFFICES ASSUME NEW h \in Hooks, hook[h] # Idle
               PROVE  Sound(hook[h])'
    BY <1>1 DEF HookInv
  <2>1. hook[h] \in Requests /\ Sound(hook[h])
    BY DEF PaymentInv, HookInv, WebhookTypeOK
  <2>2. hook[h].intent \in Payments /\ hook[h].intent # i
    BY <1>4, <2>1 DEF Requests, Sound
  <2> QED
    BY <1>1, <2>1, <2>2 DEF Sound, Covered, PaymentInv, WebhookTypeOK
<1>7. SettledQueued'
  BY <1>1, <1>4, CodesAreNotCards DEF PaymentInv, SettledQueued, WebhookTypeOK
<1>8. QueuePaid' /\ CompletedIsPaid'
  <2>1. \A x \in Sales : (\A j \in Cards : payee'[j] # x) => (\A j \in Cards : payee[j] # x)
    BY <1>1, <1>4 DEF PaymentInv, WebhookTypeOK, Payments
  <2> QED
    BY <1>1, <1>2, <2>1 DEF PaymentInv, QueuePaid, CompletedIsPaid
<1> QED
  BY <1>2, <1>3, <1>5, <1>6, <1>7, <1>8 DEF PaymentInv

LEMMA PaymentSyncedStep ==
    ASSUME PaymentInv, NEW i \in Payments, PaymentSynced(i)
    PROVE  PaymentInv' /\ StatusFinal /\ Advances
<1>1. /\ i \in Cards /\ gateway[i] # "none" /\ ledger[i] = "none"
      /\ ledger' = [ledger EXCEPT ![i] = "issued"]
      /\ UNCHANGED vars /\ UNCHANGED <<gateway, payee, processed, hook, queue, receipt, screen>>
  BY DEF PaymentSynced
<1>2. SaleInv' /\ StatusFinal /\ KitchenInv' /\ Advances /\ UNCHANGED <<status, paid>>
  BY <1>1, StoreStands
<1>3. WebhookTypeOK'
  BY <1>1 DEF PaymentInv, WebhookTypeOK, LedgerStatus
<1>4. GatewayInv'
  BY <1>1, <1>2 DEF PaymentInv, GatewayInv, WebhookTypeOK
<1>5. HookInv'
  <2> SUFFICES ASSUME NEW h \in Hooks, hook[h] # Idle
               PROVE  Sound(hook[h])'
    BY <1>1 DEF HookInv
  <2>1. hook[h] \in Requests /\ Sound(hook[h])
    BY DEF PaymentInv, HookInv, WebhookTypeOK
  <2>2. hook[h].intent \in Payments /\ hook[h].intent # i
    BY <1>1, <2>1 DEF Requests, Sound
  <2> QED
    BY <1>1, <2>1, <2>2 DEF Sound, Covered, PaymentInv, WebhookTypeOK
<1>6. SettledQueued'
  BY <1>1, CodesAreNotCards DEF PaymentInv, SettledQueued, WebhookTypeOK
<1>7. QueuePaid' /\ CompletedIsPaid'
  BY <1>1, <1>2 DEF PaymentInv, QueuePaid, CompletedIsPaid
<1> QED
  BY <1>2, <1>3, <1>4, <1>5, <1>6, <1>7 DEF PaymentInv

\* Money moves: paid only grows, and a code or card that was decided stays so.
LEMMA GatewayMovesStep ==
    ASSUME PaymentInv, NEW i \in Payments, GatewayMoves(i)
    PROVE  PaymentInv' /\ StatusFinal /\ Advances
<1>1. PICK g \in {"paid", "closed", "short"} :
          /\ gateway' = [gateway EXCEPT ![i] = g]
          /\ paid' = [paid EXCEPT ![payee[i]] = paid[payee[i]] \/ g = "paid"]
  BY DEF GatewayMoves
<1>2. /\ gateway[i] = "open"
      /\ UNCHANGED <<kitchenVars, status, sold, back, loyaltyVars, stale, reaping, told>>
      /\ UNCHANGED <<payee, ledger, processed, hook, queue, receipt, screen>>
  BY DEF GatewayMoves, cloudVars
<1>3. payee[i] \in Sales
  BY <1>2 DEF PaymentInv, GatewayInv
<1>4. paid \in [Sales -> BOOLEAN]
  BY DEF PaymentInv, SaleInv, SaleTypeOK
<1>5. /\ paid' \in [Sales -> BOOLEAN]
      /\ \A x \in Sales : paid[x] => paid'[x]
      /\ g = "paid" => paid'[payee[i]]
  <2> DEFINE b == paid[payee[i]] \/ g = "paid"
  <2>1. b \in BOOLEAN
    OBVIOUS
  <2>2. paid' = [paid EXCEPT ![payee[i]] = b]
    BY <1>1
  <2>3. paid[payee[i]] => b
    OBVIOUS
  <2>4. g = "paid" => b
    OBVIOUS
  <2> HIDE DEF b
  <2>5. paid' \in [Sales -> BOOLEAN] /\ paid'[payee[i]] = b
    BY <1>3, <1>4, <2>1, <2>2, ZenonT(30)
  <2>6. \A x \in Sales : x # payee[i] => paid'[x] = paid[x]
    BY <1>4, <2>2
  <2> QED
    BY <2>3, <2>4, <2>5, <2>6
<1>6. SaleInv' /\ StatusFinal /\ KitchenInv' /\ Advances
  BY <1>2, <1>5, SalesStand
<1>7. WebhookTypeOK'
  BY <1>1, <1>2 DEF PaymentInv, WebhookTypeOK
<1>8. GatewayInv'
  <2> SUFFICES ASSUME NEW j \in Payments
               PROVE  /\ payee[j] \in Sales <=> gateway'[j] # "none"
                      /\ ledger[j] # "none" => gateway'[j] # "none"
                      /\ gateway'[j] = "paid" => paid'[payee[j]]
    BY <1>2 DEF GatewayInv
  <2>1. /\ payee[j] \in Sales <=> gateway[j] # "none"
        /\ ledger[j] # "none" => gateway[j] # "none"
        /\ gateway[j] = "paid" => paid[payee[j]]
    BY DEF PaymentInv, GatewayInv
  <2>2. CASE j = i
    BY <1>1, <1>2, <1>3, <1>5, <2>1, <2>2 DEF PaymentInv, WebhookTypeOK
  <2>3. CASE j # i
    <3>1. gateway'[j] = gateway[j]
      BY <1>1, <2>3 DEF PaymentInv, WebhookTypeOK
    <3>2. gateway[j] = "paid" => payee[j] \in Sales
      BY <2>1
    <3> QED
      BY <1>5, <2>1, <3>1, <3>2
  <2> QED
    BY <2>2, <2>3
<1>9. HookInv'
  <2> SUFFICES ASSUME NEW h \in Hooks, hook[h] # Idle
               PROVE  Sound(hook[h])'
    BY <1>2 DEF HookInv
  <2>1. hook[h] \in Requests /\ Sound(hook[h])
    BY DEF PaymentInv, HookInv, WebhookTypeOK
  <2>2. hook[h].intent \in Payments
    BY <2>1 DEF Requests
  <2>3. hook[h].event = "settlement" => gateway'[hook[h].intent] \in {"paid", "short"}
    BY <1>1, <1>2, <2>1, <2>2 DEF Sound, PaymentInv, WebhookTypeOK
  <2> QED
    BY <1>2, <2>1, <2>3 DEF Sound, Covered
<1>10. SettledQueued'
  BY <1>2 DEF PaymentInv, SettledQueued
<1>11. QueuePaid' /\ CompletedIsPaid'
  BY <1>2, <1>5 DEF PaymentInv, QueuePaid, CompletedIsPaid
<1> QED
  BY <1>6, <1>7, <1>8, <1>9, <1>10, <1>11 DEF PaymentInv

-----------------------------------------------------------------------------
(* The webhook requests *)

\* What Sound says of r once the step is taken.
SoundAfter(r) ==
    /\ ledger'[r.intent] # "none"
    /\ r.event = "settlement" => gateway'[r.intent] \in {"paid", "short"}
    /\ r.intent \in Codes /\ r.seen \in Terminal => ledger'[r.intent] = r.seen
    /\ r.queued => queue'[payee'[r.intent]] > 0 \/ receipt'[payee'[r.intent]]

\* A request of h begins, goes on or ends; the others stand.
LEMMA OneRequest ==
    ASSUME PaymentInv, NEW h \in Hooks,
           hook'[h] # Idle => SoundAfter(hook'[h]),
           \A k \in Hooks \ {h} : hook'[k] = hook[k],
           \A x \in Requests : Sound(x) => SoundAfter(x)
    PROVE  HookInv'
<1> SUFFICES ASSUME NEW k \in Hooks, hook'[k] # Idle
             PROVE  SoundAfter(hook'[k])
  BY DEF HookInv, Sound, SoundAfter, Covered
<1>1. CASE k = h
  BY <1>1
<1>2. CASE k # h
  BY <1>2 DEF PaymentInv, HookInv, WebhookTypeOK
<1> QED
  BY <1>1, <1>2

LEMMA ReceiveStep ==
    ASSUME PaymentInv, NEW h \in Hooks, NEW i \in Payments, NEW event \in Events,
           Receive(h, i, event)
    PROVE  PaymentInv' /\ StatusFinal /\ Advances
<1> DEFINE r == [intent |-> i, event |-> event, seen |-> ledger[i], queued |-> FALSE]
<1>1. /\ Deliverable(i, event) /\ ledger[i] # "none"
      /\ hook' = [hook EXCEPT ![h] = r]
      /\ UNCHANGED vars /\ UNCHANGED <<gateway, payee, ledger, processed, queue, receipt, screen>>
  BY DEF Receive, Request
<1>2. SaleInv' /\ StatusFinal /\ KitchenInv' /\ Advances /\ UNCHANGED <<status, paid>>
  BY <1>1, StoreStands
<1>3. r \in Requests
  BY DEF Requests, PaymentInv, WebhookTypeOK
<1>4. Sound(r)
  BY <1>1 DEF Sound, Deliverable
<1>5. SoundAfter(r)
  BY <1>1, <1>4 DEF Sound, SoundAfter, Covered
<1> HIDE DEF r
<1>6. HookInv'
  <2>1. \A x \in Requests : Sound(x) => SoundAfter(x)
    BY <1>1 DEF Sound, SoundAfter, Covered
  <2>2. hook'[h] = r /\ \A k \in Hooks \ {h} : hook'[k] = hook[k]
    BY <1>1 DEF PaymentInv, WebhookTypeOK
  <2> QED
    BY <1>5, <2>1, <2>2, OneRequest
<1>7. WebhookTypeOK'
  BY <1>1, <1>3 DEF PaymentInv, WebhookTypeOK
<1>8. GatewayInv' /\ SettledQueued' /\ QueuePaid' /\ CompletedIsPaid'
  BY <1>1, <1>2 DEF PaymentInv, GatewayInv, SettledQueued, QueuePaid, CompletedIsPaid
<1> QED
  BY <1>2, <1>6, <1>7, <1>8 DEF PaymentInv

\* The amount was compared, so the sale whose row is queued is paid.
LEMMA EnqueueStep ==
    ASSUME PaymentInv, NEW h \in Hooks, Enqueue(h)
    PROVE  PaymentInv' /\ StatusFinal /\ Advances
<1> DEFINE i == hook[h].intent
           s == payee[i]
           r == [intent |-> i, event |-> hook[h].event, seen |-> hook[h].seen, queued |-> TRUE]
<1>1. /\ hook[h] \in Requests /\ Settles(hook[h]) /\ Sound(hook[h])
      /\ queue[s] < MaxRows
      /\ queue' = [queue EXCEPT ![s] = queue[s] + 1]
      /\ UNCHANGED vars /\ UNCHANGED <<gateway, payee, ledger, processed, receipt, screen>>
  BY DEF Enqueue, PaymentInv, WebhookTypeOK, HookInv
<1>2. hook' = [hook EXCEPT ![h] = r]
  BY DEF Enqueue, Request
<1>3. SaleInv' /\ StatusFinal /\ KitchenInv' /\ Advances /\ UNCHANGED <<status, paid>>
  BY <1>1, StoreStands
<1>4. i \in Payments /\ ledger[i] # "none" /\ gateway[i] # "none" /\ s \in Sales
  BY <1>1 DEF Requests, Sound, PaymentInv, GatewayInv
<1>5. /\ queue' \in [Sales -> 0 .. MaxRows] /\ queue'[s] > 0
      /\ \A x \in Sales : queue[x] > 0 => queue'[x] > 0
      /\ \A x \in Sales : x # s => queue'[x] = queue[x]
  BY <1>1, <1>4, WebhookConstants DEF PaymentInv, WebhookTypeOK
<1>6. r \in Requests
  BY <1>1 DEF Requests
<1>7. WebhookTypeOK'
  BY <1>1, <1>2, <1>5, <1>6 DEF PaymentInv, WebhookTypeOK
<1>8. \A x \in Requests : Sound(x) => SoundAfter(x)
  <2> SUFFICES ASSUME NEW x \in Requests, Sound(x)
               PROVE  SoundAfter(x)
    OBVIOUS
  <2>1. x.intent \in Payments
    BY DEF Requests
  <2>2. payee[x.intent] \in Sales
    BY <2>1 DEF Sound, PaymentInv, GatewayInv
  <2> QED
    BY <1>1, <1>5, <2>2 DEF Sound, SoundAfter, Covered
<1>9. SoundAfter(r)
  BY <1>1, <1>4, <1>5 DEF Sound, SoundAfter, Covered
<1>10. HookInv'
  <2> HIDE DEF r
  <2>1. hook'[h] = r /\ \A k \in Hooks \ {h} : hook'[k] = hook[k]
    BY <1>2 DEF PaymentInv, WebhookTypeOK
  <2> QED
    BY <1>8, <1>9, <2>1, OneRequest
<1>11. GatewayInv' /\ CompletedIsPaid'
  BY <1>1, <1>3 DEF PaymentInv, GatewayInv, CompletedIsPaid
<1>12. SettledQueued'
  <2> SUFFICES ASSUME NEW c \in Codes, ledger[c] = "settlement"
               PROVE  queue'[payee[c]] > 0 \/ receipt[payee[c]]
    BY <1>1 DEF SettledQueued
  <2>1. payee[c] \in Sales
    BY CodesAreNotCards DEF PaymentInv, GatewayInv
  <2> QED
    BY <1>5, <2>1 DEF PaymentInv, SettledQueued
<1>13. QueuePaid'
  <2> SUFFICES ASSUME NEW x \in Sales, queue'[x] > 0, \A k \in Cards : payee[k] # x
               PROVE  paid[x]
    BY <1>1, <1>3 DEF QueuePaid
  <2>1. CASE x = s
    <3>1. i \notin Cards
      BY <2>1
    <3>2. gateway[i] = "paid"
      BY <1>1, <3>1 DEF Settles
    <3> QED
      BY <1>4, <2>1, <3>2 DEF PaymentInv, GatewayInv
  <2>2. CASE x # s
    BY <1>5, <2>2 DEF PaymentInv, QueuePaid
  <2> QED
    BY <2>1, <2>2
<1> QED
  BY <1>3, <1>7, <1>10, <1>11, <1>12, <1>13 DEF PaymentInv

LEMMA FailStep ==
    ASSUME PaymentInv, NEW h \in Hooks, Fail(h)
    PROVE  PaymentInv' /\ StatusFinal /\ Advances
<1>1. /\ hook' = [hook EXCEPT ![h] = Idle]
      /\ UNCHANGED vars /\ UNCHANGED <<gateway, payee, ledger, processed, queue, receipt, screen>>
  BY DEF Fail
<1>2. SaleInv' /\ StatusFinal /\ KitchenInv' /\ Advances /\ UNCHANGED <<status, paid>>
  BY <1>1, StoreStands
<1>3. \A x \in Requests : Sound(x) => SoundAfter(x)
  BY <1>1 DEF Sound, SoundAfter, Covered
<1>4. HookInv'
  <2>1. hook'[h] = Idle /\ \A k \in Hooks \ {h} : hook'[k] = hook[k]
    BY <1>1 DEF PaymentInv, WebhookTypeOK
  <2> QED
    BY <1>3, <2>1, OneRequest
<1>5. WebhookTypeOK'
  BY <1>1 DEF PaymentInv, WebhookTypeOK
<1>6. GatewayInv' /\ SettledQueued' /\ QueuePaid' /\ CompletedIsPaid'
  BY <1>1, <1>2 DEF PaymentInv, GatewayInv, SettledQueued, QueuePaid, CompletedIsPaid
<1> QED
  BY <1>2, <1>4, <1>5, <1>6 DEF PaymentInv

\* The last write of a request: a settlement is recorded once its row is covered.
LEMMA RespondStep ==
    ASSUME PaymentInv, NEW h \in Hooks, Respond(h)
    PROVE  PaymentInv' /\ StatusFinal /\ Advances
<1> DEFINE r == hook[h]
<1>1. /\ r \in Requests /\ r # Idle /\ Sound(r) /\ MayRespond(r)
      /\ hook' = [hook EXCEPT ![h] = Idle]
      /\ UNCHANGED vars /\ UNCHANGED <<gateway, payee, queue, receipt, screen>>
  BY DEF Respond, PaymentInv, WebhookTypeOK, HookInv
<1>2. SaleInv' /\ StatusFinal /\ KitchenInv' /\ Advances /\ UNCHANGED <<status, paid>>
  BY <1>1, StoreStands
<1>3. r.intent \in Payments /\ r.event \in Events
  BY <1>1 DEF Requests
<1>4. \/ ledger' = ledger
      \/ /\ r.intent \in Codes /\ ledger[r.intent] \notin Terminal
         /\ ledger' = [ledger EXCEPT ![r.intent] = Verdict(r)]
  BY <1>3 DEF Respond, Mark, Payments
<1>5. Verdict(r) \in LedgerStatus \ {"none"}
  BY DEF Verdict, LedgerStatus, Terminal
<1>6. processed' \subseteq Payments \X Events
  BY <1>3 DEF Respond, PaymentInv, WebhookTypeOK
<1>7. WebhookTypeOK'
  BY <1>1, <1>3, <1>4, <1>5, <1>6 DEF PaymentInv, WebhookTypeOK
<1>8. /\ \A i \in Payments : ledger[i] # "none" <=> ledger'[i] # "none"
      /\ \A i \in Payments : ledger[i] \in Terminal => ledger'[i] = ledger[i]
  BY <1>1, <1>3, <1>4, <1>5 DEF PaymentInv, WebhookTypeOK, Sound
<1>9. GatewayInv'
  BY <1>1, <1>2, <1>8 DEF PaymentInv, GatewayInv
<1>10. HookInv'
  <2>1. ASSUME NEW x \in Requests, Sound(x)
        PROVE  SoundAfter(x)
    <3>1. x.intent \in Payments
      BY DEF Requests
    <3> QED
      BY <1>1, <1>8, <2>1, <3>1 DEF Sound, SoundAfter, Covered
  <2>2. hook'[h] = Idle /\ \A k \in Hooks \ {h} : hook'[k] = hook[k]
    BY <1>1 DEF PaymentInv, WebhookTypeOK
  <2> QED
    BY <2>1, <2>2, OneRequest
<1>11. SettledQueued'
  <2> SUFFICES ASSUME NEW c \in Codes, ledger'[c] = "settlement"
               PROVE  Covered(payee[c])
    BY <1>1 DEF SettledQueued, Covered
  <2>1. CASE ledger[c] = "settlement"
    BY <2>1 DEF PaymentInv, SettledQueued, Covered
  <2>2. CASE ledger[c] # "settlement"
    <3>1. c = r.intent /\ c \notin Cards /\ Verdict(r) = "settlement"
      BY <1>4, <2>2, CodesAreNotCards DEF PaymentInv, WebhookTypeOK
    <3>2. r.event = "settlement" /\ gateway[c] # "short"
      BY <1>3, <3>1 DEF Verdict, Events
    <3>3. gateway[c] = "paid"
      BY <1>1, <3>1, <3>2 DEF Sound
    <3>4. ledger[c] \notin Terminal
      BY <1>4, <2>2, <3>1
    <3>5. r.seen \notin Terminal
      BY <1>1, <3>1, <3>4 DEF Sound
    <3>6. Settles(r)
      BY <3>1, <3>2, <3>3, <3>5 DEF Settles
    <3> QED
      BY <1>1, <3>1, <3>6 DEF MayRespond, Sound
  <2> QED
    BY <2>1, <2>2
<1>12. QueuePaid' /\ CompletedIsPaid'
  BY <1>1, <1>2 DEF PaymentInv, QueuePaid, CompletedIsPaid
<1> QED
  BY <1>2, <1>7, <1>9, <1>10, <1>11, <1>12 DEF PaymentInv

-----------------------------------------------------------------------------
(* The daemon of the terminal *)

LEMMA ApplyFinalizeStep ==
    ASSUME PaymentInv, NEW s \in Sales, ApplyFinalize(s)
    PROVE  PaymentInv' /\ StatusFinal /\ Advances
<1>1. /\ queue[s] > 0
      /\ queue' = [queue EXCEPT ![s] = queue[s] - 1]
      /\ receipt' = [receipt EXCEPT ![s] = TRUE]
      /\ \/ UNCHANGED vars
         \/ /\ Settle(s)
            /\ UNCHANGED <<kitchenVars, sold, stale, reaping, moneyVars, back>>
      /\ UNCHANGED <<gateway, payee, ledger, processed, hook, screen>>
  BY DEF ApplyFinalize
<1>2. /\ SaleInv' /\ StatusFinal /\ KitchenInv' /\ Advances /\ paid' = paid
      /\ \A x \in Sales : status'[x] = "completed" => status[x] = "completed" \/ x = s
  <2>1. CASE UNCHANGED vars
    BY <2>1, StoreStands
  <2>2. CASE /\ Settle(s)
             /\ UNCHANGED <<kitchenVars, sold, stale, reaping, moneyVars, back>>
    <3>1. SaleInv' /\ StatusFinal
      BY <2>2, SettleKept DEF moneyVars, PaymentInv, SaleInv, SaleTypeOK
    <3>2. KitchenInv' /\ Advances
      BY <2>2, KitchenKept DEF KitchenStep, PaymentInv
    <3>3. \A x \in Sales : status'[x] = "completed" => status[x] = "completed" \/ x = s
      BY <2>2 DEF Settle, PaymentInv, SaleInv, SaleTypeOK
    <3> QED
      BY <2>2, <3>1, <3>2, <3>3 DEF moneyVars
  <2> QED
    BY <1>1, <2>1, <2>2
<1>3. /\ queue' \in [Sales -> 0 .. MaxRows] /\ receipt' \in [Sales -> BOOLEAN]
      /\ \A x \in Sales : queue'[x] > 0 => queue[x] > 0
      /\ \A x \in Sales : Covered(x) => queue'[x] > 0 \/ receipt'[x]
  BY <1>1, WebhookConstants DEF Covered, PaymentInv, WebhookTypeOK
<1>4. WebhookTypeOK'
  BY <1>1, <1>3 DEF PaymentInv, WebhookTypeOK
<1>5. GatewayInv'
  BY <1>1, <1>2 DEF PaymentInv, GatewayInv
<1>6. \A i \in Payments : ledger[i] # "none" => payee[i] \in Sales
  BY DEF PaymentInv, GatewayInv
<1>7. HookInv'
  <2> SUFFICES ASSUME NEW h \in Hooks, hook[h] # Idle
               PROVE  SoundAfter(hook[h])
    BY <1>1 DEF HookInv, Sound, SoundAfter, Covered
  <2>1. Sound(hook[h]) /\ hook[h].intent \in Payments
    BY DEF PaymentInv, HookInv, WebhookTypeOK, Requests
  <2> QED
    BY <1>1, <1>3, <1>6, <2>1 DEF Sound, SoundAfter
<1>8. SettledQueued'
  BY <1>1, <1>3, <1>6, CodesAreNotCards DEF PaymentInv, SettledQueued, Covered
<1>9. QueuePaid' /\ CompletedIsPaid'
  BY <1>1, <1>2, <1>3 DEF PaymentInv, QueuePaid, CompletedIsPaid
<1> QED
  BY <1>2, <1>4, <1>5, <1>7, <1>8, <1>9 DEF PaymentInv

-----------------------------------------------------------------------------
(* Every step *)

LEMMA PaymentStep ==
    ASSUME PaymentInv, [PaymentNext]_paymentVars
    PROVE  PaymentInv' /\ StatusFinal /\ Advances
<1>1. ASSUME NEW s \in Sales, TillStep(s)
      PROVE  PaymentInv' /\ StatusFinal /\ Advances
  BY <1>1, ChargeStep, ScreenStep, TicketsOutStep, FinalizeAtTillStep, CancelAtTillStep
     DEF TillStep
<1>2. ASSUME NEW h \in Hooks, HookStep(h)
      PROVE  PaymentInv' /\ StatusFinal /\ Advances
  BY <1>2, ReceiveStep, EnqueueStep, RespondStep, FailStep DEF HookStep
<1>3. CASE UNCHANGED paymentVars
  <2>1. UNCHANGED vars /\ UNCHANGED webhookVars
    BY <1>3 DEF paymentVars
  <2>2. SaleInv' /\ StatusFinal /\ KitchenInv' /\ Advances /\ UNCHANGED <<status, paid>>
    BY <2>1, StoreStands
  <2>3. WebhookTypeOK'
    BY <2>1 DEF PaymentInv, WebhookTypeOK, webhookVars, cloudVars
  <2> QED
    BY <2>1, <2>2, <2>3, WebhooksStand DEF webhookVars, cloudVars
<1> QED
  BY <1>1, <1>2, <1>3, ApplyFinalizeStep, PaymentSyncedStep, GatewayMovesStep, LedgerStepStep
     DEF PaymentNext

THEOREM PaymentInvariance == PaymentSpec => []PaymentInv
<1>1. PaymentInv /\ [PaymentNext]_paymentVars => PaymentInv'
  BY PaymentStep
<1> QED
  BY <1>1, PaymentInitEstablishes, PTL DEF PaymentSpec

\* The tables, the queue and the tills hold what their columns allow.
THEOREM PaymentTypes == PaymentSpec => []PaymentTypeOK
<1>1. PaymentInv => PaymentTypeOK
  BY DEF PaymentInv, SaleInv, KitchenInv, PaymentTypeOK
<1> QED
  BY <1>1, PaymentInvariance, PTL

\* A settlement on record has its finalize_sale row, waiting or applied, with
\* any number of requests, crashes and duplicates (midtrans_webhook_handler).
THEOREM SettlementsReachTheTill == PaymentSpec => []SettledQueued
<1>1. PaymentInv => SettledQueued
  BY DEF PaymentInv
<1> QED
  BY <1>1, PaymentInvariance, PTL

\* A sale paid by codes is completed only once its customer has paid, whichever
\* of till, webhook and daemon gets there first.
THEOREM PaidBeforeCompleted == PaymentSpec => []CompletedIsPaid
<1>1. PaymentInv => CompletedIsPaid
  BY DEF PaymentInv
<1> QED
  BY <1>1, PaymentInvariance, PTL

\* mark_status never overwrites a settlement or an amount incident.
THEOREM IncidentsStay == PaymentSpec => IncidentKept
<1> DEFINE Kept == \A i \in Codes : ledger[i] \in Terminal => ledger'[i] = ledger[i]
<1>1. ASSUME PaymentInv, [PaymentNext]_paymentVars
      PROVE  [Kept]_ledger
  <2>1. ASSUME NEW s \in Sales, NEW i \in Payments, Charge(s, i) PROVE Kept
    <3>1. gateway[i] = "none" /\ (ledger' = ledger \/ ledger' = [ledger EXCEPT ![i] = "issued"])
      BY <2>1 DEF Charge
    <3>2. ledger[i] \notin Terminal
      BY <1>1, <3>1 DEF PaymentInv, GatewayInv, Terminal
    <3> QED
      BY <1>1, <3>1, <3>2, CodesAreNotCards DEF PaymentInv, WebhookTypeOK
  <2>2. ASSUME NEW i \in Payments, PaymentSynced(i) PROVE Kept
    BY <1>1, <2>2, CodesAreNotCards DEF PaymentSynced, PaymentInv, WebhookTypeOK
  <2>3. ASSUME NEW h \in Hooks, Respond(h) PROVE Kept
    BY <1>1, <2>3, CodesAreNotCards DEF Respond, Mark, PaymentInv, WebhookTypeOK
  <2>4. CASE \A s \in Sales, i \in Payments : ~Charge(s, i)
    BY <1>1, <2>2, <2>3, <2>4 DEF PaymentNext, TillStep, HookStep, ApplyFinalize,
       GatewayMoves, Confirm, TicketsOut, FinalizeAtTill, CancelAtTill, TillRestarts,
       Receive, Enqueue, Fail, webhookVars, paymentVars, cloudVars
  <2> QED
    BY <2>1, <2>4
<1> QED
  BY <1>1, PaymentInvariance, PTL DEF PaymentSpec, IncidentKept

\* A ticket moves one way along the board: displays, cancellations and refunds
\* may meet in any order (update_kds_status, cancel_kds_orders_for_sale_in_tx).
THEOREM BoardAdvances == PaymentSpec => TicketsOnlyAdvance
<1>1. PaymentInv /\ [PaymentNext]_paymentVars =>
        [\A s \in Sales, z \in Zones :
            ticket'[s][z] # ticket[s][z] => Stage[ticket'[s][z]] > Stage[ticket[s][z]]
        ]_kitchenVars
  BY PaymentStep DEF Advances
<1> QED
  BY <1>1, PaymentInvariance, PTL DEF PaymentSpec, TicketsOnlyAdvance
=============================================================================
