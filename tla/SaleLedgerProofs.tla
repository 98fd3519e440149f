--------------------------- MODULE SaleLedgerProofs ---------------------------
(***************************************************************************)
(* What every step of SaleLedger and Kitchen preserves, for every number of *)
(* sales, zones and screens and every price: the lemmas StoreProofs and     *)
(* PaymentWebhooksProofs rest on.  Stock is left to StoreProofs: it is a    *)
(* sum over allocations.                                                   *)
(***************************************************************************)
EXTENDS SaleLedger, TLAPS

-----------------------------------------------------------------------------
(* Arithmetic *)

LEMMA QuotientType ==
    ASSUME NEW a \in Nat, NEW b \in Nat \ {0}
    PROVE  a \div b \in Nat
OBVIOUS

LEMMA ProductType ==
    ASSUME NEW a \in Nat, NEW b \in Nat
    PROVE  /\ a * b \in Nat
           /\ a > 0 /\ b > 0 => a * b > 0
OBVIOUS

LEMMA RoundedType ==
    ASSUME NEW num \in Nat, NEW den \in Nat \ {0}
    PROVE  Rounded(num, den) \in Nat
<1>1. 2 * num + den \in Nat /\ 2 * den \in Nat \ {0}
  OBVIOUS
<1> QED
  BY <1>1, QuotientType DEF Rounded

-----------------------------------------------------------------------------
(* The kitchen board *)

\* An update in progress was a legal move of the ticket it read.
KitchenInv ==
    /\ KitchenTypeOK
    /\ \A d \in Screens : intent[d] # Idle => MayBecome(intent[d].from, intent[d].to)

\* What a step may do to the board.
KitchenStep ==
    \/ UNCHANGED kitchenVars
    \/ \E s \in Sales : ticket' = Cancelled(s) /\ UNCHANGED intent
    \/ \E s \in Sales : FanOut(s)
    \/ KitchenNext

Advances ==
    \A s \in Sales, z \in Zones :
        ticket'[s][z] # ticket[s][z] => Stage[ticket'[s][z]] > Stage[ticket[s][z]]

LEMMA MovesAdvance ==
    ASSUME NEW from \in TicketStatus, NEW to \in TicketStatus, MayBecome(from, to)
    PROVE  from \in OnBoard /\ Stage[to] > Stage[from]
BY DEF MayBecome, TicketStatus, OnBoard, Stage

\* A board changed at one ticket, along a legal move.
LEMMA OneTicket ==
    ASSUME KitchenInv, NEW s \in Sales, NEW z \in Zones, NEW to \in TicketStatus,
           MayBecome(ticket[s][z], to),
           ticket' = [ticket EXCEPT ![s][z] = to]
    PROVE  ticket' \in [Sales -> [Zones -> TicketStatus]] /\ Advances
<1>1. ticket \in [Sales -> [Zones -> TicketStatus]]
  BY DEF KitchenInv, KitchenTypeOK
<1>2. ticket' = [ticket EXCEPT ![s] = [ticket[s] EXCEPT ![z] = to]]
  BY <1>1
<1>3. [ticket[s] EXCEPT ![z] = to] \in [Zones -> TicketStatus]
  BY <1>1
<1>4. ticket' \in [Sales -> [Zones -> TicketStatus]]
  BY <1>1, <1>2, <1>3
<1>5. ticket[s][z] \in TicketStatus
  BY <1>1
<1>6. Stage[to] > Stage[ticket[s][z]]
  BY <1>5, MovesAdvance
<1>7. \A x \in Sales, y \in Zones :
         ticket'[x][y] = IF x = s /\ y = z THEN to ELSE ticket[x][y]
  BY <1>1, <1>2
<1> QED
  BY <1>4, <1>6, <1>7 DEF Advances

\* A row of the board rewritten ticket by ticket, each kept or moved along.
LEMMA OneSale ==
    ASSUME KitchenInv, NEW s \in Sales, NEW row \in [Zones -> TicketStatus],
           \A z \in Zones : row[z] # ticket[s][z] => Stage[row[z]] > Stage[ticket[s][z]],
           ticket' = [ticket EXCEPT ![s] = row]
    PROVE  ticket' \in [Sales -> [Zones -> TicketStatus]] /\ Advances
BY DEF KitchenInv, KitchenTypeOK, Advances

LEMMA CancelledStep ==
    ASSUME KitchenInv, NEW s \in Sales, ticket' = Cancelled(s)
    PROVE  ticket' \in [Sales -> [Zones -> TicketStatus]] /\ Advances
<1> DEFINE row == [z \in Zones |->
               IF ticket[s][z] \in OnBoard THEN "cancelled" ELSE ticket[s][z]]
<1>1. ticket \in [Sales -> [Zones -> TicketStatus]]
  BY DEF KitchenInv, KitchenTypeOK
<1>2. row \in [Zones -> TicketStatus]
  BY <1>1 DEF TicketStatus
<1>3. \A z \in Zones : row[z] # ticket[s][z] => Stage[row[z]] > Stage[ticket[s][z]]
  BY DEF OnBoard, Stage
<1>4. ticket' = [ticket EXCEPT ![s] = row]
  BY DEF Cancelled
<1> HIDE DEF row
<1> QED
  BY <1>2, <1>3, <1>4, OneSale

LEMMA FanOutStep ==
    ASSUME KitchenInv, NEW s \in Sales, FanOut(s)
    PROVE  ticket' \in [Sales -> [Zones -> TicketStatus]] /\ Advances /\ intent' = intent
<1> DEFINE row == [z \in Zones |-> IF ticket[s][z] = "none" THEN "pending" ELSE ticket[s][z]]
<1>1. ticket \in [Sales -> [Zones -> TicketStatus]]
  BY DEF KitchenInv, KitchenTypeOK
<1>2. row \in [Zones -> TicketStatus]
  BY <1>1 DEF TicketStatus, OnBoard
<1>3. \A z \in Zones : row[z] # ticket[s][z] => Stage[row[z]] > Stage[ticket[s][z]]
  BY DEF Stage
<1>4. ticket' = [ticket EXCEPT ![s] = row] /\ intent' = intent
  BY DEF FanOut
<1> HIDE DEF row
<1> QED
  BY <1>2, <1>3, <1>4, OneSale

LEMMA ReadTicketStep ==
    ASSUME KitchenInv, NEW d \in Screens, NEW s \in Sales, NEW z \in Zones,
           ReadTicket(d, s, z)
    PROVE  KitchenInv' /\ Advances
<1>1. PICK to \in TicketStatus :
          /\ MayBecome(ticket[s][z], to)
          /\ intent' = [intent EXCEPT ![d] =
                           [sale |-> s, zone |-> z, from |-> ticket[s][z], to |-> to]]
  BY DEF ReadTicket
<1> DEFINE i == [sale |-> s, zone |-> z, from |-> ticket[s][z], to |-> to]
<1>2. ticket[s][z] \in OnBoard
  BY <1>1, MovesAdvance DEF KitchenInv, KitchenTypeOK
<1>3. i \in Intents /\ MayBecome(i.from, i.to)
  BY <1>1, <1>2 DEF Intents
<1> HIDE DEF i
<1>4. intent' = [intent EXCEPT ![d] = i] /\ ticket' = ticket
  BY <1>1 DEF ReadTicket, i
<1> QED
  BY <1>3, <1>4 DEF KitchenInv, KitchenTypeOK, Advances

LEMMA WriteTicketStep ==
    ASSUME KitchenInv, NEW d \in Screens, WriteTicket(d)
    PROVE  KitchenInv' /\ Advances
<1> DEFINE i == intent[d]
<1>1. i \in Intents /\ MayBecome(i.from, i.to)
  BY DEF WriteTicket, KitchenInv, KitchenTypeOK
<1>2. i.sale \in Sales /\ i.zone \in Zones /\ i.to \in TicketStatus
  BY <1>1 DEF Intents
<1>3. intent' = [intent EXCEPT ![d] = Idle]
  BY DEF WriteTicket
<1>4. ticket' \in [Sales -> [Zones -> TicketStatus]] /\ Advances
  <2>1. CASE ticket[i.sale][i.zone] = i.from
    <3>1. ticket' = [ticket EXCEPT ![i.sale][i.zone] = i.to]
      BY <2>1 DEF WriteTicket
    <3> HIDE DEF i
    <3> QED
      BY <1>1, <1>2, <2>1, <3>1, OneTicket
  <2>2. CASE ticket[i.sale][i.zone] # i.from
    BY <2>2 DEF WriteTicket, KitchenInv, KitchenTypeOK, Advances
  <2> QED
    BY <2>1, <2>2
<1>5. \A x \in Screens : intent'[x] # Idle => intent'[x] = intent[x]
  BY <1>3 DEF KitchenInv, KitchenTypeOK
<1>6. intent' \in [Screens -> Intents \union {Idle}]
  BY <1>3 DEF KitchenInv, KitchenTypeOK
<1> QED
  BY <1>4, <1>5, <1>6 DEF KitchenInv, KitchenTypeOK

LEMMA AckTicketStep ==
    ASSUME KitchenInv, NEW s \in Sales, NEW z \in Zones, AckTicket(s, z)
    PROVE  KitchenInv' /\ Advances
<1>1. /\ ticket[s][z] = "pending" /\ ticket' = [ticket EXCEPT ![s][z] = "preparing"]
      /\ intent' = intent
  BY DEF AckTicket
<1>2. "preparing" \in TicketStatus /\ MayBecome("pending", "preparing")
  BY DEF TicketStatus, OnBoard, MayBecome
<1>3. ticket' \in [Sales -> [Zones -> TicketStatus]] /\ Advances
  BY <1>1, <1>2, OneTicket
<1> QED
  BY <1>1, <1>3 DEF KitchenInv, KitchenTypeOK

LEMMA KitchenKept ==
    ASSUME KitchenInv, KitchenStep
    PROVE  KitchenInv' /\ Advances
<1>1. CASE UNCHANGED kitchenVars
  BY <1>1 DEF kitchenVars, KitchenInv, KitchenTypeOK, Advances
<1>2. ASSUME NEW s \in Sales, ticket' = Cancelled(s), UNCHANGED intent
      PROVE  KitchenInv' /\ Advances
  BY <1>2, CancelledStep DEF KitchenInv, KitchenTypeOK
<1>3. ASSUME NEW s \in Sales, FanOut(s)
      PROVE  KitchenInv' /\ Advances
  BY <1>3, FanOutStep DEF KitchenInv, KitchenTypeOK
<1>4. CASE KitchenNext
  BY <1>4, ReadTicketStep, WriteTicketStep, AckTicketStep DEF KitchenNext
<1> QED
  BY <1>1, <1>2, <1>3, <1>4 DEF KitchenStep

LEMMA KitchenInitEstablishes == KitchenInit => KitchenInv
BY DEF KitchenInit, KitchenInv, KitchenTypeOK, TicketStatus
-----------------------------------------------------------------------------
(* The sales *)

Nothing == [qty |-> 0, money |-> 0, points |-> 0]

\* Refunds stay within the sale, in units, money and points; a sale without
\* refunds is what checkout left, and a sale is of at least one unit.
SaleInv ==
    /\ SaleTypeOK
    /\ \A s \in Sales :
          /\ status[s] \in {"none", "pending"} => back[s] = Nothing
          /\ status[s] # "none" => sold[s] > 0
          /\ back[s].qty <= sold[s]
          /\ back[s].money <= Total(s)
          /\ back[s].points <= earned[s]

\* Completed and voided are final.
StatusFinal ==
    \A s \in Sales : status[s] \in {"completed", "voided"} => status'[s] = status[s]

LEMMA SaleInitEstablishes == SaleInit => SaleInv
<1> SUFFICES ASSUME SaleInit PROVE SaleInv
  OBVIOUS
<1>1. Price \in Nat
  BY SaleConstants
<1>2. \A s \in Sales : back[s] = Nothing /\ sold[s] = 0 /\ earned[s] = 0 /\ status[s] = "none"
  BY DEF SaleInit, Nothing
<1>3. SaleTypeOK
  BY DEF SaleInit, SaleTypeOK, Statuses
<1> QED
  BY <1>1, <1>2, <1>3 DEF SaleInv, Nothing, Total

\* An award adds points, to the sale and to the account alike.
LEMMA AwardKept ==
    ASSUME SaleTypeOK, NEW s \in Sales, NEW n \in Nat, Award(s, n)
    PROVE  /\ earned' \in [Sales -> Nat] /\ points' \in Nat /\ lifetime' \in Nat
           /\ redeemed' = redeemed
           /\ \A x \in Sales : earned[x] <= earned'[x]
<1> DEFINE full == IF s \in Members /\ earned[s] = 0 THEN Rounded(n, PointCost) ELSE 0
<1>1. full \in Nat
  BY RoundedType, SaleConstants
<1>2. PICK p \in {0, full} :
         /\ earned' = [earned EXCEPT ![s] = earned[s] + p]
         /\ points' = points + p /\ lifetime' = lifetime + p /\ redeemed' = redeemed
  BY DEF Award
<1> HIDE DEF full
<1> QED
  BY <1>1, <1>2 DEF SaleTypeOK

\* The sales other than s, and the books of s, as far as they stand still.
LEMMA RecordKept ==
    ASSUME SaleInv, NEW s \in Sales, NEW q \in Nat \ {0}, NEW alloc, NEW st \in Statuses,
           Record(s, q, alloc, st),
           paid' \in [Sales -> BOOLEAN],
           UNCHANGED loyaltyVars \/ Award(s, q * Price)
    PROVE  SaleInv' /\ StatusFinal
<1>1. /\ status[s] = "none" /\ back[s] = Nothing
      /\ status' = [status EXCEPT ![s] = st] /\ sold' = [sold EXCEPT ![s] = q]
      /\ stale' = stale /\ reaping' = reaping /\ told' = told /\ back' = back
  BY DEF Record, SaleInv
<1>2. /\ earned' \in [Sales -> Nat] /\ points' \in Nat /\ lifetime' \in Nat
      /\ redeemed' = redeemed
      /\ \A x \in Sales : earned[x] <= earned'[x]
  <2>1. CASE UNCHANGED loyaltyVars
    BY <2>1 DEF loyaltyVars, SaleInv, SaleTypeOK
  <2>2. CASE Award(s, q * Price)
    <3>1. q * Price \in Nat
      BY ProductType, SaleConstants
    <3> QED
      BY <2>2, <3>1, AwardKept DEF SaleInv
  <2> QED
    BY <2>1, <2>2
<1>3. SaleTypeOK'
  BY <1>1, <1>2 DEF SaleInv, SaleTypeOK
<1>4. ASSUME NEW x \in Sales
      PROVE  /\ status'[x] \in {"none", "pending"} => back'[x] = Nothing
             /\ status'[x] # "none" => sold'[x] > 0
             /\ back'[x].qty <= sold'[x]
             /\ back'[x].money <= Total(x)'
             /\ back'[x].points <= earned'[x]
  <2>1. back'[x].points <= earned'[x]
    <3>1. back[x] \in [qty : Nat, money : Nat, points : Nat] /\ earned[x] \in Nat
      BY DEF SaleInv, SaleTypeOK
    <3>2. back[x].points \in Nat /\ back[x].points <= earned[x] /\ earned'[x] \in Nat
      BY <1>2, <3>1 DEF SaleInv
    <3> QED
      BY <1>1, <1>2, <3>1, <3>2
  <2>2. CASE x = s
    <3>1. sold'[x] = q /\ status'[x] = st /\ back'[x] = Nothing
      BY <1>1, <2>2 DEF SaleInv, SaleTypeOK
    <3>2. Total(x)' = q * Price /\ q * Price \in Nat
      BY <3>1, ProductType, SaleConstants DEF Total
    <3> QED
      BY <2>1, <3>1, <3>2 DEF Nothing
  <2>3. CASE x # s
    <3>1. sold'[x] = sold[x] /\ status'[x] = status[x] /\ back'[x] = back[x]
      BY <1>1, <2>3 DEF SaleInv, SaleTypeOK
    <3>2. Total(x)' = Total(x)
      BY <3>1 DEF Total
    <3> QED
      BY <2>1, <3>1, <3>2 DEF SaleInv
  <2> QED
    BY <2>2, <2>3
<1>5. StatusFinal
  BY <1>1 DEF StatusFinal, SaleInv, SaleTypeOK
<1> QED
  BY <1>3, <1>4, <1>5 DEF SaleInv

\* A step that moves no units and no refunds: the status of pending sales may
\* change, points may be awarded.
LEMMA BooksKept ==
    ASSUME SaleInv, SaleTypeOK', UNCHANGED <<sold, back>>,
           \A x \in Sales : \/ status'[x] = status[x]
                            \/ status[x] = "pending" /\ status'[x] # "none",
           \A x \in Sales : earned[x] <= earned'[x]
    PROVE  SaleInv' /\ StatusFinal
<1>1. ASSUME NEW x \in Sales
      PROVE  /\ status'[x] \in {"none", "pending"} => back'[x] = Nothing
             /\ status'[x] # "none" => sold'[x] > 0
             /\ back'[x].qty <= sold'[x]
             /\ back'[x].money <= Total(x)'
             /\ back'[x].points <= earned'[x]
  <2>1. back[x].points <= earned'[x]
    BY DEF SaleInv, SaleTypeOK
  <2>2. Total(x)' = Total(x)
    BY DEF Total
  <2> QED
    BY <2>1, <2>2 DEF SaleInv
<1>2. StatusFinal
  BY DEF StatusFinal
<1> QED
  BY <1>1, <1>2 DEF SaleInv

LEMMA SettleKept ==
    ASSUME SaleInv, NEW s \in Sales, Settle(s),
           UNCHANGED <<sold, back, stale, reaping, paid>>, told' \in [Sales -> BOOLEAN]
    PROVE  SaleInv' /\ StatusFinal
<1>0. SaleTypeOK /\ \A x \in Sales : earned[x] <= earned[x]
  BY DEF SaleInv, SaleTypeOK
<1>1. CASE status[s] = "pending"
  <2>1. status' = [status EXCEPT ![s] = "completed"] /\ Award(s, Total(s))
    BY <1>1 DEF Settle
  <2>2. Total(s) \in Nat
    BY <1>0, ProductType, SaleConstants DEF Total, SaleTypeOK
  <2>3. /\ earned' \in [Sales -> Nat] /\ points' \in Nat /\ lifetime' \in Nat
        /\ redeemed' = redeemed
        /\ \A x \in Sales : earned[x] <= earned'[x]
    BY <1>0, <2>1, <2>2, AwardKept
  <2>4. SaleTypeOK'
    BY <1>0, <2>1, <2>3 DEF SaleTypeOK, Statuses
  <2>5. \A x \in Sales : \/ status'[x] = status[x]
                         \/ status[x] = "pending" /\ status'[x] # "none"
    BY <1>0, <1>1, <2>1 DEF SaleTypeOK
  <2> QED
    BY <2>3, <2>4, <2>5, BooksKept
<1>2. CASE status[s] # "pending"
  <2>1. UNCHANGED <<status, loyaltyVars>>
    BY <1>2 DEF Settle
  <2>2. SaleTypeOK'
    BY <1>0, <2>1 DEF SaleTypeOK, loyaltyVars
  <2> QED
    BY <1>0, <2>1, <2>2, BooksKept DEF loyaltyVars
<1> QED
  BY <1>1, <1>2

LEMMA VoidKept ==
    ASSUME SaleInv, NEW s \in Sales, VoidPending(s), reaping' \subseteq Sales
    PROVE  SaleInv' /\ StatusFinal
<1>0. SaleTypeOK /\ \A x \in Sales : earned[x] <= earned[x]
  BY DEF SaleInv, SaleTypeOK
<1>1. status[s] = "pending" /\ status' = [status EXCEPT ![s] = "voided"]
      /\ UNCHANGED <<sold, back, stale, paid, told, loyaltyVars>>
  BY DEF VoidPending, moneyVars
<1>2. SaleTypeOK'
  BY <1>0, <1>1 DEF SaleTypeOK, Statuses, loyaltyVars
<1>3. \A x \in Sales : \/ status'[x] = status[x]
                       \/ status[x] = "pending" /\ status'[x] # "none"
  BY <1>0, <1>1 DEF SaleTypeOK
<1> QED
  BY <1>0, <1>1, <1>2, <1>3, BooksKept DEF loyaltyVars

\* The steps that leave sales and accounts alone.
LEMMA OtherKept ==
    ASSUME SaleInv, UNCHANGED <<status, sold, back, loyaltyVars>>,
           stale' \in [Sales -> BOOLEAN], reaping' \subseteq Sales,
           paid' \in [Sales -> BOOLEAN], told' \in [Sales -> BOOLEAN]
    PROVE  SaleInv' /\ StatusFinal
<1>0. SaleTypeOK /\ \A x \in Sales : earned[x] <= earned[x]
  BY DEF SaleInv, SaleTypeOK
<1>1. SaleTypeOK'
  BY <1>0 DEF SaleTypeOK, loyaltyVars
<1> QED
  BY <1>0, <1>1, BooksKept DEF loyaltyVars

LEMMA RedeemKept ==
    ASSUME SaleInv, NEW s \in Sales, NEW p \in Nat, RedeemPoints(s, p)
    PROVE  SaleInv' /\ StatusFinal
<1>0. SaleTypeOK /\ \A x \in Sales : earned[x] <= earned[x]
  BY DEF SaleInv, SaleTypeOK
<1>1. /\ p \in 1 .. Lesser(points, Total(s)) /\ redeemed' = [redeemed EXCEPT ![s] = p]
      /\ points' = points - p
      /\ UNCHANGED <<status, sold, stale, reaping, paid, told, back, earned, lifetime>>
  BY DEF RedeemPoints, moneyVars
<1>2. Total(s) \in Nat /\ points \in Nat
  BY <1>0, ProductType, SaleConstants DEF Total, SaleTypeOK
<1>3. p <= points
  BY <1>1, <1>2 DEF Lesser
<1>4. points' \in Nat
  BY <1>1, <1>2, <1>3
<1>5. SaleTypeOK'
  BY <1>0, <1>1, <1>4 DEF SaleTypeOK
<1> QED
  BY <1>0, <1>1, <1>5, BooksKept

\* What a refund takes back of the points: never more than what is left of them.
LEMMA ReversalBounded ==
    ASSUME SaleInv, NEW s \in Sales, status[s] # "none", NEW m \in Nat
    PROVE  Reversal(s, m) \in Nat /\ back[s].points + Reversal(s, m) <= earned[s]
<1>1. /\ earned[s] \in Nat /\ sold[s] \in Nat /\ sold[s] > 0
      /\ back[s].points \in Nat /\ back[s].points <= earned[s]
  BY DEF SaleInv, SaleTypeOK
<1>2. Total(s) \in Nat \ {0}
  BY <1>1, ProductType, SaleConstants DEF Total
<1>3. earned[s] * m \in Nat
  BY <1>1, ProductType
<1>4. Rounded(earned[s] * m, Total(s)) \in Nat
  BY <1>2, <1>3, RoundedType
<1> QED
  BY <1>1, <1>4 DEF Reversal, Lesser

LEMMA RefundKept ==
    ASSUME SaleInv, NEW s \in Sales, NEW q \in Nat, NEW m \in Nat, CreateRefund(s, q, m)
    PROVE  SaleInv' /\ StatusFinal
<1>0. SaleTypeOK /\ back[s] \in [qty : Nat, money : Nat, points : Nat]
  BY DEF SaleInv, SaleTypeOK
<1>a. PICK p \in {0, Reversal(s, m)} :
         /\ back' = [back EXCEPT ![s] = [qty |-> @.qty + q, money |-> @.money + m,
                                         points |-> @.points + p]]
         /\ points' = IF points >= p THEN points - p ELSE 0
         /\ lifetime' = IF lifetime >= p THEN lifetime - p ELSE 0
  BY DEF CreateRefund
<1> DEFINE b == [qty |-> back[s].qty + q, money |-> back[s].money + m,
                 points |-> back[s].points + p]
<1>1. p \in Nat /\ back[s].points + p <= earned[s]
  <2>1. back[s].points \in Nat /\ back[s].points <= earned[s]
    BY DEF SaleInv, SaleTypeOK
  <2> QED
    BY <2>1, ReversalBounded DEF CreateRefund
<1>2. /\ back[s].qty \in Nat /\ back[s].money \in Nat /\ back[s].points \in Nat
  BY <1>0
<1>3. b \in [qty : Nat, money : Nat, points : Nat]
  BY <1>1, <1>2
<1>4. /\ b.qty <= sold[s] /\ b.money <= Total(s) /\ b.points <= earned[s]
  BY <1>1 DEF CreateRefund, WithinBounds
<1>5. /\ status[s] = "completed"
      /\ back' = [back EXCEPT ![s] = b]
      /\ points' = IF points >= p THEN points - p ELSE 0
      /\ lifetime' = IF lifetime >= p THEN lifetime - p ELSE 0
      /\ UNCHANGED <<status, sold, stale, reaping, paid, told, earned, redeemed>>
  BY <1>0, <1>a DEF CreateRefund, moneyVars, SaleTypeOK
<1> HIDE DEF b
<1>6. points' \in Nat /\ lifetime' \in Nat
  BY <1>0, <1>1, <1>5 DEF SaleTypeOK
<1>7. back' \in [Sales -> [qty : Nat, money : Nat, points : Nat]]
  BY <1>0, <1>3, <1>5 DEF SaleTypeOK
<1>8. SaleTypeOK'
  BY <1>0, <1>5, <1>6, <1>7 DEF SaleTypeOK
<1>9. ASSUME NEW x \in Sales
      PROVE  /\ status'[x] \in {"none", "pending"} => back'[x] = Nothing
             /\ status'[x] # "none" => sold'[x] > 0
             /\ back'[x].qty <= sold'[x]
             /\ back'[x].money <= Total(x)'
             /\ back'[x].points <= earned'[x]
  <2>1. Total(x)' = Total(x)
    BY <1>5 DEF Total
  <2>2. back'[x] = IF x = s THEN b ELSE back[x]
    BY <1>0, <1>5 DEF SaleTypeOK
  <2>3. CASE x = s
    BY <1>4, <1>5, <2>1, <2>2, <2>3 DEF SaleInv
  <2>4. CASE x # s
    BY <1>5, <2>1, <2>2, <2>4 DEF SaleInv
  <2> QED
    BY <2>3, <2>4
<1>10. StatusFinal
  BY <1>5 DEF StatusFinal
<1> QED
  BY <1>8, <1>9, <1>10 DEF SaleInv
=============================================================================
