------------------------------ MODULE StoreProofs ------------------------------
(***************************************************************************)
(* What Store promises for every number of sales, transfers, counts and     *)
(* orders, every price and every route: refunds stay within the sale, a     *)
(* sale is settled once, tickets only advance; no unit of stock is lost,    *)
(* what comes back is what was taken, the loyalty account is its ledger,    *)
(* and a count that is completed holds.                                    *)
(***************************************************************************)
EXTENDS Store, SaleLedgerProofs, Sums

StoreInv == SaleInv /\ KitchenInv

LEMMA StoreInitEstablishes == StoreInit => StoreInv
BY SaleInitEstablishes, KitchenInitEstablishes DEF StoreInit, Init, StoreInv

\* Every step of a sale is one of the kinds SaleLedgerProofs looks at.
LEMMA SaleStepKeeps ==
    ASSUME SaleInv, NEW s \in Sales, SaleStep(s)
    PROVE  SaleInv' /\ StatusFinal
<1>0. SaleTypeOK
  BY DEF SaleInv
<1>1. ASSUME NEW q \in 1 .. MaxQty, Checkout(s, q)
      PROVE  SaleInv' /\ StatusFinal
  <2>1. PICK alloc : Record(s, q, alloc, "pending")
    BY <1>1 DEF Checkout
  <2>2. q \in Nat \ {0} /\ "pending" \in Statuses
    BY SaleConstants DEF Statuses
  <2>3. paid' \in [Sales -> BOOLEAN] /\ UNCHANGED loyaltyVars
    BY <1>0, <1>1 DEF Checkout, SaleTypeOK
  <2> QED
    BY <2>1, <2>2, <2>3, RecordKept
<1>2. ASSUME NEW q \in 1 .. MaxQty, NEW a \in Resolutions(q), CheckoutResolved(s, q, a)
      PROVE  SaleInv' /\ StatusFinal
  <2>1. Record(s, q, a, "completed") /\ Award(s, q * Price)
    BY <1>2 DEF CheckoutResolved
  <2>2. q \in Nat \ {0} /\ "completed" \in Statuses
    BY SaleConstants DEF Statuses
  <2>3. paid' \in [Sales -> BOOLEAN]
    BY <1>0, <1>2 DEF CheckoutResolved, SaleTypeOK
  <2> QED
    BY <2>1, <2>2, <2>3, RecordKept
<1>3. ASSUME Capture(s) \/ SendToKitchen(s) \/ Expire(s)
      PROVE  SaleInv' /\ StatusFinal
  BY <1>0, <1>3, OtherKept DEF Capture, SendToKitchen, Expire, saleVars, moneyVars, SaleTypeOK
<1>4. ASSUME Finalize(s)
      PROVE  SaleInv' /\ StatusFinal
  BY <1>0, <1>4, SettleKept DEF Finalize, SaleTypeOK
<1>5. ASSUME CancelCheckout(s)
      PROVE  SaleInv' /\ StatusFinal
  BY <1>0, <1>5, VoidKept DEF CancelCheckout, SaleTypeOK
<1>6. ASSUME Reap(s)
      PROVE  SaleInv' /\ StatusFinal
  <2>1. reaping' \subseteq Sales
    BY <1>0, <1>6 DEF Reap, SaleTypeOK
  <2>2. CASE VoidPending(s)
    BY <2>1, <2>2, VoidKept
  <2>3. CASE UNCHANGED <<stock, kitchenVars, status, sold, taken, stale, moneyVars, back,
                         returned, loyaltyVars>>
    BY <1>0, <2>1, <2>3, OtherKept DEF moneyVars, SaleTypeOK
  <2> QED
    BY <1>6, <2>2, <2>3 DEF Reap
<1>7. ASSUME NEW q \in 1 .. MaxQty, NEW m \in 0 .. MaxQty * Price, CreateRefund(s, q, m)
      PROVE  SaleInv' /\ StatusFinal
  BY <1>7, RefundKept, SaleConstants
<1>8. ASSUME NEW p \in 1 .. MaxQty * Price, RedeemPoints(s, p)
      PROVE  SaleInv' /\ StatusFinal
  BY <1>8, RedeemKept, SaleConstants
<1> QED
  BY <1>1, <1>2, <1>3, <1>4, <1>5, <1>6, <1>7, <1>8 DEF SaleStep

\* Checkout, cancellations, fan-outs and refunds are legal on the board as well.
LEMMA SaleStepKitchen ==
    ASSUME NEW s \in Sales, SaleStep(s)
    PROVE  KitchenStep
BY DEF SaleStep, KitchenStep, Checkout, CheckoutResolved, Record, Capture, SendToKitchen,
       Finalize, CancelCheckout, VoidPending, Expire, Reap, CreateRefund, RedeemPoints,
       kitchenVars

LEMMA StoreStep ==
    ASSUME StoreInv, [StoreNext]_storeVars
    PROVE  StoreInv' /\ StatusFinal /\ Advances
<1>0. SaleInv /\ KitchenInv /\ SaleTypeOK
  BY DEF StoreInv, SaleInv
<1>1. ASSUME NEW s \in Sales, SaleStep(s)
      PROVE  StoreInv' /\ StatusFinal /\ Advances
  BY <1>0, <1>1, SaleStepKeeps, SaleStepKitchen, KitchenKept DEF StoreInv
<1>2. ASSUME FindStale
      PROVE  StoreInv' /\ StatusFinal /\ Advances
  <2>1. SaleInv' /\ StatusFinal
    BY <1>0, <1>2, OtherKept DEF FindStale, moneyVars, SaleTypeOK
  <2>2. KitchenStep
    BY <1>2 DEF FindStale, KitchenStep
  <2> QED
    BY <1>0, <2>1, <2>2, KitchenKept DEF StoreInv
<1>3. ASSUME UNCHANGED saleVars, KitchenStep
      PROVE  StoreInv' /\ StatusFinal /\ Advances
  <2>1. SaleInv' /\ StatusFinal
    BY <1>0, <1>3, OtherKept DEF saleVars, moneyVars, SaleTypeOK
  <2> QED
    BY <1>0, <1>3, <2>1, KitchenKept DEF StoreInv
<1>4. \/ \E s \in Sales : SaleStep(s)
      \/ FindStale
      \/ UNCHANGED saleVars /\ KitchenStep
  BY DEF StoreNext, Next, storeVars, vars, KitchenStep
<1> QED
  BY <1>1, <1>2, <1>3, <1>4

THEOREM StoreInvariance == StoreSpec => []StoreInv
<1>1. StoreInv /\ [StoreNext]_storeVars => StoreInv'
  BY StoreStep
<1> QED
  BY <1>1, StoreInitEstablishes, PTL DEF StoreSpec

\* No number of partial refunds, each rounded, gives back more units, money or
\* points than the sale took (create_refund, reverse_loyalty_on_refund).
THEOREM RefundsNeverExceed == StoreSpec => []RefundsBounded
<1>1. StoreInv => RefundsBounded
  BY DEF StoreInv, SaleInv, RefundsBounded
<1> QED
  BY <1>1, StoreInvariance, PTL

\* Completed and voided are final, whichever of till, reaper and daemon comes
\* second (finalize_sale, void_pending_sale).
THEOREM SettledForGood == StoreSpec => SettledOnce
<1>1. StoreInv /\ [StoreNext]_storeVars =>
        [\A s \in Sales : status[s] \in {"completed", "voided"} => status'[s] = status[s]]_status
  BY StoreStep DEF StatusFinal
<1> QED
  BY <1>1, StoreInvariance, PTL DEF StoreSpec, SettledOnce

-----------------------------------------------------------------------------
(* Allocations *)

Allocations == Seq([loc : Locations, qty : Nat])

LEMMA FiniteLocations == IsFiniteSet(Locations) /\ Locations # {}
<1>1. Len(Route) \in Nat /\ DOMAIN Route = 1 .. Len(Route)
  BY StockConstants
<1>2. Route \in Surjection(1 .. Len(Route), ToSet(Route))
  BY <1>1, StockConstants DEF ToSet, Surjection
<1>3. IsFiniteSet(1 .. Len(Route))
  BY <1>1, FS_Interval
<1>4. IsFiniteSet(ToSet(Route))
  BY <1>2, <1>3, FS_Surjection
<1> QED
  BY <1>4, FS_AddElement DEF Locations

LEMMA SeqElements ==
    ASSUME NEW R, NEW a \in Seq(R)
    PROVE  \A i \in DOMAIN a : a[i] \in R
OBVIOUS

\* The parts of an allocation, and the indices they have.
LEMMA AllocationParts ==
    ASSUME NEW a \in Allocations
    PROVE  /\ Len(a) \in Nat /\ DOMAIN a = 1 .. Len(a) /\ IsFiniteSet(DOMAIN a)
           /\ DOMAIN Quantities(a) = DOMAIN a
           /\ \A i \in DOMAIN a : /\ a[i].loc \in Locations /\ a[i].qty \in Nat
                                  /\ Quantities(a)[i] = a[i].qty
<1>1. Len(a) \in Nat /\ DOMAIN a = 1 .. Len(a)
  BY DEF Allocations
<1>2. 1 \in Int /\ Len(a) \in Int
  BY <1>1
<1>3. IsFiniteSet(DOMAIN a)
  BY <1>1, <1>2, FS_Interval
<1>4. \A i \in DOMAIN a : a[i] \in [loc : Locations, qty : Nat]
  BY SeqElements DEF Allocations
<1> QED
  BY <1>1, <1>3, <1>4 DEF Quantities

LEMMA UnitsTypes ==
    ASSUME NEW a \in Allocations
    PROVE  Units(a) \in Nat /\ \A l \in Locations : UnitsAt(a, l) \in Nat
<1>1. Units(a) \in Nat
  BY AllocationParts, SumNat DEF Units, SumFunction
<1>2. ASSUME NEW l \in Locations
      PROVE  UnitsAt(a, l) \in Nat
  <2>1. IsFiniteSet({i \in DOMAIN a : a[i].loc = l})
    BY AllocationParts, FS_Subset
  <2> QED
    BY <2>1, AllocationParts, SumNat DEF UnitsAt
<1> QED
  BY <1>1, <1>2

\* What the locations give is what the allocation is of.
LEMMA UnitsByLocation ==
    ASSUME NEW a \in Allocations
    PROVE  SumFunction([l \in Locations |-> UnitsAt(a, l)]) = Units(a)
<1> DEFINE at == [i \in DOMAIN a |-> a[i].loc]
           f == Quantities(a)
<1>1. \A i \in DOMAIN a : at[i] \in Locations /\ f[i] \in Int
  BY AllocationParts
<1>2. \A l \in Locations : {i \in DOMAIN a : at[i] = l} = {i \in DOMAIN a : a[i].loc = l}
  OBVIOUS
<1>3. [l \in Locations |-> UnitsAt(a, l)]
        = [l \in Locations |-> SumFunctionOnSet(f, {i \in DOMAIN a : at[i] = l})]
  BY <1>2 DEF UnitsAt
<1>4. IsFiniteSet(DOMAIN a) /\ DOMAIN f = DOMAIN a
  BY AllocationParts
<1> HIDE DEF at, f
<1>5. SumFunctionOnSet([l \in Locations |-> SumFunctionOnSet(f, {i \in DOMAIN a : at[i] = l})],
                       Locations) = SumFunctionOnSet(f, DOMAIN a)
  BY <1>1, <1>4, FiniteLocations, SumByPlace
<1> QED
  BY <1>3, <1>4, <1>5 DEF SumFunction, Units, f

LEMMA OnHandType ==
    ASSUME NEW st \in [Locations -> Nat]
    PROVE  OnHand(st) \in Nat
BY FiniteLocations, SumNat DEF OnHand, SumFunction

LEMMA CreditAdds ==
    ASSUME stock \in [Locations -> Nat], NEW a \in Allocations
    PROVE  /\ Credit(a) \in [Locations -> Nat]
           /\ OnHand(Credit(a)) = OnHand(stock) + Units(a)
<1> DEFINE u == [l \in Locations |-> UnitsAt(a, l)]
           c == Credit(a)
<1>1. \A l \in Locations : /\ stock[l] \in Int /\ u[l] \in Int /\ c[l] = stock[l] + u[l]
                           /\ c[l] \in Nat
  BY UnitsTypes DEF Credit
<1>2. DOMAIN c = Locations /\ DOMAIN stock = Locations /\ c \in [Locations -> Nat]
  BY <1>1 DEF Credit
<1>3. SumFunctionOnSet(u, Locations) = Units(a)
  BY UnitsByLocation DEF SumFunction
<1> HIDE DEF u, c
<1>4. SumFunctionOnSet(c, Locations)
        = SumFunctionOnSet(stock, Locations) + SumFunctionOnSet(u, Locations)
  BY <1>1, FiniteLocations, SumPlus
<1> QED
  BY <1>2, <1>3, <1>4 DEF c, OnHand, SumFunction

LEMMA DebitTakes ==
    ASSUME stock \in [Locations -> Nat], NEW a \in Allocations, Covers(a)
    PROVE  /\ Debit(a) \in [Locations -> Nat]
           /\ OnHand(Debit(a)) = OnHand(stock) - Units(a)
<1> DEFINE u == [l \in Locations |-> UnitsAt(a, l)]
           c == Debit(a)
<1>1. \A l \in Locations : /\ stock[l] \in Int /\ u[l] \in Int /\ c[l] = stock[l] - u[l]
                           /\ c[l] \in Nat
  BY UnitsTypes DEF Debit, Covers
<1>2. DOMAIN c = Locations /\ DOMAIN stock = Locations /\ c \in [Locations -> Nat]
  BY <1>1 DEF Debit
<1>3. SumFunctionOnSet(u, Locations) = Units(a)
  BY UnitsByLocation DEF SumFunction
<1> HIDE DEF u, c
<1>4. SumFunctionOnSet(c, Locations)
        = SumFunctionOnSet(stock, Locations) - SumFunctionOnSet(u, Locations)
  BY <1>1, FiniteLocations, SumMinus
<1> QED
  BY <1>2, <1>3, <1>4 DEF c, OnHand, SumFunction

LEMMA ParcelUnits ==
    ASSUME NEW l \in Locations, NEW q \in Nat
    PROVE  /\ Parcel(l, q) \in Allocations
           /\ Units(Parcel(l, q)) = q
<1> DEFINE a == Parcel(l, q)
<1>1. a \in Allocations /\ DOMAIN a = {1} /\ a[1].qty = q
  BY DEF Parcel, Allocations
<1>2. DOMAIN Quantities(a) = {1} /\ Quantities(a)[1] = q
  BY <1>1 DEF Quantities
<1>3. SumFunctionOnSet(Quantities(a), {1}) = q
  BY <1>2, SumOfOne
<1> QED
  BY <1>1, <1>2, <1>3 DEF Units, SumFunction

\* Two parts, as the cashier splits them.
LEMMA ResolutionUnits ==
    ASSUME NEW q \in Nat, NEW a \in Resolutions(q)
    PROVE  a \in Allocations /\ Units(a) = q
<1>1. PICK l \in Locations, m \in Locations, n \in 1 .. q - 1 :
          a = <<[loc |-> l, qty |-> n], [loc |-> m, qty |-> q - n]>>
  BY DEF Resolutions
<1>2. a \in Allocations /\ DOMAIN a = {1} \union {2} /\ a[1].qty = n /\ a[2].qty = q - n
  BY <1>1 DEF Allocations
<1> DEFINE f == Quantities(a)
<1>3. DOMAIN f = {1} \union {2} /\ f[1] = n /\ f[2] = q - n
  BY <1>2 DEF Quantities
<1> HIDE DEF f
<1>4. SumFunctionOnSet(f, {1}) = n
  BY <1>3, SumOfOne
<1>5. SumFunctionOnSet(f, {1} \union {2}) = SumFunctionOnSet(f, {1}) + f[2]
  <2>1. IsFiniteSet({1})
    BY FS_Singleton
  <2>2. 2 \notin {1} /\ f[2] \in Int /\ \A x \in {1} : f[x] \in Int
    BY <1>3
  <2> QED
    BY <2>1, <2>2, SumAdd
<1> QED
  BY <1>2, <1>3, <1>4, <1>5 DEF Units, SumFunction, f

-----------------------------------------------------------------------------
(* The waterfall *)

LEMMA WaterfallFills ==
    ASSUME NEW a \in Allocations, NEW q \in Nat
    PROVE  /\ Waterfall(a, q) \in Allocations
           /\ Units(Waterfall(a, q)) = Lesser(Units(a), q)
           /\ \A l \in Locations : UnitsAt(Waterfall(a, q), l) <= UnitsAt(a, l)
<1> DEFINE n == Len(a)
           f == Quantities(a)
           before(i) == SumFunctionOnSet(f, 1 .. i - 1)
           part(i) == IF before(i) < q THEN Lesser(a[i].qty, q - before(i)) ELSE 0
           w == Waterfall(a, q)
           g == Quantities(w)
<1>1. n \in Nat /\ DOMAIN a = 1 .. n /\ \A i \in 1 .. n : f[i] \in Nat /\ f[i] = a[i].qty
  BY AllocationParts
<1>2. \A i \in 1 .. n + 1 : IsFiniteSet(1 .. i - 1) /\ 1 .. i - 1 \subseteq 1 .. n
  <2> TAKE i \in 1 .. n + 1
  <2>1. 1 \in Int /\ i - 1 \in Int
    BY <1>1
  <2>2. IsFiniteSet(1 .. i - 1)
    BY <2>1, FS_Interval
  <2>3. \A x \in 1 .. i - 1 : x \in 1 .. n
    BY <1>1
  <2> QED
    BY <2>2, <2>3
<1>3. \A i \in 1 .. n + 1 : before(i) \in Nat
  <2> TAKE i \in 1 .. n + 1
  <2>1. \A x \in 1 .. i - 1 : f[x] \in Nat
    BY <1>1, <1>2
  <2> HIDE DEF f
  <2> QED
    BY <1>2, <2>1, SumNat
<1>4. \A i \in 1 .. n : part(i) \in Nat /\ part(i) <= f[i]
  <2> HIDE DEF f, before
  <2> QED
    BY <1>1, <1>3 DEF Lesser
<1>5. w = [i \in 1 .. n |-> [loc |-> a[i].loc, qty |-> part(i)]]
  BY <1>1 DEF Waterfall
<1>6. w \in Allocations
  <2> HIDE DEF part, w
  <2>1. \A i \in 1 .. n : [loc |-> a[i].loc, qty |-> part(i)] \in [loc : Locations, qty : Nat]
    BY <1>1, <1>4, AllocationParts
  <2> QED
    BY <1>1, <1>5, <2>1 DEF Allocations
<1>7. \A i \in 1 .. n : w[i].loc = a[i].loc /\ g[i] = part(i)
  <2> HIDE DEF part, w
  <2> QED
    BY <1>5 DEF g, Quantities
<1>8. DOMAIN g = 1 .. n /\ DOMAIN w = 1 .. n /\ DOMAIN f = 1 .. n
  <2> HIDE DEF part, w
  <2> QED
    BY <1>1, <1>5 DEF g, f, Quantities
<1>9. \A l \in Locations : UnitsAt(w, l) <= UnitsAt(a, l)
  <2> TAKE l \in Locations
  <2> DEFINE S == {i \in 1 .. n : a[i].loc = l}
  <2>1. {i \in DOMAIN w : w[i].loc = l} = S /\ {i \in DOMAIN a : a[i].loc = l} = S
    <3> HIDE DEF w
    <3> QED
      BY <1>1, <1>7, <1>8
  <2>2. IsFiniteSet(S)
    BY <1>1, FS_Interval, FS_Subset
  <2>3. \A i \in S : g[i] \in Int /\ f[i] \in Int /\ g[i] <= f[i]
    <3> HIDE DEF f, g, part
    <3> QED
      BY <1>1, <1>4, <1>7
  <2>4. SumFunctionOnSet(g, S) <= SumFunctionOnSet(f, S)
    <3> HIDE DEF f, g, S
    <3> QED
      BY <2>2, <2>3, SumAtMost
  <2>5. UnitsAt(w, l) = SumFunctionOnSet(g, S) /\ UnitsAt(a, l) = SumFunctionOnSet(f, S)
    <3> HIDE DEF w, S
    <3> QED
      BY <2>1 DEF UnitsAt, g, f
  <2> HIDE DEF w, f, g, S
  <2> QED
    BY <2>4, <2>5
\* After i entries the waterfall has found what they have, up to q.
<1> DEFINE filled(i) == SumFunctionOnSet(g, 1 .. i) = Lesser(SumFunctionOnSet(f, 1 .. i), q)
           G == {i \in 0 .. n : filled(i)}
<1>10. \A i \in 0 .. n : i \in G
  <2>1. 0 \in G
    <3>1. 1 .. 0 = {}
      OBVIOUS
    <3>2. filled(0)
      BY <3>1, SumEmpty DEF Lesser
    <3> QED
      BY <1>1, <3>2
  <2>2. ASSUME NEW i \in 1 .. n, i - 1 \in G
        PROVE  i \in G
    <3>1. filled(i - 1)
      BY <2>2
    <3>2. 1 .. i = (1 .. i - 1) \union {i} /\ i \notin 1 .. i - 1 /\ IsFiniteSet(1 .. i - 1)
      BY <1>1, <1>2
    <3>3. /\ \A x \in 1 .. i - 1 : f[x] \in Int /\ g[x] \in Int
          /\ f[i] \in Nat /\ g[i] = part(i) /\ g[i] \in Nat
      <4> HIDE DEF f, g, part
      <4> QED
        BY <1>1, <1>4, <1>7
    <3>4. SumFunctionOnSet(f, 1 .. i) = SumFunctionOnSet(f, 1 .. i - 1) + f[i]
      <4> DEFINE S == 1 .. i - 1
      <4>1. \A x \in S : f[x] \in Int
        BY <3>3
      <4>2. i \notin S /\ IsFiniteSet(S) /\ 1 .. i = S \union {i} /\ f[i] \in Int
        BY <3>2, <3>3
      <4> HIDE DEF f, S
      <4>3. SumFunctionOnSet(f, S \union {i}) = SumFunctionOnSet(f, S) + f[i]
        BY <4>1, <4>2, SumAdd
      <4> QED
        BY <4>2, <4>3 DEF S
    <3>5. SumFunctionOnSet(g, 1 .. i) = SumFunctionOnSet(g, 1 .. i - 1) + g[i]
      <4> DEFINE S == 1 .. i - 1
      <4>1. \A x \in S : g[x] \in Int
        BY <3>3
      <4>2. i \notin S /\ IsFiniteSet(S) /\ 1 .. i = S \union {i} /\ g[i] \in Int
        BY <3>2, <3>3
      <4> HIDE DEF g, S, part
      <4>3. SumFunctionOnSet(g, S \union {i}) = SumFunctionOnSet(g, S) + g[i]
        BY <4>1, <4>2, SumAdd
      <4> QED
        BY <4>2, <4>3 DEF S
    <3>6. before(i) \in Nat /\ f[i] = a[i].qty
      BY <1>1, <1>3
    <3>7. filled(i)
      <4> HIDE DEF f, g
      <4> QED
        BY <3>1, <3>3, <3>4, <3>5, <3>6 DEF Lesser
    <3> QED
      BY <3>7
  <2> HIDE DEF G
  <2> QED
    BY <1>1, <2>1, <2>2, CountingUp
<1>11. filled(n)
  BY <1>1, <1>10
<1>12. Units(w) = Lesser(Units(a), q)
  <2>1. Units(w) = SumFunctionOnSet(g, 1 .. n) /\ Units(a) = SumFunctionOnSet(f, 1 .. n)
    <3> HIDE DEF w
    <3> QED
      BY <1>8 DEF Units, SumFunction, f, g
  <2> HIDE DEF w, f, g
  <2> QED
    BY <1>11, <2>1
<1> HIDE DEF w
<1> QED
  BY <1>6, <1>9, <1>12 DEF w

\* Read from the other end, an allocation is of as many units.
LEMMA ReverseUnits ==
    ASSUME NEW a \in Allocations
    PROVE  Reverse(a) \in Allocations /\ Units(Reverse(a)) = Units(a)
<1> DEFINE n == Len(a)
           r == Reverse(a)
           to == [i \in 1 .. n |-> n - i + 1]
<1>1. n \in Nat /\ DOMAIN a = 1 .. n /\ IsFiniteSet(1 .. n)
  BY AllocationParts, FS_Interval
<1>2. r = [i \in 1 .. n |-> a[n - i + 1]]
  BY DEF Reverse
<1>3. r \in Allocations
  <2>1. \A i \in 1 .. n : n - i + 1 \in 1 .. n
    BY <1>1
  <2>2. \A i \in 1 .. n : a[n - i + 1] \in [loc : Locations, qty : Nat]
    BY <1>1, <2>1, SeqElements DEF Allocations
  <2> QED
    BY <1>1, <1>2, <2>2 DEF Allocations
<1>4. DOMAIN r = 1 .. n /\ \A i \in 1 .. n : to[i] \in 1 .. n /\ r[i] = a[to[i]]
  BY <1>1, <1>2
<1>5. \A i, j \in 1 .. n : to[i] = to[j] => i = j
  BY <1>1
<1>6. \A e \in 1 .. n : \E i \in 1 .. n : to[i] = e
  <2> TAKE e \in 1 .. n
  <2>1. n - e + 1 \in 1 .. n /\ to[n - e + 1] = e
    BY <1>1
  <2> QED
    BY <2>1
<1> DEFINE f == Quantities(a)
           g == Quantities(r)
<1> HIDE DEF r, to, n
<1>7. DOMAIN f = 1 .. n /\ DOMAIN g = 1 .. n
  BY <1>1, <1>4 DEF Quantities
<1>8. \A i \in 1 .. n : to[i] \in 1 .. n /\ g[i] = f[to[i]] /\ g[i] \in Int
  BY <1>1, <1>4, AllocationParts DEF Quantities
<1> HIDE DEF f, g
<1>9. SumFunctionOnSet(g, 1 .. n) = SumFunctionOnSet(f, 1 .. n)
  <2> DEFINE S == 1 .. n
  <2>1. IsFiniteSet(S)
    BY <1>1
  <2>2. /\ \A i \in S : to[i] \in S /\ g[i] = f[to[i]] /\ g[i] \in Int
        /\ \A i, j \in S : to[i] = to[j] => i = j
        /\ \A e \in S : \E i \in S : to[i] = e
    BY <1>5, <1>6, <1>8
  <2> HIDE DEF S
  <2>3. SumFunctionOnSet(g, S) = SumFunctionOnSet(f, S)
    BY <2>1, <2>2, SumRenamed
  <2> QED
    BY <2>3 DEF S
<1>10. Units(r) = Units(a)
  BY <1>7, <1>9 DEF Units, SumFunction, f, g
<1> QED
  BY <1>3, <1>10 DEF r

-----------------------------------------------------------------------------
(* The holders of a count *)

\* Every location stands once in the list, with all it has.
LEMMA HoldersHold ==
    ASSUME stock \in [Locations -> Nat]
    PROVE  /\ Holders \in Allocations
           /\ \A l \in Locations : UnitsAt(Holders, l) = stock[l]
           /\ Units(Holders) = OnHand(stock)
           /\ Holders[1].loc \in Locations
<1> DEFINE r == Append(Route, DefaultLocation)
           rank(l) == CHOOSE i \in 1 .. Len(Route) + 1 : l = r[i]
           ahead(l) == {m \in Locations : \/ stock[m] > stock[l]
                                          \/ stock[m] = stock[l] /\ rank(m) < rank(l)}
           n == Cardinality(Locations)
           at(i) == CHOOSE l \in Locations : Cardinality(ahead(l)) = i - 1
           c == [l \in Locations |-> Cardinality(ahead(l)) + 1]
           h == Holders
<1>0. n \in Nat \ {0} /\ IsFiniteSet(Locations)
  BY FiniteLocations, FS_CardinalityType, FS_EmptySet
<1>1. \A l \in Locations : rank(l) \in 1 .. Len(Route) + 1 /\ l = r[rank(l)]
  <2> TAKE l \in Locations
  <2>1. Len(Route) \in Nat /\ DOMAIN Route = 1 .. Len(Route)
    BY StockConstants
  <2>2. r[Len(Route) + 1] = DefaultLocation /\ \A i \in DOMAIN Route : r[i] = Route[i]
    BY <2>1, StockConstants
  <2>3. \E i \in 1 .. Len(Route) + 1 : l = r[i]
    <3> HIDE DEF r
    <3>1. CASE l = DefaultLocation
      <4>1. Len(Route) + 1 \in 1 .. Len(Route) + 1
        BY <2>1
      <4> QED
        BY <2>2, <3>1, <4>1
    <3>2. CASE l \in ToSet(Route)
      <4>1. PICK i \in DOMAIN Route : l = Route[i]
        BY <3>2 DEF ToSet
      <4>2. i \in 1 .. Len(Route) + 1
        BY <2>1, <4>1
      <4> QED
        BY <2>2, <4>1, <4>2
    <3> QED
      BY <3>1, <3>2 DEF Locations
  <2> HIDE DEF r
  <2> QED
    BY <2>3
<1>2. \A l \in Locations : rank(l) \in Int
  <2> HIDE DEF rank
  <2> QED
    BY <1>1, StockConstants
<1>3. \A l, m \in Locations : rank(l) = rank(m) => l = m
  <2> HIDE DEF rank, r
  <2> QED
    BY <1>1
<1> HIDE DEF rank, r
<1>4. \A l \in Locations : ahead(l) \subseteq Locations \ {l}
  BY <1>2
<1>5. \A l \in Locations : /\ IsFiniteSet(ahead(l)) /\ Cardinality(ahead(l)) \in Nat
                           /\ Cardinality(ahead(l)) <= n - 1
  <2> TAKE l \in Locations
  <2>1. IsFiniteSet(Locations \ {l}) /\ Cardinality(Locations \ {l}) = n - 1
    BY <1>0, FS_RemoveElement
  <2> HIDE DEF ahead, n
  <2>2. IsFiniteSet(ahead(l)) /\ Cardinality(ahead(l)) <= Cardinality(Locations \ {l})
    BY <1>4, <2>1, FS_Subset
  <2> QED
    BY <2>1, <2>2, FS_CardinalityType
<1>6. \A l, m \in Locations : m \in ahead(l) => Cardinality(ahead(m)) < Cardinality(ahead(l))
  <2> TAKE l, m \in Locations
  <2> HAVE m \in ahead(l)
  <2>1. ahead(m) \subseteq ahead(l)
    BY <1>2
  <2>2. m \notin ahead(m)
    BY <1>4
  <2> HIDE DEF ahead
  <2>3. Cardinality(ahead(m)) <= Cardinality(ahead(l)) /\ Cardinality(ahead(m)) # Cardinality(ahead(l))
    BY <1>5, <2>1, <2>2, FS_Subset
  <2> QED
    BY <1>5, <2>3
<1>7. \A l, m \in Locations : l # m => m \in ahead(l) \/ l \in ahead(m)
  BY <1>2, <1>3
<1> HIDE DEF ahead
<1>8. c \in [Locations -> 1 .. n] /\ \A l, m \in Locations : c[l] = c[m] => l = m
  <2> HIDE DEF n
  <2> QED
    BY <1>0, <1>5, <1>6, <1>7
<1>9. \A i \in 1 .. n : \E l \in Locations : c[l] = i
  <2> HIDE DEF c
  <2>1. c \in Injection(Locations, 1 .. n)
    BY <1>8 DEF Injection, IsInjective
  <2>2. IsFiniteSet(1 .. n) /\ Cardinality(1 .. n) = n
    <3>1. 1 \in Int /\ n \in Int /\ ~(1 > n)
      BY <1>0
    <3>2. IsFiniteSet(1 .. n) /\ Cardinality(1 .. n) = n - 1 + 1
      BY <3>1, FS_Interval
    <3> QED
      BY <3>1, <3>2
  <2>3. c \in Surjection(Locations, 1 .. n)
    BY <2>1, <2>2, FS_Injection
  <2> QED
    BY <2>3 DEF Surjection
<1>10. \A i \in 1 .. n : at(i) \in Locations /\ c[at(i)] = i
  <2> TAKE i \in 1 .. n
  <2>1. \E l \in Locations : Cardinality(ahead(l)) = i - 1
    BY <1>5, <1>9
  <2>2. at(i) \in Locations /\ Cardinality(ahead(at(i))) = i - 1
    BY <2>1
  <2> HIDE DEF at
  <2> QED
    BY <1>0, <2>2
<1>11. h = [i \in 1 .. n |-> [loc |-> at(i), qty |-> stock[at(i)]]]
  BY DEF Holders, ahead, rank, r
<1> HIDE DEF h, at, c
<1>12. h \in Allocations
  <2> HIDE DEF n
  <2>1. \A i \in 1 .. n : [loc |-> at(i), qty |-> stock[at(i)]] \in [loc : Locations, qty : Nat]
    BY <1>10
  <2> QED
    BY <1>0, <1>11, <2>1 DEF Allocations
<1>13. \A l \in Locations : UnitsAt(h, l) = stock[l]
  <2> TAKE l \in Locations
  <2> HIDE DEF n
  <2>1. c[l] \in 1 .. n /\ at(c[l]) = l
    BY <1>8, <1>10
  <2>2. DOMAIN h = 1 .. n /\ \A i \in 1 .. n : h[i].loc = at(i) /\ h[i].qty = stock[at(i)]
    BY <1>11
  <2>3. {i \in DOMAIN h : h[i].loc = l} = {c[l]}
    BY <1>10, <2>1, <2>2
  <2>4. Quantities(h)[c[l]] = stock[l]
    BY <2>1, <2>2 DEF Quantities
  <2>5. stock[l] \in Int
    OBVIOUS
  <2>6. SumFunctionOnSet(Quantities(h), {c[l]}) = stock[l]
    BY <2>4, <2>5, SumOfOne
  <2> QED
    BY <2>3, <2>6 DEF UnitsAt
<1>14. Units(h) = OnHand(stock)
  <2>1. [l \in Locations |-> UnitsAt(h, l)] = stock
    BY <1>13
  <2> QED
    BY <1>12, <2>1, UnitsByLocation DEF OnHand
<1>15. h[1].loc \in Locations
  <2> HIDE DEF n
  <2> QED
    BY <1>0, <1>10, <1>11
<1> QED
  BY <1>12, <1>13, <1>14, <1>15 DEF h

\* A shrink of a count takes what it should, from where it is.
LEMMA DrainTakes ==
    ASSUME stock \in [Locations -> Nat], NEW q \in Nat, q <= OnHand(stock)
    PROVE  LET a == Waterfall(Holders, q) IN a \in Allocations /\ Covers(a) /\ Units(a) = q
<1>1. /\ Waterfall(Holders, q) \in Allocations
      /\ Units(Waterfall(Holders, q)) = Lesser(OnHand(stock), q)
      /\ \A l \in Locations : UnitsAt(Waterfall(Holders, q), l) <= stock[l]
  BY HoldersHold, WaterfallFills
<1>2. Lesser(OnHand(stock), q) = q
  BY OnHandType DEF Lesser
<1> QED
  BY <1>1, <1>2 DEF Covers

-----------------------------------------------------------------------------
(* The books of the store *)

\* What is on record as taken is what was sold; nothing is owed below zero.
SaleBooks ==
    /\ stock \in [Locations -> Nat]
    /\ returned \in [Sales -> [Locations -> Nat]]
    /\ taken \in [Sales -> Allocations]
    /\ \A s \in Sales : status[s] # "none" => Units(taken[s]) = sold[s]

\* A transfer that was not received, even in part, has nothing received; a count
\* that is not completed has corrected nothing.
RoomBooks ==
    /\ RoomTypeOK
    /\ \A t \in Transfers :
          /\ transfer[t].received <= transfer[t].qty
          /\ transfer[t].status \in {"none", "draft", "in_transit"} => transfer[t].received = 0
    /\ \A c \in Counts : count[c].status \in {"none", "open"} => count[c].net = 0

\* Units on the road because of a transfer in state tr.
RoadOf(tr) ==
    IF tr.status \in {"in_transit", "received_partial"} THEN tr.qty - tr.received ELSE 0

Road(t) == RoadOf(transfer[t])

\* What the books of the store add up to: StockConserved says it never changes.
Held == OnHand(stock) + WithCustomers + OnTheRoad - Supplied - Corrected

LEMMA WithCustomerType ==
    ASSUME SaleInv, NEW s \in Sales
    PROVE  WithCustomer(s) \in Int
BY DEF SaleInv, SaleTypeOK, WithCustomer

LEMMA RoadType ==
    ASSUME RoomTypeOK, NEW t \in Transfers
    PROVE  Road(t) \in Int
BY DEF RoomTypeOK, Road, RoadOf

\* The totals, as sums the lemmas of Sums speak of.
LEMMA TotalsAreSums ==
    /\ WithCustomers = SumFunctionOnSet([s \in Sales |-> WithCustomer(s)], Sales)
    /\ OnTheRoad = SumFunctionOnSet([t \in Transfers |-> Road(t)], Transfers)
    /\ Supplied = SumFunctionOnSet([p \in Orders |-> order[p].credited], Orders)
    /\ Corrected = SumFunctionOnSet([c \in Counts |-> count[c].net], Counts)
BY DEF WithCustomers, OnTheRoad, Supplied, Corrected, Road, RoadOf, SumFunction

LEMMA WithCustomersType == ASSUME SaleInv PROVE WithCustomers \in Int
<1> DEFINE f == [s \in Sales |-> WithCustomer(s)]
<1>1. \A s \in Sales : f[s] \in Int
  BY WithCustomerType
<1>2. WithCustomers = SumFunctionOnSet(f, Sales)
  BY TotalsAreSums
<1> HIDE DEF f
<1> QED
  BY <1>1, <1>2, SumInt, SaleConstants

LEMMA RoomTotalsType ==
    ASSUME RoomTypeOK
    PROVE  OnTheRoad \in Int /\ Supplied \in Int /\ Corrected \in Int
<1> DEFINE f == [t \in Transfers |-> Road(t)]
           g == [p \in Orders |-> order[p].credited]
           h == [c \in Counts |-> count[c].net]
<1>1. \A t \in Transfers : f[t] \in Int
  BY RoadType
<1>2. (\A p \in Orders : g[p] \in Int) /\ \A c \in Counts : h[c] \in Int
  BY DEF RoomTypeOK
<1>3. /\ OnTheRoad = SumFunctionOnSet(f, Transfers)
      /\ Supplied = SumFunctionOnSet(g, Orders) /\ Corrected = SumFunctionOnSet(h, Counts)
  BY TotalsAreSums
<1> HIDE DEF f, g, h
<1> QED
  BY <1>1, <1>2, <1>3, SumInt, RoomConstants

LEMMA OpeningType == OnHand(OpeningStock) \in Nat
BY StockConstants, OnHandType

LEMMA ConservedIsHeld ==
    ASSUME SaleInv, SaleBooks, RoomTypeOK
    PROVE  /\ Held \in Int
           /\ StockConserved <=> Held = OnHand(OpeningStock)
<1>1. OnHand(stock) \in Nat
  BY OnHandType DEF SaleBooks
<1> QED
  BY <1>1, WithCustomersType, RoomTotalsType, OpeningType DEF Held, StockConserved

\* One sale changes: the customers' total changes by what it has.
LEMMA OneSaleChanges ==
    ASSUME SaleInv, SaleInv', NEW s \in Sales,
           \A x \in Sales \ {s} : /\ status'[x] = status[x] /\ sold'[x] = sold[x]
                                  /\ back'[x] = back[x]
    PROVE  WithCustomers' = WithCustomers - WithCustomer(s) + WithCustomer(s)'
<1> DEFINE f == [x \in Sales |-> WithCustomer(x)]
           g == [x \in Sales |-> WithCustomer(x)']
<1>1. \A x \in Sales : f[x] \in Int
  BY WithCustomerType
<1>2. \A x \in Sales : WithCustomer(x)' \in Int
  BY DEF SaleInv, SaleTypeOK, WithCustomer
<1>3. \A x \in Sales \ {s} : g[x] = f[x]
  BY DEF WithCustomer
<1>4. f[s] = WithCustomer(s) /\ g[s] = WithCustomer(s)' /\ g[s] \in Int
  BY <1>2
<1>5. WithCustomers = SumFunctionOnSet(f, Sales)
  BY TotalsAreSums
<1>6. WithCustomers' = SumFunctionOnSet(g, Sales)
  BY DEF WithCustomers, SumFunction
<1> HIDE DEF f, g
<1>7. SumFunctionOnSet(g, Sales) = SumFunctionOnSet(f, Sales) - f[s] + g[s]
  BY <1>1, <1>3, <1>4, SaleConstants, SumChange
<1> QED
  BY <1>4, <1>5, <1>6, <1>7

LEMMA OneTransferChanges ==
    ASSUME RoomTypeOK, RoomTypeOK', NEW t \in Transfers,
           \A x \in Transfers \ {t} : transfer'[x] = transfer[x]
    PROVE  OnTheRoad' = OnTheRoad - Road(t) + Road(t)'
<1> DEFINE f == [x \in Transfers |-> Road(x)]
           g == [x \in Transfers |-> Road(x)']
<1>1. \A x \in Transfers : f[x] \in Int
  BY RoadType
<1>2. \A x \in Transfers : Road(x)' \in Int
  BY DEF RoomTypeOK, Road, RoadOf
<1>3. \A x \in Transfers \ {t} : g[x] = f[x]
  BY DEF Road
<1>4. f[t] = Road(t) /\ g[t] = Road(t)' /\ g[t] \in Int
  BY <1>2
<1>5. OnTheRoad = SumFunctionOnSet(f, Transfers)
  BY TotalsAreSums
<1>6. OnTheRoad' = SumFunctionOnSet(g, Transfers)
  BY DEF OnTheRoad, Road, RoadOf, SumFunction
<1> HIDE DEF f, g
<1>7. SumFunctionOnSet(g, Transfers) = SumFunctionOnSet(f, Transfers) - f[t] + g[t]
  BY <1>1, <1>3, <1>4, RoomConstants, SumChange
<1> QED
  BY <1>4, <1>5, <1>6, <1>7

LEMMA OneCountChanges ==
    ASSUME RoomTypeOK, RoomTypeOK', NEW c \in Counts,
           \A x \in Counts \ {c} : count'[x] = count[x]
    PROVE  Corrected' = Corrected - count[c].net + count'[c].net
<1> DEFINE f == [x \in Counts |-> count[x].net]
           g == [x \in Counts |-> count'[x].net]
<1>1. (\A x \in Counts : f[x] \in Int) /\ g[c] \in Int
  BY DEF RoomTypeOK
<1>2. \A x \in Counts \ {c} : g[x] = f[x]
  OBVIOUS
<1>3. f[c] = count[c].net /\ g[c] = count'[c].net
  OBVIOUS
<1>4. Corrected = SumFunctionOnSet(f, Counts)
  BY TotalsAreSums
<1>5. Corrected' = SumFunctionOnSet(g, Counts)
  BY DEF Corrected, SumFunction
<1> HIDE DEF f, g
<1>6. SumFunctionOnSet(g, Counts) = SumFunctionOnSet(f, Counts) - f[c] + g[c]
  BY <1>1, <1>2, RoomConstants, SumChange
<1> QED
  BY <1>3, <1>4, <1>5, <1>6

LEMMA OneOrderChanges ==
    ASSUME RoomTypeOK, RoomTypeOK', NEW p \in Orders,
           \A x \in Orders \ {p} : order'[x] = order[x]
    PROVE  Supplied' = Supplied - order[p].credited + order'[p].credited
<1> DEFINE f == [x \in Orders |-> order[x].credited]
           g == [x \in Orders |-> order'[x].credited]
<1>1. (\A x \in Orders : f[x] \in Int) /\ g[p] \in Int
  BY DEF RoomTypeOK
<1>2. \A x \in Orders \ {p} : g[x] = f[x]
  OBVIOUS
<1>3. f[p] = order[p].credited /\ g[p] = order'[p].credited
  OBVIOUS
<1>4. Supplied = SumFunctionOnSet(f, Orders)
  BY TotalsAreSums
<1>5. Supplied' = SumFunctionOnSet(g, Orders)
  BY DEF Supplied, SumFunction
<1> HIDE DEF f, g
<1>6. SumFunctionOnSet(g, Orders) = SumFunctionOnSet(f, Orders) - f[p] + g[p]
  BY <1>1, <1>2, RoomConstants, SumChange
<1> QED
  BY <1>3, <1>4, <1>5, <1>6

-----------------------------------------------------------------------------
(* The back office keeps the books *)

\* What a step of the back office must leave true.
RoomKept ==
    /\ stock' \in [Locations -> Nat]
    /\ RoomBooks'
    /\ Held' = Held

TransferStates == [status : {"none", "draft", "in_transit", "received_partial", "received",
                             "cancelled"},
                   src : Locations, dst : Locations, qty : Nat, received : Nat]

CountStates == [status : {"none", "open", "completed", "cancelled"},
                expected : Nat, counted : Nat \union {Uncounted}, net : Int]

OrderStates == [status : OrderStatus \union {"none"}, qty : Nat, receipts : Nat, credited : Nat]

LEMMA SalesStandStill ==
    ASSUME UNCHANGED saleVars
    PROVE  WithCustomers' = WithCustomers
<1>1. UNCHANGED <<status, sold, back>>
  BY DEF saleVars
<1> QED
  BY <1>1 DEF WithCustomers, WithCustomer

\* A transfer moves on to tr, and stock and road agree about what it moved.
LEMMA TransferMoves ==
    ASSUME SaleInv, SaleBooks, RoomBooks, UNCHANGED saleVars, UNCHANGED <<count, order>>,
           NEW t \in Transfers, NEW tr \in TransferStates,
           transfer' = [transfer EXCEPT ![t] = tr],
           tr.received <= tr.qty,
           tr.status \in {"none", "draft", "in_transit"} => tr.received = 0,
           stock' \in [Locations -> Nat],
           OnHand(stock') + RoadOf(tr) = OnHand(stock) + RoadOf(transfer[t])
    PROVE  RoomKept
<1>0. RoomTypeOK
  BY DEF RoomBooks
<1>1. transfer \in [Transfers -> TransferStates]
  BY <1>0 DEF RoomTypeOK, TransferStates
<1>2. transfer' \in [Transfers -> TransferStates] /\ transfer'[t] = tr
      /\ \A x \in Transfers \ {t} : transfer'[x] = transfer[x]
  BY <1>1
<1>3. RoomTypeOK'
  BY <1>0, <1>2 DEF RoomTypeOK, TransferStates
<1>4. RoomBooks'
  BY <1>1, <1>2, <1>3 DEF RoomBooks
<1>5. OnTheRoad' = OnTheRoad - RoadOf(transfer[t]) + RoadOf(tr)
  <2>1. OnTheRoad' = OnTheRoad - Road(t) + Road(t)'
    BY <1>0, <1>2, <1>3, OneTransferChanges
  <2>2. Road(t)' = RoadOf(tr) /\ Road(t) = RoadOf(transfer[t])
    BY <1>2 DEF Road
  <2> QED
    BY <2>1, <2>2
<1>6. RoadOf(tr) \in Int /\ RoadOf(transfer[t]) \in Int
  BY <1>1 DEF RoadOf, TransferStates
<1>7. WithCustomers' = WithCustomers /\ Supplied' = Supplied /\ Corrected' = Corrected
  BY SalesStandStill DEF Supplied, Corrected
<1>8. OnHand(stock) \in Nat /\ OnHand(stock') \in Nat
  BY OnHandType DEF SaleBooks
<1>9. Held' = Held
  BY <1>0, <1>5, <1>6, <1>7, <1>8, WithCustomersType, RoomTotalsType DEF Held
<1> QED
  BY <1>4, <1>9 DEF RoomKept

\* A count moves on to cn, and what it corrects is what it did to the stock.
LEMMA CountMoves ==
    ASSUME SaleInv, SaleBooks, RoomBooks, UNCHANGED saleVars, UNCHANGED <<transfer, order>>,
           NEW c \in Counts, NEW cn \in CountStates,
           count' = [count EXCEPT ![c] = cn],
           cn.status \in {"none", "open"} => cn.net = 0,
           stock' \in [Locations -> Nat],
           OnHand(stock') - cn.net = OnHand(stock) - count[c].net
    PROVE  RoomKept
<1>0. RoomTypeOK
  BY DEF RoomBooks
<1>1. count \in [Counts -> CountStates]
  BY <1>0 DEF RoomTypeOK, CountStates
<1>2. count' \in [Counts -> CountStates] /\ count'[c] = cn
      /\ \A x \in Counts \ {c} : count'[x] = count[x]
  BY <1>1
<1>3. RoomTypeOK'
  BY <1>0, <1>2 DEF RoomTypeOK, CountStates
<1>4. RoomBooks'
  BY <1>1, <1>2, <1>3 DEF RoomBooks
<1>5. Corrected' = Corrected - count[c].net + cn.net
  BY <1>0, <1>2, <1>3, OneCountChanges
<1>6. cn.net \in Int /\ count[c].net \in Int
  BY <1>1 DEF CountStates
<1>7. WithCustomers' = WithCustomers /\ Supplied' = Supplied /\ OnTheRoad' = OnTheRoad
  BY SalesStandStill DEF Supplied, OnTheRoad
<1>8. OnHand(stock) \in Nat /\ OnHand(stock') \in Nat
  BY OnHandType DEF SaleBooks
<1>9. Held' = Held
  BY <1>0, <1>5, <1>6, <1>7, <1>8, WithCustomersType, RoomTotalsType DEF Held
<1> QED
  BY <1>4, <1>9 DEF RoomKept

LEMMA OrderMoves ==
    ASSUME SaleInv, SaleBooks, RoomBooks, UNCHANGED saleVars, UNCHANGED <<transfer, count>>,
           NEW p \in Orders, NEW po \in OrderStates,
           order' = [order EXCEPT ![p] = po],
           stock' \in [Locations -> Nat],
           OnHand(stock') - po.credited = OnHand(stock) - order[p].credited
    PROVE  RoomKept
<1>0. RoomTypeOK
  BY DEF RoomBooks
<1>1. order \in [Orders -> OrderStates]
  BY <1>0 DEF RoomTypeOK, OrderStates
<1>2. order' \in [Orders -> OrderStates] /\ order'[p] = po
      /\ \A x \in Orders \ {p} : order'[x] = order[x]
  BY <1>1
<1>3. RoomTypeOK'
  BY <1>0, <1>2 DEF RoomTypeOK, OrderStates
<1>4. RoomBooks'
  BY <1>3 DEF RoomBooks
<1>5. Supplied' = Supplied - order[p].credited + po.credited
  BY <1>0, <1>2, <1>3, OneOrderChanges
<1>6. po.credited \in Int /\ order[p].credited \in Int
  BY <1>1 DEF OrderStates
<1>7. WithCustomers' = WithCustomers /\ Corrected' = Corrected /\ OnTheRoad' = OnTheRoad
  BY SalesStandStill DEF Corrected, OnTheRoad
<1>8. OnHand(stock) \in Nat /\ OnHand(stock') \in Nat
  BY OnHandType DEF SaleBooks
<1>9. Held' = Held
  BY <1>0, <1>5, <1>6, <1>7, <1>8, WithCustomersType, RoomTotalsType DEF Held
<1> QED
  BY <1>4, <1>9 DEF RoomKept

LEMMA TransferKept ==
    ASSUME SaleInv, SaleBooks, RoomBooks, UNCHANGED saleVars,
           NEW t \in Transfers, TransferStep(t)
    PROVE  RoomKept
<1> DEFINE tr == transfer[t]
<1>0. /\ stock \in [Locations -> Nat] /\ OnHand(stock) \in Nat
      /\ transfer \in [Transfers -> TransferStates] /\ tr \in TransferStates
      /\ tr.received <= tr.qty
      /\ tr.status \in {"none", "draft", "in_transit"} => tr.received = 0
  BY OnHandType DEF SaleBooks, RoomBooks, RoomTypeOK, TransferStates
<1>00. /\ tr.src \in Locations /\ tr.dst \in Locations /\ tr.qty \in Nat /\ tr.received \in Nat
       /\ tr.status \in {"none", "draft", "in_transit", "received_partial", "received", "cancelled"}
  BY <1>0 DEF TransferStates
<1>1. ASSUME NEW src \in Locations, NEW dst \in Locations, NEW q \in 0 .. MaxLine,
             CreateTransfer(t, src, dst, q)
      PROVE  RoomKept
  <2> DEFINE to == [status |-> "draft", src |-> src, dst |-> dst, qty |-> q, received |-> 0]
  <2>1. /\ tr.status = "none" /\ transfer' = [transfer EXCEPT ![t] = to]
        /\ UNCHANGED <<stock, count, order>>
    BY <1>1 DEF CreateTransfer
  <2>2. q \in Nat
    BY RoomConstants
  <2>3. to \in TransferStates /\ to.received = 0 /\ to.qty = q /\ to.status = "draft"
    BY <2>2 DEF TransferStates
  <2>4. RoadOf(to) = 0 /\ RoadOf(tr) = 0
    BY <2>1, <2>3 DEF RoadOf
  <2> HIDE DEF to
  <2>5. stock' \in [Locations -> Nat] /\ OnHand(stock') + RoadOf(to) = OnHand(stock) + RoadOf(tr)
    BY <1>0, <2>1, <2>4
  <2>6. to.received <= to.qty /\ UNCHANGED <<count, order>>
    BY <2>1, <2>2, <2>3
  <2> QED
    BY <2>1, <2>3, <2>5, <2>6, TransferMoves
<1>2. ASSUME NEW q \in 0 .. MaxLine, EditTransfer(t, q)
      PROVE  RoomKept
  <2> DEFINE to == [tr EXCEPT !.qty = q]
  <2>1. /\ tr.status = "draft" /\ transfer' = [transfer EXCEPT ![t] = to]
        /\ UNCHANGED <<stock, count, order>>
    BY <1>2 DEF EditTransfer
  <2>2. q \in Nat
    BY RoomConstants
  <2>3. to \in TransferStates /\ to.received = 0 /\ to.qty = q /\ to.status = "draft"
    BY <1>0, <2>1, <2>2 DEF TransferStates
  <2>4. RoadOf(to) = 0 /\ RoadOf(tr) = 0
    BY <2>1, <2>3 DEF RoadOf
  <2> HIDE DEF to
  <2>5. stock' \in [Locations -> Nat] /\ OnHand(stock') + RoadOf(to) = OnHand(stock) + RoadOf(tr)
    BY <1>0, <2>1, <2>4
  <2>6. to.received <= to.qty /\ UNCHANGED <<count, order>>
    BY <2>1, <2>2, <2>3
  <2> QED
    BY <2>1, <2>3, <2>5, <2>6, TransferMoves
<1>3. ASSUME NEW n \in 0 .. MaxLine, ReceiveTransfer(t, n)
      PROVE  RoomKept
  <2> DEFINE now == IF n = tr.qty THEN "received"
                    ELSE IF n > 0 THEN "received_partial" ELSE "in_transit"
             to == [tr EXCEPT !.received = n, !.status = now]
  <2>1. /\ tr.status \in {"in_transit", "received_partial"} /\ n \in tr.received .. tr.qty
        /\ stock' = Credit(Parcel(tr.dst, n - tr.received))
        /\ transfer' = [transfer EXCEPT ![t] = to]
        /\ UNCHANGED <<count, order>>
    BY <1>3 DEF ReceiveTransfer
  <2>2. n \in Nat /\ n - tr.received \in Nat /\ n <= tr.qty
    BY <1>00, <2>1, RoomConstants
  <2>3. to \in TransferStates /\ to.received = n /\ to.qty = tr.qty /\ to.status = now
    BY <1>0, <2>2 DEF TransferStates
  <2>4. now \in {"none", "draft", "in_transit"} => n = 0
    BY <2>2
  <2>5. stock' \in [Locations -> Nat] /\ OnHand(stock') = OnHand(stock) + (n - tr.received)
    BY <1>0, <1>00, <2>1, <2>2, ParcelUnits, CreditAdds
  <2>6. RoadOf(to) = tr.qty - n /\ RoadOf(tr) = tr.qty - tr.received
    BY <1>00, <2>1, <2>2, <2>3 DEF RoadOf
  <2>7. OnHand(stock') + RoadOf(to) = OnHand(stock) + RoadOf(tr)
    BY <1>0, <1>00, <2>2, <2>5, <2>6
  <2> HIDE DEF to, now
  <2> QED
    BY <1>0, <2>1, <2>2, <2>3, <2>4, <2>5, <2>7, TransferMoves
<1>4. ASSUME SendTransfer(t)
      PROVE  RoomKept
  <2> DEFINE to == [tr EXCEPT !.status = "in_transit"]
             parcel == Parcel(tr.src, tr.qty)
  <2>1. /\ tr.status = "draft" /\ Covers(parcel) /\ stock' = Debit(parcel)
        /\ transfer' = [transfer EXCEPT ![t] = to]
        /\ UNCHANGED <<count, order>>
    BY <1>4 DEF SendTransfer
  <2>2. to \in TransferStates /\ to.received = 0 /\ to.qty = tr.qty /\ to.status = "in_transit"
    BY <1>0, <2>1 DEF TransferStates
  <2>3. stock' \in [Locations -> Nat] /\ OnHand(stock') = OnHand(stock) - tr.qty
    <3> HIDE DEF parcel
    <3>1. parcel \in Allocations /\ Units(parcel) = tr.qty
      BY <1>00, ParcelUnits DEF parcel
    <3> QED
      BY <1>0, <2>1, <3>1, DebitTakes
  <2>4. RoadOf(to) = tr.qty /\ RoadOf(tr) = 0
    BY <1>00, <2>1, <2>2 DEF RoadOf
  <2>5. OnHand(stock') + RoadOf(to) = OnHand(stock) + RoadOf(tr)
    BY <1>0, <1>00, <2>3, <2>4
  <2> HIDE DEF to, parcel
  <2> QED
    BY <1>0, <1>00, <2>1, <2>2, <2>3, <2>5, TransferMoves
<1>5. ASSUME CancelTransfer(t)
      PROVE  RoomKept
  <2> DEFINE to == [tr EXCEPT !.status = "cancelled"]
  <2>1. /\ tr.status \in {"draft", "in_transit"}
        /\ stock' = IF tr.status = "in_transit" THEN Credit(Parcel(tr.src, tr.qty)) ELSE stock
        /\ transfer' = [transfer EXCEPT ![t] = to]
        /\ UNCHANGED <<count, order>>
    BY <1>5 DEF CancelTransfer
  <2>2. to \in TransferStates /\ to.received = 0 /\ to.qty = tr.qty /\ to.status = "cancelled"
    BY <1>0, <2>1 DEF TransferStates
  <2>3. RoadOf(to) = 0
    BY <2>2 DEF RoadOf
  <2>4. stock' \in [Locations -> Nat] /\ OnHand(stock') = OnHand(stock) + RoadOf(tr)
    <3>1. CASE tr.status = "in_transit"
      <4>1. RoadOf(tr) = tr.qty
        BY <1>0, <1>00, <3>1 DEF RoadOf
      <4> DEFINE parcel == Parcel(tr.src, tr.qty)
      <4>2. parcel \in Allocations /\ Units(parcel) = tr.qty
        BY <1>00, ParcelUnits
      <4>3. stock' = Credit(parcel)
        BY <2>1, <3>1
      <4> HIDE DEF parcel
      <4> QED
        BY <1>0, <4>1, <4>2, <4>3, CreditAdds
    <3>2. CASE tr.status = "draft"
      <4>1. RoadOf(tr) = 0 /\ stock' = stock
        BY <2>1, <3>2 DEF RoadOf
      <4> QED
        BY <1>0, <4>1
    <3> QED
      BY <2>1, <3>1, <3>2
  <2>5. OnHand(stock') + RoadOf(to) = OnHand(stock) + RoadOf(tr)
    <3>1. RoadOf(tr) \in Int
      BY <1>00 DEF RoadOf
    <3> QED
      BY <1>0, <2>3, <2>4, <3>1
  <2> HIDE DEF to
  <2> QED
    BY <1>0, <1>00, <2>1, <2>2, <2>4, <2>5, TransferMoves
<1> QED
  BY <1>1, <1>2, <1>3, <1>4, <1>5 DEF TransferStep

\* A completed count leaves on hand what was counted, by drain or by surplus.
LEMMA CountSettles ==
    ASSUME stock \in [Locations -> Nat], NEW c \in Counts, count[c] \in CountStates,
           CompleteCount(c), count[c].counted \notin {Uncounted, count[c].expected}
    PROVE  /\ count[c].status = "open"
           /\ count' = [count EXCEPT ![c] = [count[c] EXCEPT !.status = "completed",
                                                             !.net = Correction(c)]]
           /\ Correction(c) \in Int
           /\ stock' \in [Locations -> Nat]
           /\ OnHand(stock') = OnHand(stock) + Correction(c)
           /\ OnHand(stock') = count[c].counted
           /\ UNCHANGED <<transfer, order>>
<1> DEFINE delta == Correction(c)
<1>1. OnHand(stock) \in Nat /\ count[c].counted \in Nat
  BY OnHandType DEF CountStates
<1>2. delta \in Int /\ OnHand(stock) + delta = count[c].counted
  BY <1>1 DEF Correction
<1>3. /\ count[c].status = "open"
      /\ count' = [count EXCEPT ![c].status = "completed", ![c].net = delta]
      /\ stock' = IF delta < 0 THEN Debit(Waterfall(Holders, -delta))
                  ELSE Credit(Parcel(Holders[1].loc, delta))
      /\ UNCHANGED <<transfer, order>>
  BY DEF CompleteCount
<1>4. count' = [count EXCEPT ![c] = [count[c] EXCEPT !.status = "completed", !.net = delta]]
  BY <1>3
<1> HIDE DEF delta
<1>5. stock' \in [Locations -> Nat] /\ OnHand(stock') = OnHand(stock) + delta
  <2>1. CASE delta < 0
    <3> DEFINE q == -delta
               a == Waterfall(Holders, q)
    <3>1. q \in Nat /\ q <= OnHand(stock) /\ stock' = Debit(a)
      BY <1>1, <1>2, <1>3, <2>1
    <3>2. a \in Allocations /\ Covers(a) /\ Units(a) = q
      <4> HIDE DEF q
      <4> QED
        BY <3>1, DrainTakes
    <3>3. stock' \in [Locations -> Nat] /\ OnHand(stock') = OnHand(stock) - q
      <4> HIDE DEF a
      <4> QED
        BY <3>1, <3>2, DebitTakes
    <3> QED
      BY <1>1, <1>2, <3>3
  <2>2. CASE ~(delta < 0)
    <3> DEFINE a == Parcel(Holders[1].loc, delta)
    <3>1. delta \in Nat /\ stock' = Credit(a)
      BY <1>2, <1>3, <2>2
    <3>2. a \in Allocations /\ Units(a) = delta
      BY <3>1, HoldersHold, ParcelUnits
    <3> HIDE DEF a
    <3> QED
      BY <3>1, <3>2, CreditAdds
  <2> QED
    BY <2>1, <2>2
<1> QED
  BY <1>2, <1>3, <1>4, <1>5 DEF delta

LEMMA CountKept ==
    ASSUME SaleInv, SaleBooks, RoomBooks, UNCHANGED saleVars,
           NEW c \in Counts, CountStep(c)
    PROVE  RoomKept
<1> DEFINE cn == count[c]
<1>0. /\ stock \in [Locations -> Nat] /\ OnHand(stock) \in Nat
      /\ count \in [Counts -> CountStates] /\ cn \in CountStates
      /\ cn.status \in {"none", "open"} => cn.net = 0
  BY OnHandType DEF SaleBooks, RoomBooks, RoomTypeOK, CountStates
\* Steps that leave the stock alone.
<1>1. ASSUME NEW to \in CountStates, count' = [count EXCEPT ![c] = to],
             UNCHANGED <<stock, transfer, order>>, cn.status \in {"none", "open"}, to.net = cn.net
      PROVE  RoomKept
  <2>1. stock' \in [Locations -> Nat] /\ OnHand(stock') - to.net = OnHand(stock) - cn.net
    BY <1>0, <1>1
  <2>2. to.net = 0 /\ UNCHANGED <<transfer, order>>
    BY <1>0, <1>1
  <2> QED
    BY <1>1, <2>1, <2>2, CountMoves
<1>2. ASSUME OpenCount(c)
      PROVE  RoomKept
  <2> DEFINE to == [cn EXCEPT !.status = "open", !.expected = OnHand(stock)]
  <2>1. /\ cn.status = "none" /\ UNCHANGED <<stock, transfer, order>>
        /\ count' = [count EXCEPT ![c] = to]
    BY <1>2 DEF OpenCount
  <2>2. to \in CountStates /\ to.net = cn.net
    BY <1>0 DEF CountStates
  <2> HIDE DEF to
  <2> QED
    BY <1>1, <2>1, <2>2
<1>3. ASSUME CancelCount(c)
      PROVE  RoomKept
  <2> DEFINE to == [cn EXCEPT !.status = "cancelled"]
  <2>1. /\ cn.status = "open" /\ UNCHANGED <<stock, transfer, order>>
        /\ count' = [count EXCEPT ![c] = to]
    BY <1>3 DEF CancelCount
  <2>2. to \in CountStates /\ to.net = cn.net
    BY <1>0 DEF CountStates
  <2> HIDE DEF to
  <2> QED
    BY <1>1, <2>1, <2>2
<1>4. ASSUME NEW n \in 0 .. MaxLine, EnterCount(c, n)
      PROVE  RoomKept
  <2> DEFINE to == [cn EXCEPT !.counted = n]
  <2>1. /\ cn.status = "open" /\ UNCHANGED <<stock, transfer, order>>
        /\ count' = [count EXCEPT ![c] = to]
    BY <1>4 DEF EnterCount
  <2>2. to \in CountStates /\ to.net = cn.net
    BY <1>0, RoomConstants DEF CountStates
  <2> HIDE DEF to
  <2> QED
    BY <1>1, <2>1, <2>2
<1>5. ASSUME CompleteCount(c)
      PROVE  RoomKept
  <2>1. CASE cn.counted \in {Uncounted, cn.expected}
    <3> DEFINE to == [cn EXCEPT !.status = "completed"]
    <3>1. /\ cn.status = "open" /\ UNCHANGED <<stock, transfer, order>>
          /\ count' = [count EXCEPT ![c] = to]
      BY <1>5, <2>1 DEF CompleteCount
    <3>2. to \in CountStates /\ to.net = cn.net
      BY <1>0 DEF CountStates
    <3> HIDE DEF to
    <3> QED
      BY <1>1, <3>1, <3>2
  <2>2. CASE cn.counted \notin {Uncounted, cn.expected}
    <3> DEFINE to == [cn EXCEPT !.status = "completed", !.net = Correction(c)]
    <3>1. /\ cn.status = "open" /\ count' = [count EXCEPT ![c] = to]
          /\ Correction(c) \in Int /\ stock' \in [Locations -> Nat]
          /\ OnHand(stock') = OnHand(stock) + Correction(c)
          /\ UNCHANGED <<transfer, order>>
      BY <1>0, <1>5, <2>2, CountSettles
    <3>2. to \in CountStates /\ to.net = Correction(c) /\ to.status = "completed"
      BY <1>0, <3>1 DEF CountStates
    <3>3. OnHand(stock') - to.net = OnHand(stock) - cn.net
      BY <1>0, <3>1, <3>2
    <3> HIDE DEF to
    <3> QED
      BY <3>1, <3>2, <3>3, CountMoves
  <2> QED
    BY <2>1, <2>2
<1> HIDE DEF cn
<1> QED
  BY <1>2, <1>3, <1>4, <1>5 DEF CountStep

LEMMA OrderKept ==
    ASSUME SaleInv, SaleBooks, RoomBooks, UNCHANGED saleVars,
           NEW p \in Orders, OrderStep(p)
    PROVE  RoomKept
<1> DEFINE po == order[p]
<1>0. /\ stock \in [Locations -> Nat] /\ OnHand(stock) \in Nat
      /\ order \in [Orders -> OrderStates] /\ po \in OrderStates
  BY OnHandType DEF SaleBooks, RoomBooks, RoomTypeOK, OrderStates
<1>1. ASSUME NEW to \in OrderStates, order' = [order EXCEPT ![p] = to],
             UNCHANGED <<stock, transfer, count>>, to.credited = po.credited
      PROVE  RoomKept
  <2>1. stock' \in [Locations -> Nat] /\ OnHand(stock') - to.credited = OnHand(stock) - po.credited
    BY <1>0, <1>1
  <2>2. UNCHANGED <<transfer, count>>
    BY <1>1
  <2> QED
    BY <1>1, <2>1, <2>2, OrderMoves
<1>2. ASSUME NEW q \in 1 .. MaxOrder, CreateOrder(p, q)
      PROVE  RoomKept
  <2> DEFINE to == [po EXCEPT !.status = "draft", !.qty = q]
  <2>1. UNCHANGED <<stock, transfer, count>> /\ order' = [order EXCEPT ![p] = to]
    BY <1>2 DEF CreateOrder
  <2>2. to \in OrderStates /\ to.credited = po.credited
    <3>1. q \in Nat /\ "draft" \in OrderStatus \union {"none"}
      BY RoomConstants DEF OrderStatus
    <3> QED
      BY <1>0, <3>1 DEF OrderStates
  <2> HIDE DEF to
  <2> QED
    BY <1>1, <2>1, <2>2
<1>3. ASSUME NEW st \in OrderStatus, UpdateOrderStatus(p, st)
      PROVE  RoomKept
  <2> DEFINE to == [po EXCEPT !.status = st]
  <2>1. UNCHANGED <<stock, transfer, count>> /\ order' = [order EXCEPT ![p] = to]
    BY <1>3 DEF UpdateOrderStatus
  <2>2. to \in OrderStates /\ to.credited = po.credited
    BY <1>0 DEF OrderStates
  <2> HIDE DEF to
  <2> QED
    BY <1>1, <2>1, <2>2
<1>4. ASSUME NEW good \in 0 .. MaxOrder, ReceiveOrder(p, good)
      PROVE  RoomKept
  <2> DEFINE to == [po EXCEPT !.status = "received", !.receipts = @ + 1, !.credited = @ + good]
             parcel == Parcel(DefaultLocation, good)
  <2>1. /\ order' = [order EXCEPT ![p] = to] /\ stock' = Credit(parcel)
        /\ UNCHANGED <<transfer, count>>
    BY <1>0, <1>4 DEF ReceiveOrder
  <2>2. good \in Nat
    BY RoomConstants
  <2>3. to \in OrderStates /\ to.credited = po.credited + good /\ po.credited \in Nat
    <3>1. "received" \in OrderStatus \union {"none"}
      BY DEF OrderStatus
    <3>2. po.credited \in Nat /\ po.receipts \in Nat
      BY <1>0 DEF OrderStates
    <3>3. po.credited + good \in Nat /\ po.receipts + 1 \in Nat
      BY <2>2, <3>2
    <3> QED
      BY <1>0, <3>1, <3>2, <3>3 DEF OrderStates
  <2>4. stock' \in [Locations -> Nat] /\ OnHand(stock') = OnHand(stock) + good
    <3>1. parcel \in Allocations /\ Units(parcel) = good
      BY <2>2, ParcelUnits DEF Locations
    <3> HIDE DEF parcel
    <3> QED
      BY <1>0, <2>1, <3>1, CreditAdds
  <2>5. OnHand(stock') - to.credited = OnHand(stock) - po.credited
    BY <1>0, <2>2, <2>3, <2>4
  <2> HIDE DEF to, parcel
  <2> QED
    BY <2>1, <2>3, <2>4, <2>5, OrderMoves
<1> HIDE DEF po
<1> QED
  BY <1>2, <1>3, <1>4 DEF OrderStep

LEMMA RoomStepKeeps ==
    ASSUME SaleInv, SaleBooks, RoomBooks, UNCHANGED saleVars, RoomNext
    PROVE  RoomKept
BY TransferKept, CountKept, OrderKept DEF RoomNext

-----------------------------------------------------------------------------
(* The sales keep the books *)

\* ReturnsMatch for one sale, by its status.
ReturnBook(s) ==
    /\ status[s] = "voided" => \A l \in Locations : returned[s][l] = UnitsAt(taken[s], l)
    /\ status[s] = "completed" => /\ SumFunction(returned[s]) = back[s].qty
                                  /\ SumFunction(returned[s]) <= sold[s]
    /\ status[s] \notin {"voided", "completed"} => SumFunction(returned[s]) = 0

LEMMA ReturnsBySale == ReturnsMatch <=> \A s \in Sales : ReturnBook(s)
BY DEF ReturnsMatch, ReturnBook

\* What a step of the sales must leave true.
SaleKept ==
    /\ SaleBooks'
    /\ Held' = Held
    /\ ReturnsMatch'

LEMMA RoomStandsStill ==
    ASSUME UNCHANGED roomVars
    PROVE  OnTheRoad' = OnTheRoad /\ Supplied' = Supplied /\ Corrected' = Corrected
BY DEF roomVars, OnTheRoad, Supplied, Corrected

\* What stock and customers exchange cancels out.
LEMMA SaleBalances ==
    ASSUME SaleInv, SaleBooks, RoomTypeOK, UNCHANGED roomVars,
           NEW s \in Sales, NEW keeps \in Int,
           WithCustomers' = WithCustomers - WithCustomer(s) + keeps,
           OnHand(stock') \in Nat,
           OnHand(stock') + keeps = OnHand(stock) + WithCustomer(s)
    PROVE  Held' = Held
<1>1. WithCustomer(s) \in Int /\ OnHand(stock) \in Nat
  BY WithCustomerType, OnHandType DEF SaleBooks
<1>2. OnTheRoad' = OnTheRoad /\ Supplied' = Supplied /\ Corrected' = Corrected
  BY RoomStandsStill
<1>3. WithCustomers \in Int /\ OnTheRoad \in Int /\ Supplied \in Int /\ Corrected \in Int
  BY WithCustomersType, RoomTotalsType
<1> QED
  BY <1>1, <1>2, <1>3 DEF Held

\* One sale moves on, and stock and customers agree about what it moved.
LEMMA SaleMoves ==
    ASSUME SaleInv, SaleInv', SaleBooks, RoomTypeOK, ReturnsMatch, UNCHANGED roomVars,
           NEW s \in Sales,
           \A x \in Sales \ {s} : /\ status'[x] = status[x] /\ sold'[x] = sold[x]
                                  /\ back'[x] = back[x] /\ taken'[x] = taken[x]
                                  /\ returned'[x] = returned[x],
           stock' \in [Locations -> Nat],
           taken' \in [Sales -> Allocations],
           returned' \in [Sales -> [Locations -> Nat]],
           status'[s] # "none" => Units(taken'[s]) = sold'[s],
           ReturnBook(s)',
           NEW keeps \in Int, WithCustomer(s)' = keeps,
           OnHand(stock') + keeps = OnHand(stock) + WithCustomer(s)
    PROVE  SaleKept
<1>1. SaleBooks'
  BY DEF SaleBooks
<1>2. \A x \in Sales : ReturnBook(x)'
  <2> TAKE x \in Sales
  <2>1. CASE x = s
    BY <2>1
  <2>2. CASE x # s
    <3>1. ReturnBook(x)
      BY ReturnsBySale
    <3> QED
      BY <2>2, <3>1 DEF ReturnBook
  <2> QED
    BY <2>1, <2>2
<1>3. ReturnsMatch'
  BY <1>2 DEF ReturnsMatch, ReturnBook
<1>4. WithCustomers' = WithCustomers - WithCustomer(s) + keeps
  BY OneSaleChanges
<1>5. OnHand(stock') \in Nat
  BY OnHandType
<1>6. Held' = Held
  BY <1>4, <1>5, SaleBalances
<1> QED
  BY <1>1, <1>3, <1>6 DEF SaleKept

LEMMA SalesSame ==
    ASSUME SaleBooks, ReturnsMatch, UNCHANGED roomVars,
           UNCHANGED <<stock, status, sold, taken, back, returned>>
    PROVE  SaleKept
<1>1. SaleBooks' /\ ReturnsMatch'
  BY DEF SaleBooks, ReturnsMatch
<1>2. WithCustomers' = WithCustomers
  BY DEF WithCustomers, WithCustomer
<1>3. OnTheRoad' = OnTheRoad /\ Supplied' = Supplied /\ Corrected' = Corrected
  BY RoomStandsStill
<1>4. OnHand(stock') = OnHand(stock)
  OBVIOUS
<1>5. Held' = Held
  BY <1>2, <1>3, <1>4 DEF Held
<1> QED
  BY <1>1, <1>5 DEF SaleKept

\* Checkout: the stock is debited what the sale is recorded to have taken.
LEMMA RecordMoves ==
    ASSUME SaleInv, SaleInv', SaleBooks, RoomTypeOK, ReturnsMatch, UNCHANGED roomVars,
           NEW s \in Sales, NEW q \in Nat, NEW a \in Allocations, Units(a) = q,
           NEW st \in {"pending", "completed"}, Record(s, q, a, st)
    PROVE  SaleKept
<1>1. /\ status[s] = "none" /\ Covers(a) /\ stock' = Debit(a)
      /\ status' = [status EXCEPT ![s] = st] /\ sold' = [sold EXCEPT ![s] = q]
      /\ taken' = [taken EXCEPT ![s] = a]
      /\ back' = back /\ returned' = returned
  BY DEF Record
<1>2. /\ stock \in [Locations -> Nat] /\ taken \in [Sales -> Allocations]
      /\ returned \in [Sales -> [Locations -> Nat]]
      /\ status \in [Sales -> Statuses] /\ sold \in [Sales -> Nat]
  BY DEF SaleBooks, SaleInv, SaleTypeOK
<1>3. /\ status'[s] = st /\ sold'[s] = q /\ taken'[s] = a
      /\ taken' \in [Sales -> Allocations]
      /\ \A x \in Sales \ {s} : /\ status'[x] = status[x] /\ sold'[x] = sold[x]
                                /\ back'[x] = back[x] /\ taken'[x] = taken[x]
                                /\ returned'[x] = returned[x]
  BY <1>1, <1>2
<1>4. stock' \in [Locations -> Nat] /\ OnHand(stock') = OnHand(stock) - q
  BY <1>1, <1>2, DebitTakes
<1>5. back[s].qty = 0
  BY <1>1 DEF SaleInv, Nothing
<1>6. WithCustomer(s) = 0 /\ WithCustomer(s)' = q
  BY <1>1, <1>3, <1>5 DEF WithCustomer
<1>7. ReturnBook(s)'
  <2>1. SumFunction(returned[s]) = 0
    BY <1>1, ReturnsBySale DEF ReturnBook
  <2> QED
    BY <1>1, <1>3, <1>5, <2>1 DEF ReturnBook
<1>8. OnHand(stock') + q = OnHand(stock) + WithCustomer(s)
  BY <1>2, <1>4, <1>6, OnHandType
<1>9. returned' \in [Sales -> [Locations -> Nat]] /\ Units(taken'[s]) = sold'[s]
  BY <1>1, <1>2, <1>3
<1> QED
  BY <1>3, <1>4, <1>6, <1>7, <1>8, <1>9, SaleMoves

LEMMA CheckoutAllocates ==
    ASSUME stock \in [Locations -> Nat], NEW q \in Nat
    PROVE  Waterfall([i \in DOMAIN Route |-> [loc |-> Route[i], qty |-> stock[Route[i]]]], q)
             \in Allocations
<1> DEFINE r == [i \in DOMAIN Route |-> [loc |-> Route[i], qty |-> stock[Route[i]]]]
<1>1. Len(Route) \in Nat /\ DOMAIN Route = 1 .. Len(Route)
      /\ \A i \in DOMAIN Route : Route[i] \in Locations
  BY StockConstants
<1>2. \A i \in DOMAIN Route : [loc |-> Route[i], qty |-> stock[Route[i]]] \in [loc : Locations, qty : Nat]
  BY <1>1
<1>3. r \in Allocations
  BY <1>1, <1>2 DEF Allocations
<1> HIDE DEF r
<1>4. Waterfall(r, q) \in Allocations
  BY <1>3, WaterfallFills
<1> QED
  BY <1>4 DEF r

\* A void gives back, location by location, what the sale took.
LEMMA VoidMoves ==
    ASSUME SaleInv, SaleInv', SaleBooks, RoomTypeOK, ReturnsMatch, UNCHANGED roomVars,
           NEW s \in Sales, VoidPending(s)
    PROVE  SaleKept
<1> DEFINE a == taken[s]
           row == [l \in Locations |-> UnitsAt(a, l)]
<1>1. /\ status[s] = "pending" /\ stock' = Credit(a)
      /\ status' = [status EXCEPT ![s] = "voided"]
      /\ returned' = [returned EXCEPT ![s] = row]
      /\ sold' = sold /\ taken' = taken /\ back' = back
  BY DEF VoidPending
<1>2. /\ stock \in [Locations -> Nat] /\ taken \in [Sales -> Allocations]
      /\ returned \in [Sales -> [Locations -> Nat]]
      /\ status \in [Sales -> Statuses] /\ sold[s] \in Nat
  BY DEF SaleBooks, SaleInv, SaleTypeOK
<1>3. a \in Allocations /\ Units(a) = sold[s]
  BY <1>1, <1>2 DEF SaleBooks
<1>4. row \in [Locations -> Nat] /\ \A l \in Locations : row[l] = UnitsAt(a, l)
  BY <1>3, UnitsTypes
<1> HIDE DEF row
<1>5. /\ status'[s] = "voided" /\ returned'[s] = row
      /\ returned' \in [Sales -> [Locations -> Nat]]
      /\ \A x \in Sales \ {s} : /\ status'[x] = status[x] /\ sold'[x] = sold[x]
                                /\ back'[x] = back[x] /\ taken'[x] = taken[x]
                                /\ returned'[x] = returned[x]
  BY <1>1, <1>2, <1>4
<1>6. stock' \in [Locations -> Nat] /\ OnHand(stock') = OnHand(stock) + sold[s]
  BY <1>1, <1>2, <1>3, CreditAdds
<1>7. WithCustomer(s) = sold[s] /\ WithCustomer(s)' = 0
  <2>1. back[s].qty = 0
    BY <1>1 DEF SaleInv, Nothing
  <2> QED
    BY <1>1, <1>2, <1>5, <2>1 DEF WithCustomer
<1>8. ReturnBook(s)'
  BY <1>1, <1>4, <1>5 DEF ReturnBook
<1>9. OnHand(stock') + 0 = OnHand(stock) + WithCustomer(s)
  BY <1>2, <1>6, <1>7, OnHandType
<1>10. taken' \in [Sales -> Allocations] /\ Units(taken'[s]) = sold'[s]
  BY <1>1, <1>2, <1>3
<1> HIDE DEF a
<1> QED
  BY <1>5, <1>6, <1>7, <1>8, <1>9, <1>10, SaleMoves

LEMMA SettleMoves ==
    ASSUME SaleInv, SaleInv', SaleBooks, RoomTypeOK, ReturnsMatch, UNCHANGED roomVars,
           NEW s \in Sales, Settle(s), UNCHANGED <<stock, sold, taken, back, returned>>
    PROVE  SaleKept
<1>1. CASE status[s] = "pending"
  <2>1. status' = [status EXCEPT ![s] = "completed"]
    BY <1>1 DEF Settle
  <2>2. /\ stock \in [Locations -> Nat] /\ taken \in [Sales -> Allocations]
        /\ returned \in [Sales -> [Locations -> Nat]]
        /\ status \in [Sales -> Statuses] /\ sold[s] \in Nat
        /\ Units(taken[s]) = sold[s]
    BY <1>1 DEF SaleBooks, SaleInv, SaleTypeOK
  <2>3. /\ status'[s] = "completed"
        /\ \A x \in Sales \ {s} : /\ status'[x] = status[x] /\ sold'[x] = sold[x]
                                  /\ back'[x] = back[x] /\ taken'[x] = taken[x]
                                  /\ returned'[x] = returned[x]
    BY <2>1, <2>2
  <2>4. back[s].qty = 0
    BY <1>1 DEF SaleInv, Nothing
  <2>5. ReturnBook(s)'
    <3>1. SumFunction(returned[s]) = 0
      BY <1>1, ReturnsBySale DEF ReturnBook
    <3> QED
      BY <2>2, <2>3, <2>4, <3>1 DEF ReturnBook
  <2>6. WithCustomer(s)' = WithCustomer(s)
    BY <1>1, <2>3 DEF WithCustomer
  <2>7. WithCustomer(s) \in Int /\ OnHand(stock') + WithCustomer(s) = OnHand(stock) + WithCustomer(s)
    BY WithCustomerType
  <2>8. /\ stock' \in [Locations -> Nat] /\ taken' \in [Sales -> Allocations]
        /\ returned' \in [Sales -> [Locations -> Nat]] /\ Units(taken'[s]) = sold'[s]
    BY <2>2
  <2> QED
    BY <2>3, <2>5, <2>6, <2>7, <2>8, SaleMoves
<1>2. CASE status[s] # "pending"
  BY <1>2, SalesSame DEF Settle
<1> QED
  BY <1>1, <1>2

\* A refund of q units credits q units, whatever entries it credits them to.
LEMMA RefundCredits ==
    ASSUME NEW s \in Sales, taken[s] \in Allocations, NEW q \in Nat, q <= Units(taken[s])
    PROVE  RefundCredit(s, q) \in Allocations /\ Units(RefundCredit(s, q)) = q
<1> DEFINE a == taken[s]
<1>0. Units(a) \in Nat
  BY UnitsTypes
<1>1. CASE q >= Units(a)
  BY <1>0, <1>1 DEF RefundCredit
<1>2. CASE ~(q >= Units(a))
  <2> DEFINE r == Reverse(a)
  <2>1. r \in Allocations /\ Units(r) = Units(a)
    BY ReverseUnits
  <2>2. RefundCredit(s, q) = Waterfall(r, q)
    BY <1>2 DEF RefundCredit
  <2> HIDE DEF r
  <2>3. Waterfall(r, q) \in Allocations /\ Units(Waterfall(r, q)) = Lesser(Units(r), q)
    BY <2>1, WaterfallFills
  <2>4. Lesser(Units(r), q) = q
    BY <1>0, <1>2, <2>1 DEF Lesser
  <2> QED
    BY <2>2, <2>3, <2>4
<1> QED
  BY <1>1, <1>2

LEMMA RefundMoves ==
    ASSUME SaleInv, SaleInv', SaleBooks, RoomTypeOK, ReturnsMatch, UNCHANGED roomVars,
           NEW s \in Sales, NEW q \in Nat, NEW m \in Nat, CreateRefund(s, q, m)
    PROVE  SaleKept
<1>0. PICK p : back' = [back EXCEPT ![s] = [qty |-> @.qty + q, money |-> @.money + m,
                                            points |-> @.points + p]]
  BY DEF CreateRefund
<1> DEFINE a == RefundCredit(s, q)
           u == [l \in Locations |-> UnitsAt(a, l)]
           row == [l \in Locations |-> returned[s][l] + UnitsAt(a, l)]
           b == [qty |-> back[s].qty + q, money |-> back[s].money + m,
                 points |-> back[s].points + p]
<1>1. /\ status[s] = "completed" /\ stock' = Credit(a)
      /\ back' = [back EXCEPT ![s] = b]
      /\ returned' = [returned EXCEPT ![s] = row]
      /\ back[s].qty + q <= sold[s]
      /\ status' = status /\ sold' = sold /\ taken' = taken
  BY <1>0 DEF CreateRefund, WithinBounds, SaleInv, SaleTypeOK
<1>2. /\ stock \in [Locations -> Nat] /\ taken \in [Sales -> Allocations]
      /\ returned \in [Sales -> [Locations -> Nat]]
      /\ back \in [Sales -> [qty : Nat, money : Nat, points : Nat]] /\ sold[s] \in Nat
      /\ Units(taken[s]) = sold[s]
  BY <1>1 DEF SaleBooks, SaleInv, SaleTypeOK
<1>3. back[s].qty \in Nat /\ b.qty = back[s].qty + q
  BY <1>2
<1>4. a \in Allocations /\ Units(a) = q
  <2>1. q <= Units(taken[s]) /\ taken[s] \in Allocations
    BY <1>1, <1>2, <1>3
  <2> QED
    BY <2>1, RefundCredits
<1> HIDE DEF a, b
<1>5. \A l \in Locations : /\ u[l] \in Int /\ returned[s][l] \in Int
                           /\ row[l] = returned[s][l] + u[l] /\ row[l] \in Nat
  BY <1>2, <1>4, UnitsTypes
<1>6. row \in [Locations -> Nat] /\ DOMAIN row = Locations /\ DOMAIN returned[s] = Locations
  BY <1>2, <1>5
<1>7. SumFunctionOnSet(u, Locations) = q
  BY <1>4, UnitsByLocation DEF SumFunction
<1> HIDE DEF u, row
<1>8. SumFunctionOnSet(row, Locations) = SumFunctionOnSet(returned[s], Locations) + q
  <2> DEFINE old == returned[s]
  <2>1. \A l \in Locations : u[l] \in Int /\ old[l] \in Int /\ row[l] = old[l] + u[l]
    BY <1>5
  <2> HIDE DEF old
  <2>2. SumFunctionOnSet(row, Locations)
          = SumFunctionOnSet(old, Locations) + SumFunctionOnSet(u, Locations)
    BY <2>1, FiniteLocations, SumPlus
  <2> QED
    BY <1>7, <2>2 DEF old
<1>9. SumFunction(row) = SumFunction(returned[s]) + q
  BY <1>6, <1>8 DEF SumFunction
<1>10. SumFunction(returned[s]) = back[s].qty
  BY <1>1, ReturnsBySale DEF ReturnBook
<1>11. /\ status'[s] = "completed" /\ returned'[s] = row /\ back'[s] = b
       /\ returned' \in [Sales -> [Locations -> Nat]]
       /\ \A x \in Sales \ {s} : /\ status'[x] = status[x] /\ sold'[x] = sold[x]
                                 /\ back'[x] = back[x] /\ taken'[x] = taken[x]
                                 /\ returned'[x] = returned[x]
  BY <1>1, <1>2, <1>6
<1>12. ReturnBook(s)'
  BY <1>1, <1>3, <1>9, <1>10, <1>11 DEF ReturnBook
<1>13. stock' \in [Locations -> Nat] /\ OnHand(stock') = OnHand(stock) + q
  BY <1>1, <1>2, <1>4, CreditAdds
<1> DEFINE keeps == sold[s] - (back[s].qty + q)
<1>14. WithCustomer(s) = sold[s] - back[s].qty /\ WithCustomer(s)' = keeps /\ keeps \in Int
  BY <1>1, <1>2, <1>3, <1>11 DEF WithCustomer
<1>15. OnHand(stock') + keeps = OnHand(stock) + WithCustomer(s)
  BY <1>2, <1>3, <1>13, <1>14, OnHandType
<1>16. taken' \in [Sales -> Allocations] /\ Units(taken'[s]) = sold'[s]
  BY <1>1, <1>2
<1> HIDE DEF keeps
<1> QED
  BY <1>11, <1>12, <1>13, <1>14, <1>15, <1>16, SaleMoves

LEMMA SaleStepBooks ==
    ASSUME SaleInv, SaleInv', SaleBooks, RoomTypeOK, ReturnsMatch, UNCHANGED roomVars,
           NEW s \in Sales, SaleStep(s)
    PROVE  SaleKept
<1>0. stock \in [Locations -> Nat]
  BY DEF SaleBooks
<1>1. ASSUME NEW q \in 1 .. MaxQty, Checkout(s, q)
      PROVE  SaleKept
  <2> DEFINE a == Waterfall([i \in DOMAIN Route |-> [loc |-> Route[i], qty |-> stock[Route[i]]]], q)
  <2>1. Units(a) = q /\ Record(s, q, a, "pending")
    BY <1>1 DEF Checkout
  <2>2. q \in Nat
    BY SaleConstants
  <2>3. a \in Allocations
    BY <1>0, <2>2, CheckoutAllocates
  <2> HIDE DEF a
  <2> QED
    BY <2>1, <2>2, <2>3, RecordMoves
<1>2. ASSUME NEW q \in 1 .. MaxQty, NEW a \in Resolutions(q), CheckoutResolved(s, q, a)
      PROVE  SaleKept
  <2>1. q \in Nat
    BY SaleConstants
  <2>2. a \in Allocations /\ Units(a) = q
    BY <2>1, ResolutionUnits
  <2>3. Record(s, q, a, "completed")
    BY <1>2 DEF CheckoutResolved
  <2> QED
    BY <2>1, <2>2, <2>3, RecordMoves
<1>3. ASSUME Capture(s) \/ SendToKitchen(s) \/ Expire(s)
      PROVE  SaleKept
  BY <1>3, SalesSame DEF Capture, SendToKitchen, Expire, saleVars
<1>4. ASSUME Finalize(s)
      PROVE  SaleKept
  BY <1>4, SettleMoves DEF Finalize
<1>5. ASSUME CancelCheckout(s)
      PROVE  SaleKept
  BY <1>5, VoidMoves DEF CancelCheckout
<1>6. ASSUME Reap(s)
      PROVE  SaleKept
  BY <1>6, VoidMoves, SalesSame DEF Reap
<1>7. ASSUME NEW q \in 1 .. MaxQty, NEW m \in 0 .. MaxQty * Price, CreateRefund(s, q, m)
      PROVE  SaleKept
  BY <1>7, RefundMoves, SaleConstants
<1>8. ASSUME NEW p \in 1 .. MaxQty * Price, RedeemPoints(s, p)
      PROVE  SaleKept
  BY <1>8, SalesSame DEF RedeemPoints
<1> QED
  BY <1>1, <1>2, <1>3, <1>4, <1>5, <1>6, <1>7, <1>8 DEF SaleStep

-----------------------------------------------------------------------------
(* The loyalty account *)

Kept == SumFunction([s \in Sales |-> earned[s] - back[s].points])
Spent == SumFunction(redeemed)

\* The points a sale in its status may have earned.
EarnedRight(s) ==
    earned[s] \in {0} \union IF s \in Members /\ status[s] = "completed"
                            THEN {Rounded(Total(s), PointCost)} ELSE {}

LEMMA LoyaltyByParts ==
    LoyaltyAgrees <=> /\ lifetime = Kept /\ points >= Kept - Spent
                      /\ Spent = 0 => points = Kept
                      /\ \A s \in Sales : EarnedRight(s)
BY DEF LoyaltyAgrees, Kept, Spent, EarnedRight

\* No sale has more reversed than it earned, so each holds a part of the total.
LEMMA KeptTypes ==
    ASSUME SaleInv
    PROVE  /\ Kept \in Nat /\ Spent \in Nat
           /\ \A s \in Sales : earned[s] - back[s].points <= Kept
<1> DEFINE f == [s \in Sales |-> earned[s] - back[s].points]
<1>1. \A s \in Sales : earned[s] \in Nat /\ redeemed[s] \in Nat /\ back[s].points \in Nat
                       /\ back[s].points <= earned[s]
  BY DEF SaleInv, SaleTypeOK
<1>2. \A s \in Sales : f[s] \in Nat /\ f[s] = earned[s] - back[s].points
  BY <1>1
<1>3. Kept = SumFunctionOnSet(f, Sales)
  BY DEF Kept, SumFunction
<1>4. Spent = SumFunctionOnSet(redeemed, Sales)
  BY DEF Spent, SumFunction, SaleInv, SaleTypeOK
<1> HIDE DEF f
<1>5. Kept \in Nat /\ Spent \in Nat
  BY <1>1, <1>2, <1>3, <1>4, SumNat, SaleConstants
<1>6. ASSUME NEW s \in Sales
      PROVE  f[s] <= Kept
  <2>1. Kept = f[s] + SumFunctionOnSet(f, Sales \ {s})
    BY <1>2, <1>3, SumRemove, SaleConstants
  <2>2. IsFiniteSet(Sales \ {s})
    BY SaleConstants, FS_RemoveElement
  <2>3. SumFunctionOnSet(f, Sales \ {s}) \in Nat
    BY <1>2, <2>2, SumNat
  <2> QED
    BY <1>2, <2>1, <2>3
<1> QED
  BY <1>2, <1>5, <1>6

\* One sale changes what it keeps.
LEMMA KeptChanges ==
    ASSUME SaleInv, SaleInv', NEW s \in Sales,
           \A x \in Sales \ {s} : earned'[x] = earned[x] /\ back'[x] = back[x]
    PROVE  Kept' = Kept - (earned[s] - back[s].points) + (earned'[s] - back'[s].points)
<1> DEFINE f == [x \in Sales |-> earned[x] - back[x].points]
           g == [x \in Sales |-> earned'[x] - back'[x].points]
<1>1. \A x \in Sales : f[x] \in Int /\ g[x] \in Int
  BY DEF SaleInv, SaleTypeOK
<1>2. \A x \in Sales \ {s} : g[x] = f[x]
  OBVIOUS
<1>3. f[s] = earned[s] - back[s].points /\ g[s] = earned'[s] - back'[s].points
  OBVIOUS
<1>4. Kept = SumFunctionOnSet(f, Sales) /\ Kept' = SumFunctionOnSet(g, Sales)
  BY DEF Kept, SumFunction
<1> HIDE DEF f, g
<1>5. SumFunctionOnSet(g, Sales) = SumFunctionOnSet(f, Sales) - f[s] + g[s]
  BY <1>1, <1>2, SaleConstants, SumChange
<1> QED
  BY <1>3, <1>4, <1>5

\* Nothing earned, nothing reversed, nothing completed.
LEMMA LoyaltySame ==
    ASSUME LoyaltyAgrees, UNCHANGED <<back, loyaltyVars>>,
           \A x \in Sales : \/ status'[x] = status[x] /\ sold'[x] = sold[x]
                            \/ status[x] # "completed" /\ status'[x] # "completed"
    PROVE  LoyaltyAgrees'
<1>1. UNCHANGED <<earned, redeemed, points, lifetime, back>>
  BY DEF loyaltyVars
<1>2. Kept' = Kept /\ Spent' = Spent
  BY <1>1 DEF Kept, Spent
<1>3. \A x \in Sales : EarnedRight(x)'
  <2> TAKE x \in Sales
  <2>1. EarnedRight(x)
    BY LoyaltyByParts
  <2> QED
    BY <1>1, <2>1 DEF EarnedRight, Total
<1> QED
  BY <1>1, <1>2, <1>3, LoyaltyByParts DEF LoyaltyAgrees, Kept, Spent, EarnedRight

\* A sale completes and is awarded the points of its total.
LEMMA AwardAgrees ==
    ASSUME SaleInv, SaleInv', LoyaltyAgrees, back' = back, NEW s \in Sales,
           status[s] # "completed", status'[s] = "completed",
           \A x \in Sales \ {s} : status'[x] = status[x] /\ sold'[x] = sold[x],
           NEW n, n = Total(s)', Award(s, n)
    PROVE  LoyaltyAgrees'
<1> DEFINE full == IF s \in Members THEN Rounded(n, PointCost) ELSE 0
<1>1. earned[s] = 0
  BY LoyaltyByParts DEF EarnedRight
<1>2. PICK p \in {0, full} :
         /\ earned' = [earned EXCEPT ![s] = earned[s] + p]
         /\ points' = points + p /\ lifetime' = lifetime + p /\ redeemed' = redeemed
  BY <1>1 DEF Award
<1>3. earned'[s] \in Nat /\ earned \in [Sales -> Nat] /\ back[s].points \in Nat
  BY DEF SaleInv, SaleTypeOK
<1> HIDE DEF full
<1>4. p \in Nat /\ earned'[s] = p /\ \A x \in Sales \ {s} : earned'[x] = earned[x]
  <2>1. earned'[s] = earned[s] + p
    BY <1>2, <1>3
  <2>2. full \in Nat
    <3>1. sold'[s] \in Nat
      BY DEF SaleInv, SaleTypeOK
    <3>2. n \in Nat
      BY <3>1, ProductType, SaleConstants DEF Total
    <3> QED
      BY <3>2, RoundedType, SaleConstants DEF full
  <2> QED
    BY <1>1, <1>2, <1>3, <2>1, <2>2
<1>5. Kept' = Kept + p
  <2>1. Kept' = Kept - (earned[s] - back[s].points) + (earned'[s] - back'[s].points)
    BY <1>4, KeptChanges
  <2> QED
    BY <1>1, <1>3, <1>4, <2>1, KeptTypes
<1>6. Spent' = Spent
  BY <1>2 DEF Spent
<1>7. \A x \in Sales : EarnedRight(x)'
  <2> TAKE x \in Sales
  <2>1. CASE x = s
    BY <1>2, <1>4, <2>1 DEF EarnedRight, full
  <2>2. CASE x # s
    <3>1. EarnedRight(x)
      BY LoyaltyByParts
    <3> QED
      BY <1>4, <2>2, <3>1 DEF EarnedRight, Total
  <2> QED
    BY <2>1, <2>2
<1>8. lifetime' = Kept' /\ points' >= Kept' - Spent' /\ (Spent' = 0 => points' = Kept')
  <2>1. points \in Nat /\ Kept \in Nat /\ Spent \in Nat
    BY KeptTypes DEF SaleInv, SaleTypeOK
  <2>2. lifetime = Kept /\ points >= Kept - Spent /\ (Spent = 0 => points = Kept)
    BY LoyaltyByParts
  <2> QED
    BY <1>2, <1>4, <1>5, <1>6, <2>1, <2>2
<1> QED
  BY <1>7, <1>8 DEF LoyaltyAgrees, Kept, Spent, EarnedRight

\* A refund reverses points of its sale, and the account has them: the floor at
\* zero hides nothing of lifetime.
LEMMA RefundAgrees ==
    ASSUME SaleInv, SaleInv', LoyaltyAgrees, NEW s \in Sales, NEW q \in Nat, NEW m \in Nat,
           CreateRefund(s, q, m)
    PROVE  LoyaltyAgrees'
<1>0. PICK p \in {0, Reversal(s, m)} :
         /\ back' = [back EXCEPT ![s] = [qty |-> @.qty + q, money |-> @.money + m,
                                         points |-> @.points + p]]
         /\ points' = IF points >= p THEN points - p ELSE 0
         /\ lifetime' = IF lifetime >= p THEN lifetime - p ELSE 0
  BY DEF CreateRefund
<1> DEFINE b == [qty |-> back[s].qty + q, money |-> back[s].money + m,
                 points |-> back[s].points + p]
<1>1. /\ status[s] = "completed" /\ back' = [back EXCEPT ![s] = b]
      /\ points' = IF points >= p THEN points - p ELSE 0
      /\ lifetime' = IF lifetime >= p THEN lifetime - p ELSE 0
      /\ UNCHANGED <<status, sold, earned, redeemed>>
  BY <1>0 DEF CreateRefund, SaleInv, SaleTypeOK
<1>2. /\ earned[s] \in Nat /\ back[s].points \in Nat /\ points \in Nat
      /\ back \in [Sales -> [qty : Nat, money : Nat, points : Nat]]
  BY DEF SaleInv, SaleTypeOK
<1>3. p \in Nat /\ back[s].points + p <= earned[s]
  <2>1. back[s].points <= earned[s]
    BY DEF SaleInv
  <2> QED
    BY <1>1, <1>2, <2>1, ReversalBounded
<1>4. b.points = back[s].points + p
  OBVIOUS
<1> HIDE DEF b
<1>5. back'[s] = b /\ \A x \in Sales \ {s} : earned'[x] = earned[x] /\ back'[x] = back[x]
  BY <1>1, <1>2
<1>6. Kept' = Kept - p
  <2>1. Kept' = Kept - (earned[s] - back[s].points) + (earned'[s] - back'[s].points)
    BY <1>5, KeptChanges
  <2> QED
    BY <1>1, <1>2, <1>3, <1>4, <1>5, <2>1, KeptTypes
<1>7. Spent' = Spent
  BY <1>1 DEF Spent
<1>8. \A x \in Sales : EarnedRight(x)'
  <2> TAKE x \in Sales
  <2>1. EarnedRight(x)
    BY LoyaltyByParts
  <2> QED
    BY <1>1, <2>1 DEF EarnedRight, Total
<1>9. lifetime' = Kept' /\ points' >= Kept' - Spent' /\ (Spent' = 0 => points' = Kept')
  <2>1. Kept \in Nat /\ Spent \in Nat /\ earned[s] - back[s].points <= Kept
    BY KeptTypes
  <2>2. p <= Kept
    BY <1>2, <1>3, <2>1
  <2>3. lifetime = Kept /\ points >= Kept - Spent /\ (Spent = 0 => points = Kept)
    BY LoyaltyByParts
  <2> QED
    BY <1>1, <1>2, <1>3, <1>6, <1>7, <2>1, <2>2, <2>3
<1> QED
  BY <1>8, <1>9 DEF LoyaltyAgrees, Kept, Spent, EarnedRight

LEMMA RedeemAgrees ==
    ASSUME SaleInv, SaleInv', LoyaltyAgrees, NEW s \in Sales, NEW p \in Nat \ {0},
           RedeemPoints(s, p)
    PROVE  LoyaltyAgrees'
<1>1. /\ redeemed[s] = 0 /\ redeemed' = [redeemed EXCEPT ![s] = p] /\ points' = points - p
      /\ UNCHANGED <<status, sold, back, earned, lifetime>>
  BY DEF RedeemPoints
<1>2. redeemed \in [Sales -> Nat] /\ points \in Nat
  BY DEF SaleInv, SaleTypeOK
<1>3. Kept' = Kept
  BY <1>1 DEF Kept
<1>4. Spent' = Spent + p
  <2>1. redeemed'[s] = p /\ \A x \in Sales \ {s} : redeemed'[x] = redeemed[x]
    BY <1>1, <1>2
  <2>2. DOMAIN redeemed = Sales /\ DOMAIN redeemed' = Sales
    BY <1>1, <1>2
  <2>3. Spent = SumFunctionOnSet(redeemed, Sales) /\ Spent' = SumFunctionOnSet(redeemed', Sales)
    BY <2>2 DEF Spent, SumFunction
  <2>4. (\A x \in Sales : redeemed[x] \in Int) /\ redeemed'[s] \in Int
    BY <1>2, <2>1
  <2>5. SumFunctionOnSet(redeemed', Sales)
          = SumFunctionOnSet(redeemed, Sales) - redeemed[s] + redeemed'[s]
    BY <2>1, <2>4, SaleConstants, SumChange
  <2> QED
    BY <1>1, <2>1, <2>3, <2>5, KeptTypes
<1>5. \A x \in Sales : EarnedRight(x)'
  <2> TAKE x \in Sales
  <2>1. EarnedRight(x)
    BY LoyaltyByParts
  <2> QED
    BY <1>1, <2>1 DEF EarnedRight, Total
<1>6. lifetime' = Kept' /\ points' >= Kept' - Spent' /\ (Spent' = 0 => points' = Kept')
  <2>1. Kept \in Nat /\ Spent \in Nat
    BY KeptTypes
  <2>2. lifetime = Kept /\ points >= Kept - Spent
    BY LoyaltyByParts
  <2> QED
    BY <1>1, <1>2, <1>3, <1>4, <2>1, <2>2
<1> QED
  BY <1>5, <1>6 DEF LoyaltyAgrees, Kept, Spent, EarnedRight

LEMMA SaleStepAgrees ==
    ASSUME SaleInv, SaleInv', LoyaltyAgrees, NEW s \in Sales, SaleStep(s)
    PROVE  LoyaltyAgrees'
<1>0. status \in [Sales -> Statuses] /\ sold \in [Sales -> Nat]
  BY DEF SaleInv, SaleTypeOK
<1>1. ASSUME NEW q \in 1 .. MaxQty, Checkout(s, q)
      PROVE  LoyaltyAgrees'
  <2>1. /\ status[s] = "none" /\ status' = [status EXCEPT ![s] = "pending"]
        /\ sold' = [sold EXCEPT ![s] = q] /\ UNCHANGED <<back, loyaltyVars>>
    BY <1>1 DEF Checkout, Record
  <2>2. \A x \in Sales : \/ status'[x] = status[x] /\ sold'[x] = sold[x]
                         \/ status[x] # "completed" /\ status'[x] # "completed"
    BY <1>0, <2>1
  <2> QED
    BY <2>1, <2>2, LoyaltySame
<1>2. ASSUME NEW q \in 1 .. MaxQty, NEW a \in Resolutions(q), CheckoutResolved(s, q, a)
      PROVE  LoyaltyAgrees'
  <2>1. /\ status[s] = "none" /\ status' = [status EXCEPT ![s] = "completed"]
        /\ sold' = [sold EXCEPT ![s] = q] /\ back' = back /\ Award(s, q * Price)
    BY <1>2 DEF CheckoutResolved, Record
  <2>2. /\ status'[s] = "completed" /\ sold'[s] = q
        /\ \A x \in Sales \ {s} : status'[x] = status[x] /\ sold'[x] = sold[x]
    BY <1>0, <2>1
  <2>3. q * Price = Total(s)'
    BY <2>2 DEF Total
  <2> QED
    BY <2>1, <2>2, <2>3, AwardAgrees
<1>3. ASSUME Capture(s) \/ SendToKitchen(s) \/ Expire(s)
      PROVE  LoyaltyAgrees'
  BY <1>3, LoyaltySame DEF Capture, SendToKitchen, Expire, saleVars
<1>4. ASSUME Finalize(s)
      PROVE  LoyaltyAgrees'
  <2>1. Settle(s) /\ sold' = sold /\ back' = back
    BY <1>4 DEF Finalize
  <2>2. CASE status[s] = "pending"
    <3>1. status' = [status EXCEPT ![s] = "completed"] /\ Award(s, Total(s))
      BY <2>1, <2>2 DEF Settle
    <3>2. status'[s] = "completed" /\ \A x \in Sales \ {s} : status'[x] = status[x]
      BY <1>0, <3>1
    <3>3. Total(s) = Total(s)'
      BY <2>1 DEF Total
    <3> QED
      BY <2>1, <2>2, <3>1, <3>2, <3>3, AwardAgrees
  <2>3. CASE status[s] # "pending"
    BY <2>1, <2>3, LoyaltySame DEF Settle
  <2> QED
    BY <2>2, <2>3
<1>5. ASSUME VoidPending(s)
      PROVE  LoyaltyAgrees'
  <2>1. /\ status[s] = "pending" /\ status' = [status EXCEPT ![s] = "voided"]
        /\ sold' = sold /\ UNCHANGED <<back, loyaltyVars>>
    BY <1>5 DEF VoidPending
  <2>2. \A x \in Sales : \/ status'[x] = status[x] /\ sold'[x] = sold[x]
                         \/ status[x] # "completed" /\ status'[x] # "completed"
    BY <1>0, <2>1
  <2> QED
    BY <2>1, <2>2, LoyaltySame
<1>6. ASSUME Reap(s)
      PROVE  LoyaltyAgrees'
  BY <1>5, <1>6, LoyaltySame DEF Reap
<1>7. ASSUME NEW q \in 1 .. MaxQty, NEW m \in 0 .. MaxQty * Price, CreateRefund(s, q, m)
      PROVE  LoyaltyAgrees'
  BY <1>7, RefundAgrees, SaleConstants
<1>8. ASSUME NEW p \in 1 .. MaxQty * Price, RedeemPoints(s, p)
      PROVE  LoyaltyAgrees'
  BY <1>8, RedeemAgrees, SaleConstants
<1> QED
  BY <1>1, <1>2, <1>3, <1>4, <1>5, <1>6, <1>7, <1>8 DEF SaleStep, CancelCheckout

-----------------------------------------------------------------------------
(* The store *)

Books ==
    /\ StoreInv /\ SaleBooks /\ RoomBooks
    /\ StockConserved /\ ReturnsMatch /\ LoyaltyAgrees

LEMMA BooksOpen == StoreInit => Books
<1> SUFFICES ASSUME StoreInit PROVE Books
  OBVIOUS
<1>0. StoreInv /\ SaleInv
  BY StoreInitEstablishes DEF StoreInv
<1>1. /\ stock = OpeningStock
      /\ \A s \in Sales : /\ status[s] = "none" /\ sold[s] = 0 /\ earned[s] = 0 /\ redeemed[s] = 0
                          /\ back[s].points = 0 /\ taken[s] = <<>>
                          /\ returned[s] = [l \in Locations |-> 0]
      /\ points = 0 /\ lifetime = 0
  BY DEF StoreInit, Init, SaleInit
<1>2. SaleBooks
  <2>1. <<>> \in Allocations
    BY DEF Allocations
  <2>2. taken \in [Sales -> Allocations] /\ returned \in [Sales -> [Locations -> Nat]]
    BY <2>1 DEF StoreInit, Init, SaleInit
  <2> QED
    BY <1>1, <2>2, StockConstants DEF SaleBooks
<1>3. RoomBooks
  <2>1. DefaultLocation \in Locations
    BY DEF Locations
  <2>2. transfer = [t \in Transfers |-> [status |-> "none", src |-> DefaultLocation,
                                         dst |-> DefaultLocation, qty |-> 0, received |-> 0]]
    BY DEF StoreInit, RoomInit
  <2>3. count = [c \in Counts |-> [status |-> "none", expected |-> 0,
                                   counted |-> Uncounted, net |-> 0]]
    BY DEF StoreInit, RoomInit
  <2>4. order = [p \in Orders |-> [status |-> "none", qty |-> 0, receipts |-> 0, credited |-> 0]]
    BY DEF StoreInit, RoomInit
  <2>5. RoomTypeOK
    BY <2>1, <2>2, <2>3, <2>4 DEF RoomTypeOK
  <2> QED
    BY <2>2, <2>3, <2>5 DEF RoomBooks
<1>4. StockConserved
  <2> DEFINE f == [s \in Sales |-> WithCustomer(s)]
             g == [t \in Transfers |-> Road(t)]
             h == [p \in Orders |-> order[p].credited]
             k == [c \in Counts |-> count[c].net]
  <2>1. \A s \in Sales : f[s] = 0
    BY <1>1 DEF WithCustomer
  <2>2. \A t \in Transfers : g[t] = 0
    BY DEF StoreInit, RoomInit, Road, RoadOf
  <2>3. (\A p \in Orders : h[p] = 0) /\ \A c \in Counts : k[c] = 0
    BY DEF StoreInit, RoomInit
  <2>4. /\ WithCustomers = SumFunctionOnSet(f, Sales)
        /\ OnTheRoad = SumFunctionOnSet(g, Transfers)
        /\ Supplied = SumFunctionOnSet(h, Orders) /\ Corrected = SumFunctionOnSet(k, Counts)
    BY TotalsAreSums
  <2> HIDE DEF f, g, h, k
  <2>5. WithCustomers = 0 /\ OnTheRoad = 0 /\ Supplied = 0 /\ Corrected = 0
    BY <2>1, <2>2, <2>3, <2>4, SumZero, SaleConstants, RoomConstants
  <2> QED
    BY <1>1, <2>5, OpeningType DEF StockConserved
<1>5. ReturnsMatch
  <2> SUFFICES ASSUME NEW s \in Sales PROVE ReturnBook(s)
    BY ReturnsBySale
  <2> DEFINE z == [l \in Locations |-> 0]
  <2>1. \A l \in Locations : z[l] = 0
    OBVIOUS
  <2>2. DOMAIN z = Locations
    OBVIOUS
  <2>3. returned[s] = z
    BY <1>1
  <2> HIDE DEF z
  <2>4. SumFunction(z) = 0
    BY <2>1, <2>2, FiniteLocations, SumZero DEF SumFunction
  <2> QED
    BY <1>1, <2>3, <2>4 DEF ReturnBook
<1>6. LoyaltyAgrees
  <2> DEFINE f == [s \in Sales |-> earned[s] - back[s].points]
  <2>1. \A s \in Sales : f[s] = 0
    BY <1>1
  <2>2. Kept = SumFunctionOnSet(f, Sales)
    BY DEF Kept, SumFunction
  <2>3. Spent = SumFunctionOnSet(redeemed, Sales)
    BY <1>0 DEF Spent, SumFunction, SaleInv, SaleTypeOK
  <2> HIDE DEF f
  <2>4. Kept = 0 /\ Spent = 0
    BY <1>1, <2>1, <2>2, <2>3, SumZero, SaleConstants
  <2>5. \A s \in Sales : EarnedRight(s)
    BY <1>1 DEF EarnedRight
  <2> QED
    BY <1>1, <2>4, <2>5, LoyaltyByParts
<1> QED
  BY <1>0, <1>2, <1>3, <1>4, <1>5, <1>6 DEF Books

\* A step that is not of the back office.
LEMMA NextKeepsBooks ==
    ASSUME SaleInv, SaleInv', SaleBooks, RoomTypeOK, ReturnsMatch, LoyaltyAgrees,
           Next, UNCHANGED roomVars
    PROVE  SaleKept /\ LoyaltyAgrees'
<1>1. ASSUME NEW s \in Sales, SaleStep(s)
      PROVE  SaleKept /\ LoyaltyAgrees'
  BY <1>1, SaleStepBooks, SaleStepAgrees
<1>2. CASE FindStale
  BY <1>2, SalesSame, LoyaltySame DEF FindStale
<1>3. CASE UNCHANGED <<stock, saleVars>>
  BY <1>3, SalesSame, LoyaltySame DEF saleVars
<1> QED
  BY <1>1, <1>2, <1>3 DEF Next

LEMMA BooksStep ==
    ASSUME Books, [StoreNext]_storeVars
    PROVE  Books'
<1>0. /\ StoreInv' /\ SaleInv' /\ SaleInv /\ SaleBooks /\ RoomBooks /\ RoomTypeOK
      /\ StockConserved /\ ReturnsMatch /\ LoyaltyAgrees
  BY StoreStep DEF Books, StoreInv, RoomBooks
<1>1. Held = OnHand(OpeningStock)
  BY <1>0, ConservedIsHeld
\* Conservation follows from what either kind of step leaves true.
<1>2. ASSUME Held' = Held, SaleBooks', RoomBooks'
      PROVE  StockConserved'
  <2>1. OnHand(stock') \in Nat
    BY <1>2, OnHandType DEF SaleBooks
  <2>2. WithCustomers' \in Int
    <3> DEFINE f == [s \in Sales |-> WithCustomer(s)']
    <3>1. \A s \in Sales : f[s] \in Int
      BY <1>0 DEF SaleInv, SaleTypeOK, WithCustomer
    <3>2. WithCustomers' = SumFunctionOnSet(f, Sales)
      BY DEF WithCustomers, SumFunction
    <3> HIDE DEF f
    <3> QED
      BY <3>1, <3>2, SumInt, SaleConstants
  <2>3. OnTheRoad' \in Int /\ Supplied' \in Int /\ Corrected' \in Int
    <3> DEFINE f == [t \in Transfers |-> Road(t)']
               g == [p \in Orders |-> order'[p].credited]
               h == [c \in Counts |-> count'[c].net]
    <3>1. \A t \in Transfers : f[t] \in Int
      BY <1>2 DEF RoomBooks, RoomTypeOK, Road, RoadOf
    <3>2. (\A p \in Orders : g[p] \in Int) /\ \A c \in Counts : h[c] \in Int
      BY <1>2 DEF RoomBooks, RoomTypeOK
    <3>3. /\ OnTheRoad' = SumFunctionOnSet(f, Transfers)
          /\ Supplied' = SumFunctionOnSet(g, Orders) /\ Corrected' = SumFunctionOnSet(h, Counts)
      BY DEF OnTheRoad, Road, RoadOf, Supplied, Corrected, SumFunction
    <3> HIDE DEF f, g, h
    <3> QED
      BY <3>1, <3>2, <3>3, SumInt, RoomConstants
  <2>4. OnHand(stock') + WithCustomers' + OnTheRoad' - Supplied' - Corrected' = OnHand(OpeningStock)
    BY <1>1, <1>2 DEF Held
  <2> QED
    BY <2>1, <2>2, <2>3, <2>4, OpeningType DEF StockConserved
<1>3. CASE Next /\ UNCHANGED roomVars
  <2>1. SaleKept /\ LoyaltyAgrees'
    BY <1>0, <1>3, NextKeepsBooks
  <2>2. RoomBooks'
    BY <1>0, <1>3 DEF roomVars, RoomBooks, RoomTypeOK
  <2> QED
    BY <1>0, <1>2, <2>1, <2>2 DEF Books, SaleKept
<1>4. CASE RoomNext /\ UNCHANGED <<kitchenVars, saleVars>>
  <2>1. RoomKept
    BY <1>0, <1>4, RoomStepKeeps
  <2>2. UNCHANGED <<status, sold, taken, back, returned, loyaltyVars>>
    BY <1>4 DEF saleVars
  <2>3. SaleBooks'
    BY <1>0, <2>1, <2>2 DEF SaleBooks, RoomKept
  <2>4. ReturnsMatch'
    BY <1>0, <2>2 DEF ReturnsMatch
  <2>5. LoyaltyAgrees'
    BY <1>0, <2>2, LoyaltySame
  <2> QED
    BY <1>0, <1>2, <2>1, <2>3, <2>4, <2>5 DEF Books, RoomKept
<1>5. CASE UNCHANGED storeVars
  <2>1. UNCHANGED roomVars /\ UNCHANGED <<stock, saleVars>>
    BY <1>5 DEF storeVars, vars
  <2>2. SaleKept /\ LoyaltyAgrees'
    BY <1>0, <2>1, SalesSame, LoyaltySame DEF saleVars
  <2>3. RoomBooks'
    BY <1>0, <2>1 DEF roomVars, RoomBooks, RoomTypeOK
  <2> QED
    BY <1>0, <1>2, <2>2, <2>3 DEF Books, SaleKept
<1> QED
  BY <1>3, <1>4, <1>5 DEF StoreNext

\* The inductive invariant of the store.
THEOREM BooksInvariance == StoreSpec => []Books
BY BooksOpen, BooksStep, PTL DEF StoreSpec

\* Every variable keeps its type: in particular the stock of no location goes
\* below zero, whatever debits it (adjust_stock_at_location_with_reason).
THEOREM StoreTyped == StoreSpec => []StoreTypeOK
<1>1. Books => StoreTypeOK
  <2> SUFFICES ASSUME Books PROVE StoreTypeOK
    OBVIOUS
  <2>1. \A s \in Sales : \A i \in DOMAIN taken[s] : taken[s][i] \in [loc : Locations, qty : Nat]
    <3> TAKE s \in Sales
    <3>1. taken[s] \in Seq([loc : Locations, qty : Nat])
      BY DEF Books, SaleBooks, Allocations
    <3> QED
      BY <3>1, SeqElements
  <2>2. SaleTypeOK /\ KitchenTypeOK /\ RoomTypeOK
    BY DEF Books, StoreInv, SaleInv, KitchenInv, RoomBooks
  <2> QED
    BY <2>1, <2>2 DEF Books, SaleBooks, StoreTypeOK, TypeOK
<1> QED
  BY <1>1, BooksInvariance, PTL

\* No unit is lost or minted, for any number of locations, sales, transfers,
\* counts and orders and any interleaving of them (sales_checkout.rs,
\* sales_lifecycle.rs, refunds, stock_transfers.rs, stock_counts.rs).
THEOREM StockIsConserved == StoreSpec => []StockConserved
<1>1. Books => StockConserved
  BY DEF Books
<1> QED
  BY <1>1, BooksInvariance, PTL

\* A voided sale gave back what it took where it took it, a completed one the
\* units it refunded and no more (void_pending_sale, create_refund).
THEOREM ReturnsAreRight == StoreSpec => []ReturnsMatch
<1>1. Books => ReturnsMatch
  BY DEF Books
<1> QED
  BY <1>1, BooksInvariance, PTL

\* The loyalty account is the sum of its ledger, and its floor at zero hides no
\* reversal (earn_points_with_conn, reverse_loyalty_on_refund).
THEOREM AccountAgrees == StoreSpec => []LoyaltyAgrees
<1>1. Books => LoyaltyAgrees
  BY DEF Books
<1> QED
  BY <1>1, BooksInvariance, PTL

\* Completing a count leaves on hand what was counted, whatever was sold, sent
\* or received since (complete_stock_count).
THEOREM CountsHold == StoreSpec => CountHolds
<1>1. ASSUME Books, [StoreNext]_storeVars
      PROVE  [\A c \in Counts :
                /\ count[c].status = "open" /\ count'[c].status = "completed"
                /\ count[c].counted \notin {Uncounted, count[c].expected}
                => OnHand(stock') = count[c].counted]_count
  <2> SUFFICES ASSUME NEW c \in Counts,
                      count[c].status = "open", count'[c].status = "completed",
                      count[c].counted \notin {Uncounted, count[c].expected}
               PROVE  OnHand(stock') = count[c].counted
    OBVIOUS
  <2>0. /\ stock \in [Locations -> Nat] /\ count \in [Counts -> CountStates]
    BY <1>1 DEF Books, SaleBooks, RoomBooks, RoomTypeOK, CountStates
  <2>1. PICK d \in Counts : CountStep(d)
    BY <1>1 DEF StoreNext, storeVars, roomVars, RoomNext, TransferStep, OrderStep,
                CreateTransfer, EditTransfer, ReceiveTransfer, SendTransfer, CancelTransfer,
                CreateOrder, UpdateOrderStatus, ReceiveOrder
  <2>2. CompleteCount(d) /\ d = c
    <3>1. CASE OpenCount(d)
      BY <2>0, <3>1 DEF OpenCount
    <3>2. CASE CancelCount(d)
      BY <2>0, <3>2 DEF CancelCount
    <3>3. ASSUME NEW n \in 0 .. MaxLine, EnterCount(d, n)
          PROVE  FALSE
      BY <2>0, <3>3 DEF EnterCount
    <3>4. CASE CompleteCount(d)
      BY <2>0, <3>4 DEF CompleteCount
    <3> QED
      BY <2>1, <3>1, <3>2, <3>3, <3>4 DEF CountStep
  <2>3. count[c] \in CountStates
    BY <2>0
  <2> QED
    BY <2>0, <2>2, <2>3, CountSettles
<1>2. Books /\ [StoreNext]_storeVars =>
        [\A c \in Counts :
            /\ count[c].status = "open" /\ count'[c].status = "completed"
            /\ count[c].counted \notin {Uncounted, count[c].expected}
            => OnHand(stock') = count[c].counted]_count
  BY <1>1
<1> QED
  BY <1>2, BooksInvariance, PTL DEF StoreSpec, CountHolds
=============================================================================
