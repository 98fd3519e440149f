---------------------------- MODULE ReplicasProofs ----------------------------
(***************************************************************************)
(* What Replicas promises for any number of terminals, locations and        *)
(* effects: no stock goes below zero where overselling is not allowed, and   *)
(* a row is quarantined before it has used up its attempts.  An install with *)
(* one location promises more: the stock of a terminal that does not         *)
(* oversell is what its effects and receipts add up to, and the replicas     *)
(* implement the counter of StockCounter.  The runs Replicas_locations and   *)
(* Replicas_oversold show why that fails otherwise.                         *)
(***************************************************************************)
EXTENDS Replicas, Sums

-----------------------------------------------------------------------------
(* The invariant *)

\* An effect that has not happened is nowhere; one a terminal has is performed.
Issued ==
    /\ \A e \in outbox \union cloud \union announced : e \in Effects => delta[e] # 0
    /\ \A t \in Terminals : \A e \in applied[t] : delta[e] # 0

\* A sale takes stock when it is made, and has it until it is voided.
SaleDeltas ==
    \A s \in Sales :
        /\ status[s] = "none" => delta[s] = 0
        /\ status[s] # "none" => delta[s] < 0 /\ s \in applied[Home[s]]

\* A row that may still be sent has an attempt left.
AttemptLeft ==
    \A t \in Terminals : \A e \in Effects \ dead[t] : attempts[t][e] < Budget

ReplicaInv == TypeOK /\ Issued /\ SaleDeltas /\ AttemptLeft

\* With one location its row is the aggregate, unless it was oversold.
RowIsTotal == \A t \in Firm : total[t] = stock[t][DefaultLocation]

SingleInv == ReplicaInv /\ RowIsTotal /\ Accounted

-----------------------------------------------------------------------------
(* The two writers *)

\* The rows of every terminal, and the floor where there is one.
RowsType(rows) ==
    /\ rows \in [Terminals -> [Locations -> Int]]
    /\ \A t \in Terminals : \A l \in Locations \ Overselling[t] : rows[t][l] >= 0

LEMMA AfterType ==
    ASSUME TypeOK, NEW t \in Terminals, NEW l \in Locations, NEW d \in Int
    PROVE  /\ After(t, l, d) \in [Locations -> Int]
           /\ After(t, l, d)[l] = stock[t][l] + d
           /\ \A k \in Locations \ {l} : After(t, l, d)[k] = stock[t][k]
           /\ Sum(After(t, l, d)) \in Int
<1> DEFINE rows == [stock[t] EXCEPT ![l] = @ + d]
<1>1. stock[t] \in [Locations -> Int] /\ stock[t][l] + d \in Int
  BY DEF TypeOK
<1>2. /\ rows \in [Locations -> Int] /\ rows[l] = stock[t][l] + d
      /\ \A k \in Locations \ {l} : rows[k] = stock[t][k]
  BY <1>1
<1>3. DOMAIN rows = Locations /\ \A x \in Locations : rows[x] \in Int
  BY <1>2
<1>4. After(t, l, d) = rows
  BY DEF After
<1> HIDE DEF rows
<1>5. Sum(rows) \in Int
  BY <1>3, SumInt, ReplicaConstants DEF Sum, SumFunction
<1> QED
  BY <1>2, <1>4, <1>5

LEMMA WriteAtTypes ==
    ASSUME TypeOK, NEW t \in Terminals, NEW l \in Locations, NEW d \in Int,
           FitsSale(t, l, d), WriteAt(t, l, d)
    PROVE  RowsType(stock') /\ total' \in [Terminals -> Nat]
<1>1. /\ After(t, l, d) \in [Locations -> Int]
      /\ After(t, l, d)[l] = stock[t][l] + d
      /\ \A k \in Locations \ {l} : After(t, l, d)[k] = stock[t][k]
      /\ Sum(After(t, l, d)) \in Int
  BY AfterType
<1>2. stock' = [stock EXCEPT ![t] = After(t, l, d)]
  BY DEF WriteAt
<1>3. stock' \in [Terminals -> [Locations -> Int]]
  BY <1>1, <1>2 DEF TypeOK
<1>4. /\ stock'[t] = After(t, l, d)
      /\ \A x \in Terminals \ {t} : stock'[x] = stock[x]
  BY <1>2 DEF TypeOK
<1>5. ASSUME NEW x \in Terminals, NEW k \in Locations \ Overselling[x]
      PROVE  stock'[x][k] >= 0
  <2>1. stock[x][k] >= 0
    BY DEF TypeOK
  <2>2. CASE x = t /\ k = l
    BY <1>1, <1>4, <2>2 DEF FitsSale, FitsAt
  <2>3. CASE x = t /\ k # l
    BY <1>1, <1>4, <2>1, <2>3
  <2>4. CASE x # t
    BY <1>4, <2>1, <2>4
  <2> QED
    BY <2>2, <2>3, <2>4
<1>6. total' \in [Terminals -> Nat]
  BY <1>1 DEF WriteAt, TypeOK
<1> QED
  BY <1>3, <1>5, <1>6 DEF RowsType

LEMMA WriteTotalTypes ==
    ASSUME TypeOK, NEW t \in Terminals, NEW d \in Int, FitsTotal(t, d), WriteTotal(t, d)
    PROVE  RowsType(stock') /\ total' \in [Terminals -> Nat]
<1>1. total[t] + d \in Nat /\ total[t] + d \in Int /\ DefaultLocation \in Locations
  BY ReplicaConstants DEF TypeOK, FitsTotal
<1>2. /\ stock' \in [Terminals -> [Locations -> Int]]
      /\ \A x \in Terminals : \A k \in Locations :
           stock'[x][k] = stock[x][k] \/ stock'[x][k] = total[t] + d
  BY <1>1 DEF TypeOK, WriteTotal
<1>3. ASSUME NEW x \in Terminals, NEW k \in Locations \ Overselling[x]
      PROVE  stock'[x][k] >= 0
  <2>1. stock[x][k] >= 0
    BY DEF TypeOK
  <2> QED
    BY <1>1, <1>2, <2>1
<1>4. total' \in [Terminals -> Nat]
  BY <1>1 DEF TypeOK, WriteTotal
<1> QED
  BY <1>2, <1>3, <1>4 DEF RowsType

-----------------------------------------------------------------------------
(* Any number of locations *)

LEMMA OpeningTotal == Sum(OpeningStock) \in Nat
<1>1. DOMAIN OpeningStock = Locations /\ \A l \in Locations : OpeningStock[l] \in Nat
  BY ReplicaConstants
<1> QED
  BY <1>1, SumNat, ReplicaConstants DEF Sum, SumFunction

LEMMA ReplicaInit == Init => ReplicaInv
<1> SUFFICES ASSUME Init PROVE ReplicaInv
  OBVIOUS
<1>1. TypeOK
  <2>1. OpeningStock \in [Locations -> Int] /\ \A l \in Locations : OpeningStock[l] >= 0
    BY ReplicaConstants
  <2> QED
    BY <2>1, OpeningTotal, ReplicaConstants DEF Init, TypeOK
<1>2. Issued /\ SaleDeltas /\ AttemptLeft
  BY ReplicaConstants DEF Init, Issued, SaleDeltas, AttemptLeft, Effects
<1> QED
  BY <1>1, <1>2 DEF ReplicaInv

\* Where an effect takes place first, whatever it is.
LEMMA Performed ==
    ASSUME ReplicaInv, NEW e \in Effects, NEW l \in Locations,
           NEW d \in -MaxQty .. MaxQty, d # 0, FitsSale(Home[e], l, d), Perform(e, l, d)
    PROVE  /\ RowsType(stock')
           /\ total' \in [Terminals -> Nat]
           /\ delta' \in [Effects -> -MaxQty .. MaxQty]
           /\ applied' \in [Terminals -> SUBSET Effects]
           /\ delta'[e] = d /\ \A x \in Effects \ {e} : delta'[x] = delta[x]
           /\ e \in applied'[Home[e]] /\ \A t \in Terminals : applied[t] \subseteq applied'[t]
           /\ \A t \in Terminals : \A x \in applied'[t] : delta'[x] # 0
<1>0. TypeOK /\ Issued /\ d \in Int /\ e \in Rows /\ Home[e] \in Terminals
  BY ReplicaConstants DEF ReplicaInv, Rows
<1>1. /\ RowsType(stock')
      /\ total' \in [Terminals -> Nat]
  BY <1>0, WriteAtTypes DEF Perform
<1>2. /\ delta' \in [Effects -> -MaxQty .. MaxQty]
      /\ applied' \in [Terminals -> SUBSET Effects]
      /\ delta'[e] = d /\ \A x \in Effects \ {e} : delta'[x] = delta[x]
      /\ e \in applied'[Home[e]] /\ \A t \in Terminals : applied[t] \subseteq applied'[t]
      /\ \A t \in Terminals : applied'[t] \subseteq applied[t] \union {e}
  BY <1>0 DEF Perform, TypeOK
<1>3. ASSUME NEW t \in Terminals, NEW x \in applied'[t]
      PROVE  delta'[x] # 0
  <2>1. x \in Effects
    BY <1>2
  <2> QED
    BY <1>0, <1>2, <1>3, <2>1 DEF Issued
<1> QED
  BY <1>1, <1>2, <1>3

LEMMA SoldKeeps ==
    ASSUME ReplicaInv, NEW s \in Sales, NEW l \in Locations, NEW q \in 1 .. MaxQty,
           NEW outcome \in {"pending", "completed"}, Sold(s, l, q, outcome)
    PROVE  ReplicaInv'
<1>0. /\ s \in Effects /\ s \in Rows /\ -q \in -MaxQty .. MaxQty /\ -q # 0 /\ -q < 0
      /\ TypeOK /\ Issued /\ SaleDeltas /\ AttemptLeft /\ Sales \subseteq Effects
      /\ Home[s] \in Terminals
  BY ReplicaConstants DEF Effects, Rows, ReplicaInv
<1>1. FitsSale(Home[s], l, -q) /\ Perform(s, l, -q)
  BY DEF Sold
<1>2. /\ RowsType(stock')
      /\ total' \in [Terminals -> Nat]
      /\ delta' \in [Effects -> -MaxQty .. MaxQty]
      /\ applied' \in [Terminals -> SUBSET Effects]
      /\ delta'[s] = -q /\ \A x \in Effects \ {s} : delta'[x] = delta[x]
      /\ s \in applied'[Home[s]] /\ \A t \in Terminals : applied[t] \subseteq applied'[t]
      /\ \A t \in Terminals : \A x \in applied'[t] : delta'[x] # 0
  BY <1>0, <1>1, Performed
<1>3. TypeOK'
  BY <1>0, <1>2 DEF RowsType, TypeOK, Sold, Perform, failureVars, settingVars
<1>4. Issued'
  BY <1>0, <1>2 DEF Issued, Sold, Perform
<1>5. SaleDeltas'
  <2> SUFFICES ASSUME NEW z \in Sales
               PROVE  /\ status'[z] = "none" => delta'[z] = 0
                      /\ status'[z] # "none" => delta'[z] < 0 /\ z \in applied'[Home[z]]
    BY DEF SaleDeltas
  <2>1. Home[z] \in Terminals
    BY <1>0, ReplicaConstants DEF Rows
  <2>2. CASE z = s
    BY <1>0, <1>2, <2>2 DEF Sold, TypeOK
  <2>3. CASE z # s
    BY <1>0, <1>2, <2>1, <2>3 DEF Sold, TypeOK, SaleDeltas
  <2> QED
    BY <2>2, <2>3
<1>6. AttemptLeft'
  BY <1>0 DEF AttemptLeft, Sold, Perform, failureVars
<1> QED
  BY <1>3, <1>4, <1>5, <1>6 DEF ReplicaInv

LEMMA VoidKeeps ==
    ASSUME ReplicaInv, NEW s \in Sales, VoidPending(s)
    PROVE  ReplicaInv'
<1>0. /\ s \in Effects /\ TypeOK /\ Issued /\ SaleDeltas /\ AttemptLeft
      /\ Home[s] \in Terminals /\ place[s] \in Locations /\ delta[s] \in Int
  BY ReplicaConstants DEF Effects, Rows, ReplicaInv, TypeOK
<1>1. delta[s] < 0
  BY <1>0 DEF SaleDeltas, VoidPending
<1>2. FitsSale(Home[s], place[s], -delta[s])
  BY DEF FitsSale, VoidPending
<1>3. /\ RowsType(stock')
      /\ total' \in [Terminals -> Nat]
  BY <1>0, <1>2, WriteAtTypes DEF VoidPending
<1>4. TypeOK'
  BY <1>0, <1>3 DEF RowsType, TypeOK, VoidPending, failureVars, settingVars
<1>5. Issued' /\ AttemptLeft'
  BY <1>0 DEF Issued, AttemptLeft, VoidPending, failureVars
<1>6. SaleDeltas'
  BY <1>0 DEF SaleDeltas, VoidPending, TypeOK
<1> QED
  BY <1>4, <1>5, <1>6 DEF ReplicaInv

LEMMA FinalizeKeeps ==
    ASSUME ReplicaInv, NEW s \in Sales, Finalize(s)
    PROVE  ReplicaInv'
<1>0. TypeOK /\ Issued /\ SaleDeltas /\ AttemptLeft
  BY DEF ReplicaInv
<1>1. TypeOK'
  BY <1>0 DEF TypeOK, Finalize, stockVars, failureVars, settingVars
<1>2. Issued' /\ AttemptLeft'
  BY <1>0 DEF Issued, AttemptLeft, Finalize, failureVars
<1>3. SaleDeltas'
  BY <1>0 DEF SaleDeltas, Finalize, TypeOK
<1> QED
  BY <1>1, <1>2, <1>3 DEF ReplicaInv

\* A refund or an adjustment.
LEMMA OtherEffectKeeps ==
    ASSUME ReplicaInv, NEW e \in Refunds \union Adjustments, NEW l \in Locations,
           NEW d \in -MaxQty .. MaxQty, d # 0, FitsAt(Home[e], l, d), Perform(e, l, d),
           UNCHANGED saleVars,
           outbox' \subseteq outbox \union {e}, announced' \subseteq announced \union {e},
           announced' \subseteq Adjustments
    PROVE  ReplicaInv'
<1>0. /\ e \in Effects /\ e \in Rows /\ e \notin Sales /\ Sales \subseteq Effects
      /\ TypeOK /\ Issued /\ SaleDeltas /\ AttemptLeft
  BY ReplicaConstants DEF Effects, Rows, ReplicaInv
<1>2. /\ RowsType(stock')
      /\ total' \in [Terminals -> Nat]
      /\ delta' \in [Effects -> -MaxQty .. MaxQty]
      /\ applied' \in [Terminals -> SUBSET Effects]
      /\ delta'[e] = d /\ \A x \in Effects \ {e} : delta'[x] = delta[x]
      /\ e \in applied'[Home[e]] /\ \A t \in Terminals : applied[t] \subseteq applied'[t]
      /\ \A t \in Terminals : \A x \in applied'[t] : delta'[x] # 0
  BY <1>0, Performed DEF FitsSale
<1>3. TypeOK'
  BY <1>0, <1>2 DEF RowsType, TypeOK, saleVars, Perform, failureVars, settingVars
<1>4. Issued'
  BY <1>0, <1>2 DEF Issued, Perform
<1>5. SaleDeltas'
  <2> SUFFICES ASSUME NEW z \in Sales
               PROVE  /\ status'[z] = "none" => delta'[z] = 0
                      /\ status'[z] # "none" => delta'[z] < 0 /\ z \in applied'[Home[z]]
    BY DEF SaleDeltas
  <2>1. Home[z] \in Terminals /\ z # e /\ z \in Effects
    BY <1>0, ReplicaConstants DEF Rows
  <2> QED
    BY <1>0, <1>2, <2>1 DEF saleVars, SaleDeltas
<1>6. AttemptLeft'
  BY <1>0 DEF AttemptLeft, Perform, failureVars
<1> QED
  BY <1>3, <1>4, <1>5, <1>6 DEF ReplicaInv

\* Rows and events move; a setting is saved.
LEMMA QueueKeeps ==
    ASSUME ReplicaInv,
           UNCHANGED <<stockVars, saleVars, delta, applied, failureVars>>,
           outbox' \union cloud' \union announced'
             \subseteq outbox \union cloud \union announced \union Changes,
           Changes \intersect Effects = {},
           announced' \subseteq announced,
           setting' \in [Terminals -> Changes \union {Unset}],
           keyed' \in [Terminals -> BOOLEAN],
           handled' \in [Terminals -> SUBSET Changes]
    PROVE  ReplicaInv'
<1>0. TypeOK /\ Issued /\ SaleDeltas /\ AttemptLeft
  BY DEF ReplicaInv
<1>1. TypeOK'
  BY <1>0 DEF TypeOK, stockVars, saleVars, failureVars, Rows, Effects
<1>2. Issued' /\ AttemptLeft' /\ SaleDeltas'
  BY <1>0 DEF Issued, AttemptLeft, SaleDeltas, saleVars, failureVars
<1> QED
  BY <1>1, <1>2 DEF ReplicaInv

LEMMA ApplyKeeps ==
    ASSUME ReplicaInv, NEW t \in Terminals, NEW e \in Effects, Apply(t, e)
    PROVE  ReplicaInv'
<1>0. /\ TypeOK /\ Issued /\ SaleDeltas /\ AttemptLeft
      /\ delta[e] \in Int /\ delta[e] # 0 /\ DefaultLocation \in Locations
  BY ReplicaConstants DEF ReplicaInv, Apply, Arrives, Issued, TypeOK
<1>1. /\ RowsType(stock')
      /\ total' \in [Terminals -> Nat]
  BY <1>0, WriteAtTypes, WriteTotalTypes DEF Apply, Fits, Effect, FitsSale
<1>2. TypeOK'
  BY <1>0, <1>1, ReplicaConstants DEF RowsType, TypeOK, Apply, saleVars, settingVars
<1>3. Issued'
  BY <1>0 DEF Issued, Apply, TypeOK
<1>4. SaleDeltas'
  <2>1. \A s \in Sales : Home[s] \in Terminals
    BY ReplicaConstants DEF Rows, Effects
  <2> QED
    BY <1>0, <2>1 DEF SaleDeltas, Apply, TypeOK, saleVars
<1>5. AttemptLeft'
  BY <1>0, ReplicaConstants DEF AttemptLeft, Apply, TypeOK
<1> QED
  BY <1>2, <1>3, <1>4, <1>5 DEF ReplicaInv

LEMMA FailKeeps ==
    ASSUME ReplicaInv, NEW t \in Terminals, NEW e \in Effects, Fail(t, e)
    PROVE  ReplicaInv'
<1>0. TypeOK /\ Issued /\ SaleDeltas /\ AttemptLeft
  BY DEF ReplicaInv
<1>1. attempts[t][e] < Budget
  BY <1>0 DEF AttemptLeft, Fail, Arrives
<1>2. TypeOK'
  BY <1>0, <1>1, ReplicaConstants DEF TypeOK, Fail, stockVars, saleVars, settingVars
<1>3. Issued' /\ SaleDeltas'
  BY <1>0 DEF Issued, SaleDeltas, Fail, saleVars
<1>4. AttemptLeft'
  BY <1>0, <1>1, ReplicaConstants DEF AttemptLeft, Fail, TypeOK
<1> QED
  BY <1>2, <1>3, <1>4 DEF ReplicaInv

LEMMA RequeueKeeps ==
    ASSUME ReplicaInv, NEW t \in Terminals, NEW e \in Effects, Requeue(t, e)
    PROVE  ReplicaInv'
<1>0. TypeOK /\ Issued /\ SaleDeltas /\ AttemptLeft
  BY DEF ReplicaInv
<1>1. TypeOK'
  BY <1>0, ReplicaConstants DEF TypeOK, Requeue, stockVars, saleVars, settingVars
<1>2. Issued' /\ SaleDeltas'
  BY <1>0 DEF Issued, SaleDeltas, Requeue, saleVars
<1>3. AttemptLeft'
  BY <1>0, ReplicaConstants DEF AttemptLeft, Requeue, TypeOK
<1> QED
  BY <1>1, <1>2, <1>3 DEF ReplicaInv

LEMMA ReplicaStep ==
    ASSUME ReplicaInv, [Next]_vars
    PROVE  ReplicaInv'
<1>0. TypeOK /\ Changes \intersect Effects = {}
  BY ReplicaConstants DEF ReplicaInv
<1>1. ASSUME NEW s \in Sales, NEW l \in Locations, NEW q \in 1 .. MaxQty,
             Sell(s, l, q) \/ SellResolved(s, l, q)
      PROVE  ReplicaInv'
  BY <1>1, SoldKeeps DEF Sell, SellResolved
<1>2. ASSUME NEW s \in Sales, Finalize(s) \/ VoidPending(s)
      PROVE  ReplicaInv'
  BY <1>2, FinalizeKeeps, VoidKeeps
<1>3. ASSUME NEW r \in Refunds, NEW q \in 1 .. MaxQty, Refund(r, q)
      PROVE  ReplicaInv'
  <2>1. q \in -MaxQty .. MaxQty /\ q # 0 /\ place[SaleOf[r]] \in Locations
    BY <1>0, ReplicaConstants DEF TypeOK
  <2> QED
    BY <1>0, <1>3, <2>1, OtherEffectKeeps DEF Refund, TypeOK
<1>4. ASSUME NEW a \in Adjustments, NEW d \in -MaxQty .. MaxQty, Adjust(a, d)
      PROVE  ReplicaInv'
  BY <1>0, <1>4, OtherEffectKeeps, ReplicaConstants DEF Adjust, TypeOK
<1>5. ASSUME NEW a \in Adjustments, EnqueueAdjusted(a)
      PROVE  ReplicaInv'
  BY <1>0, <1>5, QueueKeeps DEF EnqueueAdjusted, settingVars, TypeOK
<1>6. ASSUME NEW t \in Terminals, Crash(t)
      PROVE  ReplicaInv'
  BY <1>0, <1>6, QueueKeeps DEF Crash, settingVars, TypeOK
<1>7. ASSUME NEW c \in Changes, ChangeSetting(c)
      PROVE  ReplicaInv'
  <2>1. setting' \in [Terminals -> Changes \union {Unset}]
    BY <1>0, <1>7 DEF ChangeSetting, TypeOK
  <2> QED
    BY <1>0, <1>7, <2>1, QueueKeeps DEF ChangeSetting, TypeOK
<1>8. ASSUME NEW i \in Rows, Push(i)
      PROVE  ReplicaInv'
  BY <1>0, <1>8, QueueKeeps DEF Push, settingVars, TypeOK
<1>9. ASSUME NEW t \in Terminals, NEW e \in Effects, Apply(t, e) \/ Fail(t, e) \/ Requeue(t, e)
      PROVE  ReplicaInv'
  BY <1>9, ApplyKeeps, FailKeeps, RequeueKeeps
<1>10. ASSUME NEW t \in Terminals, NEW c \in Changes, ReceiveChange(t, c)
       PROVE  ReplicaInv'
  <2>1. /\ setting' \in [Terminals -> Changes \union {Unset}]
        /\ keyed' \in [Terminals -> BOOLEAN]
        /\ handled' \in [Terminals -> SUBSET Changes]
    BY <1>0, <1>10 DEF ReceiveChange, TypeOK
  <2> QED
    BY <1>0, <1>10, <2>1, QueueKeeps DEF ReceiveChange
<1>11. CASE UNCHANGED vars
  BY <1>0, <1>11, QueueKeeps DEF vars, settingVars, TypeOK
<1> QED
  BY <1>1, <1>2, <1>3, <1>4, <1>5, <1>6, <1>7, <1>8, <1>9, <1>10, <1>11
     DEF Next, AtHome, Elsewhere

LEMMA ReplicaInvariance == Spec => []ReplicaInv
BY ReplicaInit, ReplicaStep, PTL DEF Spec

\* Whatever arrives, in whatever order and how often, no aggregate is negative, no
\* row is where its binding does not allow it, and every receipt and attempt count
\* keeps its type (apply_remote_in_tx, record_remote_failure).
THEOREM ReplicasTyped == Spec => []TypeOK
<1>1. ReplicaInv => TypeOK
  BY DEF ReplicaInv
<1> QED
  BY <1>1, ReplicaInvariance, PTL

-----------------------------------------------------------------------------
(* One location *)

LEMMA OneRow ==
    ASSUME Locations = {DefaultLocation}, NEW f \in [Locations -> Int]
    PROVE  Sum(f) = f[DefaultLocation]
<1>1. DOMAIN f = {DefaultLocation} /\ f[DefaultLocation] \in Int
  OBVIOUS
<1> QED
  BY <1>1, SumOfOne DEF Sum, SumFunction

\* The aggregate of t, and of no other, moves: by d, and with the row, if t is firm.
Moves(t, d) ==
    /\ total' = [total EXCEPT ![t] = total'[t]]
    /\ t \in Firm => total'[t] = total[t] + d
    /\ \A x \in Firm : stock'[x][DefaultLocation] = total'[x]

LEMMA WriteAtMoves ==
    ASSUME Locations = {DefaultLocation}, TypeOK, RowIsTotal, NEW t \in Terminals,
           NEW l \in Locations, NEW d \in Int, FitsSale(t, l, d), WriteAt(t, l, d)
    PROVE  Moves(t, d)
<1>1. /\ After(t, l, d) \in [Locations -> Int]
      /\ After(t, l, d)[l] = stock[t][l] + d
      /\ Sum(After(t, l, d)) \in Int
  BY AfterType
<1>2. l = DefaultLocation /\ Sum(After(t, l, d)) = stock[t][l] + d
  BY <1>1, OneRow
<1>3. stock' = [stock EXCEPT ![t] = After(t, l, d)]
  BY DEF WriteAt
<1>4. total' = [total EXCEPT ![t] = total'[t]]
  BY DEF WriteAt, TypeOK
<1>5. ASSUME t \in Firm
      PROVE  total'[t] = total[t] + d /\ stock'[t][DefaultLocation] = total'[t]
  <2>1. FitsAt(t, l, d)
    BY <1>5 DEF Firm, FitsSale
  <2>2. total' = [total EXCEPT ![t] = Sum(After(t, l, d))]
    BY <2>1 DEF FitsAt, WriteAt
  <2>3. total'[t] = Sum(After(t, l, d)) /\ stock'[t] = After(t, l, d)
    BY <1>3, <2>2 DEF TypeOK
  <2>4. stock[t][DefaultLocation] = total[t]
    BY <1>5 DEF RowIsTotal
  <2> QED
    BY <1>1, <1>2, <2>3, <2>4
<1>6. ASSUME NEW x \in Firm, x # t
      PROVE  stock'[x][DefaultLocation] = total'[x]
  <2>1. x \in Terminals
    BY DEF Firm
  <2>2. stock'[x] = stock[x] /\ total'[x] = total[x]
    BY <1>3, <1>4, <1>6, <2>1 DEF TypeOK
  <2> QED
    BY <2>2 DEF RowIsTotal
<1> QED
  BY <1>4, <1>5, <1>6 DEF Moves

LEMMA WriteTotalMoves ==
    ASSUME TypeOK, RowIsTotal, NEW t \in Terminals, NEW d \in Int, WriteTotal(t, d)
    PROVE  Moves(t, d)
BY ReplicaConstants DEF TypeOK, RowIsTotal, WriteTotal, Moves, Firm

-----------------------------------------------------------------------------
(* The account of one terminal *)

Voided(t) == {s \in Sales : Home[s] = t /\ status[s] = "voided"}

LEMMA FiniteParts ==
    ASSUME TypeOK
    PROVE  \A t \in Terminals : /\ IsFiniteSet(applied[t]) /\ applied[t] \subseteq Effects
                                /\ IsFiniteSet(Voided(t)) /\ Voided(t) \subseteq Effects
<1>1. \A s \in SUBSET Effects : IsFiniteSet(s)
  BY ReplicaConstants, FS_Subset
<1> QED
  BY <1>1 DEF TypeOK, Voided, Effects

\* t takes e on: what t has applied adds up to delta'[e] more.
LEMMA TakesOn ==
    ASSUME TypeOK, TypeOK', NEW t \in Terminals, NEW e \in Effects, e \notin applied[t],
           applied' = [applied EXCEPT ![t] = @ \union {e}],
           \A x \in Effects \ {e} : delta'[x] = delta[x]
    PROVE  SumFunctionOnSet(delta', applied'[t])
             = SumFunctionOnSet(delta, applied[t]) + delta'[e]
<1>1. applied'[t] = applied[t] \union {e}
  BY DEF TypeOK
<1>2. IsFiniteSet(applied[t]) /\ applied[t] \subseteq Effects
  BY FiniteParts
<1>3. delta'[e] \in Int /\ \A x \in applied[t] : delta'[x] \in Int /\ delta'[x] = delta[x]
  BY <1>2 DEF TypeOK
<1>4. SumFunctionOnSet(delta', applied[t]) = SumFunctionOnSet(delta, applied[t])
  BY <1>2, <1>3, SumSame
<1>5. SumFunctionOnSet(delta', applied[t] \union {e})
        = SumFunctionOnSet(delta', applied[t]) + delta'[e]
  BY <1>2, <1>3, SumAdd
<1> QED
  BY <1>1, <1>4, <1>5

\* An effect happens at t, or reaches it: what was known elsewhere is untouched.
LEMMA AccountTakesOn ==
    ASSUME TypeOK, TypeOK', Accounted, NEW t \in Terminals, NEW e \in Effects,
           e \notin applied[t], applied' = [applied EXCEPT ![t] = @ \union {e}],
           \A x \in Effects \ {e} : delta'[x] = delta[x],
           Moves(t, delta'[e]),
           \A x \in Terminals : /\ Voided(x)' = Voided(x)
                                /\ \A y \in Voided(x) : delta'[y] = delta[y]
                                /\ x # t => \A y \in applied[x] : delta'[y] = delta[y]
    PROVE  RowIsTotal' /\ Accounted'
<1>1. RowIsTotal'
  BY DEF Moves, RowIsTotal
<1>2. ASSUME NEW x \in Firm
      PROVE  total'[x] = Sum(OpeningStock) + SumFunctionOnSet(delta', applied'[x])
                           - SumFunctionOnSet(delta', Voided(x)')
  <2>1. /\ x \in Terminals
        /\ IsFiniteSet(applied[x]) /\ applied[x] \subseteq Effects
        /\ IsFiniteSet(Voided(x)) /\ Voided(x) \subseteq Effects
    BY FiniteParts DEF Firm
  <2>2. \A y \in Effects : delta[y] \in Int /\ delta'[y] \in Int
    BY DEF TypeOK
  <2>3. SumFunctionOnSet(delta', Voided(x)') = SumFunctionOnSet(delta, Voided(x))
    <3>1. SumFunctionOnSet(delta', Voided(x)) = SumFunctionOnSet(delta, Voided(x))
      BY <2>1, SumSame
    <3> QED
      BY <2>1, <3>1
  <2>4. total[x] = Sum(OpeningStock) + SumFunctionOnSet(delta, applied[x])
                     - SumFunctionOnSet(delta, Voided(x))
    BY DEF Accounted, Balance, Voided
  <2>5. /\ SumFunctionOnSet(delta, applied[x]) \in Int
        /\ SumFunctionOnSet(delta, Voided(x)) \in Int
    BY <2>1, <2>2, SumInt
  <2>6. Sum(OpeningStock) \in Int
    BY OpeningTotal
  <2>7. CASE x = t
    <3>1. SumFunctionOnSet(delta', applied'[t]) = SumFunctionOnSet(delta, applied[t]) + delta'[e]
      BY TakesOn
    <3>2. total'[t] = total[t] + delta'[e]
      BY <2>7 DEF Moves, TypeOK
    <3>3. delta'[e] \in Int
      BY <2>2
    <3> QED
      BY <2>3, <2>4, <2>5, <2>6, <2>7, <3>1, <3>2, <3>3
  <2>8. CASE x # t
    <3>1. applied'[x] = applied[x] /\ total'[x] = total[x]
      BY <2>1, <2>8 DEF Moves, TypeOK
    <3>2. SumFunctionOnSet(delta', applied[x]) = SumFunctionOnSet(delta, applied[x])
      BY <2>1, <2>8, SumSame
    <3> QED
      BY <2>3, <2>4, <3>1, <3>2
  <2> QED
    BY <2>7, <2>8
<1>3. Accounted'
  BY <1>2 DEF Accounted, Balance, Voided
<1> QED
  BY <1>1, <1>3

\* A pending sale is voided: its units come back at home and nowhere else.
LEMMA AccountVoids ==
    ASSUME TypeOK, TypeOK', Accounted, NEW s \in Sales, status[s] # "voided",
           status' = [status EXCEPT ![s] = "voided"], UNCHANGED <<delta, applied>>,
           Home[s] \in Terminals, Moves(Home[s], -delta[s])
    PROVE  RowIsTotal' /\ Accounted'
<1>1. RowIsTotal'
  BY DEF Moves, RowIsTotal
<1>2. ASSUME NEW x \in Firm
      PROVE  total'[x] = Sum(OpeningStock) + SumFunctionOnSet(delta, applied[x])
                           - SumFunctionOnSet(delta, Voided(x)')
  <2>1. /\ x \in Terminals
        /\ IsFiniteSet(applied[x]) /\ applied[x] \subseteq Effects
        /\ IsFiniteSet(Voided(x)) /\ Voided(x) \subseteq Effects
    BY FiniteParts DEF Firm
  <2>2. s \in Effects /\ \A y \in Effects : delta[y] \in Int
    BY DEF TypeOK, Effects
  <2>4. total[x] = Sum(OpeningStock) + SumFunctionOnSet(delta, applied[x])
                     - SumFunctionOnSet(delta, Voided(x))
    BY DEF Accounted, Balance, Voided
  <2>5. /\ SumFunctionOnSet(delta, applied[x]) \in Int
        /\ SumFunctionOnSet(delta, Voided(x)) \in Int
    BY <2>1, <2>2, SumInt
  <2>6. Sum(OpeningStock) \in Int
    BY OpeningTotal
  <2>7. CASE x = Home[s]
    <3>1. Voided(x)' = Voided(x) \union {s} /\ s \notin Voided(x)
      BY <2>7 DEF Voided, TypeOK
    <3>2. SumFunctionOnSet(delta, Voided(x) \union {s})
            = SumFunctionOnSet(delta, Voided(x)) + delta[s]
      BY <2>1, <2>2, <3>1, SumAdd
    <3>3. SumFunctionOnSet(delta, Voided(x)') = SumFunctionOnSet(delta, Voided(x)) + delta[s]
      BY <3>1, <3>2
    <3>4. total'[x] = total[x] - delta[s] /\ delta[s] \in Int
      BY <2>2, <2>7 DEF Moves, TypeOK
    <3> QED
      BY <2>4, <2>5, <2>6, <3>3, <3>4
  <2>8. CASE x # Home[s]
    <3>1. Voided(x)' = Voided(x)
      BY <2>8 DEF Voided, TypeOK
    <3>2. total'[x] = total[x]
      BY <2>1, <2>8 DEF Moves, TypeOK
    <3> QED
      BY <2>4, <3>1, <3>2
  <2> QED
    BY <2>7, <2>8
<1>3. Accounted'
  BY <1>2 DEF Accounted, Balance, Voided
<1> QED
  BY <1>1, <1>3

-----------------------------------------------------------------------------
(* Every step is one of the counter's, or none *)

\* The step of the counter, and the account it leaves.
Counted == RowIsTotal' /\ Accounted' /\ [Counter!Next]_(Counter!counterVars)

LEMMA PerformCounts ==
    ASSUME SingleInv, TypeOK', Locations = {DefaultLocation}, NEW e \in Effects,
           NEW l \in Locations, NEW d \in -MaxQty .. MaxQty, d # 0,
           FitsSale(Home[e], l, d), Perform(e, l, d),
           \A s \in Sales : status'[s] = "voided" <=> status[s] = "voided"
    PROVE  Counted
<1>0. /\ ReplicaInv /\ TypeOK /\ Issued /\ SaleDeltas /\ RowIsTotal /\ Accounted
      /\ d \in Int /\ Home[e] \in Terminals
  BY ReplicaConstants DEF SingleInv, ReplicaInv, Rows
<1> DEFINE t == Home[e]
<1>1. delta[e] = 0 /\ FitsSale(t, l, d) /\ WriteAt(t, l, d)
  BY DEF Perform
<1>2. Moves(t, d)
  BY <1>0, <1>1, WriteAtMoves
<1>3. /\ delta' = [delta EXCEPT ![e] = d] /\ applied' = [applied EXCEPT ![t] = @ \union {e}]
      /\ delta'[e] = d /\ \A x \in Effects \ {e} : delta'[x] = delta[x]
  BY <1>0 DEF Perform, TypeOK
<1>4. \A x \in Terminals : e \notin applied[x] /\ applied[x] \subseteq Effects
  BY <1>0, <1>1 DEF Issued, TypeOK
<1>5. \A x \in Terminals : Voided(x)' = Voided(x)
  BY DEF Voided
<1>6. \A x \in Terminals : \A y \in Voided(x) : delta'[y] = delta[y]
  BY <1>0, <1>1, <1>3 DEF Voided, SaleDeltas, Effects
<1>7. \A x \in Terminals : \A y \in applied[x] : delta'[y] = delta[y]
  BY <1>3, <1>4
<1>8. RowIsTotal' /\ Accounted'
  <2>1. Moves(t, delta'[e])
    BY <1>2, <1>3
  <2>2. \A x \in Terminals : /\ Voided(x)' = Voided(x)
                             /\ \A y \in Voided(x) : delta'[y] = delta[y]
                             /\ x # t => \A y \in applied[x] : delta'[y] = delta[y]
    BY <1>5, <1>6, <1>7
  <2>3. t \in Terminals /\ e \notin applied[t]
    BY <1>0, <1>4
  <2> HIDE DEF t
  <2> QED
    BY <1>0, <1>3, <2>1, <2>2, <2>3, AccountTakesOn
<1>9. Counter!Issue(t, e, d)
  <2>1. t \in Firm => total[t] + d >= 0
    <3>1. l = DefaultLocation
      OBVIOUS
    <3> QED
      BY <1>0, <1>1, <3>1 DEF FitsSale, FitsAt, RowIsTotal, Firm
  <2>2. UNCHANGED {s \in Sales : status[s] = "voided"}
    OBVIOUS
  <2> QED
    BY <1>1, <1>2, <1>3, <2>1, <2>2 DEF Counter!Issue, Counter!Add, Moves
<1>10. d \in (-MaxQty .. MaxQty) \ {0}
  OBVIOUS
<1>11. Counter!Next
  BY <1>0, <1>9, <1>10 DEF Counter!Next
<1> QED
  BY <1>8, <1>11 DEF Counted

LEMMA ApplyCounts ==
    ASSUME SingleInv, TypeOK', Locations = {DefaultLocation}, NEW t \in Terminals,
           NEW e \in Effects, Apply(t, e)
    PROVE  Counted
<1>0. /\ TypeOK /\ Issued /\ RowIsTotal /\ Accounted /\ delta[e] \in Int
      /\ DefaultLocation \in Locations
  <2>1. TypeOK /\ Issued /\ RowIsTotal /\ Accounted
    BY DEF SingleInv, ReplicaInv
  <2>2. delta[e] \in -MaxQty .. MaxQty
    BY <2>1 DEF TypeOK
  <2> QED
    BY <2>1, <2>2, ReplicaConstants
<1>1. delta[e] # 0 /\ e \notin applied[t]
  BY <1>0 DEF Apply, Arrives, Issued
<1>2. Moves(t, delta[e])
  BY <1>0, WriteAtMoves, WriteTotalMoves DEF Apply, Fits, Effect, FitsSale
<1>3. /\ applied' = [applied EXCEPT ![t] = @ \union {e}] /\ delta' = delta
      /\ status' = status
  BY DEF Apply, saleVars
<1>4. \A x \in Terminals : Voided(x)' = Voided(x)
  BY <1>3 DEF Voided
<1>5. RowIsTotal' /\ Accounted'
  BY <1>0, <1>1, <1>2, <1>3, <1>4, AccountTakesOn
<1>6. t \in Firm => total[t] + delta[e] >= 0
  BY <1>0 DEF Apply, Fits, FitsAt, FitsTotal, RowIsTotal
<1>7. Counter!See(t, e)
  BY <1>1, <1>2, <1>3, <1>6 DEF Counter!See, Counter!Add, Moves
<1> QED
  BY <1>5, <1>7 DEF Counted, Counter!Next

LEMMA VoidCounts ==
    ASSUME SingleInv, TypeOK', Locations = {DefaultLocation}, NEW s \in Sales, VoidPending(s)
    PROVE  Counted
<1>0. /\ TypeOK /\ SaleDeltas /\ RowIsTotal /\ Accounted /\ delta[s] \in Int
      /\ place[s] \in Locations /\ Home[s] \in Terminals /\ s \in Effects
  <2>1. TypeOK /\ SaleDeltas /\ RowIsTotal /\ Accounted
    BY DEF SingleInv, ReplicaInv
  <2>2. s \in Effects /\ Home[s] \in Terminals
    BY ReplicaConstants DEF Rows, Effects
  <2>3. place[s] \in Locations /\ delta[s] \in -MaxQty .. MaxQty
    BY <2>1, <2>2 DEF TypeOK
  <2> QED
    BY <2>1, <2>2, <2>3, ReplicaConstants
<1>1. delta[s] < 0 /\ s \in applied[Home[s]]
  BY <1>0 DEF SaleDeltas, VoidPending
<1>2. Moves(Home[s], -delta[s])
  BY <1>0, WriteAtMoves DEF VoidPending, FitsSale
<1>3. /\ status[s] # "voided" /\ status' = [status EXCEPT ![s] = "voided"]
      /\ UNCHANGED <<delta, applied>>
  BY DEF VoidPending
<1>4. RowIsTotal' /\ Accounted'
  BY <1>0, <1>2, <1>3, AccountVoids
<1>5. {z \in Sales : status'[z] = "voided"} = {z \in Sales : status[z] = "voided"} \union {s}
  BY <1>0, <1>3 DEF TypeOK
<1>6. total[Home[s]] + -delta[s] >= 0
  BY <1>0, <1>1 DEF TypeOK
<1>7. Counter!Undo(Home[s], s)
  BY <1>1, <1>2, <1>3, <1>5, <1>6 DEF Counter!Undo, Counter!Add, Moves
<1> QED
  BY <1>0, <1>4, <1>7 DEF Counted, Counter!Next

LEMMA StutterCounts ==
    ASSUME SingleInv, UNCHANGED <<stockVars, delta, applied>>,
           \A s \in Sales : status'[s] = "voided" <=> status[s] = "voided"
    PROVE  Counted
<1>1. RowIsTotal'
  BY DEF SingleInv, RowIsTotal, stockVars
<1>2. \A t \in Terminals : Voided(t)' = Voided(t)
  BY DEF Voided
<1>3. Accounted'
  BY <1>2 DEF SingleInv, Accounted, Balance, Firm, Voided, stockVars
<1>4. UNCHANGED {s \in Sales : status[s] = "voided"}
  OBVIOUS
<1> QED
  BY <1>1, <1>3, <1>4 DEF Counted, Counter!counterVars, stockVars

LEMMA SingleStep ==
    ASSUME SingleInv, Locations = {DefaultLocation}, [Next]_vars
    PROVE  SingleInv' /\ [Counter!Next]_(Counter!counterVars)
<1>0. ReplicaInv' /\ TypeOK' /\ TypeOK /\ SaleDeltas
  BY ReplicaStep DEF SingleInv, ReplicaInv
<1>1. ASSUME NEW s \in Sales, NEW l \in Locations, NEW q \in 1 .. MaxQty,
             NEW outcome \in {"pending", "completed"}, Sold(s, l, q, outcome)
      PROVE  Counted
  <2>1. s \in Effects /\ -q \in -MaxQty .. MaxQty /\ -q # 0
    BY ReplicaConstants DEF Effects
  <2>2. status[s] = "none" /\ status' = [status EXCEPT ![s] = outcome]
    BY <1>0, <1>1 DEF Sold, Perform, SaleDeltas
  <2>3. \A z \in Sales : status'[z] = "voided" <=> status[z] = "voided"
    BY <1>0, <2>2 DEF TypeOK
  <2> QED
    BY <1>0, <1>1, <2>1, <2>3, PerformCounts DEF Sold
<1>2. ASSUME NEW s \in Sales, Finalize(s)
      PROVE  Counted
  BY <1>0, <1>2, StutterCounts DEF Finalize, TypeOK
<1>3. ASSUME NEW s \in Sales, VoidPending(s)
      PROVE  Counted
  BY <1>0, <1>3, VoidCounts
<1>4. ASSUME NEW r \in Refunds, NEW q \in 1 .. MaxQty, Refund(r, q)
      PROVE  Counted
  <2>1. /\ r \in Effects /\ q \in -MaxQty .. MaxQty /\ q # 0
        /\ place[SaleOf[r]] \in Locations
    BY <1>0, ReplicaConstants DEF TypeOK, Effects
  <2> QED
    BY <1>0, <1>4, <2>1, PerformCounts DEF Refund, saleVars, FitsSale
<1>5. ASSUME NEW a \in Adjustments, NEW d \in -MaxQty .. MaxQty, Adjust(a, d)
      PROVE  Counted
  <2>1. a \in Effects /\ DefaultLocation \in Locations
    BY ReplicaConstants DEF Effects
  <2> QED
    BY <1>0, <1>5, <2>1, PerformCounts DEF Adjust, saleVars, FitsSale
<1>6. ASSUME NEW t \in Terminals, NEW e \in Effects, Apply(t, e)
      PROVE  Counted
  BY <1>0, <1>6, ApplyCounts
<1>7. ASSUME UNCHANGED <<stockVars, saleVars, delta, applied>>
      PROVE  Counted
  BY <1>7, StutterCounts DEF saleVars
<1>8. Counted
  BY <1>1, <1>2, <1>3, <1>4, <1>5, <1>6, <1>7
     DEF Next, AtHome, Elsewhere, vars, Sell, SellResolved, EnqueueAdjusted, Crash, ChangeSetting, Push, Fail,
         Requeue, ReceiveChange
<1> QED
  BY <1>0, <1>8 DEF Counted, SingleInv

LEMMA SingleInit ==
    ASSUME Locations = {DefaultLocation}, Init
    PROVE  SingleInv /\ Counter!Init
<1>1. ReplicaInv
  BY ReplicaInit
<1>2. Sum(OpeningStock) = OpeningStock[DefaultLocation]
  BY OneRow, ReplicaConstants
<1>3. RowIsTotal
  BY <1>2, ReplicaConstants DEF Init, RowIsTotal, Firm
<1>4. Accounted
  <2>1. \A t \in Terminals : applied[t] = {} /\ Voided(t) = {} /\ total[t] = Sum(OpeningStock)
    BY DEF Init, Voided
  <2>2. Sum(OpeningStock) \in Int
    BY OpeningTotal
  <2>3. \A t \in Terminals : total[t] = Sum(OpeningStock) + SumFunctionOnSet(delta, applied[t])
                                          - SumFunctionOnSet(delta, Voided(t))
    <3> TAKE t \in Terminals
    <3>1. /\ SumFunctionOnSet(delta, applied[t]) = 0
          /\ SumFunctionOnSet(delta, Voided(t)) = 0
      BY <2>1, SumEmpty
    <3> QED
      BY <2>1, <2>2, <3>1
  <2> QED
    BY <2>3 DEF Accounted, Balance, Voided, Firm
<1>5. Counter!Init
  BY DEF Init, Counter!Init
<1> QED
  BY <1>1, <1>3, <1>4, <1>5 DEF SingleInv

\* With one location, the stock of a terminal that does not oversell, whatever the
\* others do, is the opening stock, its own effects and what it has receipts for,
\* less its voided sales: whatever was lost, repeated, reordered, refused or
\* requeued (apply_remote_atomic_full).
THEOREM StockAccounted ==
    ASSUME Locations = {DefaultLocation}
    PROVE  Spec => []Accounted
<1>1. Init => SingleInv
  BY SingleInit
<1>2. SingleInv /\ [Next]_vars => SingleInv'
  BY SingleStep
<1>3. SingleInv => Accounted
  BY DEF SingleInv
<1> QED
  BY <1>1, <1>2, <1>3, PTL DEF Spec

\* With one location, each terminal is a counter that sees every effect at most
\* once and, unless it oversells, never goes below zero.
THEOREM ReplicasAreCounters ==
    ASSUME Locations = {DefaultLocation}
    PROVE  Spec => ImplementsCounter
<1>1. Init => SingleInv /\ Counter!Init
  BY SingleInit
<1>2. SingleInv /\ [Next]_vars => SingleInv' /\ [Counter!Next]_(Counter!counterVars)
  BY SingleStep
<1> QED
  BY <1>1, <1>2, PTL DEF Spec, ImplementsCounter, Counter!Spec
=============================================================================
