-------------------------- MODULE OfflineSyncProofs --------------------------
(***************************************************************************)
(* Theorems of OfflineSync, for every choice of terminals, rows, workers   *)
(* and limits.  IInv is the inductive invariant they all rest on; its      *)
(* parts name the reasons why a retried, duplicated or replayed row does   *)
(* no harm.  Anchored adds what makes the rows beyond a pull anchor the    *)
(* same ones whatever is queued later.                                     *)
(***************************************************************************)
EXTENDS OfflineSync, Sums, FiniteSetTheorems, TLAPS

\* A row that is not quarantined has some of its retry budget left.
Bounded ==
    \A t \in Terminals, i \in Items : i \notin dead[t] => attempts[t][i] < MaxAttempts

\* Once the cloud has answered, every row of the batch it did not refuse is
\* stored there (until retention deletes it).
Acknowledged ==
    \A w \in Workers :
        pc[w] = "replied" \/ (pc[w] = "marking" /\ w \in Pullers) =>
            batch[w] \ outcome[w] \subseteq log \cup pruned

\* An effect has happened once one of its rows was queued.
Happened(e) == \E i \in Queued : Effect[i] = e

\* Whatever is pushed, stored, pulled or announced stems from a queued row.
Known ==
    /\ log \cup pruned \subseteq Queued
    /\ \A w \in Workers : batch[w] \subseteq Queued
    /\ \A w \in Workers : page[w] \subseteq Queued
    /\ \A e \in events : Happened(e)

\* A protected effect is carried by its own terminal once it has happened, and
\* no delivery adds to it there.
CarriedAtHome ==
    \A i \in Items : Effect[i] \in Protected =>
        done[Home[i]][Effect[i]] = IF Happened(Effect[i]) THEN 1 ELSE 0

\* Another terminal carries an effect at most once, and then the receipts that
\* make it skip every other delivery are on record.
CarriedElsewhere ==
    \A t \in Terminals, i \in Items : t # Home[i] =>
        /\ done[t][Effect[i]] \in {0, 1}
        /\ done[t][Effect[i]] = 1 =>
               IF i \in Sales THEN Effect[i] \in effectKeys[t] ELSE i \in receipts[t]

\* An effect no row names never happens.
NeverNamed ==
    \A t \in Terminals, e \in Effects : (\A i \in Items : Effect[i] # e) => done[t][e] = 0

IInv ==
    /\ TypeOK
    /\ Bounded
    /\ SyncedOnServer
    /\ Acknowledged
    /\ Known
    /\ CarriedAtHome
    /\ CarriedElsewhere
    /\ NeverNamed

-----------------------------------------------------------------------------
(* Type correctness *)

\* The operators that pick rows pick them from Items.
LEMMA RowSets ==
    ASSUME TypeOK
    PROVE  /\ \A w \in Workers : ReadBatch(w) \subseteq Items
           /\ \A t \in Terminals, a \in Anchors : PullPage(t, a) \subseteq log
           /\ \A t \in Terminals, a \in Anchors : PullWindow(t, a) \subseteq log
  BY DEF ReadBatch, Pending, PullPage, PullWindow

\* A receipt adds a row to the receipts and, for a sale, its effect.
LEMMA RecordType ==
    ASSUME TypeOK, NEW t \in Terminals, NEW i \in Items, Record(t, i)
    PROVE  /\ receipts' \in [Terminals -> SUBSET Items]
           /\ effectKeys' \in [Terminals -> SUBSET Effects]
<1>1. Effect[i] \in Effects
  BY SyncConstants
<1>2. CASE Recorded(t, i)
  BY <1>2 DEF TypeOK, Record
<1>3. CASE ~Recorded(t, i)
  <2>1. receipts' = [receipts EXCEPT ![t] = @ \cup {i}]
    BY <1>3 DEF Record
  <2>2. CASE i \in Sales
    <3>1. effectKeys' = [effectKeys EXCEPT ![t] = @ \cup {Effect[i]}]
      BY <1>3, <2>2 DEF Record
    <3> QED BY <1>1, <2>1, <3>1 DEF TypeOK
  <2>3. CASE i \notin Sales
    <3>1. effectKeys' = [effectKeys EXCEPT ![t] = @]
      BY <1>3, <2>3 DEF Record
    <3> QED BY <2>1, <3>1 DEF TypeOK
  <2> QED BY <2>2, <2>3
<1> QED BY <1>2, <1>3

LEMMA InitType == Init => TypeOK /\ Bounded
  BY SyncConstants DEF Init, TypeOK, Bounded, Statuses, Locations, Anchors, NoAnchor

LEMMA PushType ==
    ASSUME TypeOK, Bounded, NEW w \in Workers, PushStep(w)
    PROVE  TypeOK' /\ Bounded'
<1> USE SyncConstants, RowSets
<1>1. CASE ReadPending(w)
  BY <1>1 DEF ReadPending, TypeOK, Bounded, durableVars, cloudVars, pullVars, envVars, Locations
<1>2. CASE PushDelivered(w)
  <2>1. log' \subseteq Items /\ outcome' \in [Workers -> SUBSET Items]
    <3>1. PICK refused \in SUBSET Items :
              /\ log' = log \cup (batch[w] \ refused)
              /\ outcome' = [outcome EXCEPT ![w] = refused]
      BY <1>2 DEF PushDelivered, ServerInsert
    <3> QED BY <3>1 DEF TypeOK
  <2>2. pc' \in [Workers -> Locations] /\ UNCHANGED pruned
    BY <1>2 DEF PushDelivered, ServerInsert, TypeOK, Locations
  <2> QED BY <1>2, <2>1, <2>2 DEF PushDelivered, TypeOK, Bounded, durableVars, pullVars, envVars
<1>3. CASE PushLost(w)
  BY <1>3 DEF PushLost, ServerInsert, AfterPush, TypeOK, Bounded, durableVars, cloudVars,
              pullVars, envVars, Locations
<1>4. CASE mark_all_failed(w)
  BY <1>4 DEF mark_all_failed, TypeOK, Bounded, cloudVars, pullVars, envVars, Locations,
              Statuses
<1>5. CASE apply_push_results(w)
  BY <1>5 DEF apply_push_results, Marked, AfterPush, TypeOK, Bounded, cloudVars, pullVars,
              envVars, Locations, Statuses
<1>6. CASE apply_sync_outcomes(w)
  BY <1>6 DEF apply_sync_outcomes, Marked, TypeOK, Bounded, cloudVars, pullVars, envVars,
              Locations, Statuses
<1>7. CASE PushGated(w)
  BY <1>7 DEF PushGated, TypeOK, Bounded, durableVars, cloudVars, pullVars, envVars, Locations
<1> QED BY <1>1, <1>2, <1>3, <1>4, <1>5, <1>6, <1>7 DEF PushStep

LEMMA PullType ==
    ASSUME TypeOK, Bounded, NEW w \in Workers, PullStep(w)
    PROVE  TypeOK' /\ Bounded'
<1> USE SyncConstants, RowSets
<1>1. CASE ReadAnchor(w)
  BY <1>1 DEF ReadAnchor, TypeOK, Bounded, durableVars, cloudVars, pushVars, envVars, Locations
<1>2. CASE PullDelivered(w)
  <2> DEFINE rows == PullPage(Host[w], captured[w])
  <2>1. rows \subseteq Items
    BY DEF TypeOK
  <2>2. page' \in [Workers -> SUBSET Items]
    <3>1. \/ page' = page
          \/ page' = [page EXCEPT ![w] = rows]
      BY <1>2 DEF PullDelivered
    <3>2. page \in [Workers -> SUBSET Items]
      BY DEF TypeOK
    <3> HIDE DEF rows
    <3> QED BY ONLY <2>1, <3>1, <3>2
  <2>3. newAnchor' \in [Workers -> Anchors]
    <3>1. CASE rows = {}
      BY <1>2, <3>1 DEF PullDelivered, TypeOK
    <3>2. CASE rows # {}
      <4>1. PICK last \in rows : \E c \in {0, last} :
                newAnchor' = [newAnchor EXCEPT ![w] = [since |-> createdAt[last], cursor |-> c]]
        BY <1>2, <3>2 DEF PullDelivered
      <4>2. createdAt[last] \in Nat /\ last \in Items
        BY <2>1, <4>1 DEF TypeOK
      <4> QED BY <4>1, <4>2 DEF TypeOK, Anchors
    <3> QED BY <3>1, <3>2
  <2>4. pc' \in [Workers -> Locations] /\ retained' \in [Workers -> BOOLEAN]
    BY <1>2 DEF PullDelivered, TypeOK, Locations
  <2> QED BY <1>2, <2>2, <2>3, <2>4
          DEF PullDelivered, TypeOK, Bounded, durableVars, cloudVars, pushVars, envVars
<1>3. CASE PullLost(w)
  BY <1>3 DEF PullLost, TypeOK, Bounded, durableVars, cloudVars, pushVars, pullVars,
              envVars, Locations
<1>4. CASE PullExpired(w)
  BY <1>4 DEF PullExpired, TypeOK, Bounded, durableVars, cloudVars, pushVars, envVars,
              Locations, Anchors
<1>5. CASE recover_expired_anchor(w)
  BY <1>5 DEF recover_expired_anchor, TypeOK, Bounded, cloudVars, pushVars, pullVars,
              envVars, Locations
<1>6. CASE apply_remote_atomic_full(w)
  <2> DEFINE t == Host[w]
  <2>1. PICK i \in page[w] :
            /\ \/ SkipQuarantined(w, t, i)
               \/ ReceiptOwn(w, t, i)
               \/ SkipApplied(w, t, i)
               \/ ApplyRow(w, t, i)
               \/ FailRow(w, t, i)
            /\ page' = [page EXCEPT ![w] = @ \ {i}]
    BY <1>6 DEF apply_remote_atomic_full
  <2>2. t \in Terminals /\ i \in Items
    BY DEF TypeOK
  <2> HIDE DEF t
  <2>3. /\ done' \in [Terminals -> [Effects -> Nat]]
        /\ receipts' \in [Terminals -> SUBSET Items]
        /\ effectKeys' \in [Terminals -> SUBSET Effects]
    <3>1. CASE SkipQuarantined(w, t, i) \/ SkipApplied(w, t, i) \/ FailRow(w, t, i)
      BY <3>1 DEF TypeOK, SkipQuarantined, SkipApplied, FailRow
    <3>2. CASE ReceiptOwn(w, t, i)
      BY <2>2, <3>2, RecordType DEF TypeOK, ReceiptOwn
    <3>3. CASE ApplyRow(w, t, i)
      <4>1. Effect[i] \in Effects
        BY <2>2
      <4>2. done' \in [Terminals -> [Effects -> Nat]]
        BY <2>2, <3>3, <4>1 DEF TypeOK, ApplyRow
      <4> QED BY <2>2, <3>3, <4>2, RecordType DEF ApplyRow
    <3> QED BY <2>1, <3>1, <3>2, <3>3
  <2>4. /\ attempts' \in [Terminals -> [Items -> 0..MaxAttempts]]
        /\ dead' \in [Terminals -> SUBSET Items]
        /\ retained' \in [Workers -> BOOLEAN]
        /\ Bounded'
    <3>1. CASE SkipQuarantined(w, t, i) \/ SkipApplied(w, t, i)
      BY <3>1 DEF TypeOK, Bounded, SkipQuarantined, SkipApplied
    <3>2. CASE ReceiptOwn(w, t, i) \/ ApplyRow(w, t, i)
      <4>1. ClearFailure(t, i) /\ UNCHANGED retained
        BY <3>2 DEF ReceiptOwn, ApplyRow
      <4>2. /\ attempts' \in [Terminals -> [Items -> 0..MaxAttempts]]
            /\ dead' \in [Terminals -> SUBSET Items]
        BY <2>2, <4>1 DEF TypeOK, ClearFailure
      <4>3. Bounded'
        BY <2>2, <4>1 DEF TypeOK, Bounded, ClearFailure
      <4> QED BY <4>1, <4>2, <4>3 DEF TypeOK
    <3>3. CASE FailRow(w, t, i)
      BY <3>3, <2>2 DEF TypeOK, Bounded, FailRow
    <3> QED BY <2>1, <3>1, <3>2, <3>3
  <2> QED BY <1>6, <2>1, <2>3, <2>4
          DEF apply_remote_atomic_full, TypeOK, cloudVars, pushVars, envVars, Locations
<1>7. CASE FinishPage(w)
  BY <1>7 DEF FinishPage, TypeOK, Bounded, cloudVars, pushVars, pullVars, envVars, Locations
<1> QED BY <1>1, <1>2, <1>3, <1>4, <1>5, <1>6, <1>7 DEF PullStep

LEMMA TypeStep ==
    ASSUME TypeOK, Bounded, [Next]_vars
    PROVE  TypeOK' /\ Bounded'
<1> USE SyncConstants
<1>1. CASE \E i \in Items : Checkout(i)
  BY <1>1 DEF Checkout, Enqueue, TypeOK, Bounded, cloudVars, pushVars, pullVars, envVars,
              Statuses
<1>2. CASE \E i \in Items : EnqueueAgain(i)
  BY <1>2 DEF EnqueueAgain, Enqueue, TypeOK, Bounded, cloudVars, pushVars, pullVars,
              envVars, Statuses
<1>3. CASE \E i \in Items : delete_offline_item(i)
  BY <1>3 DEF delete_offline_item, TypeOK, Bounded, cloudVars, pushVars, pullVars, envVars,
              Statuses
<1>4. CASE \E e \in Effects : SkipEnqueue(e)
  BY <1>4 DEF SkipEnqueue, TypeOK, Bounded, durableVars, cloudVars, pushVars, pullVars, envVars
<1>5. CASE \E w \in Workers : PushStep(w)
  BY <1>5, PushType
<1>6. CASE \E w \in Workers : PullStep(w)
  BY <1>6, PullType
<1>7. CASE \E t \in Terminals, i \in Items : requeue_remote_failure(t, i)
  BY <1>7 DEF requeue_remote_failure, ClearFailure, NoAnchor, TypeOK, Bounded, cloudVars,
              pushVars, pullVars, envVars, Anchors
<1>8. CASE \E t \in Terminals : Crash(t)
  BY <1>8 DEF Crash, TypeOK, Bounded, durableVars, cloudVars, envVars, Locations
<1>9. CASE run_prune_cycle
  BY <1>9 DEF run_prune_cycle, TypeOK, Bounded, durableVars, pushVars, pullVars, envVars
<1>10. CASE Tick
  BY <1>10 DEF Tick, TypeOK, Bounded, durableVars, cloudVars, pushVars, pullVars
<1>11. CASE UNCHANGED vars
  BY <1>11 DEF vars, TypeOK, Bounded, durableVars, cloudVars, pushVars, pullVars, envVars
<1> QED BY <1>1, <1>2, <1>3, <1>4, <1>5, <1>6, <1>7, <1>8, <1>9, <1>10, <1>11 DEF Next

\* Every variable keeps its type, and a row that fails to apply is quarantined
\* before its retry budget is exceeded (record_remote_failure).
THEOREM TypeCorrect == Spec => []TypeOK
<1>1. Init => TypeOK /\ Bounded  BY InitType
<1>2. TypeOK /\ Bounded /\ [Next]_vars => (TypeOK /\ Bounded)'  BY TypeStep
<1> QED BY <1>1, <1>2, PTL DEF Spec
-----------------------------------------------------------------------------
(* No row is forgotten before the cloud has it *)

\* Marking turns a row synced only if it is in the marked set, unrefused.
LEMMA MarkedSynced ==
    ASSUME NEW S, NEW R, NEW i \in Items, Marked(S, R)[i] = "synced"
    PROVE  status[i] = "synced" \/ i \in S \ R
  BY DEF Marked

LEMMA PushAcknowledged ==
    ASSUME TypeOK, SyncedOnServer, Acknowledged, NEW w \in Workers, PushStep(w)
    PROVE  SyncedOnServer' /\ Acknowledged'
<1> USE SyncConstants
<1>1. CASE ReadPending(w)
  BY <1>1 DEF ReadPending, TypeOK, SyncedOnServer, Acknowledged, durableVars, cloudVars
<1>2. CASE PushDelivered(w)
  <2>1. PICK refused \in SUBSET Items :
            /\ log' = log \cup (batch[w] \ refused)
            /\ outcome' = [outcome EXCEPT ![w] = refused]
            /\ UNCHANGED pruned
    BY <1>2 DEF PushDelivered, ServerInsert
  <2>2. SyncedOnServer'
    BY <1>2, <2>1 DEF PushDelivered, SyncedOnServer, durableVars
  <2>3. Acknowledged'
    BY <1>2, <2>1 DEF PushDelivered, TypeOK, Acknowledged
  <2> QED BY <2>2, <2>3
<1>3. CASE PushLost(w)
  BY <1>3 DEF PushLost, ServerInsert, AfterPush, TypeOK, SyncedOnServer, Acknowledged,
              durableVars, cloudVars
<1>4. CASE mark_all_failed(w)
  BY <1>4 DEF mark_all_failed, TypeOK, SyncedOnServer, Acknowledged, cloudVars
<1>5. CASE apply_push_results(w)
  <2>1. PICK i \in batch[w] :
            /\ status' = Marked({i}, outcome[w])
            /\ batch' = [batch EXCEPT ![w] = @ \ {i}]
            /\ pc' = [pc EXCEPT ![w] = IF batch[w] = {i} THEN AfterPush(w) ELSE "marking"]
    BY <1>5 DEF apply_push_results
  <2>2. w \in Pullers /\ pc[w] \in {"replied", "marking"} /\ UNCHANGED <<outcome, cloudVars>>
    BY <1>5 DEF apply_push_results
  <2>3. batch[w] \ outcome[w] \subseteq log \cup pruned
    BY <2>2 DEF Acknowledged
  <2>4. SyncedOnServer'
    <3> SUFFICES ASSUME NEW k \in Items, status'[k] = "synced"
                 PROVE  k \in log \cup pruned
      BY <2>2 DEF SyncedOnServer, cloudVars
    <3>1. status[k] = "synced" \/ k \in {i} \ outcome[w]
      BY <2>1, MarkedSynced
    <3> QED BY <2>1, <2>3, <3>1 DEF SyncedOnServer
  <2>5. Acknowledged'
    BY <2>1, <2>2, <2>3 DEF TypeOK, Acknowledged, cloudVars, AfterPush
  <2> QED BY <2>4, <2>5
<1>6. CASE apply_sync_outcomes(w)
  <2>1. /\ status' \in {status, Marked(batch[w], outcome[w])}
        /\ pc[w] = "replied"
        /\ UNCHANGED <<outcome, cloudVars>>
    BY <1>6 DEF apply_sync_outcomes
  <2>2. batch[w] \ outcome[w] \subseteq log \cup pruned
    BY <2>1 DEF Acknowledged
  <2>3. SyncedOnServer'
    <3> SUFFICES ASSUME NEW k \in Items, status'[k] = "synced"
                 PROVE  k \in log \cup pruned
      BY <2>1 DEF SyncedOnServer, cloudVars
    <3>1. status[k] = "synced" \/ k \in batch[w] \ outcome[w]
      BY <2>1, MarkedSynced
    <3> QED BY <2>2, <3>1 DEF SyncedOnServer
  <2>4. Acknowledged'
    BY <1>6 DEF apply_sync_outcomes, TypeOK, Acknowledged, cloudVars
  <2> QED BY <2>3, <2>4
<1>7. CASE PushGated(w)
  BY <1>7 DEF PushGated, TypeOK, SyncedOnServer, Acknowledged, durableVars, cloudVars
<1> QED BY <1>1, <1>2, <1>3, <1>4, <1>5, <1>6, <1>7 DEF PushStep

\* The pull half touches neither the outbox nor the cloud.
LEMMA PullFrame ==
    ASSUME TypeOK, NEW w \in Workers, PullStep(w)
    PROVE  /\ UNCHANGED <<status, cloudVars, events, batch, outcome>>
           /\ \A v \in Workers : pc'[v] # pc[v] => pc'[v] \notin {"replied", "marking"}
  BY DEF PullStep, ReadAnchor, PullDelivered, PullLost, PullExpired, recover_expired_anchor,
         apply_remote_atomic_full, FinishPage, TypeOK, durableVars, pushVars

LEMMA AcknowledgedStep ==
    ASSUME TypeOK, SyncedOnServer, Acknowledged, [Next]_vars
    PROVE  SyncedOnServer' /\ Acknowledged'
<1> USE SyncConstants
<1>1. CASE \E i \in Items : Checkout(i) \/ EnqueueAgain(i)
  BY <1>1 DEF Checkout, EnqueueAgain, Enqueue, TypeOK, SyncedOnServer, Acknowledged,
              cloudVars, pushVars
<1>2. CASE \E i \in Items : delete_offline_item(i)
  BY <1>2 DEF delete_offline_item, TypeOK, SyncedOnServer, Acknowledged, cloudVars, pushVars
<1>3. CASE \E e \in Effects : SkipEnqueue(e)
  BY <1>3 DEF SkipEnqueue, SyncedOnServer, Acknowledged, durableVars, cloudVars, pushVars
<1>4. CASE \E w \in Workers : PushStep(w)
  BY <1>4, PushAcknowledged
<1>5. CASE \E w \in Workers : PullStep(w)
  BY <1>5, PullFrame DEF TypeOK, SyncedOnServer, Acknowledged, cloudVars
<1>6. CASE \E t \in Terminals, i \in Items : requeue_remote_failure(t, i)
  BY <1>6 DEF requeue_remote_failure, SyncedOnServer, Acknowledged, cloudVars, pushVars
<1>7. CASE \E t \in Terminals : Crash(t)
  BY <1>7 DEF Crash, SyncedOnServer, Acknowledged, durableVars, cloudVars
<1>8. CASE run_prune_cycle
  BY <1>8 DEF run_prune_cycle, SyncedOnServer, Acknowledged, durableVars, pushVars
<1>9. CASE Tick \/ UNCHANGED vars
  BY <1>9 DEF Tick, vars, SyncedOnServer, Acknowledged, durableVars, cloudVars, pushVars
<1> QED BY <1>1, <1>2, <1>3, <1>4, <1>5, <1>6, <1>7, <1>8, <1>9 DEF Next

\* Whatever is lost, repeated, refused or interleaved, a terminal marks a row
\* synced only when the cloud has stored it (apply_push_results, apply_sync_outcomes).
THEOREM NothingForgotten == Spec => []SyncedOnServer
<1>1. Init => TypeOK /\ Bounded /\ SyncedOnServer /\ Acknowledged
  BY InitType DEF Init, SyncedOnServer, Acknowledged
<1>2. TypeOK /\ Bounded /\ SyncedOnServer /\ Acknowledged /\ [Next]_vars
          => (TypeOK /\ Bounded /\ SyncedOnServer /\ Acknowledged)'
  BY TypeStep, AcknowledgedStep
<1> QED BY <1>1, <1>2, PTL DEF Spec
-----------------------------------------------------------------------------
(* No effect is carried twice *)

Enqueues(i) == Checkout(i) \/ EnqueueAgain(i)

\* Enqueueing adds one row to the rows ever queued; nothing else changes them.
LEMMA QueuedByEnqueue ==
    ASSUME TypeOK, NEW i \in Items, Enqueues(i)
    PROVE  Queued' = Queued \cup {i} /\ i \notin Queued
  BY DEF Enqueues, Checkout, EnqueueAgain, Enqueue, Fresh, Queued, TypeOK

\* The push half touches neither inventories nor receipts nor pulled pages.
LEMMA PushFrame ==
    ASSUME NEW w \in Workers, PushStep(w)
    PROVE  UNCHANGED <<done, receipts, effectKeys, page, events>>
  BY DEF PushStep, ReadPending, PushDelivered, PushLost, PushGated, mark_all_failed,
         apply_push_results, apply_sync_outcomes, durableVars, pullVars

LEMMA QueuedByPush ==
    ASSUME TypeOK, Known, NEW w \in Workers, PushStep(w)
    PROVE  Queued' = Queued
<1> USE DEF Queued
<1>1. CASE ReadPending(w) \/ PushDelivered(w) \/ PushLost(w) \/ PushGated(w)
  BY <1>1 DEF ReadPending, PushDelivered, PushLost, PushGated, durableVars
<1>2. CASE mark_all_failed(w)
  <2>1. PICK i \in batch[w] :
            status' = [status EXCEPT ![i] = IF @ = "deleted" THEN @ ELSE "failed"]
    BY <1>2 DEF mark_all_failed
  <2>2. i \in Items /\ status[i] # "none"
    BY <2>1 DEF Known
  <2> QED BY <2>1, <2>2 DEF TypeOK
<1>3. ASSUME NEW S \in SUBSET Queued, NEW R, status' = Marked(S, R)
      PROVE  Queued' = Queued
  <2> SUFFICES ASSUME NEW i \in Items  PROVE status'[i] = "none" <=> status[i] = "none"
    OBVIOUS
  <2>1. CASE i \in S
    BY <1>3, <2>1 DEF Marked
  <2>2. CASE i \notin S
    BY <1>3, <2>2 DEF Marked
  <2> QED BY <2>1, <2>2
<1>4. CASE apply_push_results(w)
  <2>1. PICK i \in batch[w] : status' = Marked({i}, outcome[w])
    BY <1>4 DEF apply_push_results
  <2>2. {i} \in SUBSET Queued
    BY <2>1 DEF Known
  <2> QED BY <2>1, <2>2, <1>3
<1>5. CASE apply_sync_outcomes(w)
  <2>1. status' = status \/ status' = Marked(batch[w], outcome[w])
    BY <1>5 DEF apply_sync_outcomes
  <2>2. batch[w] \in SUBSET Queued
    BY DEF Known
  <2> QED BY <2>1, <2>2, <1>3
<1> QED BY <1>1, <1>2, <1>4, <1>5 DEF PushStep

\* The steps that neither enqueue nor push nor pull.
Aside ==
    \/ \E i \in Items : delete_offline_item(i)
    \/ \E e \in Effects : SkipEnqueue(e)
    \/ \E t \in Terminals, i \in Items : requeue_remote_failure(t, i)
    \/ \E t \in Terminals : Crash(t)
    \/ run_prune_cycle
    \/ Tick
    \/ UNCHANGED vars

LEMMA AsideFrame ==
    ASSUME TypeOK, Aside
    PROVE  /\ Queued' = Queued
           /\ UNCHANGED <<done, receipts, effectKeys>>
           /\ log' \cup pruned' = log \cup pruned
           /\ events' \subseteq events
           /\ \A w \in Workers : batch'[w] \subseteq batch[w] /\ page'[w] \subseteq page[w]
<1>1. CASE \E i \in Items : delete_offline_item(i)
  BY <1>1 DEF delete_offline_item, Queued, TypeOK, cloudVars, pushVars, pullVars
<1>2. CASE \E e \in Effects : SkipEnqueue(e)
  BY <1>2 DEF SkipEnqueue, Queued, durableVars, cloudVars, pushVars, pullVars
<1>3. CASE \E t \in Terminals, i \in Items : requeue_remote_failure(t, i)
  BY <1>3 DEF requeue_remote_failure, Queued, cloudVars, pushVars, pullVars
<1>4. CASE \E t \in Terminals : Crash(t)
  BY <1>4 DEF Crash, Queued, durableVars, cloudVars
<1>5. CASE run_prune_cycle
  BY <1>5 DEF run_prune_cycle, Queued, durableVars, pushVars, pullVars
<1>6. CASE Tick \/ UNCHANGED vars
  BY <1>6 DEF Tick, vars, Queued, durableVars, cloudVars, pushVars, pullVars
<1> QED BY <1>1, <1>2, <1>3, <1>4, <1>5, <1>6 DEF Aside

LEMMA NextCases ==
    ASSUME [Next]_vars
    PROVE  \/ \E i \in Items : Enqueues(i)
           \/ \E w \in Workers : PushStep(w)
           \/ \E w \in Workers : PullStep(w)
           \/ Aside
  BY DEF Next, Enqueues, Aside

\* What a pull may do to the cloud's rows, the queue and the inventories: only
\* apply_remote_atomic_full receipts or applies, and only a row of the page.
LEMMA PullEffects ==
    ASSUME TypeOK, NEW w \in Workers, PullStep(w)
    PROVE  /\ page' \in [Workers -> SUBSET Items]
           /\ \A v \in Workers : page'[v] \subseteq page[v] \cup log
           /\ \/ UNCHANGED <<done, receipts, effectKeys>>
              \/ \E i \in page[w] : /\ Record(Host[w], i)
                                    /\ UNCHANGED done
              \/ \E i \in page[w] : ApplyRow(w, Host[w], i)
<1> USE SyncConstants, RowSets
<1>1. CASE PullDelivered(w)
  <2>1. \/ page' = page
        \/ page' = [page EXCEPT ![w] = PullPage(Host[w], captured[w])]
    BY <1>1 DEF PullDelivered
  <2>2. PullPage(Host[w], captured[w]) \subseteq log
    BY DEF TypeOK
  <2>3. PullPage(Host[w], captured[w]) \subseteq Items
    BY <2>2 DEF TypeOK
  <2>4. /\ page' \in [Workers -> SUBSET Items]
        /\ \A v \in Workers : page'[v] \subseteq page[v] \cup log
    <3>1. CASE page' = page
      BY <3>1 DEF TypeOK
    <3>2. ASSUME NEW P \in SUBSET Items, P \subseteq log, page' = [page EXCEPT ![w] = P]
          PROVE  /\ page' \in [Workers -> SUBSET Items]
                 /\ \A v \in Workers : page'[v] \subseteq page[v] \cup log
      BY <3>2 DEF TypeOK
    <3> QED BY <2>1, <2>2, <2>3, <3>1, <3>2
  <2> QED BY <1>1, <2>4 DEF PullDelivered, durableVars
<1>2. CASE apply_remote_atomic_full(w)
  <2>1. PICK i \in page[w] :
            /\ \/ SkipQuarantined(w, Host[w], i)
               \/ ReceiptOwn(w, Host[w], i)
               \/ SkipApplied(w, Host[w], i)
               \/ ApplyRow(w, Host[w], i)
               \/ FailRow(w, Host[w], i)
            /\ page' = [page EXCEPT ![w] = @ \ {i}]
    BY <1>2 DEF apply_remote_atomic_full
  <2>2. /\ page' \in [Workers -> SUBSET Items]
        /\ \A v \in Workers : page'[v] \subseteq page[v]
    BY <2>1 DEF TypeOK
  <2> QED BY <2>1, <2>2 DEF SkipQuarantined, ReceiptOwn, SkipApplied, FailRow
<1>3. CASE ~PullDelivered(w) /\ ~apply_remote_atomic_full(w)
  BY <1>3 DEF PullStep, ReadAnchor, PullLost, PullExpired, recover_expired_anchor, FinishPage,
              TypeOK, durableVars, pullVars
<1> QED BY <1>1, <1>2, <1>3

LEMMA KnownStep ==
    ASSUME TypeOK, Known, [Next]_vars
    PROVE  Known'
<1> USE SyncConstants
<1>1. CASE \E i \in Items : Enqueues(i)
  <2>1. PICK i \in Items : Enqueues(i)
    BY <1>1
  <2>2. Queued' = Queued \cup {i}
    BY <2>1, QueuedByEnqueue
  <2>3. UNCHANGED <<log, pruned, batch, page>> /\ events' \subseteq events \cup {Effect[i]}
    BY <2>1 DEF Enqueues, Checkout, EnqueueAgain, cloudVars, pushVars, pullVars
  <2> QED BY <2>2, <2>3 DEF Known, Happened
<1>2. CASE \E w \in Workers : PushStep(w)
  <2>1. PICK w \in Workers : PushStep(w)
    BY <1>2
  <2>2. Queued' = Queued /\ UNCHANGED <<page, events>>
    BY <2>1, QueuedByPush, PushFrame
  <2>3. log' \cup pruned' \subseteq log \cup pruned \cup batch[w]
    BY <2>1 DEF PushStep, ReadPending, PushDelivered, PushLost, PushGated, mark_all_failed,
                apply_push_results,
                apply_sync_outcomes, ServerInsert, cloudVars
  <2>4. ReadBatch(w) \subseteq Queued
    BY DEF ReadBatch, Pending, Queued
  <2>5. \A v \in Workers : batch'[v] \subseteq batch[v] \cup Queued
    <3>1. \/ batch' = batch
          \/ batch' = [batch EXCEPT ![w] = ReadBatch(w)]
          \/ batch' = [batch EXCEPT ![w] = {}]
          \/ batch' = [batch EXCEPT ![w] = @]
          \/ \E i : batch' = [batch EXCEPT ![w] = @ \ {i}]
      BY <2>1 DEF PushStep, ReadPending, PushDelivered, PushLost, PushGated, mark_all_failed,
                  apply_push_results, apply_sync_outcomes
    <3>2. ASSUME NEW S, S \subseteq batch[w] \cup Queued, batch' = [batch EXCEPT ![w] = S]
          PROVE  \A v \in Workers : batch'[v] \subseteq batch[v] \cup Queued
      BY <3>2 DEF TypeOK
    <3>3. \A i : batch[w] \ {i} \subseteq batch[w] \cup Queued
      OBVIOUS
    <3> QED BY <2>4, <3>1, <3>2, <3>3
  <2> QED BY <2>2, <2>3, <2>5 DEF Known, Happened
<1>3. CASE \E w \in Workers : PullStep(w)
  <2>1. PICK w \in Workers : PullStep(w)
    BY <1>3
  <2>2. UNCHANGED <<status, log, pruned, events, batch>>
    BY <2>1, PullFrame DEF cloudVars
  <2>3. \A v \in Workers : page'[v] \subseteq page[v] \cup log
    BY <2>1, PullEffects
  <2> QED BY <2>2, <2>3 DEF Known, Happened, Queued
<1>4. CASE Aside
  BY <1>4, AsideFrame DEF Known, Happened
<1> QED BY <1>1, <1>2, <1>3, <1>4, NextCases

Carried == CarriedAtHome /\ CarriedElsewhere /\ NeverNamed

\* Steps that leave the inventories alone, forget no receipt and make no effect
\* happen keep them right.
LEMMA CarriedFrame ==
    ASSUME Carried, UNCHANGED done,
           \A t \in Terminals : receipts[t] \subseteq receipts'[t]
                                /\ effectKeys[t] \subseteq effectKeys'[t],
           \A i \in Items : Happened(Effect[i])' <=> Happened(Effect[i])
    PROVE  Carried'
<1>1. CarriedAtHome'
  BY DEF Carried, CarriedAtHome, Protected
<1>2. CarriedElsewhere'
  BY DEF Carried, CarriedElsewhere
<1>3. NeverNamed'
  BY DEF Carried, NeverNamed
<1> QED BY <1>1, <1>2, <1>3 DEF Carried

LEMMA CarriedByCheckout ==
    ASSUME TypeOK, Carried, NEW i \in Items, Checkout(i)
    PROVE  Carried'
<1> USE SyncConstants
<1> DEFINE t == Home[i]
           e == Effect[i]
<1>1. t \in Terminals /\ e \in Effects
  OBVIOUS
<1>2. /\ done' = [done EXCEPT ![t][e] = @ + 1]
      /\ UNCHANGED <<receipts, effectKeys>>
      /\ ~Happened(e)
  BY DEF Checkout, Happened, Queued
<1>3. Queued' = Queued \cup {i}
  BY QueuedByEnqueue DEF Enqueues
<1>4. /\ done'[t][e] = done[t][e] + 1
      /\ \A u \in Terminals, f \in Effects : u # t \/ f # e => done'[u][f] = done[u][f]
  BY <1>1, <1>2 DEF TypeOK
<1>5. \A k \in Items : Effect[k] = e => Home[k] = t
  BY EffectIdentity
<1>6. \A k \in Items : Happened(Effect[k])' <=> Happened(Effect[k]) \/ Effect[k] = e
  BY <1>3 DEF Happened
<1>7. \A k \in Items : Home[k] \in Terminals /\ Effect[k] \in Effects
  OBVIOUS
<1> HIDE DEF t, e
<1>8. CarriedAtHome'
  <2> SUFFICES ASSUME NEW k \in Items, Effect[k] \in Protected
               PROVE  done'[Home[k]][Effect[k]] = IF Happened(Effect[k])' THEN 1 ELSE 0
    BY DEF CarriedAtHome, Protected
  <2>1. done[Home[k]][Effect[k]] = IF Happened(Effect[k]) THEN 1 ELSE 0
    BY DEF Carried, CarriedAtHome
  <2>2. CASE Effect[k] = e
    BY <1>2, <1>4, <1>5, <1>6, <2>1, <2>2
  <2>3. CASE Effect[k] # e
    BY <1>4, <1>6, <1>7, <2>1, <2>3
  <2> QED BY <2>2, <2>3
<1>9. CarriedElsewhere'
  BY <1>2, <1>4, <1>5, <1>7 DEF Carried, CarriedElsewhere
<1>10. NeverNamed'
  <2>1. i \in Items /\ Effect[i] = e
    BY DEF e
  <2> QED BY <1>4, <2>1 DEF Carried, NeverNamed
<1> QED BY <1>8, <1>9, <1>10 DEF Carried

LEMMA RecordGrows ==
    ASSUME TypeOK, NEW u \in Terminals, NEW i \in Items, Record(u, i)
    PROVE  /\ \A t \in Terminals : receipts[t] \subseteq receipts'[t]
                                   /\ effectKeys[t] \subseteq effectKeys'[t]
           /\ IF i \in Sales THEN Recorded(u, i) \/ Effect[i] \in effectKeys'[u]
              ELSE i \in receipts'[u]
<1>1. CASE Recorded(u, i)
  BY <1>1 DEF Record, Recorded
<1>2. CASE ~Recorded(u, i) /\ i \in Sales
  <2>1. /\ receipts' = [receipts EXCEPT ![u] = @ \cup {i}]
        /\ effectKeys' = [effectKeys EXCEPT ![u] = @ \cup {Effect[i]}]
    BY <1>2 DEF Record
  <2> QED BY <1>2, <2>1 DEF TypeOK
<1>3. CASE ~Recorded(u, i) /\ i \notin Sales
  <2>1. /\ receipts' = [receipts EXCEPT ![u] = @ \cup {i}]
        /\ effectKeys' = [effectKeys EXCEPT ![u] = @]
    BY <1>3 DEF Record
  <2> QED BY <1>3, <2>1 DEF TypeOK
<1> QED BY <1>1, <1>2, <1>3

\* Applying row i at u changes what u carries of its effect only: from zero to
\* one when u is a foreign terminal, and for no protected effect when it is not.
LEMMA ApplyCarries ==
    ASSUME TypeOK, Carried, NEW w \in Workers, NEW u \in Terminals, NEW i \in Items,
           ApplyRow(w, u, i)
    PROVE  \/ UNCHANGED done
           \/ /\ u = Home[i]
              /\ Effect[i] \notin Protected
              /\ done' = [done EXCEPT ![u][Effect[i]] = @ + 1]
           \/ /\ u # Home[i]
              /\ done[u][Effect[i]] = 0
              /\ done' = [done EXCEPT ![u][Effect[i]] = 1]
<1>1. CASE sale_completed_here(u, i)
  BY <1>1 DEF ApplyRow
<1>2. CASE ~sale_completed_here(u, i) /\ u = Home[i]
  <2>1. i \in Unstamped /\ ~(i \in Attributed /\ u \notin Split)
    BY <1>2 DEF ApplyRow, OwnRow, sale_completed_here
  <2>2. Effect[i] \notin Protected
    BY <1>2, <2>1 DEF Protected
  <2> QED BY <1>2, <2>2 DEF ApplyRow
<1>3. CASE ~sale_completed_here(u, i) /\ u # Home[i]
  <2>1. done[u][Effect[i]] = 0
    BY <1>3 DEF ApplyRow, Recorded, Carried, CarriedElsewhere
  <2>2. done' = [done EXCEPT ![u][Effect[i]] = @ + 1]
    BY <1>3 DEF ApplyRow
  <2>3. Effect[i] \in Effects
    BY SyncConstants
  <2>4. done' = [done EXCEPT ![u][Effect[i]] = 1]
    BY <2>1, <2>2, <2>3 DEF TypeOK
  <2> QED BY <1>3, <2>1, <2>4
<1> QED BY <1>1, <1>2, <1>3

LEMMA CarriedByApply ==
    ASSUME TypeOK, Carried, NEW w \in Workers, NEW u \in Terminals, NEW i \in Items,
           ApplyRow(w, u, i), UNCHANGED status
    PROVE  Carried'
<1> USE SyncConstants
<1>1. Record(u, i) /\ ~Recorded(u, i)
  BY DEF ApplyRow
<1>2. \A k \in Items : Happened(Effect[k])' <=> Happened(Effect[k])
  BY DEF Happened, Queued
<1>3. \A k \in Items : Home[k] \in Terminals /\ Effect[k] \in Effects
  OBVIOUS
<1>4. \A k \in Items : Effect[k] = Effect[i] =>
          Home[k] = Home[i] /\ (k \in Sales <=> i \in Sales) /\ (i \notin Sales => k = i)
  BY EffectIdentity
<1>5. CASE UNCHANGED done
  BY <1>1, <1>2, <1>5, RecordGrows, CarriedFrame
<1>6. ASSUME NEW n \in Nat, done' = [done EXCEPT ![u][Effect[i]] = n],
             \/ u = Home[i] /\ Effect[i] \notin Protected
             \/ u # Home[i] /\ n = 1
      PROVE  Carried'
  <2>1. /\ done'[u][Effect[i]] = n
        /\ \A t \in Terminals, f \in Effects :
               t # u \/ f # Effect[i] => done'[t][f] = done[t][f]
    BY <1>3, <1>6 DEF TypeOK
  <2>2. CarriedAtHome'
    BY <1>2, <1>3, <1>4, <1>6, <2>1 DEF Carried, CarriedAtHome, Protected
  <2>3. CarriedElsewhere'
    <3> SUFFICES ASSUME NEW t \in Terminals, NEW k \in Items, t # Home[k]
                 PROVE  /\ done'[t][Effect[k]] \in {0, 1}
                        /\ done'[t][Effect[k]] = 1 =>
                               IF k \in Sales THEN Effect[k] \in effectKeys'[t]
                               ELSE k \in receipts'[t]
      BY DEF CarriedElsewhere
    <3>1. CASE t = u /\ Effect[k] = Effect[i]
      BY <1>1, <1>4, <1>6, <2>1, <3>1, RecordGrows
    <3>2. CASE t # u \/ Effect[k] # Effect[i]
      BY <1>1, <1>3, <2>1, <3>2, RecordGrows DEF Carried, CarriedElsewhere
    <3> QED BY <3>1, <3>2
  <2>4. NeverNamed'
    BY <2>1 DEF Carried, NeverNamed
  <2> QED BY <2>2, <2>3, <2>4 DEF Carried
<1>7. Effect[i] \in Effects
  BY <1>3
<1>8. done[u][Effect[i]] + 1 \in Nat
  BY <1>7 DEF TypeOK
<1> QED BY <1>5, <1>6, <1>7, <1>8, ApplyCarries

LEMMA CarriedStep ==
    ASSUME TypeOK, Known, Carried, [Next]_vars
    PROVE  Carried'
<1> USE SyncConstants
<1>1. CASE \E i \in Items : Enqueues(i)
  <2>1. PICK i \in Items : Enqueues(i)
    BY <1>1
  <2>2. CASE Checkout(i)
    BY <2>2, CarriedByCheckout
  <2>3. CASE EnqueueAgain(i)
    <3>1. UNCHANGED <<done, receipts, effectKeys>> /\ Happened(Effect[i])
      BY <2>3 DEF EnqueueAgain, Known
    <3>2. \A k \in Items : Happened(Effect[k])' <=> Happened(Effect[k])
      BY <2>1, <3>1, QueuedByEnqueue DEF Happened
    <3> QED BY <3>1, <3>2, CarriedFrame
  <2> QED BY <2>1, <2>2, <2>3 DEF Enqueues
<1>2. CASE \E w \in Workers : PushStep(w)
  <2>1. PICK w \in Workers : PushStep(w)
    BY <1>2
  <2>2. Queued' = Queued /\ UNCHANGED <<done, receipts, effectKeys>>
    BY <2>1, QueuedByPush, PushFrame
  <2> QED BY <2>2, CarriedFrame DEF Happened
<1>3. CASE \E w \in Workers : PullStep(w)
  <2>1. PICK w \in Workers : PullStep(w)
    BY <1>3
  <2>2. UNCHANGED status /\ Host[w] \in Terminals /\ page[w] \subseteq Items
    BY <2>1, PullFrame DEF TypeOK
  <2>3. \A k \in Items : Happened(Effect[k])' <=> Happened(Effect[k])
    BY <2>2 DEF Happened, Queued
  <2>4. CASE UNCHANGED <<done, receipts, effectKeys>>
    BY <2>3, <2>4, CarriedFrame
  <2>5. CASE \E i \in page[w] : Record(Host[w], i) /\ UNCHANGED done
    BY <2>2, <2>3, <2>5, RecordGrows, CarriedFrame
  <2>6. CASE \E i \in page[w] : ApplyRow(w, Host[w], i)
    BY <2>2, <2>6, CarriedByApply
  <2> QED BY <2>1, <2>4, <2>5, <2>6, PullEffects
<1>4. CASE Aside
  <2>1. Queued' = Queued /\ UNCHANGED <<done, receipts, effectKeys>>
    BY <1>4, AsideFrame
  <2> QED BY <2>1, CarriedFrame DEF Happened
<1> QED BY <1>1, <1>2, <1>3, <1>4, NextCases
LEMMA InitInv == Init => IInv
<1> SUFFICES ASSUME Init  PROVE IInv
  OBVIOUS
<1>1. TypeOK /\ Bounded
  BY InitType
<1>2. SyncedOnServer /\ Acknowledged
  BY DEF Init, SyncedOnServer, Acknowledged
<1>3. Known
  BY DEF Init, Known, Queued
<1>4. Queued = {} /\ \A t \in Terminals, e \in Effects : done[t][e] = 0
  BY DEF Init, Queued
<1>5. CarriedAtHome /\ CarriedElsewhere /\ NeverNamed
  BY <1>4, SyncConstants DEF CarriedAtHome, CarriedElsewhere, NeverNamed, Happened
<1> QED BY <1>1, <1>2, <1>3, <1>5 DEF IInv

LEMMA StepInv == IInv /\ [Next]_vars => IInv'
<1> SUFFICES ASSUME IInv, [Next]_vars  PROVE IInv'
  OBVIOUS
<1>1. TypeOK' /\ Bounded'
  BY TypeStep DEF IInv
<1>2. SyncedOnServer' /\ Acknowledged'
  BY AcknowledgedStep DEF IInv
<1>3. Known'
  BY KnownStep DEF IInv
<1>4. Carried'
  BY CarriedStep DEF IInv, Carried
<1> QED BY <1>1, <1>2, <1>3, <1>4 DEF IInv, Carried

\* The invariant every safety theorem rests on.
THEOREM Invariance == Spec => []IInv
  BY InitInv, StepInv, PTL DEF Spec

\* However a protected effect is queued, pushed, pulled, requeued or replayed,
\* apply_remote_atomic_full and Checkout let no inventory carry it twice.
THEOREM NothingTwice == Spec => []AtMostOnce
<1>1. IInv => AtMostOnce
  <2> SUFFICES ASSUME IInv, NEW t \in Terminals, NEW e \in Protected
               PROVE  done[t][e] <= 1
    BY DEF AtMostOnce
  <2>1. e \in Effects
    BY DEF Protected
  <2>2. CASE \A i \in Items : Effect[i] # e
    BY <2>1, <2>2 DEF IInv, NeverNamed
  <2>3. ASSUME NEW i \in Items, Effect[i] = e  PROVE done[t][e] <= 1
    <3>1. CASE t = Home[i]
      BY <2>3, <3>1 DEF IInv, CarriedAtHome
    <3>2. CASE t # Home[i]
      BY <2>3, <3>2 DEF IInv, CarriedElsewhere
    <3> QED BY <3>1, <3>2
  <2> QED BY <2>2, <2>3
<1> QED BY <1>1, Invariance, PTL
-----------------------------------------------------------------------------
(* Replication implements exactly-once delivery *)

\* What EffectDelivery sees of the inventories.
carriedBar == [t \in Terminals |-> [e \in Protected |-> done[t][e]]]

LEMMA OriginHome ==
    \A i \in Items : OriginOf(Effect[i]) = Home[i] /\ Home[i] \in Terminals
<1> SUFFICES ASSUME NEW i \in Items
             PROVE  OriginOf(Effect[i]) = Home[i] /\ Home[i] \in Terminals
  OBVIOUS
<1>1. Home[i] \in Terminals
  BY SyncConstants
<1>2. \A j \in Items : Effect[j] = Effect[i] => Home[j] = Home[i]
  BY EffectIdentity
<1>3. \A t \in Terminals :
          (\A j \in Items : Effect[j] = Effect[i] => Home[j] = t) => t = Home[i]
  OBVIOUS
<1> QED BY <1>1, <1>2, <1>3 DEF OriginOf

\* Adding to one inventory shows in the abstract state for a protected effect.
LEMMA BarUpdate ==
    ASSUME TypeOK, NEW u \in Terminals, NEW e \in Effects, NEW n \in Nat,
           done' = [done EXCEPT ![u][e] = n]
    PROVE  /\ e \in Protected => carriedBar' = [carriedBar EXCEPT ![u][e] = n]
           /\ e \notin Protected => carriedBar' = carriedBar
<1>1. \A t \in Terminals, f \in Effects :
          done'[t][f] = IF t = u /\ f = e THEN n ELSE done[t][f]
  BY DEF TypeOK
<1>2. Protected \subseteq Effects /\ Protected' = Protected
  BY DEF Protected
<1>3. carriedBar' = [t \in Terminals |-> [f \in Protected |->
                        IF t = u /\ f = e THEN n ELSE done[t][f]]]
  BY <1>1, <1>2 DEF carriedBar
<1>4. CASE e \in Protected
  BY <1>3, <1>4 DEF carriedBar
<1>5. CASE e \notin Protected
  BY <1>3, <1>5 DEF carriedBar
<1> QED BY <1>4, <1>5

LEMMA CheckoutPerforms ==
    ASSUME IInv, NEW i \in Items, Checkout(i)
    PROVE  Delivery!Next \/ UNCHANGED carriedBar
<1> DEFINE t == Home[i]
           e == Effect[i]
<1>1. t \in Terminals /\ e \in Effects
  BY SyncConstants
<1>2. done' = [done EXCEPT ![t][e] = @ + 1] /\ ~Happened(e)
  BY DEF Checkout, Happened, Queued
<1>3. CASE e \notin Protected
  <2>1. done[t][e] + 1 \in Nat /\ done' = [done EXCEPT ![t][e] = done[t][e] + 1]
    BY <1>1, <1>2 DEF IInv, TypeOK
  <2> HIDE DEF t, e
  <2> QED BY <1>1, <1>3, <2>1, BarUpdate DEF IInv
<1>4. CASE e \in Protected
  <2>1. done[t][e] = 0
    BY <1>2, <1>4 DEF IInv, CarriedAtHome
  <2>2. done' = [done EXCEPT ![t][e] = 1]
    BY <1>1, <1>2, <2>1 DEF IInv, TypeOK
  <2>3. OriginOf(e) = t
    BY OriginHome
  <2> HIDE DEF t, e
  <2>4. carriedBar' = [carriedBar EXCEPT ![t][e] = 1] /\ carriedBar[t][e] = 0
    <3>1. TypeOK /\ 1 \in Nat
      BY DEF IInv
    <3>2. carriedBar' = [carriedBar EXCEPT ![t][e] = 1]
      BY <1>1, <1>4, <2>2, <3>1, BarUpdate
    <3>3. carriedBar[t][e] = 0
      BY <1>1, <1>4, <2>1 DEF carriedBar
    <3> QED BY <3>2, <3>3
  <2> QED BY <1>4, <2>3, <2>4 DEF Delivery!Next, Delivery!Perform, carriedBar
<1> QED BY <1>3, <1>4

LEMMA ApplyDelivers ==
    ASSUME IInv, NEW w \in Workers, NEW u \in Terminals, NEW i \in page[w],
           ApplyRow(w, u, i)
    PROVE  Delivery!Next \/ UNCHANGED carriedBar
<1> DEFINE e == Effect[i]
<1>1. i \in Items /\ Happened(e)
  BY DEF IInv, TypeOK, Known, Happened
<1>2. e \in Effects /\ done[u][e] + 1 \in Nat
  BY <1>1, SyncConstants DEF IInv, TypeOK
<1>3. CASE UNCHANGED done
  BY <1>3 DEF carriedBar, Protected
<1>4. CASE e \notin Protected /\ done' = [done EXCEPT ![u][e] = @ + 1]
  <2>1. done' = [done EXCEPT ![u][e] = done[u][e] + 1]
    BY <1>4
  <2> HIDE DEF e
  <2> QED BY <1>2, <1>4, <2>1, BarUpdate DEF IInv
<1>5. CASE /\ u # Home[i]
           /\ done[u][e] = 0
           /\ done' = [done EXCEPT ![u][e] = 1]
  <2>1. OriginOf(e) = Home[i] /\ Home[i] \in Terminals
    BY <1>1, OriginHome
  <2>2. e \in Protected => done[Home[i]][e] = 1
    BY <1>1 DEF IInv, CarriedAtHome
  <2> HIDE DEF e
  <2>3. CASE e \notin Protected
    BY <1>2, <1>5, <2>3, BarUpdate DEF IInv
  <2>4. CASE e \in Protected
    <3>1. /\ carriedBar' = [carriedBar EXCEPT ![u][e] = 1]
          /\ carriedBar[u][e] = 0
          /\ carriedBar[Home[i]][e] = 1
      <4>1. TypeOK /\ 1 \in Nat
        BY DEF IInv
      <4>2. carriedBar' = [carriedBar EXCEPT ![u][e] = 1]
        <5>1. e \in Effects /\ done' = [done EXCEPT ![u][e] = 1]
          BY <1>2, <1>5
        <5> QED BY <2>4, <4>1, <5>1, BarUpdate
      <4>3. carriedBar[u][e] = 0 /\ carriedBar[Home[i]][e] = 1
        BY <1>5, <2>1, <2>2, <2>4 DEF carriedBar
      <4> QED BY <4>2, <4>3
    <3> QED BY <1>5, <2>1, <2>4, <3>1 DEF Delivery!Next, Delivery!Deliver, carriedBar
  <2> QED BY <2>3, <2>4
<1> QED BY <1>1, <1>3, <1>4, <1>5, ApplyCarries DEF IInv, Carried

LEMMA StepDelivers ==
    ASSUME IInv, [Next]_vars
    PROVE  Delivery!Next \/ UNCHANGED carriedBar
<1> USE DEF IInv
<1>1. UNCHANGED done => UNCHANGED carriedBar
  BY DEF carriedBar, Protected
<1>2. CASE \E i \in Items : Enqueues(i)
  BY <1>1, <1>2, CheckoutPerforms DEF Enqueues, EnqueueAgain
<1>3. CASE \E w \in Workers : PushStep(w)
  BY <1>1, <1>3, PushFrame
<1>4. CASE \E w \in Workers : PullStep(w)
  <2>1. PICK w \in Workers : PullStep(w)
    BY <1>4
  <2>2. Host[w] \in Terminals
    BY SyncConstants
  <2> QED BY <1>1, <2>1, <2>2, PullEffects, ApplyDelivers
<1>5. CASE Aside
  BY <1>1, <1>5, AsideFrame
<1> QED BY <1>2, <1>3, <1>4, <1>5, NextCases

\* Every behaviour of the sync machinery is, for the protected effects, one of
\* perform-once and deliver-at-most-once: retries and replays are stuttering.
THEOREM Refinement == Spec => ImplementsDelivery
<1>1. Init => Delivery!Init
  BY DEF Init, Delivery!Init, Protected
<1>2. IInv /\ [Next]_vars => [Delivery!Next]_carriedBar
  BY StepDelivers
<1>3. carriedBar = [t \in Terminals |-> [e \in Protected |-> done[t][e]]]
  BY DEF carriedBar
<1> QED BY <1>1, <1>2, Invariance, PTL DEF Spec, ImplementsDelivery, Delivery!Spec, carriedBar
-----------------------------------------------------------------------------
(* The pull anchor moves over no row in reach *)

\* ORDER BY created_at, id under the stamps c.
Before(c, i, j) == c[i] < c[j] \/ (c[i] = c[j] /\ i < j)

\* Row i lies at or after the anchor's time and strictly after its cursor.
Beyond(c, a, i) == c[i] >= a.since /\ (a.cursor # 0 => Before(c, a.cursor, i))

\* An anchor is NULL or was taken at one of the rows S.
Placed(c, S, a) ==
    \/ a = NoAnchor
    \/ \E k \in S : a.since = c[k] /\ a.cursor \in {0, k}

Stored == log \cup pruned

\* Anchors are taken at rows the cloud stores or stored: later queueing does not
\* change what lies beyond them.
AnchorsPlaced ==
    /\ \A t \in Terminals : Placed(createdAt, Stored, anchor[t])
    /\ \A w \in Workers : /\ Placed(createdAt, Stored, captured[w])
                          /\ Placed(createdAt, Stored, newAnchor[w])

\* With finitely many rows queued a page counts the rows before its last one.
Anchored == IsFiniteSet(Queued) /\ AnchorsPlaced

\* What worker w has in hand would not take the anchor over row i.
Spared(w, i) ==
    /\ pc[w] = "snapshot" => Beyond(createdAt, newAnchor[w], i)
    /\ Beyond(createdAt, captured[w], i) /\ ~Beyond(createdAt, newAnchor[w], i) =>
        /\ pc[w] = "pulled" => i \in page[w]
        /\ pc[w] = "applying" => i \in page[w] \/ retained[w] \/ Settled(Host[w], i)

\* What the pull of another terminal's rows asks is whether they lie beyond.
LEMMA AheadIsBeyond ==
    ASSUME NEW t \in Terminals, NEW a, NEW i \in log, Home[i] # t
    PROVE  Ahead(t, a, i) <=> Beyond(createdAt, a, i)
  BY DEF Ahead, PullWindow, Beyond, RowBefore, Before

LEMMA ReachIsBeyond ==
    ASSUME NEW t \in Terminals, NEW i \in log \ pruned, Home[i] # t
    PROVE  InReach(t, i) <=> /\ Beyond(createdAt, anchor[t], i)
                             /\ \A w \in Workers : Host[w] = t => Spared(w, i)
  BY AheadIsBeyond DEF InReach, Spared

LEMMA ReachAfter ==
    ASSUME NEW t \in Terminals, NEW i \in log' \ pruned', Home[i] # t,
           Beyond(createdAt', anchor'[t], i),
           \A w \in Workers : Host[w] = t => Spared(w, i)'
    PROVE  InReach(t, i)'
<1>1. \A a : (i \in PullWindow(t, a))' <=> Beyond(createdAt', a, i)
  BY DEF PullWindow, Beyond, RowBefore, Before
<1> QED BY <1>1 DEF InReach, Spared, Ahead

LEMMA PlacedGrows ==
    ASSUME NEW c, NEW d, NEW S, NEW T, S \subseteq T, \A k \in S : c[k] = d[k],
           NEW a, Placed(c, S, a)
    PROVE  Placed(d, T, a)
  BY DEF Placed

LEMMA BeyondKept ==
    ASSUME NEW c, NEW d, NEW S, \A k \in S : c[k] = d[k],
           NEW a, Placed(c, S, a), NEW i \in S
    PROVE  Beyond(c, a, i) <=> Beyond(d, a, i)
  BY DEF Placed, Beyond, Before, NoAnchor

LEMMA BeforeIsTotal ==
    ASSUME NEW c \in [Items -> Nat], NEW i \in Items, NEW j \in Items, i # j
    PROVE  Before(c, i, j) \/ Before(c, j, i)
  BY SyncConstants DEF Before

LEMMA BeforeIsTransitive ==
    ASSUME NEW c \in [Items -> Nat], NEW i \in Items, NEW j \in Items, NEW k \in Items,
           Before(c, i, j), Before(c, j, k)
    PROVE  Before(c, i, k)
  BY SyncConstants DEF Before

\* Of a step: rows once stored stay on record, stamps of queued rows never change.
LEMMA StampsKept ==
    ASSUME IInv, [Next]_vars
    PROVE  /\ pruned \subseteq pruned'
           /\ Stored \subseteq Stored'
           /\ Stored \subseteq Queued
           /\ \A k \in Queued : createdAt'[k] = createdAt[k]
           /\ IsFiniteSet(Queued) => IsFiniteSet(Queued')
<1> USE DEF IInv
<1>0. Stored \subseteq Queued
  BY DEF Known, Stored
<1>1. CASE \E i \in Items : Enqueues(i)
  <2>1. PICK i \in Items : Enqueues(i)
    BY <1>1
  <2>2. Queued' = Queued \cup {i} /\ i \notin Queued
    BY <2>1, QueuedByEnqueue
  <2>3. createdAt' = [createdAt EXCEPT ![i] = now] /\ UNCHANGED <<log, pruned>>
    BY <2>1 DEF Enqueues, Checkout, EnqueueAgain, Enqueue, cloudVars
  <2>4. \A k \in Queued : createdAt'[k] = createdAt[k]
    BY <2>2, <2>3 DEF TypeOK, Queued
  <2>5. IsFiniteSet(Queued) => IsFiniteSet(Queued')
    BY <2>2, FS_AddElement
  <2> QED BY <1>0, <2>3, <2>4, <2>5 DEF Stored
<1>2. CASE \E w \in Workers : PushStep(w)
  <2>1. PICK w \in Workers : PushStep(w)
    BY <1>2
  <2>2. Queued' = Queued
    BY <2>1, QueuedByPush
  <2>3. UNCHANGED <<createdAt, pruned>> /\ log \subseteq log'
    BY <2>1 DEF PushStep, ReadPending, PushDelivered, PushLost, PushGated, mark_all_failed,
                apply_push_results, apply_sync_outcomes, ServerInsert, durableVars, cloudVars
  <2> QED BY <1>0, <2>2, <2>3 DEF Stored
<1>3. CASE \E w \in Workers : PullStep(w)
  <2>1. PICK w \in Workers : PullStep(w)
    BY <1>3
  <2>2. UNCHANGED <<status, log, pruned>>
    BY <2>1, PullFrame DEF cloudVars
  <2>3. UNCHANGED createdAt
    BY <2>1 DEF PullStep, ReadAnchor, PullDelivered, PullLost, PullExpired,
                recover_expired_anchor, apply_remote_atomic_full, FinishPage, durableVars
  <2> QED BY <1>0, <2>2, <2>3 DEF Stored, Queued
<1>4. CASE Aside
  <2>1. Queued' = Queued /\ Stored' = Stored
    BY <1>4, AsideFrame DEF Stored
  <2>2. UNCHANGED createdAt /\ pruned \subseteq pruned'
    BY <1>4 DEF Aside, delete_offline_item, SkipEnqueue, requeue_remote_failure, Crash,
                run_prune_cycle, Tick, vars, durableVars, cloudVars
  <2> QED BY <1>0, <2>1, <2>2
<1> QED BY <1>1, <1>2, <1>3, <1>4, NextCases

\* A row of the page that is dealt with counts as settled or holds the anchor
\* back, and nothing that was settled comes undone.
LEMMA RowSettles ==
    ASSUME TypeOK, NEW w \in Workers, NEW u \in Terminals, NEW i \in Items,
           \/ SkipQuarantined(w, u, i)
           \/ ReceiptOwn(w, u, i)
           \/ SkipApplied(w, u, i)
           \/ ApplyRow(w, u, i)
           \/ FailRow(w, u, i)
    PROVE  /\ Settled(u, i)' \/ retained'[w]
           /\ \A t \in Terminals, k \in Items : Settled(t, k) => Settled(t, k)'
           /\ \A v \in Workers : retained[v] => retained'[v]
<1>1. CASE SkipQuarantined(w, u, i) \/ SkipApplied(w, u, i)
  BY <1>1 DEF SkipQuarantined, SkipApplied, Settled, Recorded
<1>2. ASSUME Record(u, i), ClearFailure(u, i), UNCHANGED retained
      PROVE  /\ Settled(u, i)' \/ retained'[w]
             /\ \A t \in Terminals, k \in Items : Settled(t, k) => Settled(t, k)'
             /\ \A v \in Workers : retained[v] => retained'[v]
  <2>1. Recorded(u, i)'
    <3>1. CASE Recorded(u, i)
      BY <1>2, <3>1 DEF Record, Recorded
    <3>2. CASE ~Recorded(u, i)
      <4>1. receipts' = [receipts EXCEPT ![u] = @ \cup {i}]
        BY <1>2, <3>2 DEF Record
      <4> QED BY <4>1 DEF Recorded, TypeOK
    <3> QED BY <3>1, <3>2
  <2>2. \A t \in Terminals : receipts[t] \subseteq receipts'[t] /\ effectKeys[t] \subseteq effectKeys'[t]
    BY <1>2, RecordGrows
  <2>3. \A t \in Terminals, k \in Items : k \in dead[t] => k \in dead'[t] \/ (t = u /\ k = i)
    BY <1>2 DEF ClearFailure, TypeOK
  <2> QED BY <1>2, <2>1, <2>2, <2>3 DEF Settled, Recorded
<1>3. CASE ReceiptOwn(w, u, i) \/ ApplyRow(w, u, i)
  BY <1>2, <1>3 DEF ReceiptOwn, ApplyRow
<1>4. CASE FailRow(w, u, i)
  <2>1. PICK quarantine \in BOOLEAN :
            /\ dead' = [dead EXCEPT ![u] = IF quarantine THEN @ \cup {i} ELSE @]
            /\ retained' = [retained EXCEPT ![w] = @ \/ ~quarantine]
    BY <1>4 DEF FailRow
  <2>2. UNCHANGED <<receipts, effectKeys>>
    BY <1>4 DEF FailRow
  <2>3. \A t \in Terminals : dead[t] \subseteq dead'[t]
    BY <2>1 DEF TypeOK
  <2>4. i \in dead'[u] \/ retained'[w]
    BY <2>1 DEF TypeOK
  <2>5. \A v \in Workers : retained[v] => retained'[v]
    BY <2>1 DEF TypeOK
  <2> QED BY <2>2, <2>3, <2>4, <2>5 DEF Settled, Recorded
<1> QED BY <1>1, <1>3, <1>4

\* A page that stops at row `last` holds every row of its window up to `last`.
LEMMA PageIsPrefix ==
    ASSUME TypeOK, IsFiniteSet(log), NEW t \in Terminals, NEW a \in Anchors,
           NEW last \in PullPage(t, a), NEW i \in PullWindow(t, a),
           i = last \/ RowBefore(i, last)
    PROVE  i \in PullPage(t, a)
<1> DEFINE earlier(k) == {j \in PullWindow(t, a) : RowBefore(j, k)}
<1>1. PullWindow(t, a) \subseteq log
  BY DEF PullWindow
<1>2. i \in Items /\ last \in Items /\ createdAt \in [Items -> Nat]
  BY <1>1 DEF TypeOK, PullPage
<1>3. CASE i = last
  BY <1>3
<1>4. CASE RowBefore(i, last)
  <2>1. earlier(i) \subseteq earlier(last)
    <3> SUFFICES ASSUME NEW j \in PullWindow(t, a), RowBefore(j, i)
                 PROVE  RowBefore(j, last)
      OBVIOUS
    <3>1. j \in Items
      BY <1>1 DEF TypeOK
    <3>2. Before(createdAt, j, i) /\ Before(createdAt, i, last)
      BY <1>4 DEF RowBefore, Before
    <3>3. Before(createdAt, j, last)
      BY <1>2, <3>1, <3>2, BeforeIsTransitive
    <3> QED BY <3>3 DEF RowBefore, Before
  <2>2. IsFiniteSet(earlier(last)) /\ IsFiniteSet(earlier(i))
    BY <1>1, FS_Subset
  <2>3. Cardinality(earlier(i)) <= Cardinality(earlier(last))
    BY <2>1, <2>2, FS_Subset
  <2>4. Cardinality(earlier(last)) < PageLimit
    BY DEF PullPage
  <2>5. Cardinality(earlier(i)) \in Nat /\ Cardinality(earlier(last)) \in Nat
    BY <2>2, FS_CardinalityType
  <2>6. Cardinality(earlier(i)) < PageLimit
    BY <2>3, <2>4, <2>5, SyncConstants
  <2> QED BY <2>6 DEF PullPage
<1> QED BY <1>3, <1>4

\* The page answered to a pull holds every row of another terminal between the
\* anchor the pull gave and the anchor of the answer.
LEMMA PageAnswered ==
    ASSUME TypeOK, IsFiniteSet(log), NEW w \in Workers, PullDelivered(w),
           PullPage(Host[w], captured[w]) # {},
           NEW i \in log, Home[i] # Host[w],
           Beyond(createdAt, captured[w], i), ~Beyond(createdAt, newAnchor'[w], i)
    PROVE  i \in page'[w]
<1> DEFINE t == Host[w]
           a == captured[w]
           rows == PullPage(t, a)
<1>1. t \in Terminals /\ a \in Anchors /\ i \in Items /\ createdAt \in [Items -> Nat]
  BY SyncConstants DEF TypeOK
<1>2. i \in PullWindow(t, a)
  BY DEF PullWindow, Beyond, RowBefore, Before
<1>3. page' = [page EXCEPT ![w] = rows]
  BY DEF PullDelivered
<1>4. PICK last \in rows :
          newAnchor' = [newAnchor EXCEPT ![w] =
              [since |-> createdAt[last],
               cursor |-> IF rows = PullWindow(t, a) THEN 0 ELSE last]]
  BY DEF PullDelivered
<1>5. last \in Items
  BY <1>1, <1>4, RowSets DEF TypeOK
<1> HIDE DEF t, a, rows
<1>6. newAnchor'[w] = [since |-> createdAt[last],
                       cursor |-> IF rows = PullWindow(t, a) THEN 0 ELSE last]
  BY <1>4 DEF TypeOK
<1>7. page'[w] = rows
  BY <1>3 DEF TypeOK
<1>8. CASE rows = PullWindow(t, a)
  BY <1>2, <1>7, <1>8
<1>9. CASE rows # PullWindow(t, a)
  <2>1. ~(createdAt[i] >= createdAt[last] /\ Before(createdAt, last, i))
    BY <1>5, <1>6, <1>9, SyncConstants DEF Beyond
  <2>2. i = last \/ Before(createdAt, i, last)
    <3>1. createdAt[i] \in Nat /\ createdAt[last] \in Nat
      BY <1>1, <1>5
    <3>2. CASE createdAt[i] < createdAt[last]
      BY <3>2 DEF Before
    <3>3. CASE ~Before(createdAt, last, i)
      BY <1>1, <1>5, <3>3, BeforeIsTotal
    <3> QED BY <2>1, <3>1, <3>2, <3>3
  <2>3. i = last \/ RowBefore(i, last)
    BY <2>2 DEF Before, RowBefore
  <2>4. last \in PullPage(t, a)
    BY <1>4 DEF rows
  <2>5. i \in PullPage(t, a)
    BY <1>1, <1>2, <2>3, <2>4, PageIsPrefix
  <2> QED BY <1>7, <2>5 DEF rows
<1> QED BY <1>8, <1>9

\* The pull half of a cycle changes neither rows nor stamps.
LEMMA PullStamps ==
    ASSUME TypeOK, NEW w \in Workers, PullStep(w)
    PROVE  UNCHANGED <<status, createdAt, log, pruned, Stored, Queued>>
<1>1. UNCHANGED <<status, log, pruned>>
  BY PullFrame DEF cloudVars
<1>2. UNCHANGED createdAt
  BY DEF PullStep, ReadAnchor, PullDelivered, PullLost, PullExpired,
         recover_expired_anchor, apply_remote_atomic_full, FinishPage, durableVars
<1> QED BY <1>1, <1>2 DEF Stored, Queued

\* A pull takes its anchors from rows of the cloud's queue.
LEMMA PlacedByPull ==
    ASSUME TypeOK, AnchorsPlaced, NEW w \in Workers, PullStep(w)
    PROVE  AnchorsPlaced'
<1> USE SyncConstants
<1>1. UNCHANGED <<createdAt, Stored>>
  BY PullStamps
<1>2. ASSUME NEW a, Placed(createdAt, Stored, a),
             anchor' = anchor \/ anchor' = [anchor EXCEPT ![Host[w]] = newAnchor[w]],
             captured' = captured \/ captured' = [captured EXCEPT ![w] = anchor[Host[w]]],
             newAnchor' = newAnchor \/ newAnchor' = [newAnchor EXCEPT ![w] = a]
      PROVE  AnchorsPlaced'
  <2>1. \A t \in Terminals : Placed(createdAt, Stored, anchor'[t])
    BY <1>2 DEF AnchorsPlaced, TypeOK
  <2>2. \A v \in Workers : Placed(createdAt, Stored, captured'[v])
    <3>1. Placed(createdAt, Stored, anchor[Host[w]])
      BY DEF AnchorsPlaced
    <3>2. \A v \in Workers : captured'[v] = captured[v] \/ captured'[v] = anchor[Host[w]]
      BY <1>2 DEF TypeOK
    <3> QED BY <3>1, <3>2 DEF AnchorsPlaced
  <2>3. \A v \in Workers : Placed(createdAt, Stored, newAnchor'[v])
    BY <1>2 DEF AnchorsPlaced, TypeOK
  <2> QED BY <1>1, <2>1, <2>2, <2>3 DEF AnchorsPlaced
<1>3. Placed(createdAt, Stored, NoAnchor)
  BY DEF Placed
<1>4. ASSUME NEW k \in log, NEW c \in {0, k}
      PROVE  Placed(createdAt, Stored, [since |-> createdAt[k], cursor |-> c])
  BY <1>4 DEF Placed, Stored
<1>5. CASE ReadAnchor(w)
  BY <1>2, <1>3, <1>5 DEF ReadAnchor, durableVars
<1>6. CASE PullDelivered(w)
  <2>1. CASE newAnchor' = newAnchor
    BY <1>2, <1>3, <1>6, <2>1 DEF PullDelivered, durableVars
  <2>2. CASE newAnchor' # newAnchor
    <3>1. PICK last \in PullPage(Host[w], captured[w]) : \E c \in {0, last} :
              newAnchor' = [newAnchor EXCEPT ![w] = [since |-> createdAt[last], cursor |-> c]]
      BY <1>6, <2>2 DEF PullDelivered
    <3>2. last \in log
      BY <3>1 DEF PullPage, PullWindow
    <3> QED BY <1>2, <1>4, <1>6, <3>1, <3>2 DEF PullDelivered, durableVars
  <2> QED BY <2>1, <2>2
<1>7. CASE PullExpired(w)
  <2>1. PICK oldest \in log :
            newAnchor' = [newAnchor EXCEPT ![w] = [since |-> createdAt[oldest], cursor |-> 0]]
    BY <1>7 DEF PullExpired
  <2>2. Placed(createdAt, Stored, [since |-> createdAt[oldest], cursor |-> 0])
    BY <1>4
  <2> QED BY <1>2, <1>7, <2>1, <2>2 DEF PullExpired, durableVars
<1>8. CASE PullLost(w) \/ recover_expired_anchor(w) \/ apply_remote_atomic_full(w)
           \/ FinishPage(w)
  BY <1>2, <1>3, <1>8 DEF PullLost, recover_expired_anchor, apply_remote_atomic_full,
                          FinishPage, durableVars, pullVars
<1> QED BY <1>5, <1>6, <1>7, <1>8 DEF PullStep

LEMMA AnchoredStep ==
    ASSUME IInv, Anchored, [Next]_vars
    PROVE  Anchored'
<1> USE DEF IInv
<1>1. /\ IsFiniteSet(Queued')
      /\ \A a : Placed(createdAt, Stored, a) => Placed(createdAt', Stored', a)
  BY StampsKept, PlacedGrows DEF Anchored
<1>2. ASSUME UNCHANGED <<captured, newAnchor>>,
             \A t \in Terminals : anchor'[t] \in {anchor[t], NoAnchor}
      PROVE  Anchored'
  <2>1. \A t \in Terminals : Placed(createdAt', Stored', anchor'[t])
    <3>1. Placed(createdAt', Stored', NoAnchor)
      BY DEF Placed
    <3> QED BY <1>1, <1>2, <3>1 DEF Anchored, AnchorsPlaced
  <2> QED BY <1>1, <1>2, <2>1 DEF Anchored, AnchorsPlaced
<1>3. CASE \E i \in Items : Enqueues(i)
  BY <1>2, <1>3 DEF Enqueues, Checkout, EnqueueAgain, pullVars
<1>4. CASE \E w \in Workers : PushStep(w)
  BY <1>2, <1>4 DEF PushStep, ReadPending, PushDelivered, PushLost, PushGated, mark_all_failed,
                    apply_push_results, apply_sync_outcomes, durableVars, pullVars
<1>5. CASE \E w \in Workers : PullStep(w)
  BY <1>1, <1>5, PlacedByPull DEF Anchored
<1>6. CASE \E t \in Terminals, i \in Items : requeue_remote_failure(t, i)
  BY <1>2, <1>6 DEF requeue_remote_failure, TypeOK, pullVars
<1>7. CASE Aside /\ ~(\E t \in Terminals, i \in Items : requeue_remote_failure(t, i))
  BY <1>2, <1>7 DEF Aside, delete_offline_item, SkipEnqueue, Crash, run_prune_cycle, Tick,
                    vars, durableVars, pullVars
<1> QED BY <1>3, <1>4, <1>5, <1>6, <1>7, NextCases

\* What lies beyond a placed anchor is the same rows after a step.
LEMMA BeyondFrame ==
    ASSUME IInv, Anchored, [Next]_vars, NEW i \in log
    PROVE  /\ \A t \in Terminals :
                  Beyond(createdAt', anchor[t], i) <=> Beyond(createdAt, anchor[t], i)
           /\ \A w \in Workers :
                  /\ Beyond(createdAt', captured[w], i) <=> Beyond(createdAt, captured[w], i)
                  /\ Beyond(createdAt', newAnchor[w], i) <=> Beyond(createdAt, newAnchor[w], i)
<1>1. \A k \in Stored : createdAt[k] = createdAt'[k]
  BY StampsKept
<1>2. i \in Stored
  BY DEF Stored
<1>3. \A a : Placed(createdAt, Stored, a) =>
                 (Beyond(createdAt, a, i) <=> Beyond(createdAt', a, i))
  BY <1>1, <1>2, BeyondKept
<1> QED BY <1>3 DEF Anchored, AnchorsPlaced

\* A step that moves no anchor and takes no worker to a page leaves a row in reach.
LEMMA ReachByOthers ==
    ASSUME IInv, Anchored, [Next]_vars, NEW t \in Terminals, NEW i \in Items,
           InReach(t, i), i \in log' \ pruned',
           UNCHANGED <<anchor, captured, newAnchor, retained, receipts, effectKeys, dead>>,
           \A w \in Workers : pc'[w] \in {"pulled", "applying", "snapshot"} =>
                                  pc'[w] = pc[w] /\ page'[w] = page[w]
    PROVE  InReach(t, i)'
<1>1. i \in log \ pruned /\ Home[i] # t
  BY DEF InReach
<1>2. Beyond(createdAt, anchor[t], i) /\ \A w \in Workers : Host[w] = t => Spared(w, i)
  BY <1>1, ReachIsBeyond
<1>3. Beyond(createdAt', anchor'[t], i)
  BY <1>1, <1>2, BeyondFrame
<1>4. ASSUME NEW w \in Workers, Host[w] = t
      PROVE  Spared(w, i)'
  <2>1. Spared(w, i)
    BY <1>2, <1>4
  <2>2. Settled(Host[w], i) => Settled(Host[w], i)'
    BY DEF Settled, Recorded
  <2>3. /\ Beyond(createdAt', captured'[w], i) <=> Beyond(createdAt, captured[w], i)
        /\ Beyond(createdAt', newAnchor'[w], i) <=> Beyond(createdAt, newAnchor[w], i)
    BY <1>1, BeyondFrame
  <2> QED BY <2>1, <2>2, <2>3 DEF Spared
<1> QED BY <1>1, <1>3, <1>4, ReachAfter

\* A pull step of any worker leaves a row in reach or settles it.
LEMMA ReachByPull ==
    ASSUME IInv, IInv', Anchored, NEW w \in Workers, PullStep(w),
           NEW t \in Terminals, NEW i \in Items, InReach(t, i)
    PROVE  InReach(t, i)' \/ Settled(t, i)'
<1> USE SyncConstants
<1>1. TypeOK /\ TypeOK'
  BY DEF IInv
<1>2. UNCHANGED <<status, createdAt, log, pruned, Stored, Queued>>
  BY <1>1, PullStamps
<1>3. IsFiniteSet(log)
  <2>1. IsFiniteSet(Queued) /\ log \subseteq Queued
    BY DEF Anchored, IInv, Known
  <2> QED BY <2>1, FS_Subset
<1>4. i \in log \ pruned /\ Home[i] # t
  BY DEF InReach
<1>5. Beyond(createdAt, anchor[t], i) /\ \A v \in Workers : Host[v] = t => Spared(v, i)
  BY <1>4, ReachIsBeyond
<1>6. ASSUME Settled(t, i) => Settled(t, i)',
             \A v \in Workers : v # w =>
                 /\ pc'[v] = pc[v] /\ page'[v] = page[v] /\ captured'[v] = captured[v]
                 /\ newAnchor'[v] = newAnchor[v] /\ (retained[v] => retained'[v]),
             Host[w] = t => Spared(w, i)',
             Beyond(createdAt, anchor'[t], i)
      PROVE  InReach(t, i)'
  <2>1. ASSUME NEW v \in Workers, Host[v] = t
        PROVE  Spared(v, i)'
    <3>1. CASE v = w
      BY <1>6, <2>1, <3>1
    <3>2. CASE v # w
      <4>1. Spared(v, i)
        BY <1>5, <2>1
      <4> QED BY <1>2, <1>6, <2>1, <3>2, <4>1 DEF Spared
    <3> QED BY <3>1, <3>2
  <2>2. Beyond(createdAt', anchor'[t], i) /\ i \in log' \ pruned'
    BY <1>2, <1>4, <1>6
  <2> QED BY <1>4, <2>1, <2>2, ReachAfter
<1>7. UNCHANGED <<receipts, effectKeys, dead>> => (Settled(t, i) => Settled(t, i)')
  BY DEF Settled, Recorded
<1>8. CASE ReadAnchor(w)
  <2>1. /\ pc' = [pc EXCEPT ![w] = "pull"]
        /\ captured' = [captured EXCEPT ![w] = anchor[Host[w]]]
        /\ UNCHANGED <<receipts, effectKeys, dead, anchor, page, newAnchor, retained>>
    BY <1>8 DEF ReadAnchor, durableVars
  <2>2. pc'[w] = "pull" /\ \A v \in Workers : v # w => pc'[v] = pc[v] /\ captured'[v] = captured[v]
    BY <1>1, <2>1 DEF TypeOK
  <2>3. Spared(w, i)'
    BY <2>2 DEF Spared
  <2> QED BY <1>5, <1>6, <1>7, <2>1, <2>2, <2>3
<1>9. CASE PullDelivered(w)
  <2>1. /\ UNCHANGED <<receipts, effectKeys, dead, anchor, captured>>
        /\ \A v \in Workers : v # w =>
               /\ pc'[v] = pc[v] /\ page'[v] = page[v]
               /\ newAnchor'[v] = newAnchor[v] /\ retained'[v] = retained[v]
    BY <1>1, <1>9 DEF PullDelivered, durableVars, TypeOK
  <2>2. Host[w] = t => Spared(w, i)'
    <3>1. CASE PullPage(Host[w], captured[w]) = {}
      <4>1. pc'[w] = "idle"
        BY <1>1, <1>9, <3>1 DEF PullDelivered, TypeOK
      <4> QED BY <4>1 DEF Spared
    <3>2. CASE PullPage(Host[w], captured[w]) # {} /\ Host[w] = t
      <4>1. pc'[w] = "pulled"
        BY <1>1, <1>9, <3>2 DEF PullDelivered, TypeOK
      <4>2. /\ Beyond(createdAt, captured[w], i)
            /\ ~Beyond(createdAt, newAnchor'[w], i)
            => i \in page'[w]
        BY <1>1, <1>3, <1>4, <1>9, <3>2, PageAnswered
      <4>3. captured'[w] = captured[w] /\ createdAt' = createdAt
        BY <1>2, <2>1
      <4> QED BY <4>1, <4>2, <4>3 DEF Spared
    <3> QED BY <3>1, <3>2
  <2> QED BY <1>5, <1>6, <1>7, <2>1, <2>2
<1>10. CASE PullLost(w)
  <2>1. /\ pc' = [pc EXCEPT ![w] = "idle"]
        /\ UNCHANGED <<receipts, effectKeys, dead, anchor, captured, page, newAnchor, retained>>
    BY <1>10 DEF PullLost, durableVars, pullVars
  <2>2. pc'[w] = "idle" /\ \A v \in Workers : v # w => pc'[v] = pc[v]
    BY <1>1, <2>1 DEF TypeOK
  <2>3. Spared(w, i)'
    BY <2>2 DEF Spared
  <2> QED BY <1>5, <1>6, <1>7, <2>1, <2>2, <2>3
<1>11. CASE PullExpired(w)
  <2>1. PICK oldest \in log :
            /\ \A j \in log : createdAt[oldest] <= createdAt[j]
            /\ newAnchor' = [newAnchor EXCEPT ![w] = [since |-> createdAt[oldest], cursor |-> 0]]
    BY <1>11 DEF PullExpired
  <2>2. /\ pc' = [pc EXCEPT ![w] = IF syncError[w] THEN "idle" ELSE "snapshot"]
        /\ UNCHANGED <<receipts, effectKeys, dead, anchor, captured, page, retained>>
    BY <1>11 DEF PullExpired, durableVars
  <2>3. /\ pc'[w] \in {"idle", "snapshot"}
        /\ newAnchor'[w] = [since |-> createdAt[oldest], cursor |-> 0]
        /\ \A v \in Workers : v # w => pc'[v] = pc[v] /\ newAnchor'[v] = newAnchor[v]
    BY <1>1, <2>1, <2>2 DEF TypeOK
  <2>4. Beyond(createdAt', newAnchor'[w], i)
    BY <1>1, <1>2, <1>4, <2>1, <2>3 DEF Beyond, TypeOK
  <2>5. Spared(w, i)'
    BY <2>3, <2>4 DEF Spared
  <2> QED BY <1>5, <1>6, <1>7, <2>2, <2>3, <2>5
<1>12. CASE recover_expired_anchor(w)
  <2>1. /\ pc[w] = "snapshot"
        /\ pc' = [pc EXCEPT ![w] = "idle"]
        /\ anchor' = [anchor EXCEPT ![Host[w]] = newAnchor[w]]
        /\ UNCHANGED <<receipts, effectKeys, dead, captured, page, newAnchor, retained>>
    BY <1>12 DEF recover_expired_anchor, pullVars
  <2>2. pc'[w] = "idle" /\ \A v \in Workers : v # w => pc'[v] = pc[v]
    BY <1>1, <2>1 DEF TypeOK
  <2>3. anchor'[t] = IF Host[w] = t THEN newAnchor[w] ELSE anchor[t]
    BY <1>1, <2>1 DEF TypeOK
  <2>4. Host[w] = t => Beyond(createdAt, newAnchor[w], i)
    BY <1>5, <2>1 DEF Spared
  <2>5. Spared(w, i)'
    BY <2>2 DEF Spared
  <2> QED BY <1>5, <1>6, <1>7, <2>1, <2>2, <2>3, <2>4, <2>5
<1>13. CASE apply_remote_atomic_full(w)
  <2>1. PICK k \in page[w] :
            /\ \/ SkipQuarantined(w, Host[w], k)
               \/ ReceiptOwn(w, Host[w], k)
               \/ SkipApplied(w, Host[w], k)
               \/ ApplyRow(w, Host[w], k)
               \/ FailRow(w, Host[w], k)
            /\ page' = [page EXCEPT ![w] = @ \ {k}]
    BY <1>13 DEF apply_remote_atomic_full
  <2>2. /\ pc[w] \in {"pulled", "applying"}
        /\ pc' = [pc EXCEPT ![w] = "applying"]
        /\ UNCHANGED <<anchor, captured, newAnchor>>
    BY <1>13 DEF apply_remote_atomic_full
  <2>3. k \in Items /\ Host[w] \in Terminals
    BY <1>1, <2>1 DEF TypeOK
  <2>4. /\ Settled(Host[w], k)' \/ retained'[w]
        /\ Settled(t, i) => Settled(t, i)'
        /\ \A v \in Workers : retained[v] => retained'[v]
    BY <1>1, <2>1, <2>3, RowSettles
  <2>5. /\ pc'[w] = "applying"
        /\ page'[w] = page[w] \ {k}
        /\ \A v \in Workers : v # w => pc'[v] = pc[v] /\ page'[v] = page[v]
    BY <1>1, <2>1, <2>2 DEF TypeOK
  <2>6. Host[w] = t => Spared(w, i)'
    <3>1. SUFFICES ASSUME Host[w] = t, Beyond(createdAt, captured[w], i),
                          ~Beyond(createdAt, newAnchor[w], i)
                   PROVE  i \in page'[w] \/ retained'[w] \/ Settled(t, i)'
      BY <1>2, <2>2, <2>5 DEF Spared
    <3>2. i \in page[w] \/ retained[w] \/ Settled(t, i)
      BY <1>5, <2>2, <3>1 DEF Spared
    <3> QED BY <2>4, <2>5, <3>1, <3>2
  <2> QED BY <1>5, <1>6, <2>2, <2>4, <2>5, <2>6
<1>14. CASE FinishPage(w)
  <2>1. /\ pc[w] = "applying" /\ page[w] = {}
        /\ anchor' = IF ~retained[w] /\ anchor[Host[w]] = captured[w]
                     THEN [anchor EXCEPT ![Host[w]] = newAnchor[w]]
                     ELSE anchor
        /\ pc' = [pc EXCEPT ![w] = "idle"]
        /\ UNCHANGED <<receipts, effectKeys, dead, captured, page, newAnchor, retained>>
    BY <1>14 DEF FinishPage, pullVars
  <2>2. pc'[w] = "idle" /\ \A v \in Workers : v # w => pc'[v] = pc[v]
    BY <1>1, <2>1 DEF TypeOK
  <2>3. Spared(w, i)'
    BY <2>2 DEF Spared
  <2>4. CASE Beyond(createdAt, anchor'[t], i)
    BY <1>6, <1>7, <2>1, <2>2, <2>3, <2>4
  <2>5. CASE ~Beyond(createdAt, anchor'[t], i)
    <3>1. /\ t = Host[w] /\ ~retained[w] /\ anchor[t] = captured[w]
          /\ anchor'[t] = newAnchor[w]
      BY <1>1, <1>5, <2>1, <2>5 DEF TypeOK
    <3>2. Settled(t, i)
      BY <1>5, <2>1, <2>5, <3>1 DEF Spared
    <3> QED BY <1>7, <2>1, <3>2
  <2> QED BY <2>4, <2>5
<1> QED BY <1>8, <1>9, <1>10, <1>11, <1>12, <1>13, <1>14 DEF PullStep

\* The operator's rewind puts every row ahead of the anchor; no page of the
\* terminal is half applied then.
LEMMA ReachByRequeue ==
    ASSUME IInv, IInv', NEW u \in Terminals, NEW r \in Items,
           requeue_remote_failure(u, r),
           NEW t \in Terminals, NEW i \in Items, InReach(t, i)
    PROVE  InReach(t, i)'
<1> USE SyncConstants
<1>1. TypeOK /\ TypeOK'
  BY DEF IInv
<1>2. /\ u \notin Split /\ Free(u)
      /\ anchor' = [anchor EXCEPT ![u] = NoAnchor]
      /\ dead' = [dead EXCEPT ![u] = @ \ {r}]
      /\ UNCHANGED <<status, createdAt, receipts, effectKeys, log, pruned, pc, captured,
                     page, newAnchor, retained>>
  BY DEF requeue_remote_failure, ClearFailure, cloudVars, pullVars
<1>3. i \in log' \ pruned' /\ i \in log \ pruned /\ Home[i] # t
  BY <1>2 DEF InReach
<1>4. Beyond(createdAt, anchor[t], i) /\ \A v \in Workers : Host[v] = t => Spared(v, i)
  BY <1>3, ReachIsBeyond
<1>5. t # u /\ Settled(t, i) => Settled(t, i)'
  BY <1>1, <1>2 DEF Settled, Recorded, TypeOK
<1>6. \A v \in Workers : Host[v] = u => pc[v] # "applying"
  BY <1>2 DEF Free
<1>7. Beyond(createdAt', anchor'[t], i)
  <2>1. anchor'[t] = IF t = u THEN NoAnchor ELSE anchor[t]
    BY <1>1, <1>2 DEF TypeOK
  <2>2. createdAt[i] \in Nat
    BY <1>1 DEF TypeOK
  <2> QED BY <1>2, <1>4, <2>1, <2>2 DEF Beyond, NoAnchor
<1>8. ASSUME NEW v \in Workers, Host[v] = t
      PROVE  Spared(v, i)'
  <2>1. Spared(v, i)
    BY <1>4, <1>8
  <2> QED BY <1>2, <1>5, <1>6, <1>8, <2>1 DEF Spared
<1> QED BY <1>3, <1>7, <1>8, ReachAfter

LEMMA ReachStep ==
    ASSUME IInv, IInv', Anchored, [Next]_vars, NEW t \in Terminals, NEW i \in Items,
           InReach(t, i), i \in log' \ pruned'
    PROVE  InReach(t, i)' \/ Settled(t, i)'
<1>1. CASE \E w \in Workers : PullStep(w)
  BY <1>1, ReachByPull
<1>2. CASE \E u \in Terminals, r \in Items : requeue_remote_failure(u, r)
  BY <1>2, ReachByRequeue
<1>3. CASE \E w \in Workers : PushStep(w)
  <2>1. PICK w \in Workers : PushStep(w)
    BY <1>3
  <2>2. UNCHANGED <<anchor, captured, newAnchor, retained, receipts, effectKeys, dead, page>>
    BY <2>1 DEF PushStep, ReadPending, PushDelivered, PushLost, PushGated, mark_all_failed,
                apply_push_results, apply_sync_outcomes, durableVars, pullVars
  <2>3. \E l \in {"idle", "anchor", "push", "replied", "undelivered", "marking"} :
            pc' = [pc EXCEPT ![w] = l]
    BY <2>1 DEF PushStep, ReadPending, PushDelivered, PushLost, PushGated, mark_all_failed,
                apply_push_results, apply_sync_outcomes, AfterPush
  <2>4. \A v \in Workers : pc'[v] \in {"pulled", "applying", "snapshot"} => pc'[v] = pc[v]
    BY <2>3 DEF IInv, TypeOK
  <2> QED BY <2>2, <2>4, ReachByOthers
<1>4. CASE \E k \in Items : Enqueues(k)
  BY <1>4, ReachByOthers DEF Enqueues, Checkout, EnqueueAgain, pullVars
<1>5. CASE \E u \in Terminals : Crash(u)
  BY <1>5, ReachByOthers DEF Crash, durableVars
<1>6. CASE Aside /\ ~(\E u \in Terminals : Crash(u))
                 /\ ~(\E u \in Terminals, r \in Items : requeue_remote_failure(u, r))
  BY <1>6, ReachByOthers DEF Aside, delete_offline_item, SkipEnqueue, run_prune_cycle, Tick,
                             vars, durableVars, pullVars
<1> QED BY <1>1, <1>2, <1>3, <1>4, <1>5, <1>6, NextCases

\* Whatever the rows' order of arrival and however many workers push and pull, no
\* step moves a pull anchor over a row in reach that has not settled: partial
\* pages, retained anchors, quarantine, operator rewinds, snapshot recovery,
\* retention and crashes included (FinishPage, recover_expired_anchor).
THEOREM AnchorPassesNothing == Spec => NothingPassed
<1>1. Init => Anchored
  <2> SUFFICES ASSUME Init  PROVE Anchored
    OBVIOUS
  <2>1. Queued = {}
    BY DEF Init, Queued
  <2>2. IsFiniteSet(Queued)
    BY <2>1, FS_EmptySet
  <2> QED BY <2>2 DEF Init, Anchored, AnchorsPlaced, Placed
<1>2. IInv /\ Anchored /\ [Next]_vars => Anchored'
  BY AnchoredStep
<1>3. IInv /\ IInv' /\ Anchored /\ [Next]_vars =>
          \A t \in Terminals, i \in Items :
              InReach(t, i) => \/ InReach(t, i)'
                               \/ Settled(t, i)'
                               \/ i \notin (log \ pruned)'
  BY ReachStep
<1> QED BY <1>1, <1>2, <1>3, Invariance, PTL DEF Spec, NothingPassed
=============================================================================
