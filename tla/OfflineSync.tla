----------------------------- MODULE OfflineSync -----------------------------
(***************************************************************************)
(* Offline-first replication of kasir.mu: every terminal writes its own    *)
(* mutation and an outbox row in one transaction, a worker pushes pending  *)
(* rows to the cloud queue, and the daemon of every other terminal pulls   *)
(* that queue page by page, applying each row at most once.                *)
(*                                                                         *)
(* The unit of atomicity is the SQLite transaction.  Where checkout and     *)
(* daemon share one database they also share the mutex of its connection,  *)
(* which the daemon holds while it marks a batch and while it applies a    *)
(* page; the event handlers have a connection of their own.                *)
(*                                                                         *)
(* A queue row ("item") is identified by its UUID v7, here a positive      *)
(* number; a terminal hands out its own numbers in increasing order.  What *)
(* a row says is abstracted to the effect it names, so the payload of item *)
(* i is Effect[i]; two rows may name the same effect (a sale enqueued by   *)
(* the settlement and again by the SaleCompleted handler).                 *)
(***************************************************************************)
EXTENDS Integers, FiniteSets

CONSTANTS
    Terminals,   \* paired installs of one tenant
    Workers,     \* push/pull loops: daemons and manual "sync now" commands
    Host,        \* Host[w]: the terminal a worker runs on
    Pullers,     \* workers that are SyncDaemons: they push, then pull
    Tablets,     \* workers that are the tablet shell's push loop
    Split,       \* terminals whose checkout writes a store database of its own
                 \* while daemon and event handlers use the global one
    StoreRows,   \* the rows queued in such a store database
    Items,       \* ids of outbox rows
    Effects,     \* the mutations rows name
    Home,        \* Home[i]: the terminal that enqueues row i
    Effect,      \* Effect[i]: the mutation row i names
    Sales,       \* rows whose action is complete_sale; the rest are stock.adjusted
    Unstamped,   \* rows with a NULL origin_terminal_id (enqueued before pairing)
    Attributed,  \* sales whose `sales` row names the terminal that made them
    Anonymous,   \* terminals whose token carries no terminal identity
    Priority,    \* Priority[i]: SyncPriority of row i, 0 is Critical
    Refusable,   \* rows the cloud may answer with "database error"
    Faulty,      \* rows whose remote application may fail
    Deletable,   \* rows an operator may delete from the queue
    BatchLimit,  \* DEFAULT_MAX_OUTBOX_BATCH_ITEMS (100)
    PageLimit,   \* rows per pull page (500)
    MaxAttempts, \* application attempts before quarantine (3)
    Retention,   \* RETENTION_DAYS, in clock ticks
    MaxTime,     \* bound: the clock stops here
    MaxCrashes   \* bound: process crashes per behaviour

(* A row names a complete_sale (which carries its sale id, hence an effect  *)
(* key) or a stock.adjusted (which carries none, so each row is its own     *)
(* effect).                                                                 *)
ASSUME SyncConstants ==
    /\ Items \subseteq Nat \ {0}
    /\ Host \in [Workers -> Terminals]
    /\ Pullers \subseteq Workers
    /\ Tablets \subseteq Workers \ Pullers
    /\ Split \subseteq Terminals
    /\ StoreRows \subseteq Items
    /\ \A i \in StoreRows : Home[i] \in Split
    /\ Home \in [Items -> Terminals]
    /\ Effect \in [Items -> Effects]
    /\ Sales \subseteq Items
    /\ Unstamped \subseteq Items
    /\ Attributed \subseteq Sales
    /\ Anonymous \subseteq Terminals
    /\ Refusable \subseteq Items
    /\ Faulty \subseteq Items
    /\ Deletable \subseteq Items
    /\ Priority \in [Items -> Nat]
    /\ BatchLimit \in Nat \ {0}
    /\ PageLimit \in Nat \ {0}
    /\ MaxAttempts \in Nat \ {0}
    /\ Retention \in Nat
    /\ MaxTime \in Nat
    /\ MaxCrashes \in Nat

ASSUME EffectIdentity ==
    \A i, j \in Items : Effect[i] = Effect[j] =>
        /\ Home[i] = Home[j]
        /\ i \in Sales <=> j \in Sales
        /\ i \in Attributed <=> j \in Attributed
        /\ i \notin Sales => i = j

VARIABLES
    \* durable state of the terminals
    status,      \* status[i]: offline_queue.status of row i on its home terminal
    createdAt,   \* createdAt[i]: the stamp the home terminal gave row i
    done,        \* done[t][e]: how many times t's inventory carries effect e
    receipts,    \* receipts[t]: item ids in sync_applied_items
    effectKeys,  \* effectKeys[t]: effect keys in sync_applied_items
    attempts,    \* attempts[t][i]: sync_remote_failures.attempts (0: no row)
    dead,        \* dead[t]: dead-lettered rows of sync_remote_failures
    anchor,      \* anchor[t]: sync_pull_state, 0 standing for NULL
    \* durable state of the cloud
    log,         \* ids in the cloud's offline_queue
    pruned,      \* ids retention has deleted from it
    \* volatile state
    events,      \* SaleCompleted events published and not handled yet
    pc,          \* pc[w]: where worker w is in its cycle
    batch,       \* batch[w]: rows read for this push, not yet marked
    outcome,     \* outcome[w]: rows of the batch the cloud refused
    syncError,   \* syncError[w]: the push phase of this tick failed
    captured,    \* captured[w]: the anchor read at the start of the pull
    page,        \* page[w]: rows of the pulled page not yet applied
    newAnchor,   \* newAnchor[w]: the anchor the page would install
    retained,    \* retained[w]: a retryable failure keeps the old anchor
    \* environment
    now, crashes

durableVars == <<status, createdAt, done, receipts, effectKeys, attempts, dead, anchor>>
cloudVars   == <<log, pruned>>
pushVars    == <<batch, outcome, syncError>>
pullVars    == <<captured, page, newAnchor, retained>>
envVars     == <<now, crashes>>
vars == <<durableVars, cloudVars, events, pc, pushVars, pullVars, envVars>>

-----------------------------------------------------------------------------
(* Rows, orders and pages *)

Statuses == {"none", "pending", "synced", "failed", "deleted"}

\* A pull position: rows at or after `since`, and strictly after row `cursor`.
\* NULL is 0 in both fields; the cursor "created_at|id" is the id of its row.
Anchors == [since : Nat, cursor : Items \cup {0}]
NoAnchor == [since |-> 0, cursor |-> 0]

\* Where a worker may be in its cycle.
Locations == {"idle", "push", "replied", "undelivered", "marking", "anchor", "pull",
              "snapshot", "pulled", "applying"}

Queued == {i \in Items : status[i] # "none"}

\* The rows worker w finds pending in the database it reads: the global one for
\* a daemon or a tablet loop, the store's for a command.
Pending(w) ==
    {i \in Items : /\ Home[i] = Host[w]
                   /\ status[i] = "pending"
                   /\ Host[w] \in Split =>
                        (i \in StoreRows <=> w \notin Pullers \cup Tablets)}

\* ORDER BY created_at, id: the order of every pull page.
RowBefore(i, j) ==
    \/ createdAt[i] < createdAt[j]
    \/ createdAt[i] = createdAt[j] /\ i < j

\* order_for_push: priority first, then created_at, then id.
order_for_push(i, j) ==
    \/ Priority[i] < Priority[j]
    \/ Priority[i] = Priority[j] /\ RowBefore(i, j)

\* A daemon truncates to the first BatchLimit rows of the push order, a tablet
\* loop to the first of the creation order; a command takes them all.
ReadBatch(w) ==
    LET earlier(i) == {j \in Pending(w) : IF w \in Tablets THEN RowBefore(j, i)
                                          ELSE order_for_push(j, i)}
    IN {i \in Pending(w) :
            w \in Pullers \cup Tablets => Cardinality(earlier(i)) < BatchLimit}

\* The rows the pull query selects for terminal t: at or after `since`, after
\* the cursor, and not originated by the caller when the token names it.
PullWindow(t, a) ==
    {i \in log : /\ createdAt[i] >= a.since
                 /\ a.cursor # 0 => RowBefore(a.cursor, i)
                 /\ t \in Anonymous \/ i \in Unstamped \/ Home[i] # t}

PullPage(t, a) ==
    {i \in PullWindow(t, a) :
        Cardinality({j \in PullWindow(t, a) : RowBefore(j, i)}) < PageLimit}

\* The connection mutex of terminal t is not held by another worker or command.
\* On a split terminal commands and daemon lock different connections.
Free(t) == t \in Split \/ \A w \in Workers : Host[w] = t => pc[w] \notin {"marking", "applying"}

\* Where a worker goes once its push phase is over.
AfterPush(w) == IF w \in Pullers THEN "anchor" ELSE "idle"

-----------------------------------------------------------------------------
Init ==
    /\ status = [i \in Items |-> "none"]
    /\ createdAt = [i \in Items |-> 0]
    /\ done = [t \in Terminals |-> [e \in Effects |-> 0]]
    /\ receipts = [t \in Terminals |-> {}]
    /\ effectKeys = [t \in Terminals |-> {}]
    /\ attempts = [t \in Terminals |-> [i \in Items |-> 0]]
    /\ dead = [t \in Terminals |-> {}]
    /\ anchor = [t \in Terminals |-> NoAnchor]
    /\ log = {}
    /\ pruned = {}
    /\ events = {}
    /\ pc = [w \in Workers |-> "idle"]
    /\ batch = [w \in Workers |-> {}]
    /\ outcome = [w \in Workers |-> {}]
    /\ syncError = [w \in Workers |-> FALSE]
    /\ captured = [w \in Workers |-> NoAnchor]
    /\ page = [w \in Workers |-> {}]
    /\ newAnchor = [w \in Workers |-> NoAnchor]
    /\ retained = [w \in Workers |-> FALSE]
    /\ now = 1
    /\ crashes = 0

-----------------------------------------------------------------------------
(* The terminal's own writes *)

\* Rows are numbered in the order their terminal enqueues them (UUID v7).
Fresh(i) ==
    /\ status[i] = "none"
    /\ \A j \in Items : Home[j] = Home[i] /\ j < i => status[j] # "none"

Enqueue(i) ==
    /\ status' = [status EXCEPT ![i] = "pending"]
    /\ createdAt' = [createdAt EXCEPT ![i] = now]

\* Settlement: the stock mutation and its outbox row commit together in the
\* database of the checkout; a sale then publishes SaleCompleted.
Checkout(i) ==
    /\ Fresh(i)
    /\ Free(Home[i])
    /\ i \in StoreRows <=> Home[i] \in Split
    /\ \A j \in Items : Effect[j] = Effect[i] => status[j] = "none"
    /\ Enqueue(i)
    /\ done' = [done EXCEPT ![Home[i]][Effect[i]] = @ + 1]
    /\ events' = IF i \in Sales THEN events \cup {Effect[i]} ELSE events
    /\ UNCHANGED <<receipts, effectKeys, attempts, dead, anchor, cloudVars,
                   pc, pushVars, pullVars, envVars>>

\* has_pending_outbox_row_for_sale, asked of the handlers' (global) database.
PendingRowForSale(e) ==
    \E i \in Sales \ StoreRows : Effect[i] = e /\ status[i] = "pending"

\* The SaleCompleted handler: silent while a row of the sale is still pending
\* there; otherwise (already synced, or queued in the store database) a second
\* row under a new id.
SkipEnqueue(e) ==
    /\ e \in events
    /\ PendingRowForSale(e)
    /\ events' = events \ {e}
    /\ UNCHANGED <<durableVars, cloudVars, pc, pushVars, pullVars, envVars>>

EnqueueAgain(i) ==
    /\ i \in Sales \ StoreRows
    /\ Effect[i] \in events
    /\ Fresh(i)
    /\ ~PendingRowForSale(Effect[i])
    /\ Enqueue(i)
    /\ events' = events \ {Effect[i]}
    /\ UNCHANGED <<done, receipts, effectKeys, attempts, dead, anchor, cloudVars,
                   pc, pushVars, pullVars, envVars>>

\* Operator: DELETE, whatever the row's status.
delete_offline_item(i) ==
    /\ i \in Deletable
    /\ Free(Home[i])
    /\ status[i] \notin {"none", "deleted"}
    /\ status' = [status EXCEPT ![i] = "deleted"]
    /\ UNCHANGED <<createdAt, done, receipts, effectKeys, attempts, dead, anchor,
                   cloudVars, events, pc, pushVars, pullVars, envVars>>

-----------------------------------------------------------------------------
(* Push *)

\* Phase 1 of a cycle: read the outbox.  Only a daemon goes on without rows.
ReadPending(w) ==
    /\ pc[w] = "idle"
    /\ Free(Host[w])
    /\ w \in Pullers \/ ReadBatch(w) # {}
    /\ batch' = [batch EXCEPT ![w] = ReadBatch(w)]
    /\ syncError' = [syncError EXCEPT ![w] = FALSE]
    /\ pc' = [pc EXCEPT ![w] = IF ReadBatch(w) = {} THEN "anchor" ELSE "push"]
    /\ UNCHANGED <<durableVars, cloudVars, events, outcome, pullVars, envVars>>

\* push_batch inserts every row that is new and not refused; a known id is the
\* "duplicate id" rejection, which every worker treats like an acceptance.
ServerInsert(w, refused) ==
    /\ refused \cap log = {}
    /\ log' = log \cup (batch[w] \ refused)
    /\ UNCHANGED pruned

\* MUTANT: a duplicate id is reported as a failure of the row.
PushDeliveredDuplicateFails(w) ==
    /\ pc[w] = "push"
    /\ \E refused \in SUBSET (batch[w] \cap Refusable) :
        /\ ServerInsert(w, refused)
        /\ outcome' = [outcome EXCEPT ![w] = refused \cup (batch[w] \cap log)]
    /\ pc' = [pc EXCEPT ![w] = "replied"]
    /\ UNCHANGED <<durableVars, events, batch, syncError, pullVars, envVars>>

PushDelivered(w) ==
    /\ pc[w] = "push"
    /\ \E refused \in SUBSET (batch[w] \cap Refusable) :
        /\ ServerInsert(w, refused)
        /\ outcome' = [outcome EXCEPT ![w] = refused]
    /\ pc' = [pc EXCEPT ![w] = "replied"]
    /\ UNCHANGED <<durableVars, events, batch, syncError, pullVars, envVars>>

\* MUTANT: a timeout is taken for an acceptance of the whole batch.
PushLostAccepted(w) ==
    /\ pc[w] = "push"
    /\ \/ UNCHANGED cloudVars
       \/ ServerInsert(w, {})
    /\ outcome' = [outcome EXCEPT ![w] = {}]
    /\ pc' = [pc EXCEPT ![w] = "replied"]
    /\ UNCHANGED <<durableVars, events, batch, syncError, pullVars, envVars>>

\* A transport error: the cloud may or may not have stored the batch.  Daemon
\* and command leave the queue alone for the next cycle; the tablet loop does
\* not (mark_all_failed).
PushLost(w) ==
    /\ pc[w] = "push"
    /\ \/ UNCHANGED cloudVars
       \/ \E refused \in SUBSET (batch[w] \cap Refusable) : ServerInsert(w, refused)
    /\ batch' = [batch EXCEPT ![w] = IF w \in Tablets THEN @ ELSE {}]
    /\ syncError' = [syncError EXCEPT ![w] = TRUE]
    /\ pc' = [pc EXCEPT ![w] = IF w \in Tablets THEN "undelivered" ELSE AfterPush(w)]
    /\ UNCHANGED <<durableVars, events, outcome, pullVars, envVars>>

\* 403 plan_required, answered before anything is stored: the tablet loop leaves
\* the queue alone (to the other workers it is one more transport error).
PushGated(w) ==
    /\ pc[w] = "push"
    /\ w \in Tablets
    /\ batch' = [batch EXCEPT ![w] = {}]
    /\ syncError' = [syncError EXCEPT ![w] = TRUE]
    /\ pc' = [pc EXCEPT ![w] = "idle"]
    /\ UNCHANGED <<durableVars, cloudVars, events, outcome, pullVars, envVars>>

First(S, i) == i \in S /\ \A j \in S : j # i => order_for_push(i, j)

mark_all_failed(w) ==
    /\ w \in Tablets
    /\ (pc[w] = "undelivered" /\ Free(Host[w])) \/ pc[w] = "marking"
    /\ \E i \in batch[w] :
        /\ First(batch[w], i)
        /\ status' = [status EXCEPT ![i] = IF @ = "deleted" THEN @ ELSE "failed"]
        /\ batch' = [batch EXCEPT ![w] = @ \ {i}]
        /\ pc' = [pc EXCEPT ![w] = IF batch[w] = {i} THEN "idle" ELSE "marking"]
    /\ UNCHANGED <<createdAt, done, receipts, effectKeys, attempts, dead, anchor,
                   cloudVars, events, outcome, syncError, pullVars, envVars>>

\* mark_offline_synced moves pending to synced and nothing else;
\* mark_offline_failed overwrites whatever row is there.
Marked(S, refused) ==
    [i \in Items |->
        IF i \notin S \/ status[i] = "deleted" THEN status[i]
        ELSE IF i \in refused THEN "failed"
        ELSE IF status[i] = "pending" THEN "synced"
        ELSE status[i]]

\* Daemon: one transaction per row.
apply_push_results(w) ==
    /\ w \in Pullers
    /\ (pc[w] = "replied" /\ Free(Host[w])) \/ pc[w] = "marking"
    /\ \E i \in batch[w] :
        /\ First(batch[w], i)
        /\ status' = Marked({i}, outcome[w])
        /\ batch' = [batch EXCEPT ![w] = @ \ {i}]
        /\ pc' = [pc EXCEPT ![w] = IF batch[w] = {i} THEN AfterPush(w) ELSE "marking"]
    /\ UNCHANGED <<createdAt, done, receipts, effectKeys, attempts, dead, anchor,
                   cloudVars, events, outcome, syncError, pullVars, envVars>>

\* MUTANT: marks what is pending now instead of the batch that was pushed.
apply_sync_outcomes_reread(w) ==
    /\ w \notin Pullers
    /\ pc[w] = "replied"
    /\ Free(Host[w])
    /\ status' = Marked(Pending(w), outcome[w])
    /\ batch' = [batch EXCEPT ![w] = {}]
    /\ pc' = [pc EXCEPT ![w] = "idle"]
    /\ UNCHANGED <<createdAt, done, receipts, effectKeys, attempts, dead, anchor,
                   cloudVars, events, outcome, syncError, pullVars, envVars>>

\* Command and tablet loop: every outcome in one transaction, which an accepted
\* row that was deleted meanwhile (NotFound) rolls back as a whole.
apply_sync_outcomes(w) ==
    /\ w \notin Pullers
    /\ pc[w] = "replied"
    /\ Free(Host[w])
    /\ status' = IF \E i \in batch[w] \ outcome[w] : status[i] = "deleted"
                 THEN status ELSE Marked(batch[w], outcome[w])
    /\ batch' = [batch EXCEPT ![w] = {}]
    /\ pc' = [pc EXCEPT ![w] = "idle"]
    /\ UNCHANGED <<createdAt, done, receipts, effectKeys, attempts, dead, anchor,
                   cloudVars, events, outcome, syncError, pullVars, envVars>>

-----------------------------------------------------------------------------
(* Pull *)

ReadAnchor(w) ==
    /\ pc[w] = "anchor"
    /\ Free(Host[w])
    /\ captured' = [captured EXCEPT ![w] = anchor[Host[w]]]
    /\ pc' = [pc EXCEPT ![w] = "pull"]
    /\ UNCHANGED <<durableVars, cloudVars, events, pushVars, page, newAnchor,
                   retained, envVars>>

\* 410 anchor_expired: asked only of a pull without a cursor.
AnchorExpired(a) ==
    /\ a.cursor = 0
    /\ a.since # 0
    /\ log # {}
    /\ \A i \in log : a.since < createdAt[i]

\* One page in (created_at, id) order; its anchor is the newest created_at and,
\* when rows are left over, the last row as cursor.  An empty page ends the cycle.
PullDelivered(w) ==
    /\ pc[w] = "pull"
    /\ ~AnchorExpired(captured[w])
    /\ LET t == Host[w]
           rows == PullPage(t, captured[w])
       IN \/ /\ rows = {}
             /\ pc' = [pc EXCEPT ![w] = "idle"]
             /\ UNCHANGED <<page, newAnchor, retained>>
          \/ /\ rows # {}
             /\ pc' = [pc EXCEPT ![w] = "pulled"]
             /\ page' = [page EXCEPT ![w] = rows]
             /\ \E last \in rows :
                 /\ \A j \in rows : j # last => RowBefore(j, last)
                 /\ newAnchor' = [newAnchor EXCEPT ![w] =
                        [since |-> createdAt[last],
                         cursor |-> IF rows = PullWindow(t, captured[w]) THEN 0 ELSE last]]
             /\ retained' = [retained EXCEPT ![w] = FALSE]
    /\ UNCHANGED <<durableVars, cloudVars, events, pushVars, captured, envVars>>

PullLost(w) ==
    /\ pc[w] \in {"pull", "snapshot"}
    /\ pc' = [pc EXCEPT ![w] = "idle"]
    /\ UNCHANGED <<durableVars, cloudVars, events, pushVars, pullVars, envVars>>

\* The 410 answer names the oldest row left.  A tick whose push failed ignores
\* it; any other fetches the snapshot.
PullExpired(w) ==
    /\ pc[w] = "pull"
    /\ AnchorExpired(captured[w])
    /\ \E oldest \in log :
        /\ \A j \in log : createdAt[oldest] <= createdAt[j]
        /\ newAnchor' = [newAnchor EXCEPT ![w] =
                            [since |-> createdAt[oldest], cursor |-> 0]]
    /\ pc' = [pc EXCEPT ![w] = IF syncError[w] THEN "idle" ELSE "snapshot"]
    /\ UNCHANGED <<durableVars, cloudVars, events, pushVars, captured, page, retained,
                   envVars>>

\* The snapshot carries products, tax rates and users, no stock mutation; once
\* imported the anchor is set without looking at what it is by then.
recover_expired_anchor(w) ==
    /\ pc[w] = "snapshot"
    /\ Free(Host[w])
    /\ anchor' = [anchor EXCEPT ![Host[w]] = newAnchor[w]]
    /\ pc' = [pc EXCEPT ![w] = "idle"]
    /\ UNCHANGED <<status, createdAt, done, receipts, effectKeys, attempts, dead,
                   cloudVars, events, pushVars, pullVars, envVars>>

\* MUTANT: the receipt is keyed on the delivery only.
RecordedByItem(t, i) == i \in receipts[t]

\* INSERT OR IGNORE into sync_applied_items: dropped when the item id or the
\* effect key is already there.
Recorded(t, i) == i \in receipts[t] \/ (i \in Sales /\ Effect[i] \in effectKeys[t])

Record(t, i) ==
    IF Recorded(t, i)
    THEN UNCHANGED <<receipts, effectKeys>>
    ELSE /\ receipts' = [receipts EXCEPT ![t] = @ \cup {i}]
         /\ effectKeys' = [effectKeys EXCEPT ![t] =
                IF i \in Sales THEN @ \cup {Effect[i]} ELSE @]

ClearFailure(t, i) ==
    /\ attempts' = [attempts EXCEPT ![t][i] = 0]
    /\ dead' = [dead EXCEPT ![t] = @ \ {i}]

\* The origin gate: a stamped row of this terminal is receipted, never applied.
OwnRow(t, i) == i \notin Unstamped /\ Home[i] = t

SkipQuarantined(w, t, i) ==
    /\ i \in dead[t]
    /\ UNCHANGED <<done, receipts, effectKeys, attempts, dead, retained>>

ReceiptOwn(w, t, i) ==
    /\ i \notin dead[t]
    /\ OwnRow(t, i)
    /\ Record(t, i)
    /\ ClearFailure(t, i)
    /\ UNCHANGED <<done, retained>>

SkipApplied(w, t, i) ==
    /\ i \notin dead[t]
    /\ ~OwnRow(t, i)
    /\ Recorded(t, i)
    /\ UNCHANGED <<done, receipts, effectKeys, attempts, dead, retained>>

\* MUTANT: the secondary origin guard is missing.
sale_completed_nowhere(t, i) == FALSE

\* An unstamped sale whose `sales` row is here and names this terminal moves no
\* stock; a split terminal keeps that row in the other database.
sale_completed_here(t, i) == i \in Attributed /\ Home[i] = t /\ t \notin Split

ApplyRow(w, t, i) ==
    /\ i \notin dead[t]
    /\ ~OwnRow(t, i)
    /\ ~Recorded(t, i)
    /\ done' = IF sale_completed_here(t, i) THEN done
               ELSE [done EXCEPT ![t][Effect[i]] = @ + 1]
    /\ Record(t, i)
    /\ ClearFailure(t, i)
    /\ UNCHANGED retained

\* MUTANT: the retry budget is compared with > instead of >=.
FailRowLate(w, t, i) ==
    /\ i \in Faulty
    /\ i \notin dead[t]
    /\ ~OwnRow(t, i)
    /\ ~Recorded(t, i)
    /\ LET quarantine == attempts[t][i] + 1 > MaxAttempts
       IN /\ attempts' = [attempts EXCEPT ![t][i] = @ + 1]
          /\ dead' = [dead EXCEPT ![t] = IF quarantine THEN @ \cup {i} ELSE @]
          /\ retained' = [retained EXCEPT ![w] = @ \/ ~quarantine]
    /\ UNCHANGED <<done, receipts, effectKeys>>

\* MUTANT: a failing row is retried for ever.
FailRowForever(w, t, i) ==
    /\ i \in Faulty
    /\ ~OwnRow(t, i)
    /\ ~Recorded(t, i)
    /\ retained' = [retained EXCEPT ![w] = TRUE]
    /\ UNCHANGED <<done, receipts, effectKeys, attempts, dead>>

\* The mutation fails and rolls back: a permanent error quarantines at once, a
\* transient one after MaxAttempts; until then the page's anchor is retained.
FailRow(w, t, i) ==
    /\ i \in Faulty
    /\ i \notin dead[t]
    /\ ~OwnRow(t, i)
    /\ ~Recorded(t, i)
    /\ \E budget \in {1, MaxAttempts} :
        LET quarantine == attempts[t][i] + 1 >= budget
        IN /\ attempts' = [attempts EXCEPT ![t][i] = @ + 1]
           /\ dead' = [dead EXCEPT ![t] = IF quarantine THEN @ \cup {i} ELSE @]
           /\ retained' = [retained EXCEPT ![w] = @ \/ ~quarantine]
    /\ UNCHANGED <<done, receipts, effectKeys>>

apply_remote_atomic_full(w) ==
    /\ (pc[w] = "pulled" /\ Free(Host[w])) \/ pc[w] = "applying"
    /\ \E i \in page[w] :
        /\ \A j \in page[w] : j # i => RowBefore(i, j)
        /\ \/ SkipQuarantined(w, Host[w], i)
           \/ ReceiptOwn(w, Host[w], i)
           \/ SkipApplied(w, Host[w], i)
           \/ ApplyRow(w, Host[w], i)
           \/ FailRow(w, Host[w], i)
        /\ page' = [page EXCEPT ![w] = @ \ {i}]
    /\ pc' = [pc EXCEPT ![w] = "applying"]
    /\ UNCHANGED <<status, createdAt, anchor, cloudVars, events, pushVars, captured,
                   newAnchor, envVars>>

\* MUTANT: the anchor is written without re-reading it.
FinishPageBlind(w) ==
    /\ pc[w] = "applying"
    /\ page[w] = {}
    /\ anchor' = IF ~retained[w] THEN [anchor EXCEPT ![Host[w]] = newAnchor[w]] ELSE anchor
    /\ pc' = [pc EXCEPT ![w] = "idle"]
    /\ UNCHANGED <<status, createdAt, done, receipts, effectKeys, attempts, dead,
                   cloudVars, events, pushVars, pullVars, envVars>>

\* SYNC-09: the durable anchor moves only if it still is what this tick read.
FinishPage(w) ==
    /\ pc[w] = "applying"
    /\ page[w] = {}
    /\ anchor' = IF ~retained[w] /\ anchor[Host[w]] = captured[w]
                 THEN [anchor EXCEPT ![Host[w]] = newAnchor[w]]
                 ELSE anchor
    /\ pc' = [pc EXCEPT ![w] = "idle"]
    /\ UNCHANGED <<status, createdAt, done, receipts, effectKeys, attempts, dead,
                   cloudVars, events, pushVars, pullVars, envVars>>

-----------------------------------------------------------------------------
(* Operator, retention, clock and crashes *)

\* Drop the quarantine row and rewind the anchor to a full re-pull.  The command
\* opens the store database, so on a split terminal it finds no such row.
requeue_remote_failure(t, i) ==
    /\ t \notin Split
    /\ Free(t)
    /\ i \in dead[t]
    /\ ClearFailure(t, i)
    /\ anchor' = [anchor EXCEPT ![t] = NoAnchor]
    /\ UNCHANGED <<status, createdAt, done, receipts, effectKeys, cloudVars, events,
                   pc, pushVars, pullVars, envVars>>

run_prune_cycle ==
    LET old == {i \in log : createdAt[i] + Retention < now}
    IN /\ old # {}
       /\ log' = log \ old
       /\ pruned' = pruned \cup old
       /\ UNCHANGED <<durableVars, events, pc, pushVars, pullVars, envVars>>

Tick ==
    /\ now < MaxTime
    /\ now' = now + 1
    /\ UNCHANGED <<durableVars, cloudVars, events, pc, pushVars, pullVars, crashes>>

\* The process dies: every worker of the terminal and the event bus restart empty.
Crash(t) ==
    /\ crashes < MaxCrashes
    /\ crashes' = crashes + 1
    /\ pc' = [w \in Workers |-> IF Host[w] = t THEN "idle" ELSE pc[w]]
    /\ batch' = [w \in Workers |-> IF Host[w] = t THEN {} ELSE batch[w]]
    /\ page' = [w \in Workers |-> IF Host[w] = t THEN {} ELSE page[w]]
    /\ events' = {e \in events : \A i \in Items : Effect[i] = e => Home[i] # t}
    /\ UNCHANGED <<durableVars, cloudVars, outcome, syncError, captured, newAnchor, retained, now>>

-----------------------------------------------------------------------------
PushStep(w) ==
    \/ ReadPending(w)
    \/ PushDelivered(w)
    \/ PushLost(w)
    \/ PushGated(w)
    \/ mark_all_failed(w)
    \/ apply_push_results(w)
    \/ apply_sync_outcomes(w)

PullStep(w) ==
    \/ ReadAnchor(w)
    \/ PullDelivered(w)
    \/ PullLost(w)
    \/ PullExpired(w)
    \/ recover_expired_anchor(w)
    \/ apply_remote_atomic_full(w)
    \/ FinishPage(w)

Next ==
    \/ \E i \in Items : Checkout(i) \/ EnqueueAgain(i) \/ delete_offline_item(i)
    \/ \E e \in Effects : SkipEnqueue(e)
    \/ \E w \in Workers : PushStep(w) \/ PullStep(w)
    \/ \E t \in Terminals, i \in Items : requeue_remote_failure(t, i)
    \/ \E t \in Terminals : Crash(t)
    \/ run_prune_cycle
    \/ Tick

Spec == Init /\ [][Next]_vars

\* The loops of the daemon and of the tablet repeat for ever (timer, nudges,
\* bounded backoff), so their local steps are weakly fair and, the network being
\* up infinitely often, a round trip that keeps being tried succeeds.
Fairness ==
    \A w \in Pullers \cup Tablets :
        /\ WF_vars(ReadPending(w))
        /\ SF_vars(PushDelivered(w))
        /\ WF_vars(mark_all_failed(w))
        /\ WF_vars(apply_push_results(w))
        /\ WF_vars(apply_sync_outcomes(w))
        /\ WF_vars(ReadAnchor(w))
        /\ SF_vars(PullDelivered(w))
        /\ SF_vars(PullExpired(w))
        /\ SF_vars(recover_expired_anchor(w))
        /\ WF_vars(apply_remote_atomic_full(w))
        /\ WF_vars(FinishPage(w))

FairSpec == Spec /\ Fairness

-----------------------------------------------------------------------------
(* Properties *)

\* Every variable stays in its range; in particular a row is quarantined no
\* later than its MaxAttempts-th failed application (record_remote_failure).
TypeOK ==
    /\ status \in [Items -> Statuses]
    /\ createdAt \in [Items -> Nat]
    /\ done \in [Terminals -> [Effects -> Nat]]
    /\ receipts \in [Terminals -> SUBSET Items]
    /\ effectKeys \in [Terminals -> SUBSET Effects]
    /\ attempts \in [Terminals -> [Items -> 0..MaxAttempts]]
    /\ dead \in [Terminals -> SUBSET Items]
    /\ anchor \in [Terminals -> Anchors]
    /\ log \subseteq Items
    /\ pruned \subseteq Items
    /\ events \subseteq Effects
    /\ pc \in [Workers -> Locations]
    /\ batch \in [Workers -> SUBSET Items]
    /\ outcome \in [Workers -> SUBSET Items]
    /\ syncError \in [Workers -> BOOLEAN]
    /\ captured \in [Workers -> Anchors]
    /\ page \in [Workers -> SUBSET Items]
    /\ newAnchor \in [Workers -> Anchors]
    /\ retained \in [Workers -> BOOLEAN]
    /\ now \in Nat
    /\ crashes \in Nat

\* A terminal forgets a row (marks it synced) only after the cloud stored it,
\* whatever responses were lost, duplicated or applied by a racing worker.
SyncedOnServer ==
    \A i \in Items : status[i] = "synced" => i \in log \cup pruned

\* "failed" is a verdict of the server: a row marked so is not one the cloud
\* holds.  (The code does not keep it when two readers share an outbox.)
FailedNotOnServer ==
    \A i \in Items : status[i] = "failed" => i \notin log \cup pruned

\* The effects the receipts and origin guards are meant to protect: every row
\* naming them is stamped with its origin, or is a sale its terminal recognises.
Protected ==
    {e \in Effects : \A i \in Unstamped :
        Effect[i] = e => i \in Attributed /\ Home[i] \notin Split}

\* However often an effect is queued, pushed, re-pulled, requeued or replayed
\* after a crash, no inventory carries a protected effect twice.
AtMostOnce ==
    \A t \in Terminals, e \in Protected : done[t][e] <= 1

\* Whether terminal t would still be sent row i from anchor a.
Ahead(t, a, i) == i \in PullWindow(t, a)

\* A foreign row that has settled at t: receipted, known by its effect, or
\* quarantined.
Settled(t, i) == Recorded(t, i) \/ i \in dead[t]

\* The pull anchor never moves past a row of the cloud queue that has not been
\* settled here: retained pages, operator rewinds and snapshot recovery included.
\* (A row that retention deleted and a retried push brought back is excepted.)
AnchorCovers ==
    \A t \in Terminals, i \in log \ pruned :
        Home[i] # t /\ ~Ahead(t, anchor[t], i) => Settled(t, i)

\* Row i is in reach of terminal t: the next pull there would be sent it, and no
\* page or snapshot t is working on will move the anchor over it.  What can move
\* it is a snapshot's anchor, or the anchor of a page that the row has to be on;
\* once taken off that page unsettled it holds the anchor back.
InReach(t, i) ==
    /\ i \in log \ pruned
    /\ Home[i] # t
    /\ Ahead(t, anchor[t], i)
    /\ \A w \in Workers : Host[w] = t =>
        /\ pc[w] = "snapshot" => Ahead(t, newAnchor[w], i)
        /\ Ahead(t, captured[w], i) /\ ~Ahead(t, newAnchor[w], i) =>
            /\ pc[w] = "pulled" => i \in page[w]
            /\ pc[w] = "applying" => i \in page[w] \/ retained[w] \/ Settled(t, i)

\* A row in reach stays in reach until it has settled or the cloud prunes it:
\* no page, retry, quarantine, operator rewind, snapshot recovery, crash or
\* second daemon moves the anchor over it, whoever else is pushing meanwhile.
NothingPassed ==
    [][\A t \in Terminals, i \in Items :
        InReach(t, i) => \/ InReach(t, i)'
                         \/ Settled(t, i)'
                         \/ i \notin (log \ pruned)']_vars

\* A pull whose anchor is older than a row that retention deleted is answered
\* with 410, never with a page that silently skips the row.  (The code does not
\* keep it when the anchor carries a cursor.)
ExpiryDetected ==
    [][\A w \in Workers : pc[w] = "pull" /\ pc'[w] = "pulled" =>
        (\A i \in pruned \ log :
            Home[i] # Host[w] /\ captured[w].since # 0 /\ ~Settled(Host[w], i)
                => createdAt[i] <= captured[w].since)]_vars

\* No row the cloud does not refuse stays pending or failed: it ends up acknowledged
\* (or deleted by hand), and transport failures, crashes and restarts only delay it.
Drains ==
    \A i \in Items \ Refusable : []<>(status[i] \in {"none", "synced", "deleted"})

\* Once the operator stops requeueing, no row stays in reach of a terminal that runs
\* a daemon without settling there (nothing else takes it out of reach, NothingPassed):
\* no failing neighbour, lost round trip or crash keeps the daemon from it for ever.
Arrives ==
    <>[][\A t \in Terminals, i \in Items : ~requeue_remote_failure(t, i)]_vars =>
        \A i \in Items, w \in Pullers :
            Home[i] # Host[w] =>
                []<>(InReach(Host[w], i) => Settled(Host[w], i))

\* Eventual consistency: once the operator stops requeueing, every row in the
\* cloud queue settles on every other terminal that runs a daemon.  (The code does
\* not keep it for a row that reaches the cloud after younger ones were pulled.)
Converges ==
    <>[][\A t \in Terminals, i \in Items : ~requeue_remote_failure(t, i)]_vars =>
        \A i \in Items, w \in Pullers :
            Home[i] # Host[w] => (i \in log ~> Settled(Host[w], i))

\* Replication implements exactly-once delivery of the protected effects.
OriginOf(e) == CHOOSE t \in Terminals : \A i \in Items : Effect[i] = e => Home[i] = t

Delivery == INSTANCE EffectDelivery WITH
    Effects <- Protected,
    Origin  <- OriginOf,
    carried <- [t \in Terminals |-> [e \in Protected |-> done[t][e]]]

ImplementsDelivery == Delivery!Spec
=============================================================================
