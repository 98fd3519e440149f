---------------------------- MODULE ConflictReview ----------------------------
(***************************************************************************)
(* How the cloud notices that two terminals changed one entity without      *)
(* knowing of each other: a terminal stamps every row it pushes with its    *)
(* logical clock; push_batch compares the stamp with the vector it keeps    *)
(* for the entity and, when the two are concurrent, merges, picks a winner  *)
(* or files the pair for a person to review.  Reading the vector, filing    *)
(* and writing the vector are statements of their own, with other requests  *)
(* in between.  Not modelled: tenants, severities, the bodies kept beside   *)
(* the vectors, dismissals, and rows without a stamp, which are not looked  *)
(* at (terminals without an id).                                           *)
(***************************************************************************)
EXTENDS VersionVector, Sequences, FiniteSets

CONSTANTS
    Entities,     \* (action, entity id) pairs: a vector is kept per pair
    Items,        \* outbox rows, numbered in the order they are pushed
    EntityOf, TillOf,
    Requests,     \* push requests the server works on at once
    NoRequest,
    Sqlite,       \* the server keeps its data in SQLite, not in PostgreSQL
    MaxClock,     \* bound: a terminal's logical clock
    MaxLosses     \* bound: times a clock is not persisted

ASSUME ReviewConstants ==
    /\ Items \subseteq Nat /\ IsFiniteSet(Items)
    /\ EntityOf \in [Items -> Entities]
    /\ TillOf \in [Items -> Tills]
    /\ NoRequest \notin Requests
    /\ Sqlite \in BOOLEAN
    /\ MaxClock \in Nat /\ MaxLosses \in Nat

VARIABLES
    policy,    \* policy[e]: what policy_for answers for the action of e
    clock,     \* clock[t]: the counter in the settings of t
    sending,   \* sending[t]: the request t waits for, or NoRequest
    acked,     \* rows marked synced at their terminal
    losses,
    stored,    \* rows in the cloud queue
    vector,    \* sync_entity_vectors
    reviews,   \* sync_conflicts
    request    \* request[r]: [phase, till, todo, burnt (the clock after it), seen]

tillVars == <<clock, sending, acked, losses>>
cloudVars == <<stored, vector, reviews>>
vars == <<policy, tillVars, cloudVars, request>>

\* NeverAutoMerge, AutoMergeDeltas, MergeDisjointFields, LastWriterWins
Policies == {"never", "deltas", "fields", "winner"}
Phases == {"load", "file", "save", "insert", "answer"}
Review == [entity : Entities, local : Vector, remote : Vector, resolved : BOOLEAN]

\* A request slot nobody uses.
Idle == [phase |-> "idle", rows |-> {}]

Init ==
    /\ policy \in [Entities -> Policies]
    /\ clock = [t \in Tills |-> 0]
    /\ sending = [t \in Tills |-> NoRequest]
    /\ acked = {}
    /\ losses = 0
    /\ stored = {}
    /\ vector = [e \in Entities |-> Empty]
    /\ reviews = {}
    /\ request = [r \in Requests |-> Idle]

-----------------------------------------------------------------------------
(* The terminal *)

Outbox(t) == {i \in Items \ acked : TillOf[i] = t}

\* The rows of a batch in the order of their numbers.
InOrder(rows) ==
    {seq \in [1 .. Cardinality(rows) -> rows] :
        \A m, n \in 1 .. Cardinality(rows) : m < n => seq[m] < seq[n]}

\* push_items: one counter per row, burnt before the request goes out.
Push(t, r) ==
    LET rows == Outbox(t)
        burnt == clock[t] + Cardinality(rows) IN
    /\ sending[t] = NoRequest
    /\ rows # {}
    /\ request[r] = Idle
    /\ burnt <= MaxClock
    /\ sending' = [sending EXCEPT ![t] = r]
    /\ \E todo \in InOrder(rows) : request' = [request EXCEPT ![r] =
           [phase |-> "load", till |-> t, rows |-> rows, todo |-> todo,
            burnt |-> burnt, seen |-> Empty]]
    /\ UNCHANGED <<policy, clock, acked, losses, cloudVars>>

\* MUTANT: the clock is persisted after an accepted push only.
ReturnOnSuccess(t) ==
    /\ sending' = [sending EXCEPT ![t] = NoRequest]
    /\ clock' = IF request[sending[t]].phase = "answer"
                THEN [clock EXCEPT ![t] = request[sending[t]].burnt] ELSE clock
    /\ UNCHANGED losses

\* The terminal stops waiting; persist_stamped_counter is best effort, and a
\* crash comes before it.
Return(t) ==
    /\ sending' = [sending EXCEPT ![t] = NoRequest]
    /\ \/ /\ clock' = [clock EXCEPT ![t] = request[sending[t]].burnt]
          /\ UNCHANGED losses
       \/ /\ losses < MaxLosses
          /\ losses' = losses + 1
          /\ UNCHANGED clock

\* The answer arrives: a row the cloud had already is acknowledged like the others.
Answered(r) ==
    LET q == request[r] IN
    /\ q.phase = "answer"
    /\ request' = [request EXCEPT ![r] = Idle]
    /\ IF sending[q.till] = r
       THEN Return(q.till) /\ acked' = acked \union q.rows
       ELSE UNCHANGED <<sending, clock, losses, acked>>
    /\ UNCHANGED <<policy, cloudVars>>

\* An error, a lost answer or a restart: the rows stay pending, while the server
\* may still be at work on them.
GiveUp(t) ==
    /\ sending[t] # NoRequest
    /\ Return(t)
    /\ UNCHANGED <<policy, acked, cloudVars, request>>

-----------------------------------------------------------------------------
(* The cloud: push_batch, row by row *)

Current(r) == Head(request[r].todo)

Incoming(r) ==
    Stamp(request[r].till, request[r].burnt - Len(request[r].todo) + 1)

\* The requests when r enters a phase with the rows left to look at and the
\* vector it has read.
Moved(r, phase, todo, seen) ==
    [request EXCEPT ![r] = [phase |-> phase, till |-> request[r].till,
                            rows |-> request[r].rows, todo |-> todo,
                            burnt |-> request[r].burnt, seen |-> seen]]

\* The request goes on with its next row, or with the insert.
Advanced(r) ==
    LET rest == Tail(request[r].todo) IN
    Moved(r, IF rest = <<>> THEN "insert" ELSE "load", rest, Empty)

\* MUTANT: a completed sale is not recognised as money.
DecisionsForgetful(e) == {"save"}

\* policy_for: what follows for a concurrent pair; only fields that are disjoint
\* merge.
Decisions(e) ==
    CASE policy[e] = "never" -> {"file"}
      [] policy[e] \in {"deltas", "winner"} -> {"save"}
      [] policy[e] = "fields" -> {"file", "save"}

\* load_entity_vector: the SQLite arm takes a failed read for an entity it has never
\* seen (unwrap_or(None)); the PostgreSQL arm reports it (DetectionFails).
Read(e) == {vector[e]} \union IF Sqlite THEN {Empty} ELSE {}

\* detect_conflict: load_entity_vector and classify; a stale row is dropped.
Detect(r) ==
    /\ request[r].phase = "load"
    /\ \E seen \in Read(EntityOf[Current(r)]) :
          LET order == Compare(seen, Incoming(r)) IN
          IF order = "after"
          THEN request' = Advanced(r)
          ELSE \E next \in IF order = "concurrent" THEN Decisions(EntityOf[Current(r)])
                                                  ELSE {"save"} :
                  request' = Moved(r, next, request[r].todo, seen)
    /\ UNCHANGED <<policy, tillVars, cloudVars>>

\* insert_conflict
File(r) ==
    /\ request[r].phase = "file"
    /\ reviews' = reviews \union
           {[entity |-> EntityOf[Current(r)], local |-> request[r].seen,
             remote |-> Incoming(r), resolved |-> FALSE]}
    /\ request' = Moved(r, "save", request[r].todo, request[r].seen)
    /\ UNCHANGED <<policy, tillVars, stored, vector>>

Merged(r) == Join(request[r].seen, Incoming(r))

\* save_entity_vector: an upsert of what was merged from the vector read before.
Save(r) ==
    /\ request[r].phase = "save"
    /\ vector' = [vector EXCEPT ![EntityOf[Current(r)]] = Merged(r)]
    /\ request' = Advanced(r)
    /\ UNCHANGED <<policy, tillVars, stored, reviews>>

\* MUTANT: a row whose detection failed is left out of the insert.
AfterFailureDropped(r) ==
    Moved(r, "answer", request[r].todo, request[r].seen)

AfterFailure(r) == Advanced(r)

\* A statement of the detection fails: logged and swallowed, the row is stored
\* all the same.
DetectionFails(r) ==
    /\ request[r].phase \in {"load", "file", "save"}
    /\ request' = AfterFailure(r)
    /\ UNCHANGED <<policy, tillVars, cloudVars>>

\* The batch is inserted; rows with an id the queue has already stay as they are.
Insert(r) ==
    /\ request[r].phase = "insert"
    /\ stored' = stored \union request[r].rows
    /\ request' = Moved(r, "answer", request[r].todo, request[r].seen)
    /\ UNCHANGED <<policy, tillVars, vector, reviews>>

\* The server dies: the terminal gives up in its own time.
ServerCrash(r) ==
    /\ request[r] # Idle
    /\ \A t \in Tills : sending[t] # r
    /\ request' = [request EXCEPT ![r] = Idle]
    /\ UNCHANGED <<policy, tillVars, cloudVars>>

\* resolve_conflict: requires an open row.
Resolve(c) ==
    /\ c \in reviews
    /\ ~c.resolved
    /\ reviews' = (reviews \ {c}) \union {[c EXCEPT !.resolved = TRUE]}
    /\ UNCHANGED <<policy, tillVars, stored, vector, request>>

-----------------------------------------------------------------------------
Next ==
    \/ \E t \in Tills : GiveUp(t) \/ \E r \in Requests : Push(t, r)
    \/ \E r \in Requests : Detect(r) \/ File(r) \/ Save(r) \/ DetectionFails(r) \/ Insert(r)
                           \/ Answered(r) \/ ServerCrash(r)
    \/ \E c \in reviews : Resolve(c)

Spec == Init /\ [][Next]_vars

-----------------------------------------------------------------------------
InProgress == [phase : Phases, till : Tills, rows : SUBSET Items, todo : Seq(Items),
               burnt : Nat, seen : Vector]

\* Rows are left while they are looked at, and each has a counter of its own.
Counted(q) ==
    /\ q.todo = <<>> <=> q.phase \in {"insert", "answer"}
    /\ Len(q.todo) <= q.burnt

ReviewTypeOK ==
    /\ policy \in [Entities -> Policies]
    /\ clock \in [Tills -> Nat]
    /\ sending \in [Tills -> Requests \union {NoRequest}]
    /\ acked \subseteq Items /\ stored \subseteq Items
    /\ losses \in Nat
    /\ vector \in [Entities -> Vector]
    /\ reviews \subseteq Review
    /\ request \in [Requests -> InProgress \union {Idle}]
    /\ \A r \in Requests : request[r] # Idle => Counted(request[r])

\* The migration promises an upsert "with no read-modify-write race", detect_conflict a
\* vector that is "advanced to the pointwise maximum of both, so the next comparison sees
\* everything observed so far".  The code keeps neither: Save writes what it merged from an
\* earlier read, and a swallowed read error merges with nothing.
VectorGrows == [][\A e \in Entities : Leq(vector[e], vector'[e])]_vector

\* Money that two terminals moved is always before a person: as soon as the vector
\* of such an entity names two terminals, a review holds the pair of its last
\* update, whatever was lost, retried or failed (conflict_resolution.rs).
Writers(v) == {t \in Tills : v[t] > 0}

DivergenceFiled ==
    \A e \in Entities :
        policy[e] = "never" /\ Cardinality(Writers(vector[e])) > 1 =>
            \E c \in reviews : c.entity = e /\ Join(c.local, c.remote) = vector[e]

\* Detection never costs a row: what a terminal was told is stored is stored.
AckedStored == acked \subseteq stored

\* The counter a terminal has reached.
Latest(t) == IF sending[t] = NoRequest THEN clock[t] ELSE request[sending[t]].burnt

\* As long as every clock was persisted, a terminal never stamps a value the
\* cloud has seen from it, so none of its rows is taken for a stale one (persist_stamped_counter, after rejected pushes too).
ClockAhead ==
    losses = 0 => \A t \in Tills, e \in Entities : vector[e][t] <= Latest(t)
=============================================================================
