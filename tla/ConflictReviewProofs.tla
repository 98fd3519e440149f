-------------------------- MODULE ConflictReviewProofs --------------------------
(***************************************************************************)
(* Version vectors are a join semilattice, and what ConflictReview promises *)
(* for every number of terminals, entities, rows and requests.              *)
(***************************************************************************)
EXTENDS ConflictReview, FiniteSetTheorems, SequenceTheorems, TLAPS

-----------------------------------------------------------------------------
(* Version vectors *)

\* Joining two vectors gives a vector.
LEMMA JoinType ==
    ASSUME NEW v \in Vector, NEW w \in Vector
    PROVE  Join(v, w) \in Vector
BY DEF Vector, Join

\* The join knows what either side knew, and no more: a merge in the cloud loses
\* no observation and invents none.
THEOREM JoinIsLeastUpperBound ==
    ASSUME NEW v \in Vector, NEW w \in Vector
    PROVE  /\ Leq(v, Join(v, w)) /\ Leq(w, Join(v, w))
           /\ \A u \in Vector : Leq(v, u) /\ Leq(w, u) => Leq(Join(v, w), u)
BY DEF Vector, Join, Leq

\* Merging in either order gives the same vector, so the terminals agree on it.
THEOREM JoinCommutes ==
    ASSUME NEW v \in Vector, NEW w \in Vector
    PROVE  Join(v, w) = Join(w, v)
BY DEF Vector, Join

LEMMA LeqReflexive ==
    ASSUME NEW v \in Vector
    PROVE  Leq(v, v)
BY DEF Vector, Leq

LEMMA LeqAntisymmetric ==
    ASSUME NEW v \in Vector, NEW w \in Vector, Leq(v, w), Leq(w, v)
    PROVE  v = w
BY DEF Vector, Leq

\* The two sides of a comparison tell the same story (version_vector.rs compare).
THEOREM CompareMirrors ==
    ASSUME NEW v \in Vector, NEW w \in Vector
    PROVE  /\ Compare(v, w) = "before" <=> Compare(w, v) = "after"
           /\ Compare(v, w) = "concurrent" <=> Compare(w, v) = "concurrent"
           /\ Compare(v, w) = "equal" <=> v = w
<1>1. Leq(v, w) /\ Leq(w, v) => v = w
  BY LeqAntisymmetric
<1>2. Leq(v, v) /\ Leq(w, w)
  BY DEF Leq, Vector
<1> QED
  BY <1>1, <1>2 DEF Compare

LEMMA StampType ==
    ASSUME NEW t \in Tills, NEW n \in Nat
    PROVE  Stamp(t, n) \in Vector /\ \A u \in Tills : Stamp(t, n)[u] = IF u = t THEN n ELSE 0
BY DEF Stamp, Empty, Vector
-----------------------------------------------------------------------------
(* Types, and the batch behind an acknowledgement *)

\* A terminal waits for a request of its own.
SendingOwn ==
    \A t \in Tills : sending[t] # NoRequest =>
        request[sending[t]] # Idle /\ request[sending[t]].till = t

\* A request answers after its rows were inserted.
AnswerStored ==
    \A r \in Requests : request[r].phase = "answer" => request[r].rows \subseteq stored

TypeInv == ReviewTypeOK /\ SendingOwn
IInv == TypeInv /\ AnswerStored /\ AckedStored

LEMMA IdleIsNoRequest ==
    ASSUME NEW q \in InProgress
    PROVE  q # Idle
BY DEF InProgress, Phases, Idle

LEMMA EmptyType == Empty \in Vector
BY DEF Empty, Vector

\* A request at work on a row: it has one, and the stamp of it is a vector.
LEMMA AtWork ==
    ASSUME ReviewTypeOK, NEW r \in Requests,
           request[r].phase \in {"load", "file", "save"}
    PROVE  /\ request[r] \in InProgress
           /\ Counted(request[r])
           /\ request[r].todo # <<>>
           /\ Current(r) \in Items
           /\ EntityOf[Current(r)] \in Entities
           /\ Incoming(r) \in Vector
<1>1. request[r] # Idle /\ request[r] \in InProgress
  BY DEF ReviewTypeOK, Idle
<1>2. Counted(request[r]) /\ request[r].todo # <<>>
  BY <1>1 DEF ReviewTypeOK, Counted
<1>3. request[r].todo \in Seq(Items) /\ request[r].till \in Tills /\ request[r].burnt \in Nat
  BY <1>1 DEF InProgress
<1>4. Current(r) \in Items /\ EntityOf[Current(r)] \in Entities
  BY <1>2, <1>3, HeadTailProperties, ReviewConstants DEF Current
<1>5. request[r].burnt - Len(request[r].todo) + 1 \in Nat
  BY <1>2, <1>3 DEF Counted
<1>6. Incoming(r) \in Vector
  BY <1>3, <1>5, StampType DEF Incoming
<1> QED
  BY <1>1, <1>2, <1>4, <1>6

\* What a request keeps when it moves on, and what it needs to stay well formed.
LEMMA Moving ==
    ASSUME ReviewTypeOK, NEW r \in Requests, request[r] \in InProgress,
           NEW phase \in Phases, NEW todo \in Seq(Items), NEW seen \in Vector,
           todo = <<>> <=> phase \in {"insert", "answer"},
           Len(todo) <= request[r].burnt,
           request' = Moved(r, phase, todo, seen)
    PROVE  /\ request' \in [Requests -> InProgress \union {Idle}]
           /\ \A x \in Requests : request'[x] # Idle => Counted(request'[x])
           /\ \A x \in Requests :
                 /\ request'[x].rows = request[x].rows
                 /\ request[x] # Idle <=> request'[x] # Idle
                 /\ request[x] # Idle => /\ request'[x].till = request[x].till
                                         /\ request'[x].burnt = request[x].burnt
                 /\ x # r => request'[x] = request[x]
           /\ request'[r].phase = phase
           /\ request'[r].todo = todo
           /\ request'[r].seen = seen
<1> DEFINE q == request[r]
           n == [phase |-> phase, till |-> q.till, rows |-> q.rows, todo |-> todo,
                 burnt |-> q.burnt, seen |-> seen]
<1>1. n \in InProgress
  BY DEF InProgress
<1>2. n # Idle /\ q # Idle
  BY <1>1, IdleIsNoRequest
<1>3. Counted(n)
  BY DEF Counted
<1>4. request \in [Requests -> InProgress \union {Idle}]
  BY DEF ReviewTypeOK
<1>5. request' = [request EXCEPT ![r] = n]
  BY DEF Moved
<1>6. request'[r] = n /\ \A x \in Requests : x # r => request'[x] = request[x]
  BY <1>4, <1>5
<1>7. request' \in [Requests -> InProgress \union {Idle}]
  BY <1>1, <1>4, <1>5
<1>8. \A x \in Requests : request'[x] # Idle => Counted(request'[x])
  BY <1>3, <1>6 DEF ReviewTypeOK
<1> QED
  BY <1>2, <1>6, <1>7, <1>8

LEMMA Advancing ==
    ASSUME ReviewTypeOK, NEW r \in Requests,
           request[r].phase \in {"load", "file", "save"}
    PROVE  /\ Tail(request[r].todo) \in Seq(Items)
           /\ Len(Tail(request[r].todo)) <= request[r].burnt
<1>1. /\ request[r].todo \in Seq(Items) /\ request[r].todo # <<>>
      /\ Len(request[r].todo) <= request[r].burnt
      /\ request[r].burnt \in Nat
  BY AtWork DEF InProgress, Counted
<1>2. /\ Tail(request[r].todo) \in Seq(Items)
      /\ Len(Tail(request[r].todo)) = Len(request[r].todo) - 1
      /\ Len(request[r].todo) \in Nat
  BY <1>1
<1> QED
  BY <1>1, <1>2
\* A row, when it is in progress, is one of the well formed ones.
LEMMA InProgressType ==
    ASSUME ReviewTypeOK, NEW r \in Requests, request[r] # Idle
    PROVE  request[r] \in InProgress /\ Counted(request[r])
BY DEF ReviewTypeOK

LEMMA InitEstablishes == Init => IInv
<1> SUFFICES ASSUME Init PROVE IInv
  OBVIOUS
<1>1. ReviewTypeOK
  BY EmptyType DEF Init, ReviewTypeOK, Vector
<1>2. SendingOwn /\ AnswerStored /\ AckedStored
  BY DEF Init, SendingOwn, AnswerStored, AckedStored, Idle
<1> QED
  BY <1>1, <1>2 DEF IInv, TypeInv

\* Push: the batch in order, with as many counters as rows.
LEMMA PushStep ==
    ASSUME IInv, NEW t \in Tills, NEW r \in Requests, Push(t, r)
    PROVE  IInv'
<1> DEFINE rows == Outbox(t)
           burnt == clock[t] + Cardinality(rows)
<1> USE DEF IInv, TypeInv
<1>1. IsFiniteSet(rows) /\ rows \subseteq Items /\ rows # {}
  BY FS_Subset, ReviewConstants DEF Outbox, Push
<1>2. Cardinality(rows) \in Nat /\ Cardinality(rows) > 0
  BY <1>1, FS_CardinalityType, FS_EmptySet
<1> HIDE DEF rows
<1>3. PICK todo \in InOrder(rows) : request' = [request EXCEPT ![r] =
          [phase |-> "load", till |-> t, rows |-> rows, todo |-> todo,
           burnt |-> burnt, seen |-> Empty]]
  BY DEF Push, rows
<1>4. todo \in Seq(Items) /\ Len(todo) = Cardinality(rows) /\ todo # <<>>
  BY <1>1, <1>2 DEF InOrder
<1>5. clock[t] \in Nat /\ burnt \in Nat /\ Len(todo) <= burnt
  BY <1>2, <1>4 DEF ReviewTypeOK
<1> DEFINE q == [phase |-> "load", till |-> t, rows |-> rows, todo |-> todo,
                 burnt |-> burnt, seen |-> Empty]
<1>6. q \in InProgress
  BY <1>1, <1>4, <1>5, EmptyType DEF InProgress, Phases
<1>7. q # Idle /\ Counted(q) /\ q.till = t /\ q.phase # "answer"
  BY <1>4, <1>5, <1>6, IdleIsNoRequest DEF Counted
<1> HIDE DEF q, burnt
<1>8. request' = [request EXCEPT ![r] = q]
  BY <1>3 DEF q
<1>9. ReviewTypeOK'
  <2>1. request' \in [Requests -> InProgress \union {Idle}]
    BY <1>6, <1>8 DEF ReviewTypeOK
  <2>2. \A x \in Requests : request'[x] # Idle => Counted(request'[x])
    BY <1>7, <1>8 DEF ReviewTypeOK
  <2>3. sending' \in [Tills -> Requests \union {NoRequest}]
    BY DEF Push, ReviewTypeOK
  <2> QED
    BY <2>1, <2>2, <2>3 DEF Push, ReviewTypeOK, cloudVars
<1>10. SendingOwn'
  <2> SUFFICES ASSUME NEW u \in Tills, sending'[u] # NoRequest
               PROVE  request'[sending'[u]] # Idle /\ request'[sending'[u]].till = u
    BY DEF SendingOwn
  <2>1. CASE u = t
    BY <1>7, <1>8, <2>1 DEF Push, ReviewTypeOK
  <2>2. CASE u # t
    <3>1. sending'[u] = sending[u] /\ sending[u] \in Requests
      BY <2>2 DEF Push, ReviewTypeOK
    <3>2. sending[u] # r /\ request[sending[u]] # Idle /\ request[sending[u]].till = u
      BY <3>1 DEF Push, SendingOwn
    <3> QED
      BY <3>1, <3>2, <1>8 DEF ReviewTypeOK
  <2> QED
    BY <2>1, <2>2
<1>11. AnswerStored'
  BY <1>7, <1>8 DEF AnswerStored, Push, cloudVars, ReviewTypeOK
<1>12. AckedStored'
  BY DEF AckedStored, Push, cloudVars
<1> QED
  BY <1>9, <1>10, <1>11, <1>12
\* The terminal stops waiting, whether or not its clock was persisted.
LEMMA Returning ==
    ASSUME IInv, NEW t \in Tills, sending[t] # NoRequest, Return(t)
    PROVE  /\ sending' = [sending EXCEPT ![t] = NoRequest]
           /\ sending' \in [Tills -> Requests \union {NoRequest}]
           /\ clock' \in [Tills -> Nat]
           /\ losses' \in Nat
<1> USE DEF IInv, TypeInv
<1>1. sending[t] \in Requests /\ request[sending[t]] # Idle
  BY DEF ReviewTypeOK, SendingOwn
<1>2. request[sending[t]].burnt \in Nat
  BY <1>1, InProgressType DEF InProgress
<1> QED
  BY <1>2 DEF Return, ReviewTypeOK

LEMMA GiveUpStep ==
    ASSUME IInv, NEW t \in Tills, GiveUp(t)
    PROVE  IInv'
<1> USE DEF IInv, TypeInv
<1>1. /\ sending' = [sending EXCEPT ![t] = NoRequest]
      /\ sending' \in [Tills -> Requests \union {NoRequest}]
      /\ clock' \in [Tills -> Nat]
      /\ losses' \in Nat
  BY Returning DEF GiveUp
<1>2. ReviewTypeOK'
  BY <1>1 DEF GiveUp, ReviewTypeOK, cloudVars
<1>3. SendingOwn'
  BY <1>1 DEF GiveUp, SendingOwn, ReviewTypeOK
<1>4. AnswerStored' /\ AckedStored'
  BY DEF GiveUp, AnswerStored, AckedStored, cloudVars
<1> QED
  BY <1>2, <1>3, <1>4

\* An answer acknowledges the rows of a batch that was inserted.
LEMMA AnsweredStep ==
    ASSUME IInv, NEW r \in Requests, Answered(r)
    PROVE  IInv'
<1> DEFINE q == request[r]
<1> USE DEF IInv, TypeInv
<1>1. q # Idle /\ q \in InProgress
  BY InProgressType DEF Answered, Idle
<1>2. q.till \in Tills /\ q.rows \subseteq Items
  BY <1>1 DEF InProgress
<1>3. q.rows \subseteq stored
  BY DEF Answered, AnswerStored
<1>4. request' = [request EXCEPT ![r] = Idle]
  BY DEF Answered
<1>5. request' \in [Requests -> InProgress \union {Idle}]
  BY <1>4 DEF ReviewTypeOK
<1>6. \A x \in Requests : request'[x] # Idle => request'[x] = request[x] /\ x # r
  BY <1>4 DEF ReviewTypeOK
<1>7. AnswerStored'
  <2> SUFFICES ASSUME NEW x \in Requests, request'[x].phase = "answer"
               PROVE  request'[x].rows \subseteq stored'
    BY DEF AnswerStored
  <2>1. request'[x] = request[x]
    BY <1>6 DEF Idle
  <2> QED
    BY <2>1 DEF Answered, AnswerStored, cloudVars
<1>8. CASE sending[q.till] = r
  <2>1. sending[q.till] # NoRequest
    BY <1>8, ReviewConstants
  <2>2. /\ sending' = [sending EXCEPT ![q.till] = NoRequest]
        /\ sending' \in [Tills -> Requests \union {NoRequest}]
        /\ clock' \in [Tills -> Nat]
        /\ losses' \in Nat
    BY <1>2, <1>8, <2>1, Returning DEF Answered
  <2>3. acked' = acked \union q.rows
    BY <1>8 DEF Answered
  <2>4. ReviewTypeOK'
    BY <1>2, <1>5, <1>6, <2>2, <2>3 DEF Answered, ReviewTypeOK, cloudVars
  <2>5. SendingOwn'
    <3> SUFFICES ASSUME NEW u \in Tills, sending'[u] # NoRequest
                 PROVE  request'[sending'[u]] # Idle /\ request'[sending'[u]].till = u
      BY DEF SendingOwn
    <3>1. u # q.till /\ sending'[u] = sending[u]
      BY <1>2, <2>2 DEF ReviewTypeOK
    <3>2. sending[u] \in Requests /\ request[sending[u]] # Idle /\ request[sending[u]].till = u
      BY <3>1 DEF SendingOwn, ReviewTypeOK
    <3>3. sending[u] # r
      BY <3>1, <3>2
    <3> QED
      BY <1>4, <3>1, <3>2, <3>3 DEF ReviewTypeOK
  <2>6. AckedStored'
    BY <1>3, <2>3 DEF Answered, AckedStored, cloudVars
  <2> QED
    BY <1>7, <2>4, <2>5, <2>6
<1>9. CASE sending[q.till] # r
  <2>1. UNCHANGED <<sending, clock, losses, acked>>
    BY <1>9 DEF Answered
  <2>2. ReviewTypeOK'
    BY <1>5, <1>6, <2>1 DEF Answered, ReviewTypeOK, cloudVars
  <2>3. SendingOwn'
    <3> SUFFICES ASSUME NEW u \in Tills, sending[u] # NoRequest
                 PROVE  request'[sending[u]] # Idle /\ request'[sending[u]].till = u
      BY <2>1 DEF SendingOwn
    <3>1. sending[u] \in Requests /\ request[sending[u]] # Idle /\ request[sending[u]].till = u
      BY DEF SendingOwn, ReviewTypeOK
    <3>2. sending[u] # r
      BY <1>9, <3>1
    <3> QED
      BY <1>4, <3>1, <3>2 DEF ReviewTypeOK
  <2>4. AckedStored'
    BY <2>1 DEF Answered, AckedStored, cloudVars
  <2> QED
    BY <1>7, <2>2, <2>3, <2>4
<1> QED
  BY <1>8, <1>9
\* The steps of the cloud move one request and change neither terminals nor
\* policies; only an inserted batch is answered.
LEMMA CloudKeeps ==
    ASSUME IInv, NEW r \in Requests, request[r] \in InProgress,
           NEW phase \in Phases, NEW todo \in Seq(Items), NEW seen \in Vector,
           todo = <<>> <=> phase \in {"insert", "answer"},
           Len(todo) <= request[r].burnt,
           request' = Moved(r, phase, todo, seen),
           stored \subseteq stored', stored' \subseteq Items,
           phase = "answer" => request[r].rows \subseteq stored',
           vector' \in [Entities -> Vector],
           reviews' \subseteq Review,
           UNCHANGED <<policy, tillVars>>
    PROVE  IInv'
<1> USE DEF IInv, TypeInv
<1>1. /\ request' \in [Requests -> InProgress \union {Idle}]
      /\ \A x \in Requests : request'[x] # Idle => Counted(request'[x])
  BY Moving
<1>2. \A x \in Requests :
         /\ request'[x].rows = request[x].rows
         /\ request[x] # Idle <=> request'[x] # Idle
         /\ request[x] # Idle => request'[x].till = request[x].till
         /\ x # r => request'[x] = request[x]
  BY Moving
<1>3. request'[r].phase = phase
  BY Moving
<1>4. ReviewTypeOK'
  BY <1>1 DEF ReviewTypeOK, tillVars
<1>5. SendingOwn'
  BY <1>2 DEF SendingOwn, ReviewTypeOK, tillVars
<1>6. AnswerStored'
  BY <1>2, <1>3 DEF AnswerStored
<1>7. AckedStored'
  BY DEF AckedStored, tillVars
<1> QED
  BY <1>4, <1>5, <1>6, <1>7

\* Going on to the next row.
LEMMA AdvanceKeeps ==
    ASSUME IInv, NEW r \in Requests,
           request[r].phase \in {"load", "file", "save"},
           request' = Advanced(r),
           stored' = stored,
           vector' \in [Entities -> Vector],
           reviews' \subseteq Review,
           UNCHANGED <<policy, tillVars>>
    PROVE  IInv'
<1> DEFINE rest == Tail(request[r].todo)
           next == IF rest = <<>> THEN "insert" ELSE "load"
<1>1. request[r] \in InProgress
  BY AtWork DEF IInv, TypeInv
<1>2. rest \in Seq(Items) /\ Len(rest) <= request[r].burnt
  BY Advancing DEF IInv, TypeInv
<1>3. next \in Phases /\ next # "answer" /\ (rest = <<>> <=> next \in {"insert", "answer"})
  BY DEF Phases
<1>4. request' = Moved(r, next, rest, Empty)
  BY DEF Advanced
<1>5. stored \subseteq stored' /\ stored' \subseteq Items
  BY DEF IInv, TypeInv, ReviewTypeOK
<1> HIDE DEF rest, next
<1> QED
  BY <1>1, <1>2, <1>3, <1>4, <1>5, EmptyType, CloudKeeps

LEMMA DecisionsType ==
    ASSUME NEW e \in Entities, policy[e] \in Policies
    PROVE  Decisions(e) \subseteq {"file", "save"}
BY DEF Decisions, Policies

\* Whatever a request reads of a vector, it reads no counter the vector does not have.
LEMMA ReadType ==
    ASSUME NEW e \in Entities, vector[e] \in Vector, NEW seen \in Read(e)
    PROVE  seen \in Vector /\ \A t \in Tills : seen[t] <= vector[e][t]
<1>1. CASE seen = vector[e]
  BY <1>1 DEF Vector
<1>2. CASE seen = Empty
  <2>1. ASSUME NEW t \in Tills PROVE seen[t] <= vector[e][t]
    <3>1. seen[t] = 0 /\ vector[e][t] \in Nat
      BY <1>2 DEF Empty, Vector
    <3> QED
      BY <3>1
  <2> QED
    BY <1>2, <2>1, EmptyType
<1> QED
  BY <1>1, <1>2 DEF Read

LEMMA DetectStep ==
    ASSUME IInv, NEW r \in Requests, Detect(r)
    PROVE  IInv'
<1> DEFINE e == EntityOf[Current(r)]
<1>1. request[r].phase \in {"load", "file", "save"} /\ UNCHANGED <<policy, tillVars>>
      /\ UNCHANGED <<stored, vector, reviews>>
  BY DEF Detect, cloudVars
<1>2. /\ request[r] \in InProgress /\ request[r].todo # <<>> /\ Counted(request[r])
      /\ e \in Entities
  BY <1>1, AtWork DEF IInv, TypeInv
<1>3. /\ vector' \in [Entities -> Vector] /\ reviews' \subseteq Review
      /\ stored \subseteq stored' /\ stored' \subseteq Items
  BY <1>1 DEF IInv, TypeInv, ReviewTypeOK
<1>4. CASE request' = Advanced(r)
  BY <1>1, <1>3, <1>4, AdvanceKeeps
<1>5. ASSUME NEW seen \in Read(e), NEW next \in {"file", "save"},
             request' = Moved(r, next, request[r].todo, seen)
      PROVE  IInv'
  <2>1. next \in Phases /\ next \notin {"insert", "answer"}
    BY DEF Phases
  <2>2. seen \in Vector /\ request[r].todo \in Seq(Items)
        /\ Len(request[r].todo) <= request[r].burnt
    BY <1>2, ReadType DEF IInv, TypeInv, ReviewTypeOK, InProgress, Counted
  <2> QED
    BY <1>1, <1>2, <1>3, <1>5, <2>1, <2>2, CloudKeeps
<1>6. \/ request' = Advanced(r)
      \/ \E seen \in Read(e), next \in {"file", "save"} : request' = Moved(r, next, request[r].todo, seen)
  BY <1>2, DecisionsType DEF Detect, IInv, TypeInv, ReviewTypeOK
<1> QED
  BY <1>4, <1>5, <1>6

LEMMA FileStep ==
    ASSUME IInv, NEW r \in Requests, File(r)
    PROVE  IInv'
<1> USE DEF IInv, TypeInv
<1>1. request[r].phase = "file"
  BY DEF File
<1>2. /\ request[r] \in InProgress /\ request[r].todo # <<>> /\ Counted(request[r])
      /\ EntityOf[Current(r)] \in Entities /\ Incoming(r) \in Vector
  BY <1>1, AtWork
<1>3. /\ request[r].seen \in Vector /\ request[r].todo \in Seq(Items)
      /\ Len(request[r].todo) <= request[r].burnt
  BY <1>2 DEF InProgress, Counted
<1>4. reviews' \subseteq Review
  <2> DEFINE c == [entity |-> EntityOf[Current(r)], local |-> request[r].seen,
                   remote |-> Incoming(r), resolved |-> FALSE]
  <2>1. c \in Review
    BY <1>2, <1>3 DEF Review
  <2>2. reviews' = reviews \union {c}
    BY DEF File
  <2>3. reviews \subseteq Review
    BY DEF ReviewTypeOK
  <2> QED
    BY <2>1, <2>2, <2>3
<1>5. /\ vector' \in [Entities -> Vector] /\ stored \subseteq stored' /\ stored' \subseteq Items
      /\ UNCHANGED <<policy, tillVars>>
      /\ request' = Moved(r, "save", request[r].todo, request[r].seen)
  BY DEF File, ReviewTypeOK
<1>6. "save" \in Phases
  BY DEF Phases
<1> QED
  BY <1>2, <1>3, <1>4, <1>5, <1>6, CloudKeeps

LEMMA SaveStep ==
    ASSUME IInv, NEW r \in Requests, Save(r)
    PROVE  IInv'
<1> USE DEF IInv, TypeInv
<1>1. request[r].phase \in {"load", "file", "save"}
  BY DEF Save
<1>2. /\ request[r] \in InProgress
      /\ EntityOf[Current(r)] \in Entities /\ Incoming(r) \in Vector
  BY <1>1, AtWork
<1>3. Merged(r) \in Vector
  BY <1>2, JoinType DEF Merged, InProgress
<1>4. vector' \in [Entities -> Vector] /\ reviews' \subseteq Review
  BY <1>2, <1>3 DEF Save, ReviewTypeOK
<1> QED
  BY <1>1, <1>4, AdvanceKeeps DEF Save

LEMMA DetectionFailsStep ==
    ASSUME IInv, NEW r \in Requests, DetectionFails(r)
    PROVE  IInv'
<1>1. /\ vector' \in [Entities -> Vector] /\ reviews' \subseteq Review /\ stored' = stored
      /\ UNCHANGED <<policy, tillVars>>
      /\ request' = Advanced(r)
      /\ request[r].phase \in {"load", "file", "save"}
  BY DEF DetectionFails, AfterFailure, IInv, TypeInv, ReviewTypeOK, cloudVars
<1> QED
  BY <1>1, AdvanceKeeps

LEMMA InsertStep ==
    ASSUME IInv, NEW r \in Requests, Insert(r)
    PROVE  IInv'
<1> USE DEF IInv, TypeInv
<1>1. request[r].phase = "insert" /\ request[r] # Idle
  BY DEF Insert, Idle
<1>2. request[r] \in InProgress /\ Counted(request[r])
  BY <1>1, InProgressType
<1>3. /\ request[r].todo = <<>> /\ request[r].todo \in Seq(Items)
      /\ Len(request[r].todo) <= request[r].burnt /\ request[r].seen \in Vector
      /\ request[r].rows \subseteq Items
  BY <1>1, <1>2 DEF Counted, InProgress
<1>4. /\ stored \subseteq stored' /\ stored' \subseteq Items
      /\ request[r].rows \subseteq stored'
  BY <1>3 DEF Insert, ReviewTypeOK
<1>5. /\ vector' \in [Entities -> Vector] /\ reviews' \subseteq Review
      /\ UNCHANGED <<policy, tillVars>>
      /\ request' = Moved(r, "answer", request[r].todo, request[r].seen)
  BY DEF Insert, ReviewTypeOK
<1>6. "answer" \in Phases
  BY DEF Phases
<1> QED
  BY <1>2, <1>3, <1>4, <1>5, <1>6, CloudKeeps

LEMMA ServerCrashStep ==
    ASSUME IInv, NEW r \in Requests, ServerCrash(r)
    PROVE  IInv'
<1> USE DEF IInv, TypeInv
<1>1. request' = [request EXCEPT ![r] = Idle]
  BY DEF ServerCrash
<1>2. ReviewTypeOK'
  BY <1>1 DEF ServerCrash, ReviewTypeOK, tillVars, cloudVars
<1>3. SendingOwn'
  BY <1>1 DEF ServerCrash, SendingOwn, ReviewTypeOK, tillVars
<1>4. AnswerStored'
  BY <1>1 DEF ServerCrash, AnswerStored, ReviewTypeOK, cloudVars, Idle
<1>5. AckedStored'
  BY DEF ServerCrash, AckedStored, tillVars, cloudVars
<1> QED
  BY <1>2, <1>3, <1>4, <1>5

LEMMA ResolveStep ==
    ASSUME IInv, NEW c \in reviews, Resolve(c)
    PROVE  IInv'
<1> USE DEF IInv, TypeInv
<1>1. c \in Review
  BY DEF ReviewTypeOK
<1>2. [c EXCEPT !.resolved = TRUE] \in Review
  BY <1>1 DEF Review
<1>3. ReviewTypeOK'
  BY <1>2 DEF Resolve, ReviewTypeOK, tillVars
<1>4. SendingOwn' /\ AnswerStored' /\ AckedStored'
  BY DEF Resolve, SendingOwn, AnswerStored, AckedStored, tillVars
<1> QED
  BY <1>3, <1>4
LEMMA StutterStep ==
    ASSUME IInv, UNCHANGED vars
    PROVE  IInv'
BY DEF IInv, TypeInv, ReviewTypeOK, SendingOwn, AnswerStored, AckedStored, vars, tillVars,
       cloudVars

LEMMA NextStep == IInv /\ [Next]_vars => IInv'
<1> SUFFICES ASSUME IInv, [Next]_vars PROVE IInv'
  OBVIOUS
<1>1. ASSUME NEW t \in Tills, GiveUp(t) PROVE IInv'
  BY <1>1, GiveUpStep
<1>2. ASSUME NEW t \in Tills, NEW r \in Requests, Push(t, r) PROVE IInv'
  BY <1>2, PushStep
<1>3. ASSUME NEW r \in Requests, Detect(r) PROVE IInv'
  BY <1>3, DetectStep
<1>4. ASSUME NEW r \in Requests, File(r) PROVE IInv'
  BY <1>4, FileStep
<1>5. ASSUME NEW r \in Requests, Save(r) PROVE IInv'
  BY <1>5, SaveStep
<1>6. ASSUME NEW r \in Requests, DetectionFails(r) PROVE IInv'
  BY <1>6, DetectionFailsStep
<1>7. ASSUME NEW r \in Requests, Insert(r) PROVE IInv'
  BY <1>7, InsertStep
<1>8. ASSUME NEW r \in Requests, Answered(r) PROVE IInv'
  BY <1>8, AnsweredStep
<1>9. ASSUME NEW r \in Requests, ServerCrash(r) PROVE IInv'
  BY <1>9, ServerCrashStep
<1>10. ASSUME NEW c \in reviews, Resolve(c) PROVE IInv'
  BY <1>10, ResolveStep
<1>11. CASE UNCHANGED vars
  BY <1>11, StutterStep
<1> QED
  BY <1>1, <1>2, <1>3, <1>4, <1>5, <1>6, <1>7, <1>8, <1>9, <1>10, <1>11 DEF Next

THEOREM Invariance == Spec => []IInv
<1> QED
  BY InitEstablishes, NextStep, PTL DEF Spec

\* The terminals, the queue, the vectors and the requests keep their types.
THEOREM TypeCorrect == Spec => []ReviewTypeOK
<1>1. IInv => ReviewTypeOK
  BY DEF IInv, TypeInv
<1> QED
  BY <1>1, Invariance, PTL

\* What a terminal was told is stored is stored, though detection may fail at any
\* statement and answers may be lost (push_batch).
THEOREM NothingDropped == Spec => []AckedStored
<1>1. IInv => AckedStored
  BY DEF IInv
<1> QED
  BY <1>1, Invariance, PTL
-----------------------------------------------------------------------------
(* Clocks *)

\* No vector, stored or read, and no batch is ahead of its terminal.
ClocksReached == \A t \in Tills : clock[t] <= Latest(t)
BatchReached(r) == request[r] # Idle => request[r].burnt <= Latest(request[r].till)
SeenReached(r) == request[r] # Idle => \A t \in Tills : request[r].seen[t] <= Latest(t)
VectorsReached == \A t \in Tills, e \in Entities : vector[e][t] <= Latest(t)

ClockInv ==
    losses = 0 =>
        /\ ClocksReached
        /\ \A r \in Requests : BatchReached(r) /\ SeenReached(r)
        /\ VectorsReached

LEMMA LatestType ==
    ASSUME IInv, NEW t \in Tills
    PROVE  Latest(t) \in Nat
<1> USE DEF IInv, TypeInv
<1>1. CASE sending[t] = NoRequest
  BY <1>1 DEF Latest, ReviewTypeOK
<1>2. CASE sending[t] # NoRequest
  <2>1. sending[t] \in Requests /\ request[sending[t]] # Idle
    BY <1>2 DEF ReviewTypeOK, SendingOwn
  <2> QED
    BY <1>2, <2>1, InProgressType DEF Latest, InProgress
<1> QED
  BY <1>1, <1>2

LEMMA InitClock == Init => ClockInv
<1> SUFFICES ASSUME Init PROVE ClockInv
  OBVIOUS
<1>1. \A t \in Tills : clock[t] = 0 /\ Latest(t) = 0
  BY DEF Init, Latest
<1>2. \A r \in Requests : request[r] = Idle
  BY DEF Init
<1>3. \A t \in Tills, e \in Entities : vector[e][t] = 0
  BY DEF Init, Empty
<1> QED
  BY <1>1, <1>2, <1>3 DEF ClockInv, ClocksReached, BatchReached, SeenReached, VectorsReached

\* A step of the cloud: the clocks stand still, the moved request may have read
\* a vector, and a vector may have been saved.
LEMMA CloudClock ==
    ASSUME IInv, ClockInv, NEW r \in Requests, request[r] \in InProgress,
           NEW phase \in Phases, NEW todo \in Seq(Items), NEW seen \in Vector,
           todo = <<>> <=> phase \in {"insert", "answer"},
           Len(todo) <= request[r].burnt,
           request' = Moved(r, phase, todo, seen),
           UNCHANGED tillVars,
           losses = 0 => \A t \in Tills : seen[t] <= Latest(t),
           losses = 0 => \A t \in Tills, e \in Entities : vector'[e][t] <= Latest(t)
    PROVE  ClockInv'
<1> SUFFICES ASSUME losses = 0
             PROVE  /\ ClocksReached'
                    /\ \A x \in Requests : BatchReached(x)' /\ SeenReached(x)'
                    /\ VectorsReached'
  BY DEF ClockInv, tillVars
<1>1. /\ \A x \in Requests :
             /\ request[x] # Idle <=> request'[x] # Idle
             /\ request[x] # Idle => /\ request'[x].till = request[x].till
                                     /\ request'[x].burnt = request[x].burnt
             /\ x # r => request'[x] = request[x]
      /\ request'[r].seen = seen
  BY Moving DEF IInv, TypeInv
<1>2. \A t \in Tills : Latest(t)' = Latest(t)
  <2> SUFFICES ASSUME NEW t \in Tills PROVE Latest(t)' = Latest(t)
    OBVIOUS
  <2>1. sending[t] # NoRequest => sending[t] \in Requests /\ request[sending[t]] # Idle
    BY DEF IInv, TypeInv, ReviewTypeOK, SendingOwn
  <2> QED
    BY <1>1, <2>1 DEF Latest, tillVars
<1>3. ClocksReached' /\ VectorsReached'
  BY <1>2 DEF ClockInv, ClocksReached, VectorsReached, tillVars
<1>4. ASSUME NEW x \in Requests PROVE BatchReached(x)'
  <2> SUFFICES ASSUME request'[x] # Idle
               PROVE  request'[x].burnt <= Latest(request[x].till)'
    BY DEF BatchReached
  <2>1. request[x] # Idle /\ request[x].burnt <= Latest(request[x].till)
    BY <1>1 DEF ClockInv, BatchReached
  <2>2. request'[x].till = request[x].till /\ request'[x].burnt = request[x].burnt
    BY <1>1, <2>1
  <2>3. request[x].till \in Tills
    BY <2>1, InProgressType DEF IInv, TypeInv, InProgress
  <2>4. PICK u \in Tills : u = request[x].till
    BY <2>3
  <2>5. Latest(request[x].till)' = Latest(u)'
    BY <2>2, <2>4 DEF Latest
  <2>6. Latest(request[x].till) = Latest(u)
    BY <2>4
  <2> QED
    BY <1>2, <2>1, <2>2, <2>5, <2>6
<1>5. ASSUME NEW x \in Requests PROVE SeenReached(x)'
  <2> SUFFICES ASSUME request'[x] # Idle, NEW t \in Tills
               PROVE  request'[x].seen[t] <= Latest(t)'
    BY DEF SeenReached
  <2>1. CASE x = r
    BY <1>1, <1>2, <2>1
  <2>2. CASE x # r
    BY <1>1, <1>2, <2>2 DEF ClockInv, SeenReached
  <2> QED
    BY <2>1, <2>2
<1> QED
  BY <1>3, <1>4, <1>5

\* The values of an advancing request: the empty vector is behind everything.
LEMMA AdvanceClock ==
    ASSUME IInv, ClockInv, NEW r \in Requests,
           request[r].phase \in {"load", "file", "save"},
           request' = Advanced(r),
           UNCHANGED tillVars,
           losses = 0 => \A t \in Tills, e \in Entities : vector'[e][t] <= Latest(t)
    PROVE  ClockInv'
<1> DEFINE rest == Tail(request[r].todo)
           next == IF rest = <<>> THEN "insert" ELSE "load"
<1>1. request[r] \in InProgress
  BY AtWork DEF IInv, TypeInv
<1>2. rest \in Seq(Items) /\ Len(rest) <= request[r].burnt
  BY Advancing DEF IInv, TypeInv
<1>3. next \in Phases /\ (rest = <<>> <=> next \in {"insert", "answer"})
  BY DEF Phases
<1>4. request' = Moved(r, next, rest, Empty)
  BY DEF Advanced
<1>5. \A t \in Tills : Empty[t] <= Latest(t)
  BY LatestType DEF Empty
<1> HIDE DEF rest, next
<1> QED
  BY <1>1, <1>2, <1>3, <1>4, <1>5, EmptyType, CloudClock

LEMMA DetectClock ==
    ASSUME IInv, ClockInv, NEW r \in Requests, Detect(r)
    PROVE  ClockInv'
<1> DEFINE e == EntityOf[Current(r)]
<1>1. request[r].phase \in {"load", "file", "save"} /\ UNCHANGED tillVars /\ vector' = vector
  BY DEF Detect, cloudVars
<1>2. /\ request[r] \in InProgress /\ request[r].todo # <<>> /\ Counted(request[r])
      /\ e \in Entities
  BY <1>1, AtWork DEF IInv, TypeInv
<1>3. losses = 0 => \A t \in Tills, x \in Entities : vector'[x][t] <= Latest(t)
  BY <1>1 DEF ClockInv, VectorsReached
<1>4. CASE request' = Advanced(r)
  BY <1>1, <1>3, <1>4, AdvanceClock
<1>5. ASSUME NEW seen \in Read(e), NEW next \in {"file", "save"},
             request' = Moved(r, next, request[r].todo, seen)
      PROVE  ClockInv'
  <2>1. next \in Phases /\ next \notin {"insert", "answer"}
    BY DEF Phases
  <2>2. seen \in Vector /\ request[r].todo \in Seq(Items)
        /\ Len(request[r].todo) <= request[r].burnt
    BY <1>2, ReadType DEF IInv, TypeInv, ReviewTypeOK, InProgress, Counted
  <2>3. ASSUME losses = 0, NEW t \in Tills PROVE seen[t] <= Latest(t)
    <3>1. vector[e][t] <= Latest(t)
      BY <1>2, <2>3 DEF ClockInv, VectorsReached
    <3>2. seen[t] \in Nat /\ vector[e][t] \in Nat /\ seen[t] <= vector[e][t]
      BY <1>2, ReadType DEF IInv, TypeInv, ReviewTypeOK, Vector
    <3>3. Latest(t) \in Nat
      BY LatestType
    <3> QED
      BY <3>1, <3>2, <3>3
  <2> QED
    BY <1>1, <1>2, <1>3, <1>5, <2>1, <2>2, <2>3, CloudClock
<1>6. \/ request' = Advanced(r)
      \/ \E seen \in Read(e), next \in {"file", "save"} : request' = Moved(r, next, request[r].todo, seen)
  BY <1>2, DecisionsType DEF Detect, IInv, TypeInv, ReviewTypeOK
<1> QED
  BY <1>4, <1>5, <1>6

\* File and Insert keep what was read.
LEMMA SeenKeptClock ==
    ASSUME IInv, ClockInv, NEW r \in Requests, File(r) \/ Insert(r)
    PROVE  ClockInv'
<1>1. PICK phase \in Phases :
          /\ request' = Moved(r, phase, request[r].todo, request[r].seen)
          /\ request[r].todo = <<>> <=> phase \in {"insert", "answer"}
  <2>1. request[r] # Idle
    BY DEF File, Insert, Idle
  <2>2. Counted(request[r])
    BY <2>1, InProgressType DEF IInv, TypeInv
  <2>3. CASE File(r)
    BY <2>2, <2>3 DEF File, Counted, Phases
  <2>4. CASE Insert(r)
    BY <2>2, <2>4 DEF Insert, Counted, Phases
  <2> QED
    BY <2>3, <2>4
<1>2. request[r] # Idle
  BY DEF File, Insert, Idle
<1>3. request[r] \in InProgress /\ Counted(request[r])
  BY <1>2, InProgressType DEF IInv, TypeInv
<1>4. /\ request[r].todo \in Seq(Items) /\ request[r].seen \in Vector
      /\ Len(request[r].todo) <= request[r].burnt
  BY <1>3 DEF InProgress, Counted
<1>5. UNCHANGED tillVars /\ vector' = vector
  BY DEF File, Insert
<1>6. losses = 0 => /\ \A t \in Tills : request[r].seen[t] <= Latest(t)
                    /\ \A t \in Tills, e \in Entities : vector'[e][t] <= Latest(t)
  BY <1>2, <1>5 DEF ClockInv, SeenReached, VectorsReached
<1> QED
  BY <1>1, <1>3, <1>4, <1>5, <1>6, CloudClock

LEMMA SaveClock ==
    ASSUME IInv, ClockInv, NEW r \in Requests, Save(r)
    PROVE  ClockInv'
<1> DEFINE q == request[r]
           e == EntityOf[Current(r)]
           n == q.burnt - Len(q.todo) + 1
<1>1. q.phase \in {"load", "file", "save"} /\ UNCHANGED tillVars
      /\ request' = Advanced(r) /\ vector' = [vector EXCEPT ![e] = Merged(r)]
  BY DEF Save
<1>2. q \in InProgress /\ Counted(q) /\ q.todo # <<>> /\ q # Idle
  BY <1>1, AtWork, IdleIsNoRequest DEF IInv, TypeInv
<1>3. q.till \in Tills /\ q.burnt \in Nat /\ q.todo \in Seq(Items) /\ q.seen \in Vector
  BY <1>2 DEF InProgress
<1>4. n \in Nat /\ n <= q.burnt
  BY <1>2, <1>3 DEF Counted
<1>5. Incoming(r) \in Vector /\ \A t \in Tills : Incoming(r)[t] = IF t = q.till THEN n ELSE 0
  BY <1>3, <1>4, StampType DEF Incoming
<1>6. ASSUME losses = 0, NEW t \in Tills PROVE Merged(r)[t] <= Latest(t)
  <2>1. q.seen[t] <= Latest(t) /\ q.burnt <= Latest(q.till)
    BY <1>2, <1>6 DEF ClockInv, BatchReached, SeenReached
  <2>2. Latest(t) \in Nat /\ Latest(q.till) \in Nat
    BY <1>3, LatestType
  <2>3. Incoming(r)[t] <= Latest(t)
    BY <1>3, <1>4, <1>5, <2>1, <2>2
  <2>4. Merged(r)[t] \in {q.seen[t], Incoming(r)[t]}
    BY <1>3, <1>5 DEF Merged, Join
  <2> QED
    BY <2>1, <2>3, <2>4
<1>7. losses = 0 => \A t \in Tills, x \in Entities : vector'[x][t] <= Latest(t)
  BY <1>1, <1>6 DEF ClockInv, VectorsReached, IInv, TypeInv, ReviewTypeOK
<1> QED
  BY <1>1, <1>7, AdvanceClock

LEMMA DetectionFailsClock ==
    ASSUME IInv, ClockInv, NEW r \in Requests, DetectionFails(r)
    PROVE  ClockInv'
<1>1. /\ request[r].phase \in {"load", "file", "save"}
      /\ request' = Advanced(r) /\ UNCHANGED tillVars /\ vector' = vector
  BY DEF DetectionFails, AfterFailure, cloudVars
<1>2. losses = 0 => \A t \in Tills, e \in Entities : vector'[e][t] <= Latest(t)
  BY <1>1 DEF ClockInv, VectorsReached
<1> QED
  BY <1>1, <1>2, AdvanceClock

\* A step of a terminal: no clock goes back, the vectors stand still, and a
\* request that was there is as it was.
LEMMA TillClock ==
    ASSUME IInv, ClockInv, vector' = vector,
           losses' = 0 => losses = 0,
           losses' = 0 => \A t \in Tills : Latest(t) <= Latest(t)' /\ clock'[t] <= Latest(t)',
           \A t \in Tills : Latest(t)' \in Nat,
           \A r \in Requests : request'[r] # Idle =>
               \/ request'[r] = request[r]
               \/ /\ request'[r].burnt <= Latest(request[r].till)'
                  /\ request'[r].seen = Empty
    PROVE  ClockInv'
<1> SUFFICES ASSUME losses' = 0
             PROVE  /\ ClocksReached'
                    /\ \A x \in Requests : BatchReached(x)' /\ SeenReached(x)'
                    /\ VectorsReached'
  BY DEF ClockInv
<1>0. losses = 0 /\ \A t \in Tills : Latest(t) <= Latest(t)' /\ Latest(t) \in Nat /\ Latest(t)' \in Nat
  BY LatestType
<1>1. ClocksReached'
  BY DEF ClocksReached
<1>2. VectorsReached'
  <2> SUFFICES ASSUME NEW t \in Tills, NEW e \in Entities PROVE vector[e][t] <= Latest(t)'
    BY DEF VectorsReached
  <2>1. vector[e][t] \in Nat
    BY DEF IInv, TypeInv, ReviewTypeOK, Vector
  <2> QED
    BY <1>0, <2>1 DEF ClockInv, VectorsReached
<1>3. ASSUME NEW x \in Requests PROVE BatchReached(x)'
  <2> SUFFICES ASSUME request'[x] # Idle
               PROVE  request'[x].burnt <= Latest(request[x].till)'
    BY DEF BatchReached
  <2>1. CASE request'[x] = request[x]
    <3>1. request[x] # Idle /\ request[x].burnt <= Latest(request[x].till)
      BY <1>0, <2>1 DEF ClockInv, BatchReached
    <3>2. request[x].till \in Tills /\ request[x].burnt \in Nat
      BY <3>1, InProgressType DEF IInv, TypeInv, InProgress
    <3>3. PICK u \in Tills : u = request[x].till
      BY <3>2
    <3>4. Latest(request[x].till)' = Latest(u)'
      BY <2>1, <3>3 DEF Latest
    <3> QED
      BY <1>0, <2>1, <3>1, <3>2, <3>3, <3>4
  <2> QED
    BY <2>1
<1>4. ASSUME NEW x \in Requests PROVE SeenReached(x)'
  <2> SUFFICES ASSUME request'[x] # Idle, NEW t \in Tills
               PROVE  request'[x].seen[t] <= Latest(t)'
    BY DEF SeenReached
  <2>1. CASE request'[x] = request[x]
    <3>1. request[x] # Idle /\ request[x].seen[t] <= Latest(t)
      BY <1>0, <2>1 DEF ClockInv, SeenReached
    <3>2. request[x].seen[t] \in Nat
      BY <3>1, InProgressType DEF IInv, TypeInv, InProgress, Vector
    <3> QED
      BY <1>0, <2>1, <3>1, <3>2
  <2>2. CASE request'[x].seen = Empty
    BY <1>0, <2>2 DEF Empty
  <2> QED
    BY <2>1, <2>2
<1> QED
  BY <1>1, <1>2, <1>3, <1>4

LEMMA PushClock ==
    ASSUME IInv, ClockInv, NEW t \in Tills, NEW r \in Requests, Push(t, r)
    PROVE  ClockInv'
<1> DEFINE burnt == clock[t] + Cardinality(Outbox(t))
<1> USE DEF IInv, TypeInv
<1>1. IsFiniteSet(Outbox(t))
  BY FS_Subset, ReviewConstants DEF Outbox
<1>2. clock[t] \in Nat /\ burnt \in Nat /\ clock[t] <= burnt
  BY <1>1, FS_CardinalityType DEF ReviewTypeOK
<1>3. PICK todo \in InOrder(Outbox(t)) : request' = [request EXCEPT ![r] =
          [phase |-> "load", till |-> t, rows |-> Outbox(t), todo |-> todo,
           burnt |-> burnt, seen |-> Empty]]
  BY DEF Push
<1> HIDE DEF burnt
<1>4. /\ request[r] = Idle /\ sending[t] = NoRequest
      /\ sending' = [sending EXCEPT ![t] = r]
      /\ losses' = losses /\ clock' = clock /\ vector' = vector
  BY DEF Push, cloudVars
<1>5. /\ request'[r].till = t /\ request'[r].burnt = burnt /\ request'[r].seen = Empty
      /\ \A x \in Requests : x # r => request'[x] = request[x]
  BY <1>3 DEF ReviewTypeOK
<1>6. Latest(t)' = burnt /\ Latest(t) = clock[t]
  <2>1. sending'[t] = r /\ r # NoRequest
    BY <1>4, ReviewConstants DEF ReviewTypeOK
  <2> QED
    BY <1>4, <1>5, <2>1 DEF Latest
<1>7. ASSUME NEW u \in Tills, u # t PROVE Latest(u)' = Latest(u)
  <2>1. sending'[u] = sending[u]
    BY <1>4, <1>7 DEF ReviewTypeOK
  <2>2. sending[u] # NoRequest => sending[u] \in Requests /\ sending[u] # r
    BY <1>4 DEF ReviewTypeOK, SendingOwn
  <2> QED
    BY <1>4, <1>5, <2>1, <2>2 DEF Latest
<1>8. \A u \in Tills : Latest(u)' \in Nat /\ Latest(u) <= Latest(u)'
  <2> SUFFICES ASSUME NEW u \in Tills PROVE Latest(u)' \in Nat /\ Latest(u) <= Latest(u)'
    OBVIOUS
  <2> QED
    BY <1>2, <1>6, <1>7, LatestType
<1>9. losses' = 0 => \A u \in Tills : clock'[u] <= Latest(u)'
  BY <1>2, <1>4, <1>6, <1>7 DEF ClockInv, ClocksReached
<1>10. ASSUME NEW x \in Requests, request'[x] # Idle
       PROVE  \/ request'[x] = request[x]
              \/ request'[x].burnt <= Latest(request[x].till)' /\ request'[x].seen = Empty
  <2>1. CASE x = r
    <3>1. Latest(request[x].till)' = Latest(t)'
      BY <1>5, <2>1 DEF Latest
    <3> QED
      BY <1>2, <1>5, <1>6, <2>1, <3>1
  <2> QED
    BY <1>5, <2>1
<1> QED
  BY <1>4, <1>8, <1>9, <1>10, TillClock

\* A terminal that returns with its clock persisted has reached what it burnt.
LEMMA ReturnClock ==
    ASSUME IInv, ClockInv, NEW t \in Tills, sending[t] # NoRequest, Return(t),
           vector' = vector,
           \A x \in Requests : request'[x] # Idle => request'[x] = request[x],
           \A u \in Tills : u # t /\ sending[u] # NoRequest =>
               request'[sending[u]] = request[sending[u]]
    PROVE  ClockInv'
<1> USE DEF IInv, TypeInv
<1>1. /\ sending' = [sending EXCEPT ![t] = NoRequest]
      /\ clock' \in [Tills -> Nat] /\ losses' \in Nat
  BY Returning
<1>2. Latest(t) = request[sending[t]].burnt /\ Latest(t)' = clock'[t]
  BY <1>1 DEF Latest, ReviewTypeOK
<1>3. losses' = 0 => losses = 0 /\ clock' = [clock EXCEPT ![t] = request[sending[t]].burnt]
  BY DEF Return, ReviewTypeOK
<1>4. ASSUME NEW u \in Tills, u # t PROVE Latest(u)' = IF sending[u] = NoRequest THEN clock'[u] ELSE Latest(u)
  BY <1>1, <1>4 DEF Latest, ReviewTypeOK
<1>5. \A u \in Tills : Latest(u)' \in Nat
  <2> SUFFICES ASSUME NEW u \in Tills PROVE Latest(u)' \in Nat
    OBVIOUS
  <2> QED
    BY <1>1, <1>2, <1>4, LatestType
<1>6. ASSUME losses' = 0, NEW u \in Tills
      PROVE  Latest(u) <= Latest(u)' /\ clock'[u] <= Latest(u)'
  <2>1. CASE u = t
    BY <1>2, <1>3, <1>5, <1>6, <2>1 DEF ReviewTypeOK
  <2>2. CASE u # t
    <3>1. clock'[u] = clock[u] /\ clock[u] \in Nat /\ clock[u] <= Latest(u)
      BY <1>3, <1>6, <2>2 DEF ReviewTypeOK, ClockInv, ClocksReached
    <3>2. Latest(u)' = Latest(u)
      BY <1>4, <2>2, <3>1 DEF Latest
    <3> QED
      BY <1>5, <3>1, <3>2
  <2> QED
    BY <2>1, <2>2
<1>7. losses' = 0 => losses = 0
  BY <1>3
<1> QED
  BY <1>5, <1>6, <1>7, TillClock

LEMMA GiveUpClock ==
    ASSUME IInv, ClockInv, NEW t \in Tills, GiveUp(t)
    PROVE  ClockInv'
<1>1. sending[t] # NoRequest /\ Return(t) /\ request' = request /\ vector' = vector
  BY DEF GiveUp, cloudVars
<1> QED
  BY <1>1, ReturnClock

LEMMA AnsweredClock ==
    ASSUME IInv, ClockInv, NEW r \in Requests, Answered(r)
    PROVE  ClockInv'
<1> DEFINE q == request[r]
<1> USE DEF IInv, TypeInv
<1>1. q.till \in Tills /\ vector' = vector /\ request' = [request EXCEPT ![r] = Idle]
  BY InProgressType DEF Answered, Idle, InProgress, cloudVars
<1>2. \A x \in Requests : request'[x] # Idle => request'[x] = request[x]
  BY <1>1 DEF ReviewTypeOK
<1>3. \A u \in Tills : u # q.till /\ sending[u] # NoRequest =>
          sending[u] # r /\ request'[sending[u]] = request[sending[u]]
  BY <1>1 DEF ReviewTypeOK, SendingOwn
<1>4. CASE sending[q.till] = r
  BY <1>1, <1>2, <1>3, <1>4, ReturnClock, ReviewConstants DEF Answered
<1>5. CASE sending[q.till] # r
  <2>1. UNCHANGED <<sending, clock, losses>>
    BY <1>5 DEF Answered
  <2>2. ASSUME NEW u \in Tills PROVE Latest(u)' = Latest(u)
    <3>1. sending[u] # r
      BY <1>3, <1>5, ReviewConstants
    <3>2. sending[u] # NoRequest => request'[sending[u]] = request[sending[u]]
      BY <1>1, <3>1 DEF ReviewTypeOK
    <3> QED
      BY <2>1, <3>2 DEF Latest
  <2>3. \A u \in Tills : Latest(u)' \in Nat /\ Latest(u) <= Latest(u)'
    <3> SUFFICES ASSUME NEW u \in Tills PROVE Latest(u)' \in Nat /\ Latest(u) <= Latest(u)'
      OBVIOUS
    <3> QED
      BY <2>2, LatestType
  <2>4. losses' = 0 => \A u \in Tills : clock'[u] <= Latest(u)'
    BY <2>1, <2>2 DEF ClockInv, ClocksReached
  <2> QED
    BY <1>1, <1>2, <2>1, <2>3, <2>4, TillClock
<1> QED
  BY <1>4, <1>5

\* The steps that leave the clocks and every terminal's request alone.
LEMMA OtherClock ==
    ASSUME IInv, ClockInv, UNCHANGED <<tillVars, vector>>,
           \A x \in Requests : request'[x] # Idle => request'[x] = request[x],
           \A u \in Tills : sending[u] # NoRequest => request'[sending[u]] = request[sending[u]]
    PROVE  ClockInv'
<1>1. ASSUME NEW u \in Tills PROVE Latest(u)' = Latest(u)
  BY DEF Latest, tillVars
<1>2. \A u \in Tills : Latest(u)' \in Nat /\ Latest(u) <= Latest(u)'
  <2> SUFFICES ASSUME NEW u \in Tills PROVE Latest(u)' \in Nat /\ Latest(u) <= Latest(u)'
    OBVIOUS
  <2> QED
    BY <1>1, LatestType
<1>3. losses' = 0 => \A u \in Tills : clock'[u] <= Latest(u)'
  BY <1>1 DEF ClockInv, ClocksReached, tillVars
<1> QED
  BY <1>2, <1>3, TillClock DEF tillVars

LEMMA ServerCrashClock ==
    ASSUME IInv, ClockInv, NEW r \in Requests, ServerCrash(r)
    PROVE  ClockInv'
<1>1. request' = [request EXCEPT ![r] = Idle] /\ UNCHANGED <<tillVars, vector>>
      /\ \A u \in Tills : sending[u] # r
  BY DEF ServerCrash, cloudVars
<1>2. \A x \in Requests : request'[x] # Idle => request'[x] = request[x]
  BY <1>1 DEF IInv, TypeInv, ReviewTypeOK
<1>3. \A u \in Tills : sending[u] # NoRequest => request'[sending[u]] = request[sending[u]]
  BY <1>1 DEF IInv, TypeInv, ReviewTypeOK
<1> QED
  BY <1>1, <1>2, <1>3, OtherClock

LEMMA NextClock == IInv /\ ClockInv /\ [Next]_vars => ClockInv'
<1> SUFFICES ASSUME IInv, ClockInv, [Next]_vars PROVE ClockInv'
  OBVIOUS
<1>1. ASSUME NEW t \in Tills, GiveUp(t) PROVE ClockInv'
  BY <1>1, GiveUpClock
<1>2. ASSUME NEW t \in Tills, NEW r \in Requests, Push(t, r) PROVE ClockInv'
  BY <1>2, PushClock
<1>3. ASSUME NEW r \in Requests, Detect(r) PROVE ClockInv'
  BY <1>3, DetectClock
<1>4. ASSUME NEW r \in Requests, File(r) \/ Insert(r) PROVE ClockInv'
  BY <1>4, SeenKeptClock
<1>5. ASSUME NEW r \in Requests, Save(r) PROVE ClockInv'
  BY <1>5, SaveClock
<1>6. ASSUME NEW r \in Requests, DetectionFails(r) PROVE ClockInv'
  BY <1>6, DetectionFailsClock
<1>7. ASSUME NEW r \in Requests, Answered(r) PROVE ClockInv'
  BY <1>7, AnsweredClock
<1>8. ASSUME NEW r \in Requests, ServerCrash(r) PROVE ClockInv'
  BY <1>8, ServerCrashClock
<1>9. ASSUME NEW c \in reviews, Resolve(c) PROVE ClockInv'
  BY <1>9, OtherClock DEF Resolve
<1>10. CASE UNCHANGED vars
  BY <1>10, OtherClock DEF vars, cloudVars
<1> QED
  BY <1>1, <1>2, <1>3, <1>4, <1>5, <1>6, <1>7, <1>8, <1>9, <1>10 DEF Next

\* A terminal whose clock was persisted every time never stamps a value the cloud
\* has seen from it: none of its rows is dropped as a stale one
\* (persist_stamped_counter).
THEOREM ClockNeverReused == Spec => []ClockAhead
<1>1. IInv /\ ClockInv => ClockAhead
  BY DEF ClockInv, VectorsReached, ClockAhead
<1>2. Spec => []ClockInv
  BY InitClock, NextClock, Invariance, PTL DEF Spec
<1> QED
  BY <1>1, <1>2, Invariance, PTL
-----------------------------------------------------------------------------
(* Divergence is filed *)

\* The pair whose join is v was put before a person.
FiledFor(e, v) == \E c \in reviews : c.entity = e /\ Join(c.local, c.remote) = v

\* A request about to save the vector of a money entity: its stamp includes what
\* was read, or the pair is filed.
FiledBefore(r) ==
    request[r].phase = "save" /\ policy[EntityOf[Current(r)]] = "never" =>
        \/ Leq(request[r].seen, Incoming(r))
        \/ FiledFor(EntityOf[Current(r)], Merged(r))

FiledInv == DivergenceFiled /\ \A r \in Requests : FiledBefore(r)

\* Reviews are resolved and never removed.
LEMMA FiledKept ==
    ASSUME IInv, [Next]_vars, NEW e, NEW v, FiledFor(e, v)
    PROVE  FiledFor(e, v)'
<1>1. PICK c \in reviews : c.entity = e /\ Join(c.local, c.remote) = v
  BY DEF FiledFor
<1>2. CASE reviews \subseteq reviews'
  BY <1>1, <1>2 DEF FiledFor
<1>3. ASSUME NEW d \in reviews, Resolve(d) PROVE FiledFor(e, v)'
  <2> DEFINE x == [d EXCEPT !.resolved = TRUE]
  <2>1. reviews' = (reviews \ {d}) \union {x}
    BY <1>3 DEF Resolve
  <2>2. d \in Review
    BY DEF IInv, TypeInv, ReviewTypeOK
  <2>3. x.entity = d.entity /\ x.local = d.local /\ x.remote = d.remote
    BY <2>2 DEF Review
  <2> QED
    BY <1>1, <2>1, <2>3 DEF FiledFor
<1>4. reviews \subseteq reviews' \/ \E d \in reviews : Resolve(d)
  BY DEF Next, vars, cloudVars, GiveUp, Push, Detect, File, Save, DetectionFails, Insert,
         Answered, ServerCrash
<1> QED
  BY <1>2, <1>3, <1>4

\* A stamp names one terminal.
LEMMA StampHasOneWriter ==
    ASSUME NEW t \in Tills, NEW n \in Nat
    PROVE  ~(Cardinality(Writers(Stamp(t, n))) > 1)
<1>1. Writers(Stamp(t, n)) \subseteq {t}
  BY StampType DEF Writers
<1>2. IsFiniteSet({t}) /\ Cardinality({t}) = 1
  BY FS_Singleton
<1>3. Cardinality(Writers(Stamp(t, n))) <= 1 /\ Cardinality(Writers(Stamp(t, n))) \in Nat
  BY <1>1, <1>2, FS_Subset, FS_CardinalityType
<1> QED
  BY <1>3

LEMMA JoinAbsorbs ==
    ASSUME NEW v \in Vector, NEW w \in Vector, Leq(v, w)
    PROVE  Join(v, w) = w
BY DEF Vector, Join, Leq

LEMMA PolicyKept ==
    ASSUME [Next]_vars
    PROVE  policy' = policy
BY DEF Next, vars, GiveUp, Push, Detect, File, Save, DetectionFails, Insert, Answered,
       ServerCrash, Resolve

\* A step that leaves the vectors alone leaves what is filed about them alone.
LEMMA VectorsFiled ==
    ASSUME IInv, FiledInv, [Next]_vars, vector' = vector
    PROVE  DivergenceFiled'
<1> SUFFICES ASSUME NEW e \in Entities, policy[e] = "never",
                    Cardinality(Writers(vector[e])) > 1
             PROVE  FiledFor(e, vector[e])'
  BY PolicyKept DEF DivergenceFiled, FiledFor, Writers
<1>1. FiledFor(e, vector[e])
  BY DEF FiledInv, DivergenceFiled, FiledFor
<1>2. \A v : FiledFor(e, v) => FiledFor(e, v)'
  BY FiledKept
<1>3. PICK v : v = vector[e]
  OBVIOUS
<1>4. FiledFor(e, v)'
  BY <1>1, <1>2, <1>3
<1> QED
  BY <1>3, <1>4 DEF FiledFor

\* A request that stands still keeps its filing.
LEMMA StillFiled ==
    ASSUME IInv, FiledInv, [Next]_vars, NEW r \in Requests, request'[r] = request[r]
    PROVE  FiledBefore(r)'
<1> SUFFICES ASSUME request[r].phase = "save", policy[EntityOf[Current(r)]] = "never"
             PROVE  \/ Leq(request[r].seen, Incoming(r))
                    \/ FiledFor(EntityOf[Current(r)], Merged(r))'
  BY PolicyKept DEF FiledBefore, Current, Incoming
<1>1. CASE Leq(request[r].seen, Incoming(r))
  BY <1>1
<1>2. CASE FiledFor(EntityOf[Current(r)], Merged(r))
  <2>1. PICK e, v : e = EntityOf[Current(r)] /\ v = Merged(r)
    OBVIOUS
  <2>2. FiledFor(e, v)'
    BY <1>2, <2>1, FiledKept
  <2> QED
    BY <2>1, <2>2 DEF FiledFor, Merged, Current, Incoming
<1> QED
  BY <1>1, <1>2 DEF FiledInv, FiledBefore

\* A request that is not about to save has nothing to file.
LEMMA NotSaving ==
    ASSUME NEW r \in Requests, request'[r].phase # "save"
    PROVE  FiledBefore(r)'
BY DEF FiledBefore

LEMMA AdvancedPhase ==
    ASSUME IInv, NEW r \in Requests, request[r].phase \in {"load", "file", "save"},
           request' = Advanced(r)
    PROVE  /\ request'[r].phase # "save"
           /\ \A x \in Requests : x # r => request'[x] = request[x]
BY DEF Advanced, Moved, IInv, TypeInv, ReviewTypeOK

\* Going on to the next row, the vectors unchanged.
LEMMA AdvanceFiled ==
    ASSUME IInv, FiledInv, [Next]_vars, NEW r \in Requests,
           request[r].phase \in {"load", "file", "save"},
           request' = Advanced(r), DivergenceFiled'
    PROVE  FiledInv'
<1>1. request'[r].phase # "save" /\ \A x \in Requests : x # r => request'[x] = request[x]
  BY AdvancedPhase
<1>2. ASSUME NEW x \in Requests PROVE FiledBefore(x)'
  <2>1. CASE x = r
    BY <1>1, <2>1, NotSaving
  <2>2. CASE x # r
    BY <1>1, <2>2, StillFiled
  <2> QED
    BY <2>1, <2>2
<1> QED
  BY <1>2 DEF FiledInv

LEMMA DetectFiled ==
    ASSUME IInv, FiledInv, NEW r \in Requests, Detect(r)
    PROVE  FiledInv'
<1> DEFINE e == EntityOf[Current(r)]
<1>0. [Next]_vars
  BY DEF Next
<1>1. request[r].phase \in {"load", "file", "save"} /\ vector' = vector /\ policy' = policy
  BY DEF Detect, cloudVars
<1>2. DivergenceFiled'
  BY <1>0, <1>1, VectorsFiled
<1>3. CASE request' = Advanced(r)
  BY <1>0, <1>1, <1>2, <1>3, AdvanceFiled
<1>4. ASSUME NEW seen \in Read(e), NEW next \in {"file", "save"},
             request' = Moved(r, next, request[r].todo, seen),
             next = "save" /\ policy[e] = "never" => Leq(seen, Incoming(r))
      PROVE  FiledInv'
  <2>1. request[r] \in InProgress
    BY <1>1, AtWork DEF IInv, TypeInv
  <2>2. /\ request'[r].phase = next /\ request'[r].seen = seen
        /\ request'[r].todo = request[r].todo /\ request'[r].till = request[r].till
        /\ request'[r].burnt = request[r].burnt
        /\ \A x \in Requests : x # r => request'[x] = request[x]
    BY <1>4 DEF Moved, IInv, TypeInv, ReviewTypeOK
  <2>3. Current(r)' = Current(r) /\ Incoming(r)' = Incoming(r)
    BY <2>2 DEF Current, Incoming
  <2>4. FiledBefore(r)'
    BY <1>1, <1>4, <2>2, <2>3 DEF FiledBefore
  <2>5. ASSUME NEW x \in Requests PROVE FiledBefore(x)'
    BY <1>0, <2>2, <2>4, StillFiled
  <2> QED
    BY <1>2, <2>5 DEF FiledInv
<1>5. \/ request' = Advanced(r)
      \/ \E seen \in Read(e), next \in {"file", "save"} :
            /\ request' = Moved(r, next, request[r].todo, seen)
            /\ next = "save" /\ policy[e] = "never" => Leq(seen, Incoming(r))
  <2>1. e \in Entities /\ policy[e] \in Policies /\ vector[e] \in Vector
    BY <1>1, AtWork DEF IInv, TypeInv, ReviewTypeOK
  <2>2. PICK seen \in Read(e) :
            LET order == Compare(seen, Incoming(r)) IN
            IF order = "after"
            THEN request' = Advanced(r)
            ELSE \E next \in IF order = "concurrent" THEN Decisions(e) ELSE {"save"} :
                    request' = Moved(r, next, request[r].todo, seen)
    BY DEF Detect
  <2> DEFINE order == Compare(seen, Incoming(r))
  <2>3. CASE order = "after"
    BY <2>2, <2>3
  <2>4. CASE order = "concurrent"
    <3>1. PICK next \in Decisions(e) : request' = Moved(r, next, request[r].todo, seen)
      BY <2>2, <2>4
    <3>2. next \in {"file", "save"}
      BY <2>1, <3>1, DecisionsType
    <3>3. policy[e] = "never" => next = "file"
      BY <3>1 DEF Decisions
    <3> QED
      BY <3>1, <3>2, <3>3
  <2>5. CASE order \notin {"after", "concurrent"}
    <3>1. request' = Moved(r, "save", request[r].todo, seen)
      BY <2>2, <2>5
    <3>2. seen \in Vector /\ Leq(seen, seen)
      BY <2>1, ReadType, LeqReflexive
    <3>3. Leq(seen, Incoming(r))
      BY <2>5, <3>2 DEF Compare
    <3> QED
      BY <3>1, <3>3
  <2> QED
    BY <2>3, <2>4, <2>5
<1> QED
  BY <1>3, <1>4, <1>5

LEMMA FileFiled ==
    ASSUME IInv, FiledInv, NEW r \in Requests, File(r)
    PROVE  FiledInv'
<1> DEFINE e == EntityOf[Current(r)]
<1>0. [Next]_vars
  BY DEF Next
<1>1. DivergenceFiled'
  BY <1>0, VectorsFiled DEF File
<1>2. request' = Moved(r, "save", request[r].todo, request[r].seen)
  BY DEF File
<1>3. /\ request'[r].seen = request[r].seen
      /\ request'[r].todo = request[r].todo /\ request'[r].till = request[r].till
      /\ request'[r].burnt = request[r].burnt
      /\ \A x \in Requests : x # r => request'[x] = request[x]
  BY <1>2 DEF Moved, IInv, TypeInv, ReviewTypeOK
<1>4. Current(r)' = Current(r) /\ Incoming(r)' = Incoming(r) /\ Merged(r)' = Merged(r)
  BY <1>3 DEF Current, Incoming, Merged
<1>5. FiledFor(EntityOf[Current(r)], Merged(r))'
  <2> DEFINE c == [entity |-> e, local |-> request[r].seen,
                   remote |-> Incoming(r), resolved |-> FALSE]
  <2>1. c \in reviews'
    BY DEF File
  <2>2. c.entity = e /\ Join(c.local, c.remote) = Merged(r)
    BY DEF Merged
  <2> HIDE DEF c
  <2> QED
    BY <1>4, <2>1, <2>2 DEF FiledFor
<1>6. FiledBefore(r)'
  BY <1>5 DEF FiledBefore
<1>7. ASSUME NEW x \in Requests PROVE FiledBefore(x)'
  BY <1>0, <1>3, <1>6, StillFiled
<1> QED
  BY <1>1, <1>7 DEF FiledInv

\* The update itself: a vector that names two terminals has its pair filed.
LEMMA SaveFiled ==
    ASSUME IInv, FiledInv, NEW r \in Requests, Save(r)
    PROVE  FiledInv'
<1> DEFINE q == request[r]
           e == EntityOf[Current(r)]
<1>0. [Next]_vars
  BY DEF Next
<1>1. /\ q.phase = "save" /\ request' = Advanced(r) /\ policy' = policy /\ reviews' = reviews
      /\ vector' = [vector EXCEPT ![e] = Merged(r)]
  BY DEF Save
<1>2. q \in InProgress /\ Counted(q) /\ q.todo # <<>> /\ e \in Entities /\ Incoming(r) \in Vector
  BY <1>1, AtWork DEF IInv, TypeInv
<1>3. q.seen \in Vector /\ q.till \in Tills /\ q.burnt - Len(q.todo) + 1 \in Nat
  BY <1>2 DEF InProgress, Counted
<1>4. DivergenceFiled'
  <2> SUFFICES ASSUME NEW x \in Entities, policy[x] = "never",
                      Cardinality(Writers(vector'[x])) > 1
               PROVE  FiledFor(x, vector'[x])
    BY <1>1 DEF DivergenceFiled, FiledFor, Writers
  <2>1. CASE x = e
    <3>1. vector'[x] = Merged(r)
      BY <1>1, <1>2, <2>1 DEF IInv, TypeInv, ReviewTypeOK
    <3>2. CASE Leq(q.seen, Incoming(r))
      <4>1. Merged(r) = Incoming(r)
        BY <1>2, <1>3, <3>2, JoinAbsorbs DEF Merged
      <4> QED
        BY <1>3, <3>1, <4>1, StampHasOneWriter DEF Incoming
    <3>3. CASE FiledFor(e, Merged(r))
      BY <2>1, <3>1, <3>3
    <3> QED
      BY <1>1, <2>1, <3>2, <3>3 DEF FiledInv, FiledBefore
  <2>2. CASE x # e
    <3>1. vector'[x] = vector[x]
      BY <1>1, <2>2 DEF IInv, TypeInv, ReviewTypeOK
    <3> QED
      BY <3>1 DEF FiledInv, DivergenceFiled, FiledFor
  <2> QED
    BY <2>1, <2>2
<1> QED
  BY <1>0, <1>1, <1>4, AdvanceFiled

\* Every other step: the vectors stand still, and no request comes to its save.
LEMMA OtherFiled ==
    ASSUME IInv, FiledInv, [Next]_vars, vector' = vector,
           \A x \in Requests : request'[x].phase = "save" => request'[x] = request[x]
    PROVE  FiledInv'
<1>1. DivergenceFiled'
  BY VectorsFiled
<1>2. ASSUME NEW x \in Requests PROVE FiledBefore(x)'
  BY StillFiled, NotSaving
<1> QED
  BY <1>1, <1>2 DEF FiledInv

LEMMA OtherStepsStand ==
    ASSUME IInv, NEW r \in Requests,
           (\E t \in Tills : Push(t, r)) \/ Insert(r) \/ Answered(r) \/ ServerCrash(r)
    PROVE  /\ vector' = vector
           /\ \A x \in Requests : request'[x].phase = "save" => request'[x] = request[x]
<1>1. CASE \E t \in Tills : Push(t, r)
  BY <1>1 DEF Push, cloudVars, IInv, TypeInv, ReviewTypeOK
<1>2. CASE Insert(r)
  BY <1>2 DEF Insert, Moved, IInv, TypeInv, ReviewTypeOK
<1>3. CASE Answered(r)
  BY <1>3 DEF Answered, Idle, cloudVars, IInv, TypeInv, ReviewTypeOK
<1>4. CASE ServerCrash(r)
  BY <1>4 DEF ServerCrash, Idle, cloudVars, IInv, TypeInv, ReviewTypeOK
<1> QED
  BY <1>1, <1>2, <1>3, <1>4

LEMMA NextFiled == IInv /\ FiledInv /\ [Next]_vars => FiledInv'
<1> SUFFICES ASSUME IInv, FiledInv, [Next]_vars PROVE FiledInv'
  OBVIOUS
<1>1. ASSUME NEW t \in Tills, GiveUp(t) PROVE FiledInv'
  BY <1>1, OtherFiled DEF GiveUp, cloudVars
<1>2. ASSUME NEW r \in Requests,
             (\E t \in Tills : Push(t, r)) \/ Insert(r) \/ Answered(r) \/ ServerCrash(r)
      PROVE  FiledInv'
  BY <1>2, OtherStepsStand, OtherFiled
<1>3. ASSUME NEW r \in Requests, Detect(r) PROVE FiledInv'
  BY <1>3, DetectFiled
<1>4. ASSUME NEW r \in Requests, File(r) PROVE FiledInv'
  BY <1>4, FileFiled
<1>5. ASSUME NEW r \in Requests, Save(r) PROVE FiledInv'
  BY <1>5, SaveFiled
<1>6. ASSUME NEW r \in Requests, DetectionFails(r) PROVE FiledInv'
  <2>1. /\ request[r].phase \in {"load", "file", "save"} /\ request' = Advanced(r)
        /\ vector' = vector
    BY <1>6 DEF DetectionFails, AfterFailure, cloudVars
  <2> QED
    BY <2>1, AdvanceFiled, VectorsFiled
<1>7. ASSUME NEW c \in reviews, Resolve(c) PROVE FiledInv'
  BY <1>7, OtherFiled DEF Resolve
<1>8. CASE UNCHANGED vars
  BY <1>8, OtherFiled DEF vars, cloudVars
<1> QED
  BY <1>1, <1>2, <1>3, <1>4, <1>5, <1>6, <1>7, <1>8 DEF Next

LEMMA InitFiled == Init => FiledInv
<1> SUFFICES ASSUME Init PROVE FiledInv
  OBVIOUS
<1>1. ASSUME NEW e \in Entities PROVE ~(Cardinality(Writers(vector[e])) > 1)
  <2>1. Writers(vector[e]) = {}
    BY DEF Init, Empty, Writers
  <2> QED
    BY <2>1, FS_EmptySet
<1>2. \A r \in Requests : request[r].phase # "save"
  BY DEF Init, Idle
<1> QED
  BY <1>1, <1>2 DEF FiledInv, FiledBefore, DivergenceFiled

\* Money that two terminals moved is always before a person, however many requests
\* are at work at once (conflict_resolution.rs policy_for, insert_conflict before
\* save_entity_vector).
THEOREM DivergenceIsFiled == Spec => []DivergenceFiled
<1>1. FiledInv => DivergenceFiled
  BY DEF FiledInv
<1>2. Spec => []FiledInv
  BY InitFiled, NextFiled, Invariance, PTL DEF Spec
<1> QED
  BY <1>1, <1>2, PTL
=============================================================================
