------------------------ MODULE DaemonLifecycleProofs ------------------------
(***************************************************************************)
(* That the flag of a daemon comes down again, for every number of runs and *)
(* callers and however their calls overlap.  It rests on the slot: a guard  *)
(* that leaves the flag up does so for a newer run that is still alive,     *)
(* because a sender taken out of the slot never returns to it.              *)
(***************************************************************************)
EXTENDS DaemonLifecycle, TLAPS

TypeOK ==
    /\ running \in BOOLEAN
    /\ reading \in BOOLEAN
    /\ loop \in [Runs -> TaskStates]
    /\ pc \in [Callers -> {"idle", "install", "mark", "spawn", "store", "take", "wait"}]
    /\ own \in [Callers -> Runs \cup {None}]
    /\ worker \in Runs \cup {None}
    /\ slot \in Runs \cup {None}
    /\ signalled \subseteq Runs

Starting == {c \in Callers : pc[c] \in {"install", "mark", "spawn"}}

\* The starts that have put the sender of run r into the slot and not spawned it.
Heirs(r) == {c \in Callers : pc[c] \in {"mark", "spawn"} /\ own[c] = r}

\* Every start is about a run of its own that has no task yet.
StartsFresh ==
    /\ \A c \in Starting : own[c] \in Runs /\ loop[own[c]] = "none"
    /\ \A c, d \in Starting : own[c] = own[d] => c = d

\* The run in the slot is being started, runs, or panicked.
SlotLive ==
    slot # None =>
        \/ Heirs(slot) # {}
        \/ loop[slot] \in {"looping", "ticking", "unwinding", "thread", "panicked"}

\* A sender that was taken out of the slot never returns to it.
SignalledOnce ==
    \A r \in signalled :
        /\ slot # r
        /\ \A c \in Callers : pc[c] = "install" => own[c] # r
        /\ loop[r] = "none" => Heirs(r) # {}

\* Only a run that was signalled ends without a panic.
EndedBySignal ==
    \A r \in Runs : loop[r] \in {"exiting", "clearing", "over"} => r \in signalled

SlotInv == TypeOK /\ StartsFresh /\ SlotLive /\ SignalledOnce /\ EndedBySignal

LEMMA StartKeepsSlot ==
    ASSUME SlotInv, FlagReleased, NEW c \in Callers, StartStep(c)
    PROVE  SlotInv' /\ FlagReleased'
<1> USE LifecycleConstants
    DEF SlotInv, TypeOK, StartsFresh, SlotLive, SignalledOnce, EndedBySignal, Starting, Heirs,
        FlagReleased, FlagHasOwner, Alive, TaskStates
<1>1. CASE StartCheck(c)
    BY <1>1 DEF StartCheck
<1>2. CASE StartInstall(c)
    BY <1>2 DEF StartInstall
<1>3. CASE StartMark(c)
    BY <1>3 DEF StartMark
<1>4. CASE StartSpawn(c)
    BY <1>4 DEF StartSpawn
<1>5. CASE StartStore(c)
    BY <1>5 DEF StartStore
<1> QED BY <1>1, <1>2, <1>3, <1>4, <1>5 DEF StartStep

LEMMA StopKeepsSlot ==
    ASSUME SlotInv, FlagReleased, NEW c \in Callers, StopStep(c)
    PROVE  SlotInv' /\ FlagReleased'
<1> USE LifecycleConstants
    DEF SlotInv, TypeOK, StartsFresh, SlotLive, SignalledOnce, EndedBySignal, Starting, Heirs,
        FlagReleased, FlagHasOwner, Alive, TaskStates
<1>1. CASE StopSignal(c)
  <2>1. /\ signalled' = IF slot = None THEN signalled ELSE signalled \cup {slot}
        /\ slot' = None
        /\ pc[c] = "idle" /\ pc' = [pc EXCEPT ![c] = "take"]
        /\ UNCHANGED <<running, reading, worker, loop, own>>
    BY <1>1 DEF StopSignal
  <2>2. TypeOK' /\ SlotLive' /\ EndedBySignal' /\ FlagReleased'
    BY <2>1
  <2>3. /\ \A d \in Callers : pc'[d] = IF d = c THEN "take" ELSE pc[d]
        /\ Starting' = Starting /\ \A r : Heirs(r)' = Heirs(r)
    BY <2>1
  <2>4. StartsFresh'
    BY <2>1, <2>3
  <2>5. CASE slot = None
    BY <2>1, <2>2, <2>3, <2>4, <2>5
  <2>6. CASE slot # None
    <3>1. slot \in Runs /\ \A d \in Callers : pc[d] = "install" => own[d] # slot
      BY <2>6
    <3>2. loop[slot] = "none" => Heirs(slot) # {}
      BY <2>6
    <3>3. ASSUME NEW q \in signalled'
          PROVE  /\ slot' # q
                 /\ \A d \in Callers : pc'[d] = "install" => own'[d] # q
                 /\ loop'[q] = "none" => Heirs(q)' # {}
      <4>1. q \in signalled \/ q = slot
        BY <2>1, <2>6, <3>3
      <4>2. slot' # q
        BY <2>1, <2>6, <4>1
      <4>3. /\ \A d \in Callers : pc[d] = "install" => own[d] # q
            /\ loop[q] = "none" => Heirs(q) # {}
        BY <3>1, <3>2, <4>1
      <4> HIDE DEF Heirs
      <4> QED BY <2>1, <2>3, <4>2, <4>3
    <3>4. SignalledOnce'
      <4> HIDE DEF Heirs
      <4> QED BY <3>3
    <3> QED BY <2>2, <2>4, <3>4
  <2> QED BY <2>5, <2>6
<1>2. CASE StopTake(c)
    BY <1>2 DEF StopTake
<1>3. CASE StopJoined(c)
    BY <1>3 DEF StopJoined
<1>4. CASE StopTimeout(c)
    BY <1>4 DEF StopTimeout
<1> QED BY <1>1, <1>2, <1>3, <1>4 DEF StopStep

\* A task that ends without a panic and finds another run in the slot leaves the
\* flag to that run, which is live; any other lowers it.
LEMMA TaskKeepsSlot ==
    ASSUME SlotInv, FlagReleased, NEW r \in Runs, TaskStep(r)
    PROVE  SlotInv' /\ FlagReleased'
<1> USE DEF SlotInv, TypeOK, StartsFresh, SlotLive, SignalledOnce, EndedBySignal, Starting,
            Heirs, FlagReleased, FlagHasOwner, Alive, TaskStates, still_owns_slot
<1>1. CASE TickBegin(r)
    BY <1>1 DEF TickBegin, callVars
<1>2. CASE TickEnd(r)
    BY <1>2 DEF TickEnd, callVars
<1>3. CASE Exit(r)
    BY <1>3 DEF Exit, callVars
<1>4. CASE ClearCheck(r)
    BY <1>4 DEF ClearCheck, callVars
<1>5. CASE ClearWrite(r)
  <2>1. /\ loop[r] = "clearing" /\ loop' = [loop EXCEPT ![r] = "over"] /\ running' = FALSE
        /\ UNCHANGED <<reading, slot, worker, signalled, callVars>>
    BY <1>5 DEF ClearWrite
  <2>2. r \in signalled /\ slot # r
    BY <2>1
  <2>3. TypeOK' /\ FlagReleased'
    BY <2>1 DEF callVars
  <2>4. StartsFresh' /\ SlotLive'
    BY <2>1, <2>2 DEF callVars
  <2>5. SignalledOnce' /\ EndedBySignal'
    BY <2>1, <2>2 DEF callVars
  <2> QED BY <2>3, <2>4, <2>5
<1>6. CASE Panic(r)
    BY <1>6 DEF Panic, callVars
<1>7. CASE DropGuard(r)
  <2>1. /\ loop[r] = "unwinding" /\ running' \in BOOLEAN
        /\ loop' = [loop EXCEPT ![r] = "panicked"] \/ loop' = [loop EXCEPT ![r] = "thread"]
        /\ UNCHANGED <<reading, slot, worker, signalled, callVars>>
    <3>1. (running /\ reading) \in BOOLEAN
      OBVIOUS
    <3> QED BY <1>7, <3>1 DEF DropGuard
  <2>2. TypeOK' /\ FlagReleased'
    BY <2>1 DEF callVars
  <2>3. StartsFresh' /\ SlotLive'
    BY <2>1 DEF callVars
  <2>4. \A q \in Runs : (loop'[q] = "none" => loop[q] = "none") /\ Heirs(q)' = Heirs(q)
    BY <2>1 DEF callVars
  <2>5. SignalledOnce'
    <3> HIDE DEF Heirs
    <3> QED BY <2>1, <2>4 DEF callVars
  <2>6. EndedBySignal'
    BY <2>1 DEF callVars
  <2> QED BY <2>2, <2>3, <2>5, <2>6
<1>8. CASE ThreadClear(r)
    BY <1>8 DEF ThreadClear, callVars
<1> QED BY <1>1, <1>2, <1>3, <1>4, <1>5, <1>6, <1>7, <1>8 DEF TaskStep

LEMMA NextKeepsSlot ==
    ASSUME SlotInv, FlagReleased, [Next]_vars
    PROVE  SlotInv' /\ FlagReleased'
<1>1. CASE \E c \in Callers : StartStep(c) \/ StopStep(c)
    BY <1>1, StartKeepsSlot, StopKeepsSlot
<1>2. CASE \E r \in Runs : TaskStep(r)
    BY <1>2, TaskKeepsSlot
<1>3. CASE ReadBegin \/ ReadEnd \/ UNCHANGED vars
  <2>1. UNCHANGED <<running, slot, worker, signalled, loop, pc, own>> /\ reading' \in BOOLEAN
    BY <1>3 DEF ReadBegin, ReadEnd, vars, callVars, SlotInv, TypeOK
  <2>2. TypeOK'
    BY <2>1 DEF SlotInv, TypeOK
  <2>3. StartsFresh' /\ SlotLive' /\ SignalledOnce' /\ EndedBySignal'
    BY <2>1 DEF SlotInv, StartsFresh, SlotLive, SignalledOnce, EndedBySignal, Starting, Heirs
  <2>4. FlagReleased'
    BY <2>1 DEF FlagReleased, FlagHasOwner, Alive
  <2> QED BY <2>2, <2>3, <2>4 DEF SlotInv
<1> QED BY <1>1, <1>2, <1>3 DEF Next

\* However calls overlap, the flag is down once the last task has ended, unless one
\* panicked: no stop leaves a daemon that is off and cannot be started again.
THEOREM FlagComesDown == Spec => []FlagReleased
<1>1. Init => SlotInv /\ FlagReleased
    BY DEF Init, SlotInv, TypeOK, StartsFresh, SlotLive, SignalledOnce, EndedBySignal,
           Starting, Heirs, FlagReleased, TaskStates
<1>2. SlotInv /\ FlagReleased /\ [Next]_vars => (SlotInv /\ FlagReleased)'
    BY NextKeepsSlot
<1> QED BY <1>1, <1>2, PTL DEF Spec
=============================================================================
