--------------------------- MODULE DaemonLifecycle ---------------------------
(***************************************************************************)
(* Start, stop and death of a background sync daemon: PgSyncDaemon (which   *)
(* an administrator starts and stops) and SyncDaemon share this code.       *)
(*                                                                         *)
(* A start installs the sender of the run's shutdown channel in a slot,     *)
(* raises the `running` flag, spawns the run loop and stores its handle;    *)
(* a stop takes the sender and the handle and waits for the loop.  The loop *)
(* owns a RunningFlagGuard that lowers the flag when it ends.  Every lock   *)
(* is held for one step only, so between any two of these steps the others  *)
(* run; a reader of the status may hold the read half of its lock.          *)
(***************************************************************************)
EXTENDS Naturals, FiniteSets

CONSTANTS
    Callers,   \* tasks that call start and stop
    Runs,      \* run loops; bound: each start that passes uses up one
    None       \* the empty slot and the empty handle

ASSUME LifecycleConstants == None \notin Runs

VARIABLES
    running,    \* DaemonStatus.running
    reading,    \* a status reader holds the lock
    slot,       \* shutdown_tx: the run whose sender is in the slot
    worker,     \* the run whose JoinHandle is stored
    signalled,  \* runs whose channel carries `true`
    loop,       \* loop[r]: where the task of run r is
    pc,         \* pc[c]: where caller c is in start or stop
    own,        \* own[c]: the run c is starting or waiting for
    reply,      \* reply[c]: how c's last stop returned
    before      \* before[c]: tasks alive when c's last stop was called

callVars == <<pc, own, reply, before>>
vars == <<running, reading, slot, worker, signalled, loop, callVars>>

TaskStates == {"none", "looping", "ticking", "exiting", "clearing", "unwinding",
               "over", "thread", "panicked"}

\* The task of run r has been spawned and its JoinHandle is not ready yet.
Alive(r) == loop[r] \in {"looping", "ticking", "exiting", "clearing", "unwinding"}

\* Run r may still push and pull.
Syncing(r) == loop[r] \in {"looping", "ticking"}

Init ==
    /\ running = FALSE
    /\ reading = FALSE
    /\ slot = None
    /\ worker = None
    /\ signalled = {}
    /\ loop = [r \in Runs |-> "none"]
    /\ pc = [c \in Callers |-> "idle"]
    /\ own = [c \in Callers |-> None]
    /\ reply = [c \in Callers |-> "none"]
    /\ before = [c \in Callers |-> {}]

-----------------------------------------------------------------------------
(* start_inner *)

\* is_running() said no.  (A start that finds it true returns false at once.)
StartCheck(c) ==
    /\ pc[c] = "idle"
    /\ ~running
    /\ \E r \in Runs :
        /\ loop[r] = "none"
        /\ \A d \in Callers : pc[d] # "idle" => own[d] # r
        /\ own' = [own EXCEPT ![c] = r]
    /\ pc' = [pc EXCEPT ![c] = "install"]
    /\ reply' = [reply EXCEPT ![c] = "none"]
    /\ UNCHANGED <<running, reading, slot, worker, signalled, loop, before>>

StartInstall(c) ==
    /\ pc[c] = "install"
    /\ slot' = own[c]
    /\ pc' = [pc EXCEPT ![c] = "mark"]
    /\ UNCHANGED <<running, reading, worker, signalled, loop, own, reply, before>>

StartMark(c) ==
    /\ pc[c] = "mark"
    /\ ~reading
    /\ running' = TRUE
    /\ pc' = [pc EXCEPT ![c] = "spawn"]
    /\ UNCHANGED <<reading, slot, worker, signalled, loop, own, reply, before>>

StartSpawn(c) ==
    /\ pc[c] = "spawn"
    /\ loop' = [loop EXCEPT ![own[c]] = "looping"]
    /\ pc' = [pc EXCEPT ![c] = "store"]
    /\ UNCHANGED <<running, reading, slot, worker, signalled, own, reply, before>>

StartStore(c) ==
    /\ pc[c] = "store"
    /\ worker' = own[c]
    /\ pc' = [pc EXCEPT ![c] = "idle"]
    /\ UNCHANGED <<running, reading, slot, signalled, loop, own, reply, before>>

-----------------------------------------------------------------------------
(* stop *)

StopSignal(c) ==
    /\ pc[c] = "idle"
    /\ signalled' = IF slot = None THEN signalled ELSE signalled \cup {slot}
    /\ slot' = None
    /\ before' = [before EXCEPT ![c] = {r \in Runs : Alive(r)}]
    /\ reply' = [reply EXCEPT ![c] = "none"]
    /\ pc' = [pc EXCEPT ![c] = "take"]
    /\ UNCHANGED <<running, reading, worker, loop, own>>

\* Without a handle to wait for, stop reports true.
StopTake(c) ==
    /\ pc[c] = "take"
    /\ worker' = None
    /\ own' = [own EXCEPT ![c] = worker]
    /\ \/ /\ worker = None
          /\ pc' = [pc EXCEPT ![c] = "idle"]
          /\ reply' = [reply EXCEPT ![c] = "true"]
       \/ /\ worker # None
          /\ pc' = [pc EXCEPT ![c] = "wait"]
          /\ UNCHANGED reply
    /\ UNCHANGED <<running, reading, slot, signalled, loop, before>>

StopJoined(c) ==
    /\ pc[c] = "wait"
    /\ ~Alive(own[c])
    /\ pc' = [pc EXCEPT ![c] = "idle"]
    /\ reply' = [reply EXCEPT ![c] = "true"]
    /\ UNCHANGED <<running, reading, slot, worker, signalled, loop, own, before>>

\* DAEMON_STOP_GRACE is over and the cycle in flight is not; the handle is gone.
StopTimeout(c) ==
    /\ pc[c] = "wait"
    /\ loop[own[c]] = "ticking"
    /\ pc' = [pc EXCEPT ![c] = "idle"]
    /\ reply' = [reply EXCEPT ![c] = "false"]
    /\ UNCHANGED <<running, reading, slot, worker, signalled, loop, own, before>>

-----------------------------------------------------------------------------
(* The run loop *)

\* The timer or a nudge wins the select, whether or not a stop is signalled.
TickBegin(r) ==
    /\ loop[r] = "looping"
    /\ loop' = [loop EXCEPT ![r] = "ticking"]
    /\ UNCHANGED <<running, reading, slot, worker, signalled, callVars>>

TickEnd(r) ==
    /\ loop[r] = "ticking"
    /\ loop' = [loop EXCEPT ![r] = "looping"]
    /\ UNCHANGED <<running, reading, slot, worker, signalled, callVars>>

\* MUTANT: the shutdown arm tells its own stop from a newer run by the slot.
ExitIfOwned(r) ==
    /\ loop[r] = "looping"
    /\ r \in signalled
    /\ slot = r
    /\ loop' = [loop EXCEPT ![r] = "exiting"]
    /\ UNCHANGED <<running, reading, slot, worker, signalled, callVars>>

\* The channel never closes while the guard keeps a clone of its sender, so
\* only a stop that took this run's sender ends the loop.
Exit(r) ==
    /\ loop[r] = "looping"
    /\ r \in signalled
    /\ loop' = [loop EXCEPT ![r] = "exiting"]
    /\ UNCHANGED <<running, reading, slot, worker, signalled, callVars>>

\* MUTANT: the earlier revision, which read an empty slot as "not ours".
OwnsByIdentity(r) == slot = r

still_owns_slot(r) == slot \in {None, r}

\* clear: the slot is checked under its lock, the flag lowered under another.
ClearCheck(r) ==
    /\ loop[r] = "exiting"
    /\ loop' = [loop EXCEPT ![r] = IF still_owns_slot(r) THEN "clearing" ELSE "over"]
    /\ UNCHANGED <<running, reading, slot, worker, signalled, callVars>>

ClearWrite(r) ==
    /\ loop[r] = "clearing"
    /\ ~reading
    /\ running' = FALSE
    /\ loop' = [loop EXCEPT ![r] = "over"]
    /\ UNCHANGED <<reading, slot, worker, signalled, callVars>>

Panic(r) ==
    /\ loop[r] = "ticking"
    /\ loop' = [loop EXCEPT ![r] = "unwinding"]
    /\ UNCHANGED <<running, reading, slot, worker, signalled, callVars>>

\* Drop cannot wait: a slot some start is about to write counts as owned, and a
\* status lock held by a reader leaves the flag to a thread.
DropGuard(r) ==
    /\ loop[r] = "unwinding"
    /\ \/ /\ ~still_owns_slot(r)
          /\ loop' = [loop EXCEPT ![r] = "panicked"]
          /\ UNCHANGED running
       \/ /\ still_owns_slot(r) \/ \E c \in Callers : pc[c] = "install"
          /\ running' = (running /\ reading)
          /\ loop' = [loop EXCEPT ![r] = IF reading THEN "thread" ELSE "panicked"]
    /\ UNCHANGED <<reading, slot, worker, signalled, callVars>>

\* The thread tries once more, then ends.
ThreadClear(r) ==
    /\ loop[r] = "thread"
    /\ running' = (running /\ reading)
    /\ loop' = [loop EXCEPT ![r] = "panicked"]
    /\ UNCHANGED <<reading, slot, worker, signalled, callVars>>

\* status() and is_running() of other tasks.
ReadBegin ==
    /\ ~reading
    /\ reading' = TRUE
    /\ UNCHANGED <<running, slot, worker, signalled, loop, callVars>>

ReadEnd ==
    /\ reading
    /\ reading' = FALSE
    /\ UNCHANGED <<running, slot, worker, signalled, loop, callVars>>

-----------------------------------------------------------------------------
StartStep(c) ==
    \/ StartCheck(c)
    \/ StartInstall(c)
    \/ StartMark(c)
    \/ StartSpawn(c)
    \/ StartStore(c)

StopStep(c) ==
    \/ StopSignal(c)
    \/ StopTake(c)
    \/ StopJoined(c)
    \/ StopTimeout(c)

TaskStep(r) ==
    \/ TickBegin(r)
    \/ TickEnd(r)
    \/ Exit(r)
    \/ ClearCheck(r)
    \/ ClearWrite(r)
    \/ Panic(r)
    \/ DropGuard(r)
    \/ ThreadClear(r)

Next ==
    \/ \E c \in Callers : StartStep(c) \/ StopStep(c)
    \/ \E r \in Runs : TaskStep(r)
    \/ ReadBegin
    \/ ReadEnd

Spec == Init /\ [][Next]_vars

\* A cycle ends (every request of it has a timeout), a reader lets go, the select is
\* random among its ready arms, and the lock queues its waiters.  Nothing is asked of
\* the callers: a start or a stop may be abandoned half way.
Fairness ==
    /\ WF_vars(ReadEnd)
    /\ \A r \in Runs :
        /\ WF_vars(TickEnd(r))
        /\ SF_vars(Exit(r))
        /\ WF_vars(ClearCheck(r))
        /\ SF_vars(ClearWrite(r))
        /\ WF_vars(DropGuard(r))

FairSpec == Spec /\ Fairness

-----------------------------------------------------------------------------
(* Properties *)

\* At most one run loop pushes and pulls: start returns "`false` when one was already
\* running".  The code does not keep it: a start looks at the flag, lets go of the lock
\* and raises the flag two steps later, so two starts that overlap both spawn.
OneLoop ==
    \A r, s \in Runs : Syncing(r) /\ Syncing(s) => r = s

\* A guard lowers the flag for its own run only: "this stale task must not clobber the new
\* run's status".  The code does not keep it where calls overlap: clear lets go of the slot
\* before it writes the flag, and a start that passed its check long ago installs itself,
\* raises the flag and spawns in between.
NewRunSpared ==
    [][running /\ ~running' => slot = None \/ ~Syncing(slot)]_vars

\* Some task or start will still write the flag.
FlagHasOwner ==
    \/ \E r \in Runs : Alive(r) \/ loop[r] = "thread"
    \/ \E c \in Callers : pc[c] \in {"install", "mark", "spawn"}

\* Unless a tick panicked, the flag is down once the last task has ended: no
\* stop leaves a daemon that is off and cannot be started again.
FlagReleased ==
    running /\ (\A r \in Runs : loop[r] # "panicked") => FlagHasOwner

\* RunningFlagGuard: "the flag can no longer outlive the task that owns it".  The code
\* does not keep it: after a panic the flag is lowered by attempts that do not wait, and
\* a status reader makes both fail.
FlagCleared == running => FlagHasOwner

\* stop: "returns true when the loop exit was observed"; no task that was alive
\* when it was called is alive when it has returned true.  The code does not keep it: a
\* stop that finds no handle returns true, and another stop may be waiting on it.
StopHonest ==
    \A c \in Callers : reply[c] = "true" => \A r \in before[c] : ~Alive(r)

\* A run that a stop has signalled ends, however many ticks the timer and the
\* nudges still win and whatever happens to the stop that waited for it.
StopEnds ==
    \A r \in Runs : r \in signalled /\ Alive(r) ~> ~Alive(r)
=============================================================================
