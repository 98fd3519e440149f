---------------------------- MODULE StockCounter ----------------------------
(***************************************************************************)
(* What replicated stock promises: a counter per terminal that moves by the *)
(* effects the terminal has seen, each once, in whatever order they arrive, *)
(* and never below zero, unless it oversells.  Corrections are local: they  *)
(* never travel.                                                           *)
(***************************************************************************)
EXTENDS Integers

CONSTANTS
    Terminals,
    Firm,         \* terminals that sell only what they have
    Effects,
    Opening,      \* units at every terminal at the start
    Deltas        \* what an effect may add

VARIABLES
    value,        \* value[t]: units at t
    known,        \* known[t]: effects t has seen
    size,         \* size[e]: what e adds, 0 before it is issued
    undone        \* effects their own terminal has taken back

counterVars == <<value, known, size, undone>>

Init ==
    /\ value = [t \in Terminals |-> Opening]
    /\ known = [t \in Terminals |-> {}]
    /\ size = [e \in Effects |-> 0]
    /\ undone = {}

\* Nothing is said of the value of a terminal that oversells.
Add(t, d) ==
    /\ value' = [value EXCEPT ![t] = value'[t]]
    /\ t \in Firm => value[t] + d >= 0 /\ value'[t] = value[t] + d

Issue(t, e, d) ==
    /\ size[e] = 0
    /\ Add(t, d)
    /\ size' = [size EXCEPT ![e] = d]
    /\ known' = [known EXCEPT ![t] = @ \union {e}]
    /\ UNCHANGED undone

See(t, e) ==
    /\ size[e] # 0
    /\ e \notin known[t]
    /\ Add(t, size[e])
    /\ known' = [known EXCEPT ![t] = @ \union {e}]
    /\ UNCHANGED <<size, undone>>

\* A terminal takes back an effect, once; the others are not told.
Undo(t, e) ==
    /\ e \in known[t] \ undone
    /\ Add(t, -size[e])
    /\ undone' = undone \union {e}
    /\ UNCHANGED <<known, size>>

Next ==
    \E t \in Terminals, e \in Effects :
        \/ \E d \in Deltas : Issue(t, e, d)
        \/ See(t, e)
        \/ Undo(t, e)

Spec == Init /\ [][Next]_counterVars
=============================================================================
