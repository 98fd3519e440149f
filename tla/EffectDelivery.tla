--------------------------- MODULE EffectDelivery ---------------------------
(***************************************************************************)
(* What replication promises, with no queue, cloud or anchor in sight: an  *)
(* effect happens once on the terminal that originates it, and from then   *)
(* on may happen once on each of the others.                               *)
(***************************************************************************)
EXTENDS Naturals

CONSTANTS
    Terminals,   \* inventories that carry effects
    Effects,     \* the effects promised exactly-once treatment
    Origin(_)    \* Origin(e): the terminal that performs e

VARIABLE
    carried      \* carried[t][e]: how many times t's inventory carries e

Init == carried = [t \in Terminals |-> [e \in Effects |-> 0]]

\* e happens on its own terminal.
Perform(e) ==
    /\ carried[Origin(e)][e] = 0
    /\ carried' = [carried EXCEPT ![Origin(e)][e] = 1]

\* e, which has happened, reaches another terminal for the first time.
Deliver(t, e) ==
    /\ t # Origin(e)
    /\ carried[Origin(e)][e] = 1
    /\ carried[t][e] = 0
    /\ carried' = [carried EXCEPT ![t][e] = 1]

Next ==
    \/ \E e \in Effects : Perform(e)
    \/ \E t \in Terminals, e \in Effects : Deliver(t, e)

Spec == Init /\ [][Next]_carried
=============================================================================
