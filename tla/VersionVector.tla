---------------------------- MODULE VersionVector ----------------------------
(***************************************************************************)
(* Version vectors of the sync layer: one counter per terminal, 0 for a     *)
(* terminal that was never seen.                                           *)
(***************************************************************************)
EXTENDS Integers

CONSTANT Tills

Vector == [Tills -> Nat]

Empty == [t \in Tills |-> 0]

\* The single-entry vector a terminal stamps on what it pushes.
Stamp(t, n) == [Empty EXCEPT ![t] = n]

Leq(v, w) == \A t \in Tills : v[t] <= w[t]

\* observe: the pointwise maximum.
Join(v, w) == [t \in Tills |-> IF v[t] >= w[t] THEN v[t] ELSE w[t]]

Concurrent(v, w) == ~Leq(v, w) /\ ~Leq(w, v)

\* compare, from the side of v.
Compare(v, w) ==
    CASE v = w -> "equal"
      [] v # w /\ Leq(v, w) -> "before"
      [] v # w /\ Leq(w, v) -> "after"
      [] OTHER -> "concurrent"
=============================================================================
