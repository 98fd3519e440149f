----------------------------- MODULE MCReplicas -----------------------------
(***************************************************************************)
(* Replicas for TLC: a till that sells, refunds and saves the setting, and  *)
(* an office that sells and adjusts, where the till or the office may       *)
(* oversell.                                                               *)
(***************************************************************************)
EXTENDS Replicas

CONSTANTS till, office, main, depot, s1, s2, r1, a1, c1, c2

MCHome == [e \in Rows |-> IF e \in Adjustments \union {s2} THEN office ELSE till]
MCSaleOf == [r \in Refunds |-> s1]
MCOpening == [l \in Locations |-> 1]
NoOverselling == [t \in Terminals |-> {}]
TillOversells == [t \in Terminals |-> IF t = till THEN Locations ELSE {}]
OfficeOversells == [t \in Terminals |-> IF t = office THEN Locations ELSE {}]
=============================================================================
