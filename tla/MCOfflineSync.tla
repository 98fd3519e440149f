---------------------------- MODULE MCOfflineSync ----------------------------
(***************************************************************************)
(* Instances of OfflineSync for TLC.  Terminal t1 produces rows and t2      *)
(* pulls them, or both do and t3 pulls; each cfg picks the rows, the        *)
(* workers and what may go wrong.                                          *)
(***************************************************************************)
EXTENDS OfflineSync

CONSTANTS t1, t2, t3,       \* terminals
          d1, d2, d3,       \* their daemons
          m1, m2,           \* the "sync now" commands of t1 and t2
          p1                \* the tablet loop of t1

\* Every worker runs on the terminal its name says.
MCHost == [w \in Workers |-> IF w = d3 THEN t3
                            ELSE IF w \in {d2, m2} THEN t2 ELSE t1]

\* All rows come from t1, or the odd ones from t1 and the even ones from t2.
HomeT1 == [i \in Items |-> t1]
HomeBoth == [i \in Items |-> IF i % 2 = 1 THEN t1 ELSE t2]

\* Rows 1 and 2 name the same sale; every other row names an effect of its own.
EffectPair == [i \in Items |-> IF i = 2 THEN 1 ELSE i]
EffectOwn == [i \in Items |-> i]

\* SyncPriority: every row alike, or the later rows more urgent.
PriorityEqual == [i \in Items |-> 0]
PriorityLater == [i \in Items |-> IF i = 1 THEN 1 ELSE 0]
=============================================================================
