--------------------------- MODULE MCConflictReview ---------------------------
(***************************************************************************)
(* ConflictReview for TLC: two terminals that both change one entity.       *)
(***************************************************************************)
EXTENDS ConflictReview, TLC

\* Odd rows come from terminal 1, even ones from terminal 2, all about one entity.
MCTillOf == [i \in Items |-> IF i % 2 = 1 THEN 1 ELSE 2]
MCEntityOf == [i \in Items |-> CHOOSE e \in Entities : TRUE]

\* The server treats its requests alike; used where no temporal property is checked.
MCRequests == Permutations(Requests)
=============================================================================
