------------------------------ MODULE MCLoader ------------------------------
(***************************************************************************)
(* Two segments of two accounts.  The first accounts of both segments      *)
(* share a code; one account of each segment has storage.                  *)
(***************************************************************************)
EXTENDS Loader

MCSegOf == [a \in 0..3 |-> a \div 2]

CONSTANTS c1, c2

MCCodeOf == [a \in 0..3 |-> CASE a = 1 -> c2 [] a = 3 -> NoCode [] OTHER -> c1]
=============================================================================
