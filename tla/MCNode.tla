------------------------------- MODULE MCNode -------------------------------
(***************************************************************************)
(* Node on a tree with two forks at the genesis block and a second one     *)
(* above it: G - x1 - x2 - x3, x1 - z2, G - y1 - y2.  The blocks increment *)
(* an account (an import, which succeeds on any state), spend from it (a   *)
(* transaction, which fails on a state other than the parent's), clear its *)
(* slot and leave the account alone, destruct it and recreate it.          *)
(***************************************************************************)
EXTENDS Node

CONSTANTS a1, s1, v, c0, c1, c2, c3, c5, g, x1, x2, x3, y1, y2, z2

MCAddr == {a1}
MCSlot == {s1}
MCAcct == {c0, c1, c2, c3, c5}
MCVal == {v, Zero}
MCBlock == {g, x1, x2, x3, y1, y2, z2}

MCParent ==
    [b \in MCBlock \ {g} |->
       CASE b \in {x1, y1} -> g [] b \in {x2, z2} -> x1 [] b = x3 -> x2 [] b = y2 -> y1]

MCHeight ==
    [b \in MCBlock |->
       CASE b = g -> 1 [] b \in {x1, y1} -> 2 [] b \in {x2, y2, z2} -> 3 [] b = x3 -> 4]

MCChain[b \in MCBlock] == {b} \cup (IF b = g THEN {} ELSE MCChain[MCParent[b]])

Write(dest, acct, val) ==
    [dest |-> dest, acct |-> [a \in MCAddr |-> acct],
     slot |-> [a \in MCAddr |-> [s \in MCSlot |-> val]]]

(* The balance after one more import. *)
Inc(n) == CASE n = NoAcct -> c0 [] n = c0 -> c1 [] n = c1 -> c2 [] n = c2 -> c3 [] OTHER -> c5

MCRun(w, b) ==
    LET n == w.acct[a1]
    IN  CASE b \in {x1, y2} -> Write({}, Inc(n), None)
          [] b = x2 -> IF n # c1 THEN Fail ELSE Write({}, None, Zero)
          [] b = z2 -> IF n # c1 THEN Fail ELSE Write({a1}, None, None)
          [] b = x3 -> Write({a1}, Inc(n), v)
          [] b = y1 -> IF n # c0 THEN Fail ELSE Write({}, c3, Zero)

MCBase == [acct |-> [a \in MCAddr |-> c0], slot |-> [a \in MCAddr |-> [s \in MCSlot |-> v]]]

MCWorldOf[b \in MCBlock] ==
    IF b = g THEN MCBase
    ELSE After(MCWorldOf[MCParent[b]], MCRun(MCWorldOf[MCParent[b]], b))

MCDiff == [b \in MCBlock \ {g} |-> MCRun(MCWorldOf[MCParent[b]], b)]
=============================================================================
