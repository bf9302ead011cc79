------------------------------ MODULE MCReader ------------------------------
(***************************************************************************)
(* Reader on the tree G - x1 - x2, G - y1, with one account and one slot:  *)
(* x1 writes the account, x2 destructs it, y1 writes the slot.             *)
(***************************************************************************)
EXTENDS Reader

CONSTANTS a1, s1, v, u, c0, c1, g, x1, x2, y1

MCAddr == {a1}
MCSlot == {s1}
MCAcct == {c0, c1}
MCVal == {u, v, Zero}
MCBlock == {g, x1, x2, y1}

MCParent == [b \in MCBlock \ {g} |-> IF b = x2 THEN x1 ELSE g]

MCHeight == [b \in MCBlock |-> IF b = g THEN 1 ELSE IF b = x2 THEN 3 ELSE 2]

MCChain[b \in MCBlock] == {b} \cup (IF b = g THEN {} ELSE MCChain[MCParent[b]])

Write(dest, acct, val) ==
    [dest |-> dest, acct |-> [a \in MCAddr |-> acct],
     slot |-> [a \in MCAddr |-> [s \in MCSlot |-> val]]]

MCRun(w, b) ==
    CASE b = x1 -> Write({}, c1, None)
      [] b = x2 -> IF w.acct[a1] # c1 THEN Fail ELSE Write({a1}, None, None)
      [] b = y1 -> Write({}, None, u)

MCBase == [acct |-> [a \in MCAddr |-> c0], slot |-> [a \in MCAddr |-> [s \in MCSlot |-> v]]]

MCWorldOf[b \in MCBlock] ==
    IF b = g THEN MCBase
    ELSE After(MCWorldOf[MCParent[b]], MCRun(MCWorldOf[MCParent[b]], b))

MCDiff == [b \in MCBlock \ {g} |-> MCRun(MCWorldOf[MCParent[b]], b)]

(***************************************************************************)
(* Constraint of the run "reader": a bot that has outlived its bus is not  *)
(* followed any further.  It never attaches again, and no invariant of the *)
(* run says anything about it.                                             *)
(***************************************************************************)
OnCurrentBus == seen \in {0, Openings}
=============================================================================
