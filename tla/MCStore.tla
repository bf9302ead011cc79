------------------------------ MODULE MCStore ------------------------------
(***************************************************************************)
(* Store on three addresses with one slot each.  Address a1 is in the      *)
(* baseline with storage, a2 is not in it, and a3 is in it without storage *)
(* and no block touches it.  The batches cover a plain write, a cleared    *)
(* slot, a destruct, a destruct with recreation (with and without a slot   *)
(* write) and a block that touches nothing.                                *)
(***************************************************************************)
EXTENDS Store

CONSTANTS a1, a2, a3, s1, p, q, u, v

MCAddr == {a1, a2, a3}
MCSlot == {s1}
MCAcct == {p, q}
MCVal == {u, v, Zero}

MCBase == [acct |-> [a \in MCAddr |-> IF a = a2 THEN NoAcct ELSE p],
           slot |-> [a \in MCAddr |-> [s \in MCSlot |-> IF a = a1 THEN u ELSE Zero]]]

One(a, dest, acct, val) ==
    [dest |-> dest,
     acct |-> [x \in MCAddr |-> IF x = a THEN acct ELSE None],
     slot |-> [x \in MCAddr |-> [s \in MCSlot |-> IF x = a THEN val ELSE None]]]

MCBatches ==
    {One(a1, {}, None, None), One(a1, {}, q, v), One(a1, {}, None, Zero),
     One(a1, {a1}, None, None), One(a1, {a1}, q, None), One(a1, {a1}, q, v),
     One(a2, {}, p, v)}
=============================================================================
