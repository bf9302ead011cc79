------------------------------ MODULE LazyMap ------------------------------
(***************************************************************************)
(* mem.Map: a map of the state that holds the keys somebody asked for, and *)
(* that finalized blocks are applied to in place.  None is "never asked".  *)
(* Constant level.  Contract code is left out: it is content-addressed and *)
(* never changes.                                                          *)
(***************************************************************************)
EXTENDS FlatState

Map == [acct : [Addr -> Acct \cup {NoAcct, None}],
        slot : [Addr -> [Slot -> Val \cup {None}]]]

EmptyMap == [acct |-> [a \in Addr |-> None],
             slot |-> [a \in Addr |-> [s \in Slot |-> None]]]

Else(x, y) == IF x # None THEN x ELSE y

(* Map.Apply: a finalized block in place, restricted to the keys present. *)
Apply(m, diff) ==
    [acct |-> [a \in Addr |-> IF m.acct[a] = None THEN None
                              ELSE AcctAfter(m.acct[a], diff, a)],
     slot |-> [a \in Addr |-> [s \in Slot |-> IF m.slot[a][s] = None THEN None
                                   ELSE SlotAfter(m.slot[a][s], diff, a, s)]]]

(***************************************************************************)
(* lockAndDrain, the side buffers in turn: PinAccount, then PinSlot where  *)
(* the account is known by then.  A key that is already pinned keeps its   *)
(* value, so the first buffer that has one wins.                           *)
(***************************************************************************)
First(hits) == CHOOSE i \in hits : \A j \in hits : i <= j

Merge(m, bufs) ==
    LET A(a) == {i \in DOMAIN bufs : bufs[i].acct[a] # None}
        Owned(i, a) == m.acct[a] # None \/ \E j \in A(a) : j <= i
        S(a, s) == {i \in DOMAIN bufs : bufs[i].slot[a][s] # None /\ Owned(i, a)}
    IN  [acct |-> [a \in Addr |-> IF m.acct[a] # None \/ A(a) = {} THEN m.acct[a]
                                  ELSE bufs[First(A(a))].acct[a]],
         slot |-> [a \in Addr |-> [s \in Slot |->
                     IF m.slot[a][s] # None \/ S(a, s) = {} THEN m.slot[a][s]
                     ELSE bufs[First(S(a, s))].slot[a][s]]]]
=============================================================================
