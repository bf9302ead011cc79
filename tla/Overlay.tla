------------------------------ MODULE Overlay ------------------------------
(***************************************************************************)
(* What a simulated call has written: the fields of sim's stateDB as one   *)
(* record, and what each method of vm.StateDB does to it.  Balances,       *)
(* nonces, words and code are all in Val.  Constant level.                 *)
(***************************************************************************)
EXTENDS Keys, Integers, Sequences

CONSTANTS
    Norm,         \* normSlot: storage keys that differ in the multicoin bit are one
    Log,
    MaxRefund     \* bound

ASSUME OverlayAssumption ==
    /\ Norm \in [Slot -> Slot] /\ \A s \in Slot : Norm[Norm[s]] = Norm[s]
    /\ Zero \in Val /\ None \notin Val
    /\ MaxRefund \in Nat

(* Keys of balances, nonces, slots and transient. *)
Balance(x) == <<"balance", x>>
Nonce(x) == <<"nonce", x>>
Storage(x, s) == <<"slot", x, Norm[s]>>
Transient(x, s) == <<"transient", x, s>>

Cell ==
    {Balance(x) : x \in Addr} \cup {Nonce(x) : x \in Addr}
      \cup {Storage(x, s) : x \in Addr, s \in Slot} \cup {Transient(x, s) : x \in Addr, s \in Slot}

(* Members of created and destructed, and of the access list. *)
Created(x) == <<"created", x>>
Destructed(x) == <<"destructed", x>>
Warm(x) == <<"warm", x>>
WarmSlot(x, s) == <<"warmslot", x, s>>

Mark ==
    {Created(x) : x \in Addr} \cup {Destructed(x) : x \in Addr}
      \cup {Warm(x) : x \in Addr} \cup {WarmSlot(x, s) : x \in Addr, s \in Slot}

(* None stands for a key that is not in the map. *)
Written ==
    [over : [Cell -> Val \cup {None}], codes : [Addr -> Val \cup {None}],
     marks : SUBSET Mark, refund : 0..MaxRefund, logs : Seq(Log)]

(* A call starts with the caller's overrides and nothing else. *)
Fresh(overrides) ==
    [over |-> overrides, codes |-> [x \in Addr |-> None], marks |-> {},
     refund |-> 0, logs |-> <<>>]

WithCell(w, k, v) == [w EXCEPT !.over = [@ EXCEPT ![k] = v]]
WithCode(w, x, v) == [w EXCEPT !.codes = [@ EXCEPT ![x] = v]]
WithMarks(w, ms) == [w EXCEPT !.marks = @ \cup ms]
WithRefund(w, g) == [w EXCEPT !.refund = g]
WithLog(w, l) == [w EXCEPT !.logs = Append(@, l)]
=============================================================================
