----------------------------- MODULE CallState -----------------------------
(***************************************************************************)
(* What a simulated call may rely on: a method of vm.StateDB changes what  *)
(* it is for and nothing else, a frame of the EVM that fails leaves things *)
(* exactly as it found them, and a call starts with its overrides only.    *)
(* There is no journal here: every frame keeps a whole copy.               *)
(***************************************************************************)
EXTENDS Overlay

CONSTANT Overrides   \* what callers may override

VARIABLES
    cur,     \* what has been written
    saved    \* what had been when each open frame was entered

(* What one method of vm.StateDB may make of w. *)
Effect(w, z) ==
    \/ \E k \in Cell, v \in Val : z = WithCell(w, k, v)
    \/ \E x \in Addr, v \in Val : w.codes[x] = None /\ z = WithCode(w, x, v)
    \/ \E mark \in Mark : z = WithMarks(w, {mark})
    \/ \E x \in Addr, s \in Slot : z = WithMarks(WithMarks(w, {Warm(x)}), {WarmSlot(x, s)})
    \/ \E x \in Addr : z = WithCell(WithMarks(w, {Destructed(x)}), Balance(x), Zero)
    \/ \E g \in 0..MaxRefund : z = WithRefund(w, g)
    \/ \E l \in Log : z = WithLog(w, l)

NewCall ==
    /\ saved = <<>>
    /\ \E overrides \in Overrides : cur' = Fresh(overrides)
    /\ UNCHANGED saved

Do == Effect(cur, cur') /\ UNCHANGED saved

Enter == saved' = Append(saved, cur) /\ UNCHANGED cur

Leave ==
    /\ saved # <<>>
    /\ saved' = SubSeq(saved, 1, Len(saved) - 1)
    /\ UNCHANGED cur

Fail ==
    /\ saved # <<>>
    /\ saved' = SubSeq(saved, 1, Len(saved) - 1)
    /\ cur' = saved[Len(saved)]

Init == saved = <<>> /\ cur = Fresh([k \in Cell |-> None])

Next == NewCall \/ Do \/ Enter \/ Leave \/ Fail

Spec == Init /\ [][Next]_<<cur, saved>>
=============================================================================
