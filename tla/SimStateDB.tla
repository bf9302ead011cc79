----------------------------- MODULE SimStateDB -----------------------------
(***************************************************************************)
(* sim: one executor, its stateDB with the journal that undoes what a      *)
(* failed frame wrote, and the EVM it keeps from call to call.             *)
(*                                                                         *)
(* External: the EVM runs any program, so any method of vm.StateDB may be  *)
(* called at any time of a call; frames are nested, and a frame ends with  *)
(* success or reverts to the snapshot it took.  It deposits code only      *)
(* where there is none (its collision check).  Any read may fail.          *)
(***************************************************************************)
EXTENDS Overlay

CONSTANTS
    Overrides,               \* BalanceOverrides and StorageOverrides of a call
    Tip,                     \* tips of the view
    MaxJournal, MaxDepth     \* bounds

VARIABLES
    db,        \* the overlay
    journal,
    frames,    \* external: the snapshot of each open frame of the EVM
    undoTo,    \* RevertToSnapshot in progress: its argument, or None
    hist,      \* history variable: hist[n + 1] is db when the journal had length n
    stage,     \* "idle", "prepare" or "run"
    tip,       \* the tip of the view the call got
    evm,       \* None, or the tip it was built for and whether it was cancelled
    readErr    \* the first read error of the call

dbVars == <<db, journal, hist>>
execVars == <<stage, tip, evm, readErr>>
simVars == <<dbVars, frames, undoTo, execVars>>

ASSUME SimAssumption ==
    /\ Overrides \subseteq [Cell -> Val \cup {None}]
    /\ None \notin Tip
    /\ MaxJournal \in Nat /\ MaxDepth \in Nat /\ None \notin Nat

Entry ==
    [kind : {"value"}, at : Cell, prev : Val \cup {None}]
      \cup [kind : {"code"}, at : Addr] \cup [kind : {"mark"}, at : Mark]
      \cup [kind : {"warm"}, at : Addr] \cup [kind : {"refund"}, prev : Nat]
      \cup [kind : {"log"}]

(* jBalance, jStorage, jNonce and jTransient; prev is None for had = false. *)
Value(k) == [kind |-> "value", at |-> k, prev |-> db.over[k]]
Refund == [kind |-> "refund", prev |-> db.refund]
(* jCreated, jDestruct and jALSlot. *)
Marked(mark) == [kind |-> "mark", at |-> mark]
(* jALAddr. *)
Warmed(x) == [kind |-> "warm", at |-> x]
-----------------------------------------------------------------------------
(* Mutant: a key that was not in the overlay is left there with its value. *)
UndoKeepsNew(w, e) ==
    CASE e.kind = "value"  -> WithCell(w, e.at, IF e.prev = None THEN w.over[e.at] ELSE e.prev)
      [] e.kind = "code"   -> WithCode(w, e.at, None)
      [] e.kind = "mark"   -> [w EXCEPT !.marks = @ \ {e.at}]
      [] e.kind = "warm"   -> [w EXCEPT !.marks = @ \ {Warm(e.at)}]
      [] e.kind = "refund" -> WithRefund(w, e.prev)
      [] e.kind = "log"    -> [w EXCEPT !.logs = SubSeq(@, 1, Len(@) - 1)]

(* One round of the loop in RevertToSnapshot. *)
Undo(w, e) ==
    CASE e.kind = "value"  -> WithCell(w, e.at, e.prev)
      [] e.kind = "code"   -> WithCode(w, e.at, None)
      [] e.kind = "mark"   -> [w EXCEPT !.marks = @ \ {e.at}]
      [] e.kind = "warm"   ->
           [w EXCEPT !.marks = @ \ ({Warm(e.at)} \cup {WarmSlot(e.at, s) : s \in Slot})]
      [] e.kind = "refund" -> WithRefund(w, e.prev)
      [] e.kind = "log"    -> [w EXCEPT !.logs = SubSeq(@, 1, Len(@) - 1)]
-----------------------------------------------------------------------------
(* A method has written w, and journalled e. *)
Journalled(e, w) ==
    /\ Len(journal) < MaxJournal
    /\ journal' = Append(journal, e) /\ hist' = Append(hist, w) /\ db' = w

Journalled2(e1, w1, e2, w2) ==
    /\ Len(journal) + 1 < MaxJournal
    /\ journal' = Append(Append(journal, e1), e2)
    /\ hist' = Append(Append(hist, w1), w2) /\ db' = w2

Running == stage = "run" /\ frames # <<>> /\ undoTo = None

(* Prepare warms addresses and slots before the first frame. *)
Preparing == stage = "prepare" \/ Running

Method == UNCHANGED <<frames, undoTo, execVars>>

(* AddBalance, SubBalance, SetNonce, SetState, SetTransientState. *)
Set(k, v) ==
    /\ Running
    /\ Journalled(Value(k), WithCell(db, k, v))
    /\ Method

SetCode(x, v) ==
    /\ Running /\ db.codes[x] = None
    /\ Journalled([kind |-> "code", at |-> x], WithCode(db, x, v))
    /\ Method

CreateAccount(x) ==
    /\ Running /\ Created(x) \notin db.marks
    /\ Journalled(Marked(Created(x)), WithMarks(db, {Created(x)}))
    /\ Method

(* SelfDestruct; Selfdestruct6780 only calls it for a created account. *)
SelfDestruct(x) ==
    /\ Running
    /\ LET w == WithMarks(db, {Destructed(x)})
       IN  \/ /\ Destructed(x) \in db.marks
              /\ Journalled(Value(Balance(x)), WithCell(db, Balance(x), Zero))
           \/ /\ Destructed(x) \notin db.marks
              /\ Journalled2(Marked(Destructed(x)), w,
                             Value(Balance(x)), WithCell(w, Balance(x), Zero))
    /\ Method

AddAddressToAccessList(x) ==
    /\ Preparing /\ Warm(x) \notin db.marks
    /\ Journalled(Warmed(x), WithMarks(db, {Warm(x)}))
    /\ Method

AddSlotToAccessList(x, s) ==
    /\ Preparing /\ WarmSlot(x, s) \notin db.marks
    /\ LET w == WithMarks(db, {Warm(x)})
       IN  \/ /\ Warm(x) \in db.marks
              /\ Journalled(Marked(WarmSlot(x, s)), WithMarks(db, {WarmSlot(x, s)}))
           \/ /\ Warm(x) \notin db.marks
              /\ Journalled2(Warmed(x), w,
                             Marked(WarmSlot(x, s)), WithMarks(w, {WarmSlot(x, s)}))
    /\ Method

AddRefund(g) ==
    /\ Running /\ db.refund + g <= MaxRefund
    /\ Journalled(Refund, WithRefund(db, db.refund + g))
    /\ Method

(* An underflow is journalled before it fails. *)
SubRefund(g) ==
    /\ Running
    /\ \/ /\ g <= db.refund
          /\ Journalled(Refund, WithRefund(db, db.refund - g))
          /\ UNCHANGED <<evm, readErr>>
       \/ /\ g > db.refund
          /\ Journalled(Refund, db)
          /\ readErr' = TRUE /\ evm' = [evm EXCEPT !.cancelled = TRUE]
    /\ UNCHANGED <<frames, undoTo, stage, tip>>

AddLog(l) ==
    /\ Running
    /\ Journalled([kind |-> "log"], WithLog(db, l))
    /\ Method

(* A read of the view fails: fail cancels the EVM. *)
ReadFails ==
    /\ Running
    /\ readErr' = TRUE /\ evm' = [evm EXCEPT !.cancelled = TRUE]
    /\ UNCHANGED <<dbVars, frames, undoTo, stage, tip>>
-----------------------------------------------------------------------------
(* A frame begins with a Snapshot; the first one ends Prepare. *)
Snapshot ==
    /\ stage = "prepare" \/ Running
    /\ Len(frames) < MaxDepth
    /\ stage' = "run"
    /\ frames' = Append(frames, Len(journal))
    /\ UNCHANGED <<dbVars, undoTo, tip, evm, readErr>>

FrameSucceeds ==
    /\ Running
    /\ frames' = SubSeq(frames, 1, Len(frames) - 1)
    /\ UNCHANGED <<dbVars, undoTo, execVars>>

FrameFails ==
    /\ Running
    /\ undoTo' = frames[Len(frames)]
    /\ frames' = SubSeq(frames, 1, Len(frames) - 1)
    /\ UNCHANGED <<dbVars, execVars>>

RevertOne ==
    /\ undoTo # None /\ Len(journal) > undoTo
    /\ db' = Undo(db, journal[Len(journal)])
    /\ journal' = SubSeq(journal, 1, Len(journal) - 1)
    /\ hist' = SubSeq(hist, 1, Len(hist) - 1)
    /\ UNCHANGED <<frames, undoTo, execVars>>

RevertDone ==
    /\ undoTo # None /\ Len(journal) <= undoTo
    /\ undoTo' = None
    /\ UNCHANGED <<dbVars, frames, execVars>>
-----------------------------------------------------------------------------
(* Mutant: the EVM is rebuilt only for the first call. *)
EnvForOld(t) == IF evm = None THEN [tip |-> t, cancelled |-> FALSE] ELSE evm

(* rebuildEnv, unless the EVM at hand was built for this tip. *)
EnvFor(t) == IF evm = None \/ evm.tip # t THEN [tip |-> t, cancelled |-> FALSE] ELSE evm

(* Execute up to Prepare; without a tip it returns an error at once. *)
Execute(overrides, t) ==
    /\ stage = "idle" /\ stage' = "prepare"
    /\ tip' = t /\ evm' = EnvFor(t) /\ readErr' = FALSE
    /\ db' = Fresh(overrides) /\ journal' = <<>> /\ hist' = <<Fresh(overrides)>>
    /\ UNCHANGED <<frames, undoTo>>

(* Execute after evm.Call: a cancelled EVM is not kept. *)
Return ==
    /\ stage = "run" /\ frames = <<>> /\ undoTo = None
    /\ stage' = "idle"
    /\ evm' = IF readErr THEN None ELSE evm
    /\ UNCHANGED <<dbVars, frames, undoTo, tip, readErr>>
-----------------------------------------------------------------------------
SimInit ==
    /\ db = Fresh([k \in Cell |-> None]) /\ journal = <<>> /\ hist = <<db>>
    /\ frames = <<>> /\ undoTo = None
    /\ stage = "idle" /\ tip = None /\ evm = None /\ readErr = FALSE

Call ==
    \/ \E k \in Cell, v \in Val : Set(k, v)
    \/ \E x \in Addr, v \in Val : SetCode(x, v)
    \/ \E x \in Addr : CreateAccount(x)
    \/ \E x \in Addr : SelfDestruct(x)
    \/ \E x \in Addr : AddAddressToAccessList(x)
    \/ \E x \in Addr, s \in Slot : AddSlotToAccessList(x, s)
    \/ \E g \in 1..MaxRefund : AddRefund(g)
    \/ \E g \in 1..MaxRefund : SubRefund(g)
    \/ \E l \in Log : AddLog(l)
    \/ ReadFails

SimNext ==
    \/ \E overrides \in Overrides, t \in Tip : Execute(overrides, t)
    \/ Call
    \/ Snapshot \/ FrameSucceeds \/ FrameFails
    \/ RevertOne \/ RevertDone
    \/ Return

SimSpec == SimInit /\ [][SimNext]_simVars
-----------------------------------------------------------------------------
(* What the call sees: while a revert is in progress, what it will restore. *)
Seen == IF undoTo = None THEN db ELSE hist[undoTo + 1]

(* What the open frames had found. *)
Found == [i \in DOMAIN frames |-> hist[frames[i] + 1]]

Abstract == INSTANCE CallState WITH cur <- Seen, saved <- Found

(***************************************************************************)
(* The journal implements copies: whatever a program writes and however    *)
(* its frames nest and fail, RevertToSnapshot restores all of what the     *)
(* frame found, and neither the caller's writes nor the overrides are      *)
(* undone with it; reset leaves nothing of one call to the next.           *)
(***************************************************************************)
JournalImplementsCopies == Abstract!Spec

(***************************************************************************)
(* A call runs on an EVM that was built for the tip of its view and that   *)
(* no failed read, of this call or an earlier one, has cancelled, unless   *)
(* the call is going to return that error.                                 *)
(***************************************************************************)
EvmIsCurrent ==
    stage # "idle" => evm.tip = tip /\ (evm.cancelled => readErr)
=============================================================================
