----------------------------- MODULE FlatState -----------------------------
(***************************************************************************)
(* The data every component of flatstate works on: the state of the chain  *)
(* at one height (a world), what one block changes in it (a capture batch, *)
(* in the compiled form of mem.newLayer), and the lazily filled map of     *)
(* mem.Map.  Constant level: the state machines are in the modules that    *)
(* extend this one.                                                        *)
(*                                                                         *)
(* Account post-images are opaque, like the keys and values of Keys.       *)
(***************************************************************************)
EXTENDS Keys, Integers, Sequences, FiniteSetsExt

CONSTANTS
    Acct,      \* account post-images: balance, nonce, code hash
    NoAcct     \* answer: the account does not exist

(***************************************************************************)
(* The answers of a store read that are errors (store.go, read.go).        *)
(***************************************************************************)
Errors == {"ErrNoGenesis", "ErrBelowGenesis", "ErrBaselineIncomplete",
           "ErrDestructEdge"}

ASSUME DataAssumption ==
    /\ Zero \in Val
    /\ NoAcct \notin Acct
    /\ None \notin Acct \cup Val \cup {NoAcct}
    /\ Errors \cap (Acct \cup Val \cup {NoAcct, None}) = {}

(***************************************************************************)
(* A world: what an archive node would answer at one height.               *)
(***************************************************************************)
World == [acct : [Addr -> Acct \cup {NoAcct}], slot : [Addr -> [Slot -> Val]]]

(***************************************************************************)
(* One block's capture.  acct and slot hold the post-images, None where    *)
(* the block leaves the key alone; dest is the set of addresses with an    *)
(* OpDestruct.  OpDeleteSlot is a slot post-image of Zero.                 *)
(***************************************************************************)
Batch == [dest : SUBSET Addr,
          acct : [Addr -> Acct \cup {None}],
          slot : [Addr -> [Slot -> Val \cup {None}]]]

(***************************************************************************)
(* The batch contract of capture.go: a slot post-image of a destructed     *)
(* address comes only with the account that recreates it.                  *)
(***************************************************************************)
Contract(b) ==
    \A a \in b.dest, s \in Slot : b.slot[a][s] # None => b.acct[a] # None

(***************************************************************************)
(* What the ops of a batch do to an account or slot value, in batch order: *)
(* the destruct first, then the post-image that follows it.                *)
(***************************************************************************)
AcctAfter(old, b, a) ==
    IF b.acct[a] # None THEN b.acct[a]
    ELSE IF a \in b.dest THEN NoAcct ELSE old

SlotAfter(old, b, a, s) ==
    IF b.slot[a][s] # None THEN b.slot[a][s]
    ELSE IF a \in b.dest THEN Zero ELSE old

After(w, b) ==
    [acct |-> [a \in Addr |-> AcctAfter(w.acct[a], b, a)],
     slot |-> [a \in Addr |-> [s \in Slot |-> SlotAfter(w.slot[a][s], b, a, s)]]]
=============================================================================
