----------------------------- MODULE BlockTree -----------------------------
(***************************************************************************)
(* The tree of blocks that the network produces, and what executing them   *)
(* does.  Constant level; a model gives the tree.  The EVM is outside the  *)
(* model: Run(w, b) is what executing block b on the world w captures, or  *)
(* Fail where execution or the check of gas, receipts and bloom rejects    *)
(* it.  On the world of its parent a block captures Diff[b]; on any other  *)
(* world it may do anything.                                               *)
(***************************************************************************)
EXTENDS FlatState

CONSTANTS
    Block,      \* blocks, identified by their hash
    Root,       \* the history genesis block
    Parent,     \* the parent of every block but Root
    Height,
    Chain,      \* Chain[b]: the blocks from Root to b
    WorldOf,    \* WorldOf[b]: the state at the end of b
    Diff,       \* Diff[b]: what b changes in the state of its parent
    Run(_, _),
    Fail

ASSUME ChainAssumption ==
    /\ Root \in Block /\ None \notin Block
    /\ Parent \in [Block \ {Root} -> Block]
    /\ Height \in [Block -> Nat \ {0}]
    /\ Chain \in [Block -> SUBSET Block] /\ Chain[Root] = {Root}
    /\ WorldOf \in [Block -> World]
    /\ Diff \in [Block \ {Root} -> Batch]
    /\ \A b \in Block \ {Root} :
         /\ Height[b] = Height[Parent[b]] + 1
         /\ Chain[b] = Chain[Parent[b]] \cup {b}
         /\ Contract(Diff[b])
         /\ WorldOf[b] = After(WorldOf[Parent[b]], Diff[b])
         /\ Run(WorldOf[Parent[b]], b) = Diff[b]
    /\ \A w \in World, b \in Block \ {Root} : Run(w, b) \in Batch \cup {Fail}
    /\ Fail \notin Batch

(* A world in which no account is gone and has storage left. *)
NoOrphans(w) == \A a \in Addr, s \in Slot : w.acct[a] = NoAcct => w.slot[a][s] = Zero

ASSUME WorldAssumption ==
    \A b \in Block : NoOrphans(WorldOf[b])

(* capture.Batch: what executing blk captured. *)
Capture(blk, diff) == [blk |-> blk, diff |-> diff]

Captures == [blk : Block \ {Root}, diff : Batch]

BlocksOf(layers) == [i \in DOMAIN layers |-> layers[i].blk]
=============================================================================
