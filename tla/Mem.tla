-------------------------------- MODULE Mem --------------------------------
(***************************************************************************)
(* Package mem: the lazily pinned base map, the stack of unfinalized       *)
(* layers above it and the side buffers of the executors, as operations on *)
(* records.  A state is [base, layers, tip]; base and a side buffer are    *)
(* maps of LazyMap.                                                        *)
(***************************************************************************)
EXTENDS BlockTree, LazyMap

Drain(st, bufs) == [st EXCEPT !.base = Merge(st.base, bufs)]

NewState == [base |-> EmptyMap, layers |-> <<>>, tip |-> None]

(***************************************************************************)
(* The write phases, after the drain.                                      *)
(***************************************************************************)
ApplyBlock(st, e) ==
    [st EXCEPT !.layers = Append(st.layers, e), !.tip = e.blk]

OldestIs(layers, b) == layers # <<>> /\ Head(layers).blk = b

Finalize(st, b) ==
    [base |-> Apply(st.base, Head(st.layers).diff),
     layers |-> Tail(st.layers),
     tip |-> IF Len(st.layers) = 1 THEN b ELSE st.tip]

(* Mutant: the reset forgets to move the tip stamp. *)
ResetKeepsTip(st, preferred) == [st EXCEPT !.layers = preferred]

(* An empty preferred chain leaves the tip stamp as it was. *)
PreferenceReset(st, preferred) ==
    [st EXCEPT !.layers = preferred,
               !.tip = IF preferred = <<>> THEN st.tip
                       ELSE preferred[Len(preferred)].blk]

(***************************************************************************)
(* The read path: layers newest first, then the base, then the executor's  *)
(* own side buffer.  None: a cold miss, to be read from LMDB.              *)
(***************************************************************************)
LayerAccount(layers, a) ==
    LET hits == {i \in DOMAIN layers :
                   layers[i].diff.acct[a] # None \/ a \in layers[i].diff.dest}
    IN  IF hits = {} THEN None ELSE AcctAfter(NoAcct, layers[Max(hits)].diff, a)

(* Mutant: a destruct in a layer does not hide the slots below. *)
LayerSlotSeesThrough(layers, a, s) ==
    LET hits == {i \in DOMAIN layers : layers[i].diff.slot[a][s] # None}
    IN  IF hits = {} THEN None ELSE layers[Max(hits)].diff.slot[a][s]

LayerSlot(layers, a, s) ==
    LET hits == {i \in DOMAIN layers :
                   layers[i].diff.slot[a][s] # None \/ a \in layers[i].diff.dest}
    IN  IF hits = {} THEN None ELSE SlotAfter(Zero, layers[Max(hits)].diff, a, s)

Account(st, sb, a) ==
    Else(LayerAccount(st.layers, a), Else(st.base.acct[a], sb.acct[a]))

BaseSlot(m, a, s) == IF m.acct[a] = NoAcct THEN Zero ELSE m.slot[a][s]

SlotValue(st, sb, a, s) ==
    Else(LayerSlot(st.layers, a, s), Else(BaseSlot(st.base, a, s), sb.slot[a][s]))
=============================================================================
