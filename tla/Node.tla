-------------------------------- MODULE Node --------------------------------
(***************************************************************************)
(* The follower process, the only writer: the consensus engine's live and  *)
(* bootstrap phases, the block executor, node.Tracker, node.Sink and the   *)
(* publisher side of the tip bus, with the main LMDB environment below     *)
(* them.  One engine mutex serialises everything, so a handler is one step *)
(* up to its next commit to a shared environment: another process sees     *)
(* every commit, and a crash can fall between any two.                     *)
(*                                                                         *)
(* The snowman library and the network are external: consensus may accept  *)
(* any processing child of the last accepted block, drops what conflicts   *)
(* with it, and its preference is always a leaf of the processing tree.    *)
(***************************************************************************)
EXTENDS Mem

CONSTANTS
    MaxCrash,    \* bound: how often the process dies
    MaxLog       \* bound: bus events after which preference only moves on accept

VARIABLES
    net,        \* external: the last block the network accepted
    cons,       \* external: snowman.Topological, [proc, pref]
    eng,        \* Engine: [acc, lastPref]
    ex,         \* Exec.pending: executed captures above finalized
    tr,         \* Tracker: [table, stack, fin]
    pending,    \* Sink.pending
    st,         \* the follower's own mem.State
    disk,       \* main LMDB env: [below, rows, top, mark]
    bus,        \* tip bus env: [layers, log]
    pc, cur,    \* where the handler in progress stands, and its block
    boot,       \* the engine is in its bootstrap phase
    crashes,    \* bound counter
    torn        \* ghost: the process died between WriteBlock and SetFinalized

engineVars == <<net, cons, eng, ex>>
sinkVars == <<pending, st, disk, bus>>
crashVars == <<crashes, torn>>
vars == <<engineVars, tr, sinkVars, pc, cur, boot, crashVars>>

(***************************************************************************)
(* The main environment.  The rows of the highest block written are kept   *)
(* apart as a batch, because a replay may write them again: rows of the    *)
(* same key are overwritten, the others stay.  Below them the environment  *)
(* is the world it answers reads with (Store's HistoryExact).  mark is the *)
(* finalized watermark.                                                    *)
(***************************************************************************)
Latest(d) == After(d.below, d.rows)

MergeRows(old, new) ==
    [dest |-> old.dest \cup new.dest,
     acct |-> [a \in Addr |-> Else(new.acct[a], old.acct[a])],
     slot |-> [a \in Addr |-> [s \in Slot |-> Else(new.slot[a][s], old.slot[a][s])]]]

WriteBlock(d, e) ==
    IF d.top = e.blk THEN [d EXCEPT !.rows = MergeRows(d.rows, e.diff)]
    ELSE [d EXCEPT !.below = Latest(d), !.rows = e.diff, !.top = e.blk]

(***************************************************************************)
(* The executor.  viewAt walks the pending layers from the parent down to  *)
(* the first block that has none, then reads LMDB at Latest.               *)
(***************************************************************************)
(* Mutant: only the parent's own layer is consulted. *)
ParentLayerOnly(p) == {e \in ex : e.blk = p}

PendingLine(p) ==
    {e \in ex : /\ e.blk \in Chain[p]
                /\ \A x \in Chain[p] : Height[x] >= Height[e.blk] =>
                     \E f \in ex : f.blk = x}

Newest(hits) == CHOOSE e \in hits : \A f \in hits : Height[f.blk] <= Height[e.blk]

ViewAt(p) ==
    LET line == PendingLine(p)
        A(a) == {e \in line : e.diff.acct[a] # None \/ a \in e.diff.dest}
        S(a, s) == {e \in line : e.diff.slot[a][s] # None \/ a \in e.diff.dest}
        db == Latest(disk)
    IN  [acct |-> [a \in Addr |-> IF A(a) = {} THEN db.acct[a]
                                  ELSE AcctAfter(NoAcct, Newest(A(a)).diff, a)],
         slot |-> [a \in Addr |-> [s \in Slot |->
                     IF S(a, s) = {} THEN db.slot[a][s]
                     ELSE SlotAfter(Zero, Newest(S(a, s)).diff, a, s)]]]

Execute(b) == Run(ViewAt(Parent[b]), b)

Replace(table, e) == {f \in table : f.blk # e.blk} \cup {e}
-----------------------------------------------------------------------------
(***************************************************************************)
(* Sink and the bus publisher.  A publish is one bus transaction: the      *)
(* event under the next seq, and the handshake state.                      *)
(***************************************************************************)
Publish(layers, event) == [layers |-> layers, log |-> Append(bus.log, event)]

SinkBlock(e) ==
    /\ pending' = Replace(pending, e)
    /\ st' = ApplyBlock(st, e)
    /\ bus' = Publish(Append(bus.layers, e), [kind |-> "block", es |-> <<e>>])

(* Mutant: the reset does not register its batches. *)
SinkResetForgets(preferred) ==
    /\ pending' = {}
    /\ st' = PreferenceReset(st, preferred)
    /\ bus' = Publish(preferred, [kind |-> "reset", es |-> preferred])

SinkReset(preferred) ==
    /\ pending' = {preferred[i] : i \in DOMAIN preferred}
    /\ st' = PreferenceReset(st, preferred)
    /\ bus' = Publish(preferred, [kind |-> "reset", es |-> preferred])

(***************************************************************************)
(* Tracker.                                                                *)
(***************************************************************************)
Known(t, b) == \E e \in t.table : e.blk = b

Entry(t, b) == CHOOSE e \in t.table : e.blk = b

(* chainTo finds no gap between b and the finalized block. *)
Linked(t, b) ==
    t.fin \in Chain[b] /\ \A x \in Chain[b] \ Chain[t.fin] : Known(t, x)

ChainTo(t, b) ==
    [i \in 1 .. Height[b] - Height[t.fin] |->
       Entry(t, CHOOSE x \in Chain[b] : Height[x] = Height[t.fin] + i)]

Halt == pc' = "halt" /\ UNCHANGED <<tr, pending, st, bus>>

(* Head: one block more, or anything else, or no change. *)
TrackerHead(t, b) ==
    LET chain == ChainTo(t, b)
    IN  \/ ~Linked(t, b) /\ Halt
        \/ /\ Linked(t, b)
           /\ BlocksOf(chain) = BlocksOf(t.stack)
           /\ tr' = t /\ pc' = "live" /\ UNCHANGED <<pending, st, bus>>
        \/ /\ Linked(t, b)
           /\ BlocksOf(chain) # BlocksOf(t.stack)
           /\ tr' = [t EXCEPT !.stack = chain] /\ pc' = "live"
           /\ IF /\ Len(chain) = Len(t.stack) + 1
                 /\ BlocksOf(SubSeq(chain, 1, Len(t.stack))) = BlocksOf(t.stack)
              THEN SinkBlock(chain[Len(chain)])
              ELSE SinkReset(chain)

(* Accepted, up to the store transaction of Sink.Finalize. *)
TrackerAccepted(t, b) ==
    \/ /\ OldestIs(t.stack, b)
       /\ tr' = t /\ pc' = "write" /\ UNCHANGED <<pending, st, bus>>
    \/ /\ ~OldestIs(t.stack, b)
       /\ \/ /\ ~Known(t, b) \/ Parent[b] # t.fin
             /\ Halt
          \/ /\ Known(t, b) /\ Parent[b] = t.fin
             /\ tr' = [t EXCEPT !.stack = <<Entry(t, b)>>]
             /\ SinkReset(tr'.stack)
             /\ pc' = "write"
-----------------------------------------------------------------------------
(***************************************************************************)
(* The engine, live.                                                       *)
(***************************************************************************)

(* emitHead: the sink hears of a preference only when it changed. *)
EmitHead(t, p) ==
    IF p = eng.lastPref
    THEN tr' = t /\ pc' = "live" /\ UNCHANGED <<eng, pending, st, bus>>
    ELSE eng' = [eng EXCEPT !.lastPref = p] /\ TrackerHead(t, p)

(* tryIssue: execute a block whose parent is issued, and add it. *)
Issue(b) ==
    /\ pc = "live"
    /\ b \notin cons.proc /\ Parent[b] \in cons.proc \cup {eng.acc}
    /\ LET e == Capture(b, Execute(b))
           t == [tr EXCEPT !.table = Replace(tr.table, e)]
           pref == IF cons.pref = Parent[b] THEN b ELSE cons.pref
       IN  IF Execute(b) = Fail
           THEN Halt /\ UNCHANGED <<cons, eng, ex>>
           ELSE /\ ex' = Replace(ex, e)
                /\ cons' = [proc |-> cons.proc \cup {b}, pref |-> pref]
                /\ EmitHead(t, pref)
    /\ UNCHANGED <<net, disk, cur, boot, crashVars>>

Below(b, proc) == {x \in proc : b \in Chain[x]} \ {b}

Leaves(acc, proc) ==
    {x \in proc \cup {acc} : \A y \in proc : y = Root \/ Parent[y] # x}

(* RecordPoll accepts a block: onAccept, then its rivals are rejected.     *)
Accept(b) ==
    /\ pc \in {"live", "polled"}
    /\ b \in cons.proc /\ Parent[b] = eng.acc
    /\ b \in Chain[net] \/ net = eng.acc
    /\ net' = IF b \in Chain[net] THEN net ELSE b
    /\ eng' = [eng EXCEPT !.acc = b]
    /\ cons' = [cons EXCEPT !.proc = Below(b, cons.proc)]
    /\ TrackerAccepted(tr, b)
    /\ cur' = b
    /\ UNCHANGED <<ex, disk, boot, crashVars>>

(* The end of recordPolls: consensus has settled on a preference. *)
PollDone(p) ==
    /\ pc \in {"live", "polled"}
    /\ p \in Leaves(eng.acc, cons.proc)
    /\ pc = "live" => p # cons.pref /\ Len(bus.log) < MaxLog
    /\ cons' = [cons EXCEPT !.pref = p]
    /\ EmitHead(tr, p)
    /\ UNCHANGED <<net, ex, disk, cur, boot, crashVars>>

(***************************************************************************)
(* Sink.Finalize, commit by commit.                                        *)
(***************************************************************************)
(* Mutant: any pending batch is written, not the one of the hash. *)
StoreCommitAny ==
    /\ pc = "write"
    /\ \E e \in pending : disk' = WriteBlock(disk, e)
    /\ pc' = "mark"
    /\ UNCHANGED <<engineVars, tr, pending, st, bus, cur, boot, crashVars>>

(* Mutant: the store transaction is forgotten. *)
StoreCommitSkipped ==
    /\ pc = "write"
    /\ pc' = "mark"
    /\ UNCHANGED <<engineVars, tr, sinkVars, cur, boot, crashVars>>

StoreCommit ==
    /\ pc = "write"
    /\ \/ /\ \A e \in pending : e.blk # cur
          /\ Halt /\ UNCHANGED disk
       \/ \E e \in pending :
            /\ e.blk = cur
            /\ disk' = WriteBlock(disk, e)
            /\ pc' = "mark"
            /\ UNCHANGED <<tr, pending, st, bus>>
    /\ UNCHANGED <<engineVars, cur, boot, crashVars>>

(* mem.Finalize, then SetFinalized. *)
SetFinalized ==
    /\ pc = "mark"
    /\ \/ ~OldestIs(st.layers, cur) /\ Halt /\ UNCHANGED disk
       \/ /\ OldestIs(st.layers, cur)
          /\ st' = Finalize(st, cur)
          /\ disk' = [disk EXCEPT !.mark = cur]
          /\ pc' = "publish"
          /\ UNCHANGED <<tr, pending, bus>>
    /\ UNCHANGED <<engineVars, cur, boot, crashVars>>

Above(captures) == {e \in captures : Height[e.blk] > Height[cur]}

OldestHeightIs(layers, h) == layers # <<>> /\ Height[Head(layers).blk] = h

(* Mutant: the handshake state keeps the finalized layer. *)
PublishKeepsLayer ==
    /\ pc = "publish"
    /\ pending' = Above(pending)
    /\ bus' = Publish(bus.layers, [kind |-> "final", blk |-> cur])
    /\ tr' = [table |-> Above(tr.table), stack |-> Tail(tr.stack), fin |-> cur]
    /\ ex' = Above(ex)
    /\ pc' = IF boot THEN "backfill" ELSE "polled"
    /\ UNCHANGED <<net, cons, eng, st, disk, cur, boot, crashVars>>

(* PublishFinalize; then Tracker.Accepted and Exec.OnFinalized prune. *)
PublishFinalize ==
    /\ pc = "publish"
    /\ \/ ~OldestHeightIs(bus.layers, Height[cur]) /\ Halt /\ UNCHANGED ex
       \/ /\ OldestHeightIs(bus.layers, Height[cur])
          /\ pending' = Above(pending)
          /\ bus' = Publish(Tail(bus.layers), [kind |-> "final", blk |-> cur])
          /\ tr' = [table |-> Above(tr.table), stack |-> Tail(tr.stack), fin |-> cur]
          /\ ex' = Above(ex)
          /\ pc' = IF boot THEN "backfill" ELSE "polled"
          /\ UNCHANGED st
    /\ UNCHANGED <<net, cons, eng, disk, cur, boot, crashVars>>
-----------------------------------------------------------------------------
(***************************************************************************)
(* Start, bootstrap and crash.                                             *)
(***************************************************************************)
NoBus == [layers |-> <<>>, log |-> <<>>]

NewTracker(b) == [table |-> {}, stack |-> <<>>, fin |-> b]

(* Mutant: the resume point is the history genesis. *)
BootFromGenesis ==
    /\ pc = "down"
    /\ bus' = NoBus
    /\ st' = NewState
    /\ tr' = NewTracker(Root)
    /\ ex' = {} /\ pending' = {}
    /\ pc' = "backfill" /\ boot' = TRUE
    /\ UNCHANGED <<net, cons, eng, disk, cur, crashVars>>

(* OpenWriter truncates the bus; the resume point is the watermark. *)
Boot ==
    /\ pc = "down"
    /\ bus' = NoBus
    /\ st' = NewState
    /\ tr' = NewTracker(disk.mark)
    /\ ex' = {} /\ pending' = {}
    /\ pc' = "backfill" /\ boot' = TRUE
    /\ UNCHANGED <<net, cons, eng, disk, cur, crashVars>>

(* finishBootstrap executes the gap forward, every block in it accepted. *)
Backfill(b) ==
    /\ pc = "backfill"
    /\ b \in Chain[net] /\ Parent[b] = tr.fin
    /\ LET e == Capture(b, Execute(b))
           t == [tr EXCEPT !.table = Replace(tr.table, e)]
       IN  IF Execute(b) = Fail
           THEN Halt /\ UNCHANGED ex
           ELSE ex' = Replace(ex, e) /\ TrackerAccepted(t, b)
    /\ cur' = b
    /\ UNCHANGED <<net, cons, eng, disk, boot, crashVars>>

GoLive ==
    /\ pc = "backfill" /\ tr.fin = net
    /\ cons' = [proc |-> {}, pref |-> net]
    /\ eng' = [acc |-> net, lastPref |-> net]
    /\ pc' = "live" /\ boot' = FALSE
    /\ UNCHANGED <<net, ex, tr, sinkVars, cur, crashVars>>

(* The process dies, or exits on a fatal error; its memory is gone. *)
Crash ==
    /\ pc # "down" /\ crashes < MaxCrash
    /\ crashes' = crashes + 1
    /\ torn' = (torn \/ disk.top # disk.mark)
    /\ pc' = "down" /\ boot' = TRUE /\ cur' = Root
    /\ cons' = [proc |-> {}, pref |-> Root]
    /\ eng' = [acc |-> Root, lastPref |-> Root]
    /\ ex' = {} /\ pending' = {} /\ tr' = NewTracker(Root) /\ st' = NewState
    /\ UNCHANGED <<net, disk, bus>>

(* The network goes on while the follower is down. *)
NetAccept(b) ==
    /\ pc = "down"
    /\ Parent[b] = net
    /\ net' = b
    /\ UNCHANGED <<cons, eng, ex, tr, sinkVars, pc, cur, boot, crashVars>>
-----------------------------------------------------------------------------
NoRows == [dest |-> {}, acct |-> [a \in Addr |-> None],
           slot |-> [a \in Addr |-> [s \in Slot |-> None]]]

Init ==
    /\ net = Root
    /\ cons = [proc |-> {}, pref |-> Root]
    /\ eng = [acc |-> Root, lastPref |-> Root]
    /\ ex = {} /\ pending = {}
    /\ tr = NewTracker(Root)
    /\ st = NewState
    /\ disk = [below |-> WorldOf[Root], rows |-> NoRows, top |-> Root, mark |-> Root]
    /\ bus = NoBus
    /\ pc = "down" /\ cur = Root /\ boot = TRUE
    /\ crashes = 0 /\ torn = FALSE

Step ==
    \/ \E b \in Block \ {Root} : Issue(b) \/ Accept(b) \/ Backfill(b)
    \/ \E p \in Block : PollDone(p)
    \/ StoreCommit \/ SetFinalized \/ PublishFinalize
    \/ Boot \/ GoLive

Next == Step \/ Crash \/ \E b \in Block \ {Root} : NetAccept(b)

Spec == Init /\ [][Next]_vars

(***************************************************************************)
(* Fairness.  The engine's mutex is held until a handler returns, so a     *)
(* handler that has begun goes on to its end; a process that is down is    *)
(* started again and its bootstrap loop runs.  Nothing is assumed of       *)
(* consensus, of the network or of crashes.                                *)
(***************************************************************************)
FairSpec ==
    /\ Spec
    /\ WF_vars(StoreCommit) /\ WF_vars(SetFinalized) /\ WF_vars(PublishFinalize)
    /\ WF_vars(Boot) /\ WF_vars(GoLive)
    /\ WF_vars(\E b \in Block \ {Root} : Backfill(b))
-----------------------------------------------------------------------------
(***************************************************************************)
(* Properties.                                                             *)
(***************************************************************************)
(***************************************************************************)
(* None of the fail-loud checks of the executor, the tracker, the sink,    *)
(* mem.Finalize and PublishFinalize fires, whatever consensus prefers and  *)
(* accepts and wherever the process dies, except after a death between     *)
(* WriteBlock and SetFinalized.                                            *)
(***************************************************************************)
NoHalt == pc = "halt" => torn

(***************************************************************************)
(* Every block is executed on the state of its parent: the pending layers  *)
(* of the executor over LMDB at Latest are exactly that state, across      *)
(* forks, reverts of preference and pruning, so what was captured is what  *)
(* the block does.                                                         *)
(***************************************************************************)
ExecutedOnParent ==
    ~torn => \A e \in ex \cup tr.table \cup pending : e.diff = Diff[e.blk]

(***************************************************************************)
(* "The main LMDB env only ever contains data from ACCEPTED blocks" (D7),  *)
(* and it is their state: Latest is the state after the highest block      *)
(* written, which is the watermark or, while Sink.Finalize runs or after a *)
(* death inside it, the block above it.                                    *)
(***************************************************************************)
OnlyAcceptedPersists ==
    /\ disk.top \in Chain[net]
    /\ disk.mark = disk.top \/ (disk.top # Root /\ disk.mark = Parent[disk.top])
    /\ ~torn => Latest(disk) = WorldOf[disk.top]

(***************************************************************************)
(* Between handlers the tracker's stack, the layers of mem.State and the   *)
(* handshake state of the bus are the same chain of blocks, it starts on   *)
(* the finalized watermark, and Sink.pending can write each of them.       *)
(***************************************************************************)
MirrorsAgree ==
    pc \in {"live", "polled", "backfill"} =>
      /\ bus.layers = tr.stack /\ st.layers = tr.stack
      /\ tr.fin = disk.mark
      /\ \A i \in DOMAIN tr.stack :
           /\ Parent[tr.stack[i].blk] = IF i = 1 THEN tr.fin ELSE tr.stack[i - 1].blk
           /\ tr.stack[i] \in pending

(***************************************************************************)
(* Whenever the engine is idle the tip that was published is the block     *)
(* consensus prefers, although emitHead reports only changes and           *)
(* Tracker.Accepted may throw the published stack away; the batch stamp of *)
(* mem.State names the same block.                                         *)
(***************************************************************************)
TipIsPreference ==
    pc = "live" =>
      /\ cons.pref = IF tr.stack = <<>> THEN tr.fin ELSE tr.stack[Len(tr.stack)].blk
      /\ st.tip \in {None, cons.pref}
      /\ st.tip = None => tr.stack = <<>>

(***************************************************************************)
(* The watermark moves to a child of the block it named, and its rows are  *)
(* committed before it: no crash, restart or change of preference moves it *)
(* back or lets it skip a block.                                           *)
(***************************************************************************)
WatermarkStepsUp ==
    [][disk'.mark # disk.mark =>
         Parent[disk'.mark] = disk.mark /\ disk.top = disk'.mark]_vars

(***************************************************************************)
(* A process that is down comes back: it works off the gap to the accepted *)
(* frontier and goes live, unless it dies again or died inside             *)
(* Sink.Finalize.                                                          *)
(***************************************************************************)
ComesBack ==
    \A n \in 0..MaxCrash :
      pc = "down" /\ crashes = n ~> pc = "live" \/ crashes > n \/ torn

(***************************************************************************)
(* "Bootstrap replay after a crash rewrites identical rows (idempotent)"   *)
(* (D7, WriteBlock): wherever the process died, the blocks it executes     *)
(* again capture what they captured before.                                *)
(***************************************************************************)
ReplayIdentical ==
    pc # "halt" /\ \A e \in tr.table : e.diff = Diff[e.blk]
=============================================================================
