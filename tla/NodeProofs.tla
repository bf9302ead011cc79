----------------------------- MODULE NodeProofs -----------------------------
(***************************************************************************)
(* Proofs about Node, for any tree of blocks, any number of crashes and    *)
(* any course of consensus: the inductive invariant NodeInv, lemmas about  *)
(* the tree of blocks, what the executor reads, the tracker with the sink  *)
(* and the bus, one lemma for each step, and what follows.                 *)
(***************************************************************************)
EXTENDS Node, TLAPS, WellFoundedInduction

\* A minute for each leaf: the default of five seconds is short for a large module.
USE ZenonT(60)

(***************************************************************************)
(* The inductive invariant.  Its core is Shape: in every state of a        *)
(* running process the executor's captures are the tracker's table, the    *)
(* sink's pending batches are the stack, and the stack is the path from    *)
(* the finalized block to the tip; the rest says where each handler        *)
(* stands.  None of it mentions what was captured; Exact does, and holds   *)
(* until the process dies inside Sink.Finalize.                            *)
(***************************************************************************)
Pcs == {"down", "live", "polled", "write", "mark", "publish", "backfill", "halt"}

Trackers == [table : SUBSET Captures, stack : Seq(Captures), fin : Block]

SinkTypeOK ==
    /\ pending \subseteq Captures
    /\ st \in [base : {st.base}, layers : Seq(Captures), tip : Block \cup {None}]
    /\ bus \in [layers : Seq(Captures), log : {bus.log}]

NodeTypeOK ==
    /\ net \in Block
    /\ cons \in [proc : SUBSET (Block \ {Root}), pref : Block]
    /\ eng \in [acc : Block, lastPref : Block]
    /\ ex \subseteq Captures /\ tr \in Trackers /\ SinkTypeOK
    /\ disk \in [below : World, rows : Batch, top : Block, mark : Block]
    /\ pc \in Pcs /\ cur \in Block /\ boot \in BOOLEAN /\ torn \in BOOLEAN

(* The block a stack ends with. *)
TipOf(t) == IF t.stack = <<>> THEN t.fin ELSE t.stack[Len(t.stack)].blk

(* s holds one capture for each block from fin, exclusive, to tip. *)
IsPath(s, fin, tip) ==
    /\ fin \in Chain[tip]
    /\ Len(s) = Height[tip] - Height[fin]
    /\ \A i \in 1..Len(s) : s[i].blk \in Chain[tip] /\ Height[s[i].blk] = Height[fin] + i

(* One capture of a block, and only of blocks above h. *)
IsTable(table, h) ==
    /\ \A e, f \in table : e.blk = f.blk => e = f
    /\ \A e \in table : Height[e.blk] > h

Elements(s) == {s[i] : i \in 1..Len(s)}

(* The main environment is at most one block ahead of its watermark. *)
DiskInv ==
    /\ disk.top \in Chain[net] /\ disk.mark \in Chain[net]
    /\ disk.mark = disk.top \/ (disk.top # Root /\ disk.mark = Parent[disk.top])
    /\ ~torn /\ pc # "mark" => disk.mark = disk.top
    /\ pc = "mark" => disk.top = cur /\ cur # Root /\ disk.mark = Parent[cur]
    /\ pc \in {"publish", "polled", "live"} => disk.mark = disk.top

GoodTracker(t) ==
    /\ t \in Trackers /\ IsTable(t.table, Height[t.fin])
    /\ IsPath(t.stack, t.fin, TipOf(t)) /\ Elements(t.stack) \subseteq t.table

(* The sink and the bus hold the stack of t. *)
Mirrors(t) ==
    /\ pending = Elements(t.stack) /\ bus.layers = t.stack /\ st.layers = t.stack
    /\ st.tip = TipOf(t) \/ (st.tip = None /\ t.stack = <<>>)

(* Between mem.Finalize and PublishFinalize the follower's own layers are  *)
(* one block ahead.                                                        *)
HalfFinalized(t) ==
    /\ pending = Elements(t.stack) /\ bus.layers = t.stack /\ st.layers = Tail(t.stack)
    /\ st.tip = TipOf(t)

(* The tracker, the sink and the executor, in a process that runs. *)
Shape ==
    /\ ex = tr.table /\ GoodTracker(tr)
    /\ IF pc = "publish" THEN HalfFinalized(tr) ELSE Mirrors(tr) /\ tr.fin = disk.mark

(* A handler between Accepted and the end of Sink.Finalize. *)
Finalizing ==
    /\ cur # Root /\ cur \in Chain[net] /\ Parent[cur] = tr.fin
    /\ OldestIs(tr.stack, cur)
    /\ pc = "publish" => disk.mark = cur

(* The tree of processing blocks, rooted at the last accepted one. *)
Rooted(acc, proc) ==
    \A x \in proc : acc \in Chain[x] /\ x # acc /\ Parent[x] \in proc \cup {acc}

ProcInv ==
    net = eng.acc /\ Rooted(eng.acc, cons.proc) /\ \A x \in cons.proc : Known(tr, x)

(* The preference the sink was told of is the tip of the stack, or gone. *)
PrefInv ==
    /\ TipOf(tr) \in cons.proc \cup {eng.acc}
    /\ eng.lastPref \in cons.proc \cup {eng.acc} =>
         eng.lastPref = TipOf(tr) /\ eng.lastPref \in Leaves(eng.acc, cons.proc)

Phase ==
    /\ pc \in {"write", "mark", "publish"} => Finalizing
    /\ boot /\ pc = "backfill" => tr.table = {} /\ tr.stack = <<>>
    /\ boot /\ pc \in {"write", "mark", "publish"} => \A e \in tr.table : e.blk = cur
    /\ pc \in {"live", "polled"} => ~boot /\ tr.fin = eng.acc
    /\ pc = "backfill" => boot
    /\ ~boot => ProcInv /\ PrefInv
    /\ ~boot /\ pc \in {"write", "mark", "publish"} => eng.acc = cur
    /\ pc = "live" => /\ cons.pref = eng.lastPref /\ eng.lastPref = TipOf(tr)
                      /\ eng.lastPref \in Leaves(eng.acc, cons.proc)

Exact ==
    ~torn => /\ Latest(disk) = WorldOf[disk.top]
             /\ \A e \in ex : e.diff = Diff[e.blk]

NodeInv ==
    /\ NodeTypeOK /\ DiskInv /\ NoHalt
    /\ pc \notin {"down", "halt"} => Shape /\ Phase
    /\ pc = "down" => ex = {} /\ tr.table = {} /\ pending = {}
    /\ pc # "halt" => Exact
-----------------------------------------------------------------------------
(***************************************************************************)
(* The tree of blocks.                                                     *)
(***************************************************************************)
LEMMA LessRelation ==
  OpToRel(<, Nat) = {ss \in Nat \X Nat : ss[1] < ss[2]}
BY DEF OpToRel

LEMMA LeastNatural ==
  ASSUME NEW T \in SUBSET Nat, T # {}
  PROVE  \E n \in T : \A m \in T : n <= m
<1>1. PICK n \in T : \A m \in T : ~ (<<m, n>> \in OpToRel(<, Nat))
  BY NatLessThanWellFounded, WFMin
<1>2. ASSUME NEW m \in T PROVE n <= m
  <2>1. ~ (<<m, n>> \in {ss \in Nat \X Nat : ss[1] < ss[2]})
    BY <1>1, LessRelation
  <2> QED BY <2>1, SMTT(60)
<1> QED BY <1>2

(* What holds of Root and of a block whenever of its parent holds of all. *)
LEMMA TreeInduction ==
  ASSUME NEW S, Root \in S, \A b \in Block \ {Root} : Parent[b] \in S => b \in S
  PROVE  Block \subseteq S
<1> SUFFICES ASSUME NEW c \in Block \ S PROVE FALSE
  OBVIOUS
<1> DEFINE T == {Height[b] : b \in Block \ S}
<1>1. T \subseteq Nat /\ T # {}
  BY ChainAssumption, SMTT(60)
<1>2. PICK n \in T : \A m \in T : n <= m
  <2> HIDE DEF T
  <2> QED BY <1>1, LeastNatural
<1>3. PICK b \in Block \ S : Height[b] = n
  BY <1>2
<1>4. b \in Block \ {Root} /\ Parent[b] \in Block \ S
  BY ChainAssumption, SMTT(60)
<1>5. Height[Parent[b]] \in T /\ Height[b] = Height[Parent[b]] + 1 /\ Height[Parent[b]] \in Nat
  BY <1>4, ChainAssumption, SMTT(60)
<1>6. n <= Height[Parent[b]]
  BY <1>2, <1>5
<1> QED BY <1>3, <1>5, <1>6, SMTT(60)

LEMMA BlockFacts ==
  ASSUME NEW b \in Block
  PROVE  /\ Height[b] \in Nat /\ Chain[b] \subseteq Block
         /\ b # Root => /\ Parent[b] \in Block /\ Height[b] = Height[Parent[b]] + 1
                        /\ Chain[b] = Chain[Parent[b]] \cup {b}
BY ChainAssumption

(* The chain of a block holds the block, Root, and nothing higher. *)
LEMMA ChainEnds ==
  ASSUME NEW b \in Block
  PROVE  /\ b \in Chain[b] /\ Root \in Chain[b]
         /\ \A x \in Chain[b] : x # b => Height[x] < Height[b]
<1> DEFINE S == {c \in Block : /\ c \in Chain[c] /\ Root \in Chain[c]
                               /\ \A x \in Chain[c] : x # c => Height[x] < Height[c]}
<1>1. Root \in S
  BY ChainAssumption
<1>2. ASSUME NEW c \in Block \ {Root}, Parent[c] \in S PROVE c \in S
  <2>1. c \in Chain[c] /\ Root \in Chain[c]
    BY <1>2, BlockFacts
  <2>2. ASSUME NEW x \in Chain[c], x # c PROVE Height[x] < Height[c]
    <3>1. x \in Chain[Parent[c]] /\ x \in Block /\ Height[c] = Height[Parent[c]] + 1
      BY <2>2, BlockFacts, SMTT(60)
    <3>2. Height[x] <= Height[Parent[c]] /\ Height[x] \in Nat /\ Height[Parent[c]] \in Nat
      BY <1>2, <3>1, BlockFacts, SMTT(60)
    <3> QED BY <3>1, <3>2, SMTT(60)
  <2> QED BY <2>1, <2>2
<1>3. Block \subseteq S
  <2> HIDE DEF S
  <2> QED BY <1>1, <1>2, TreeInduction
<1> QED BY <1>3

(* The chain of a block on the chain of b is the part of it up there. *)
LEMMA ChainNested ==
  ASSUME NEW b \in Block, NEW x \in Chain[b]
  PROVE  Chain[x] = {y \in Chain[b] : Height[y] <= Height[x]}
<1> DEFINE S == {c \in Block : \A y \in Chain[c] : Chain[y] = {z \in Chain[c] : Height[z] <= Height[y]}}
<1>1. Root \in S
  BY ChainAssumption, SMTT(60)
<1>2. ASSUME NEW c \in Block \ {Root}, Parent[c] \in S PROVE c \in S
  <2>1. /\ Parent[c] \in Block /\ Chain[c] = Chain[Parent[c]] \cup {c} /\ Chain[c] \subseteq Block
        /\ Height[c] = Height[Parent[c]] + 1 /\ Height[c] \in Nat /\ Height[Parent[c]] \in Nat
    BY BlockFacts
  <2>2. ASSUME NEW y \in Chain[c] PROVE Chain[y] = {z \in Chain[c] : Height[z] <= Height[y]}
    <3>1. CASE y = c
      <4>1. \A z \in Chain[c] : Height[z] \in Nat /\ Height[z] <= Height[c]
        BY <2>1, ChainEnds, BlockFacts, SMTT(60)
      <4> QED BY <3>1, <4>1
    <3>2. CASE y # c
      <4>1. y \in Chain[Parent[c]]
        BY <2>1, <3>2
      <4>2. Chain[y] = {z \in Chain[Parent[c]] : Height[z] <= Height[y]}
        BY <1>2, <4>1
      <4>3. Height[y] <= Height[Parent[c]] /\ Height[y] \in Nat
        BY <2>1, <4>1, ChainEnds, BlockFacts, SMTT(60)
      <4>4. ~(Height[c] <= Height[y])
        BY <2>1, <4>3, SMTT(60)
      <4> QED BY <2>1, <4>2, <4>4
    <3> QED BY <3>1, <3>2
  <2> QED BY <2>2
<1>3. Block \subseteq S
  <2> HIDE DEF S
  <2> QED BY <1>1, <1>2, TreeInduction
<1> QED BY <1>3

(* One block at each height of a chain. *)
LEMMA ChainUnique ==
  ASSUME NEW b \in Block, NEW x \in Chain[b], NEW y \in Chain[b], Height[x] = Height[y]
  PROVE  x = y
<1>1. x \in Block /\ y \in Block /\ Height[x] \in Nat
  BY BlockFacts
<1>2. Chain[x] = Chain[y]
  <2>1. Chain[x] = {z \in Chain[b] : Height[z] <= Height[x]}
    BY ChainNested
  <2>2. Chain[y] = {z \in Chain[b] : Height[z] <= Height[y]}
    BY ChainNested
  <2> QED BY <2>1, <2>2
<1>3. x \in Chain[y] /\ ~(Height[x] < Height[y])
  BY <1>1, <1>2, ChainEnds, SMTT(60)
<1> QED BY <1>1, <1>3, ChainEnds

LEMMA ChainEveryHeight ==
  ASSUME NEW b \in Block, NEW h \in Height[Root]..Height[b]
  PROVE  \E x \in Chain[b] : Height[x] = h
<1> DEFINE S == {c \in Block : \A i \in Height[Root]..Height[c] : \E x \in Chain[c] : Height[x] = i}
<1>1. Root \in S
  <2>1. Height[Root] \in Nat /\ Root \in Chain[Root] /\ Root \in Block
    BY ChainAssumption
  <2>2. ASSUME NEW i \in Height[Root]..Height[Root] PROVE i = Height[Root]
    BY <2>1, SMTT(60)
  <2> QED BY <2>1, <2>2
<1>2. ASSUME NEW c \in Block \ {Root}, Parent[c] \in S PROVE c \in S
  <2>1. /\ Parent[c] \in Block /\ Chain[c] = Chain[Parent[c]] \cup {c}
        /\ Height[c] = Height[Parent[c]] + 1 /\ Height[c] \in Nat /\ Height[Parent[c]] \in Nat
        /\ Height[Root] \in Nat
    BY BlockFacts, ChainAssumption
  <2>2. ASSUME NEW i \in Height[Root]..Height[c] PROVE \E x \in Chain[c] : Height[x] = i
    <3>1. CASE i = Height[c]
      BY <2>1, <3>1
    <3>2. CASE i # Height[c]
      <4>1. i \in Height[Root]..Height[Parent[c]]
        BY <2>1, <3>2, SMTT(60)
      <4> QED BY <1>2, <2>1, <4>1
    <3> QED BY <3>1, <3>2
  <2> QED BY <2>2
<1>3. Block \subseteq S
  <2> HIDE DEF S
  <2> QED BY <1>1, <1>2, TreeInduction
<1> QED BY <1>3

(* The consequences the proofs below use. *)
LEMMA ChainFacts ==
  ASSUME NEW b \in Block, NEW x \in Chain[b]
  PROVE  /\ x \in Block /\ Height[x] \in Nat /\ Height[x] <= Height[b]
         /\ Chain[x] \subseteq Chain[b]
         /\ x # Root => Parent[x] \in Chain[b]
         /\ Height[Root] <= Height[x]
         /\ \A y \in Chain[b] : Height[x] <= Height[y] => x \in Chain[y]
<1>1. x \in Block /\ Height[x] \in Nat /\ Height[b] \in Nat
  BY BlockFacts
<1>2. Height[x] <= Height[b]
  BY <1>1, ChainEnds, SMTT(60)
<1>3. Chain[x] \subseteq Chain[b]
  BY ChainNested, SMTT(60)
<1>4. ASSUME x # Root PROVE Parent[x] \in Chain[b]
  <2>1. Parent[x] \in Chain[x]
    BY <1>1, <1>4, BlockFacts, ChainEnds
  <2> QED BY <1>3, <2>1
<1>5. Height[Root] <= Height[x]
  <2>1. Root \in Chain[x] /\ Root \in Block /\ Height[Root] \in Nat
    BY <1>1, ChainEnds, ChainAssumption
  <2> QED BY <1>1, <2>1, ChainEnds, SMTT(60)
<1>6. \A y \in Chain[b] : Height[x] <= Height[y] => x \in Chain[y]
  BY ChainNested
<1> QED BY <1>1, <1>2, <1>3, <1>4, <1>5, <1>6
-----------------------------------------------------------------------------
(***************************************************************************)
(* What the executor reads.                                                *)
(***************************************************************************)
LEMMA AfterType ==
  ASSUME NEW w \in World, NEW b \in Batch
  PROVE  After(w, b) \in World
<1>1. \A a \in Addr : AcctAfter(w.acct[a], b, a) \in Acct \cup {NoAcct}
  BY DEF AcctAfter, World, Batch
<1>2. \A a \in Addr, s \in Slot : SlotAfter(w.slot[a][s], b, a, s) \in Val
  BY DataAssumption, SMTT(60) DEF SlotAfter, World, Batch
<1> QED BY <1>1, <1>2 DEF After, World

LEMMA MergeRowsType ==
  ASSUME NEW old \in Batch, NEW new \in Batch
  PROVE  MergeRows(old, new) \in Batch
<1>1. \A a \in Addr : Else(new.acct[a], old.acct[a]) \in Acct \cup {None}
  BY DEF Else, Batch
<1>2. \A a \in Addr, s \in Slot : Else(new.slot[a][s], old.slot[a][s]) \in Val \cup {None}
  BY SMTT(60) DEF Else, Batch
<1> QED BY <1>1, <1>2 DEF MergeRows, Batch

LEMMA CaptureFacts ==
  ASSUME NEW e \in Captures
  PROVE  /\ e.blk \in Block \ {Root} /\ e.diff \in Batch /\ Height[e.blk] \in Nat
         /\ e.blk \in Block
BY BlockFacts DEF Captures

(* The processing tree: every block of it and its chain above accepted. *)
Grown ==
    /\ NodeTypeOK /\ ProcInv /\ tr.fin = eng.acc
    /\ ex = tr.table /\ IsTable(tr.table, Height[tr.fin])

Issued == cons.proc \cup {eng.acc}

LEMMA RootedLine ==
  ASSUME NEW acc \in Block, NEW proc \in SUBSET (Block \ {Root}), Rooted(acc, proc),
         NEW p \in proc \cup {acc}, NEW x \in Chain[p], Height[x] > Height[acc]
  PROVE  x \in proc
<1> DEFINE S == {c \in Block : c \in proc \cup {acc} =>
                   \A y \in Chain[c] : Height[y] > Height[acc] => y \in proc}
<1>1. ASSUME NEW y \in Chain[acc] PROVE ~(Height[y] > Height[acc])
  BY ChainFacts, BlockFacts, SMTT(60)
<1>2. Root \in S
  BY <1>1, ChainAssumption
<1>3. ASSUME NEW c \in Block \ {Root}, Parent[c] \in S PROVE c \in S
  <2> SUFFICES ASSUME c \in proc \cup {acc}, NEW y \in Chain[c], Height[y] > Height[acc]
               PROVE  y \in proc
    OBVIOUS
  <2>1. CASE c = acc
    BY <1>1, <2>1
  <2>2. CASE c \in proc
    <3>1. Parent[c] \in proc \cup {acc} /\ (y = c \/ y \in Chain[Parent[c]])
      BY <2>2, BlockFacts, SMTT(60) DEF Rooted
    <3> QED BY <1>3, <2>2, <3>1
  <2> QED BY <2>1, <2>2
<1>4. Block \subseteq S
  <2> HIDE DEF S
  <2> QED BY <1>2, <1>3, TreeInduction
<1> QED BY <1>4

LEMMA RootedFacts ==
  ASSUME NEW acc \in Block, NEW proc \in SUBSET (Block \ {Root}), Rooted(acc, proc),
         NEW p \in proc \cup {acc}
  PROVE  /\ p \in Block /\ acc \in Chain[p]
         /\ p \in proc <=> p # acc
         /\ p \in proc => /\ p # Root /\ Parent[p] \in proc \cup {acc}
                          /\ Height[p] > Height[acc]
<1>1. CASE p = acc
  BY <1>1, ChainEnds DEF Rooted
<1>2. CASE p \in proc
  <2>1. acc \in Chain[p] /\ p # acc /\ Parent[p] \in proc \cup {acc}
    BY <1>2 DEF Rooted
  <2>2. Height[p] > Height[acc]
    BY <1>2, <2>1, ChainEnds, BlockFacts
  <2> QED BY <1>2, <2>1, <2>2
<1> QED BY <1>1, <1>2

LEMMA IssuedFacts ==
  ASSUME Grown, NEW p \in Issued
  PROVE  /\ p \in Block /\ eng.acc \in Block /\ eng.acc \in Chain[p]
         /\ p \in cons.proc => /\ p # Root /\ Parent[p] \in Issued
                               /\ Height[p] > Height[eng.acc]
                               /\ \E e \in ex : e.blk = p
<1>1. eng.acc \in Block /\ cons.proc \in SUBSET (Block \ {Root}) /\ Rooted(eng.acc, cons.proc)
  BY DEF Grown, NodeTypeOK, ProcInv
<1>2. p \in cons.proc => \E e \in ex : e.blk = p
  BY DEF Known, Grown, ProcInv
<1> QED BY <1>1, <1>2, RootedFacts, SMTT(60) DEF Issued

LEMMA IssuedLine ==
  ASSUME Grown, NEW p \in Issued, NEW x \in Chain[p], Height[x] > Height[eng.acc]
  PROVE  x \in cons.proc
<1>1. eng.acc \in Block /\ cons.proc \in SUBSET (Block \ {Root}) /\ Rooted(eng.acc, cons.proc)
  BY DEF Grown, NodeTypeOK, ProcInv
<1> QED BY <1>1, RootedLine DEF Issued

(* viewAt finds a layer for every block above the accepted one. *)
LEMMA LineIs ==
  ASSUME Grown, NEW p \in Issued
  PROVE  PendingLine(p) = {e \in ex : e.blk \in Chain[p]}
<1> SUFFICES ASSUME NEW e \in ex, e.blk \in Chain[p], NEW x \in Chain[p], Height[x] >= Height[e.blk]
             PROVE  \E f \in ex : f.blk = x
  BY DEF PendingLine
<1>1. e \in Captures /\ Height[e.blk] > Height[eng.acc]
  BY DEF Grown, IsTable, NodeTypeOK
<1>2. p \in Block /\ eng.acc \in Block
  BY IssuedFacts
<1>3. Height[e.blk] \in Nat /\ Height[x] \in Nat /\ Height[eng.acc] \in Nat
  BY <1>1, <1>2, CaptureFacts, ChainFacts, BlockFacts
<1>4. x \in cons.proc
  BY <1>1, <1>3, IssuedLine, SMTT(60)
<1> QED BY <1>4, IssuedFacts DEF Issued

(* A nonempty set of captures up to some height has a newest one. *)
LEMMA NewestIs ==
  ASSUME NEW hits \in SUBSET Captures, hits # {}, NEW n \in Nat,
         \A e \in hits : Height[e.blk] <= n
  PROVE  Newest(hits) \in hits /\ \A f \in hits : Height[f.blk] <= Height[Newest(hits).blk]
<1> DEFINE T == {n - Height[e.blk] : e \in hits}
<1>1. \A e \in hits : Height[e.blk] \in Nat
  BY CaptureFacts
<1>2. T \subseteq Nat /\ T # {}
  BY <1>1, SMTT(60)
<1>3. PICK k \in T : \A m \in T : k <= m
  <2> HIDE DEF T
  <2> QED BY <1>2, LeastNatural
<1>4. PICK e \in hits : k = n - Height[e.blk]
  BY <1>3
<1>5. ASSUME NEW f \in hits PROVE Height[f.blk] <= Height[e.blk]
  <2>1. n - Height[f.blk] \in T
    OBVIOUS
  <2>2. n - Height[e.blk] <= n - Height[f.blk]
    BY <1>3, <1>4, <2>1
  <2> QED BY <1>1, <2>2, SMTT(60)
<1> QED BY <1>5 DEF Newest

(* What a set of pending layers over the world db answers. *)
AcctHits(line, a) == {e \in line : e.diff.acct[a] # None \/ a \in e.diff.dest}
SlotHits(line, a, s) == {e \in line : e.diff.slot[a][s] # None \/ a \in e.diff.dest}

AcctSeen(line, db, a) ==
    IF AcctHits(line, a) = {} THEN db.acct[a]
    ELSE AcctAfter(NoAcct, Newest(AcctHits(line, a)).diff, a)
SlotSeen(line, db, a, s) ==
    IF SlotHits(line, a, s) = {} THEN db.slot[a][s]
    ELSE SlotAfter(Zero, Newest(SlotHits(line, a, s)).diff, a, s)

View(line, db) ==
    [acct |-> [a \in Addr |-> AcctSeen(line, db, a)],
     slot |-> [a \in Addr |-> [s \in Slot |-> SlotSeen(line, db, a, s)]]]

LEMMA ViewAtIs ==
  ASSUME NEW p
  PROVE  ViewAt(p) = View(PendingLine(p), Latest(disk))
BY DEF ViewAt, View, AcctSeen, SlotSeen, AcctHits, SlotHits

LEMMA LatestType ==
  ASSUME NodeTypeOK
  PROVE  Latest(disk) \in World
BY AfterType DEF Latest, NodeTypeOK

(* Whatever was captured, the executor reads a world. *)
LEMMA ViewType ==
  ASSUME NEW line \in SUBSET Captures, NEW n \in Nat, \A e \in line : Height[e.blk] <= n,
         NEW db \in World
  PROVE  View(line, db) \in World
<1>1. ASSUME NEW a \in Addr PROVE AcctSeen(line, db, a) \in Acct \cup {NoAcct}
  <2>1. CASE AcctHits(line, a) = {}
    BY <2>1 DEF AcctSeen, World
  <2>2. CASE AcctHits(line, a) # {}
    <3>1. Newest(AcctHits(line, a)) \in AcctHits(line, a)
      BY <2>2, NewestIs DEF AcctHits
    <3>2. Newest(AcctHits(line, a)).diff \in Batch
      BY <3>1, CaptureFacts DEF AcctHits
    <3> QED BY <2>2, <3>2 DEF AcctSeen, AcctAfter, Batch
  <2> QED BY <2>1, <2>2
<1>2. ASSUME NEW a \in Addr, NEW s \in Slot PROVE SlotSeen(line, db, a, s) \in Val
  <2>1. CASE SlotHits(line, a, s) = {}
    BY <2>1 DEF SlotSeen, World
  <2>2. CASE SlotHits(line, a, s) # {}
    <3>1. Newest(SlotHits(line, a, s)) \in SlotHits(line, a, s)
      BY <2>2, NewestIs DEF SlotHits
    <3>2. Newest(SlotHits(line, a, s)).diff \in Batch
      BY <3>1, CaptureFacts DEF SlotHits
    <3> QED BY <2>2, <3>2, DataAssumption, SMTT(60) DEF SlotSeen, SlotAfter, Batch
  <2> QED BY <2>1, <2>2
<1> QED BY <1>1, <1>2 DEF View, World

(* One layer more on the line: exactly what the layer changes changes. *)
LEMMA ViewGrows ==
  ASSUME NEW line \in SUBSET Captures, NEW db, NEW e \in Captures,
         \A f \in line : Height[f.blk] < Height[e.blk]
  PROVE  View(line \cup {e}, db) = After(View(line, db), e.diff)
<1> DEFINE more == line \cup {e}
<1>1. Height[e.blk] \in Nat /\ more \in SUBSET Captures /\ \A f \in line : Height[f.blk] \in Nat
  BY CaptureFacts
<1>2. ASSUME NEW hits \in SUBSET more, e \in hits PROVE Newest(hits) = e
  <2>1. \A f \in hits : Height[f.blk] <= Height[e.blk]
    BY <1>1, SMTT(60)
  <2>2. Newest(hits) \in hits /\ Height[e.blk] <= Height[Newest(hits).blk]
    BY <1>1, <1>2, <2>1, NewestIs
  <2> QED BY <1>1, <2>2, SMTT(60)
<1>3. ASSUME NEW a \in Addr
      PROVE  AcctSeen(more, db, a) = AcctAfter(AcctSeen(line, db, a), e.diff, a)
  <2>1. CASE e.diff.acct[a] # None \/ a \in e.diff.dest
    <3>1. e \in AcctHits(more, a) /\ AcctHits(more, a) \subseteq more
      BY <2>1 DEF AcctHits
    <3>2. Newest(AcctHits(more, a)) = e
      BY <1>2, <3>1
    <3> QED BY <2>1, <3>1, <3>2 DEF AcctSeen, AcctAfter
  <2>2. CASE ~(e.diff.acct[a] # None \/ a \in e.diff.dest)
    <3>1. AcctHits(more, a) = AcctHits(line, a)
      BY <2>2 DEF AcctHits
    <3> QED BY <2>2, <3>1 DEF AcctSeen, AcctAfter
  <2> QED BY <2>1, <2>2
<1>4. ASSUME NEW a \in Addr, NEW s \in Slot
      PROVE  SlotSeen(more, db, a, s) = SlotAfter(SlotSeen(line, db, a, s), e.diff, a, s)
  <2>1. CASE e.diff.slot[a][s] # None \/ a \in e.diff.dest
    <3>1. e \in SlotHits(more, a, s) /\ SlotHits(more, a, s) \subseteq more
      BY <2>1 DEF SlotHits
    <3>2. Newest(SlotHits(more, a, s)) = e
      BY <1>2, <3>1
    <3> QED BY <2>1, <3>1, <3>2 DEF SlotSeen, SlotAfter
  <2>2. CASE ~(e.diff.slot[a][s] # None \/ a \in e.diff.dest)
    <3>1. SlotHits(more, a, s) = SlotHits(line, a, s)
      BY <2>2 DEF SlotHits
    <3> QED BY <2>2, <3>1 DEF SlotSeen, SlotAfter
  <2> QED BY <2>1, <2>2
<1> QED BY <1>3, <1>4 DEF View, After

LEMMA ViewEmpty ==
  ASSUME NEW db \in World
  PROVE  View({}, db) = db
<1>1. \A a \in Addr : AcctSeen({}, db, a) = db.acct[a]
  BY DEF AcctSeen, AcctHits
<1>2. \A a \in Addr, s \in Slot : SlotSeen({}, db, a, s) = db.slot[a][s]
  BY DEF SlotSeen, SlotHits
<1> QED BY <1>1, <1>2 DEF View, World

(* The executor reads, at every issued block, the state at its end. *)
LEMMA ViewIsWorld ==
  ASSUME Grown, Latest(disk) = WorldOf[eng.acc], \A e \in ex : e.diff = Diff[e.blk],
         NEW p \in Issued
  PROVE  ViewAt(p) = WorldOf[p]
<1> DEFINE db == Latest(disk)
           S == {c \in Block : c \in Issued => View(PendingLine(c), db) = WorldOf[c]}
<1>1. eng.acc \in Block /\ ex \subseteq Captures /\ db \in World
  BY LatestType DEF Grown, NodeTypeOK
<1>2. View(PendingLine(eng.acc), db) = WorldOf[eng.acc]
  <2>1. ASSUME NEW e \in ex PROVE e.blk \notin Chain[eng.acc]
    <3>1. Height[e.blk] > Height[eng.acc]
      BY DEF Grown, IsTable
    <3> QED BY <1>1, <3>1, ChainFacts, BlockFacts, SMTT(60)
  <2>2. PendingLine(eng.acc) = {}
    BY <2>1, LineIs DEF Issued
  <2> QED BY <1>1, <2>2, ViewEmpty
<1>3. Root \in S
  <2>1. Root \notin cons.proc /\ Root \in Block
    BY ChainAssumption DEF Grown, NodeTypeOK
  <2> QED BY <1>2, <2>1 DEF Issued
<1>4. ASSUME NEW c \in Block \ {Root}, Parent[c] \in S, c \in cons.proc
      PROVE  View(PendingLine(c), db) = WorldOf[c]
  <2>1. c \in Issued /\ Parent[c] \in Issued /\ Parent[c] \in Block
    BY <1>4, IssuedFacts, BlockFacts DEF Issued
  <2>2. PICK e \in ex : e.blk = c
    BY <1>4, IssuedFacts DEF Issued
  <2>3. \A f \in ex : f.blk = c => f = e
    BY <2>2 DEF Grown, IsTable
  <2>4. PendingLine(Parent[c]) = {f \in ex : f.blk \in Chain[Parent[c]]}
    BY <2>1, LineIs
  <2>5. PendingLine(c) = {f \in ex : f.blk \in Chain[c]}
    BY <2>1, LineIs
  <2>6. PendingLine(c) = PendingLine(Parent[c]) \cup {e}
    BY <2>2, <2>3, <2>4, <2>5, BlockFacts, SMTT(60)
  <2>7. \A f \in PendingLine(Parent[c]) : Height[f.blk] < Height[e.blk]
    BY <2>1, <2>2, <2>4, ChainFacts, BlockFacts, SMTT(60)
  <2>8. PendingLine(Parent[c]) \subseteq Captures /\ e \in Captures
    BY <1>1, <2>4
  <2>9. View(PendingLine(c), db) = After(View(PendingLine(Parent[c]), db), e.diff)
    <3> HIDE DEF db
    <3> QED BY <2>6, <2>7, <2>8, ViewGrows, SMTT(60)
  <2>10. View(PendingLine(Parent[c]), db) = WorldOf[Parent[c]]
    BY <1>4, <2>1
  <2> QED BY <2>2, <2>9, <2>10, ChainAssumption
<1>5. ASSUME NEW c \in Block \ {Root}, Parent[c] \in S PROVE c \in S
  BY <1>2, <1>4, <1>5 DEF Issued
<1>6. Block \subseteq S
  <2> HIDE DEF S
  <2> QED BY <1>3, <1>5, TreeInduction
<1> QED BY <1>6, ViewAtIs, IssuedFacts

LEMMA ExecuteIssued ==
  ASSUME Grown, NEW b \in Block \ {Root}, Parent[b] \in Issued
  PROVE  /\ Execute(b) \in Batch \cup {Fail}
         /\ Latest(disk) = WorldOf[eng.acc] /\ (\A e \in ex : e.diff = Diff[e.blk]) =>
              Execute(b) = Diff[b]
<1>1. Parent[b] \in Block /\ Height[Parent[b]] \in Nat
  BY BlockFacts
<1>2. PendingLine(Parent[b]) = {f \in ex : f.blk \in Chain[Parent[b]]}
  BY LineIs
<1>3. PendingLine(Parent[b]) \in SUBSET Captures
  BY <1>2 DEF Grown, NodeTypeOK
<1>4. \A f \in PendingLine(Parent[b]) : Height[f.blk] <= Height[Parent[b]]
  BY <1>1, <1>2, ChainFacts
<1>5. Latest(disk) \in World
  BY LatestType DEF Grown
<1>6. ViewAt(Parent[b]) \in World
  <2>1. View(PendingLine(Parent[b]), Latest(disk)) \in World
    BY <1>1, <1>3, <1>4, <1>5, ViewType
  <2> QED BY <2>1, ViewAtIs
<1>7. Execute(b) \in Batch \cup {Fail}
  BY <1>6, ChainAssumption DEF Execute
<1>8. ASSUME Latest(disk) = WorldOf[eng.acc], \A e \in ex : e.diff = Diff[e.blk]
      PROVE  Execute(b) = Diff[b]
  <2>1. ViewAt(Parent[b]) = WorldOf[Parent[b]]
    BY <1>8, ViewIsWorld
  <2> QED BY <2>1, ChainAssumption DEF Execute
<1> QED BY <1>7, <1>8

(* In the bootstrap nothing is pending. *)
LEMMA ExecuteBoot ==
  ASSUME NodeTypeOK, ex = {}, NEW b \in Block \ {Root}
  PROVE  /\ Execute(b) \in Batch \cup {Fail}
         /\ Latest(disk) = WorldOf[Parent[b]] => Execute(b) = Diff[b]
<1>1. PendingLine(Parent[b]) = {}
  BY DEF PendingLine
<1>2. Latest(disk) \in World
  BY LatestType
<1>3. ViewAt(Parent[b]) = Latest(disk)
  BY <1>1, <1>2, ViewEmpty, ViewAtIs
<1> QED BY <1>2, <1>3, ChainAssumption, SMTT(60) DEF Execute
-----------------------------------------------------------------------------
(***************************************************************************)
(* The tracker.                                                            *)
(***************************************************************************)
LEMMA ReplaceTable ==
  ASSUME NEW table \in SUBSET Captures, NEW e \in Captures, NEW h \in Nat,
         IsTable(table, h), Height[e.blk] > h
  PROVE  /\ IsTable(Replace(table, e), h) /\ Replace(table, e) \in SUBSET Captures
         /\ e \in Replace(table, e)
         /\ \A f \in table : f.blk # e.blk => f \in Replace(table, e)
         /\ \A f \in Replace(table, e) : f = e \/ f \in table
BY DEF Replace, IsTable

LEMMA EntryIs ==
  ASSUME NEW t, NEW h, IsTable(t.table, h), NEW e \in t.table
  PROVE  Entry(t, e.blk) = e
BY DEF IsTable, Entry

(* The blocks of a path: the last one is the tip, each the parent of the next. *)
LEMMA PathFacts ==
  ASSUME NEW s \in Seq(Captures), NEW fin \in Block, NEW tip \in Block, IsPath(s, fin, tip)
  PROVE  /\ Len(s) \in Nat
         /\ s = <<>> <=> fin = tip
         /\ s # <<>> => s[Len(s)].blk = tip
         /\ \A i \in 1..Len(s) :
              Parent[s[i].blk] = IF i = 1 THEN fin ELSE s[i - 1].blk
<1>1. /\ fin \in Chain[tip] /\ Len(s) = Height[tip] - Height[fin] /\ Len(s) \in Nat
      /\ Height[tip] \in Nat /\ Height[fin] \in Nat /\ tip \in Chain[tip]
      /\ \A i \in 1..Len(s) : s[i].blk \in Chain[tip] /\ Height[s[i].blk] = Height[fin] + i
  BY BlockFacts, ChainEnds, SMTT(60) DEF IsPath
<1>2. s = <<>> <=> Len(s) = 0
  BY SMTT(60)
<1>3. s = <<>> <=> fin = tip
  <2>1. ASSUME s = <<>> PROVE fin = tip
    BY <1>1, <1>2, <2>1, ChainUnique, SMTT(60)
  <2>2. ASSUME fin = tip PROVE s = <<>>
    BY <1>1, <1>2, <2>2, SMTT(60)
  <2> QED BY <2>1, <2>2
<1>4. ASSUME s # <<>> PROVE s[Len(s)].blk = tip
  <2>1. Len(s) \in 1..Len(s)
    BY <1>1, <1>2, <1>4, SMTT(60)
  <2>2. s[Len(s)].blk \in Chain[tip] /\ Height[s[Len(s)].blk] = Height[tip]
    BY <1>1, <2>1, SMTT(60)
  <2> QED BY <1>1, <2>2, ChainUnique
<1>5. ASSUME NEW i \in 1..Len(s)
      PROVE  Parent[s[i].blk] = IF i = 1 THEN fin ELSE s[i - 1].blk
  <2>1. s[i] \in Captures /\ s[i].blk \in Chain[tip] /\ Height[s[i].blk] = Height[fin] + i
    BY <1>1, SMTT(60)
  <2>2. s[i].blk # Root /\ s[i].blk \in Block
    BY <2>1, CaptureFacts
  <2>3. Parent[s[i].blk] \in Chain[tip] /\ Height[Parent[s[i].blk]] = Height[fin] + i - 1
    <3>1. Parent[s[i].blk] \in Chain[tip]
      BY <2>1, <2>2, ChainFacts
    <3>2. /\ Height[s[i].blk] = Height[Parent[s[i].blk]] + 1
          /\ Parent[s[i].blk] \in Block
      BY <2>2, BlockFacts
    <3>3. Height[Parent[s[i].blk]] \in Nat
      BY <3>2, BlockFacts
    <3>4. i \in Nat /\ Height[fin] \in Nat
      BY <1>1, SMTT(60)
    <3>5. Height[Parent[s[i].blk]] + 1 = Height[fin] + i
      BY <2>1, <3>2
    <3>6. Height[Parent[s[i].blk]] = Height[fin] + i - 1
      BY <3>3, <3>4, <3>5, SMTT(60)
    <3> QED BY <3>1, <3>6
  <2>4. CASE i = 1
    BY <1>1, <2>3, <2>4, ChainUnique, SMTT(60)
  <2>5. CASE i # 1
    <3>1. i - 1 \in 1..Len(s)
      BY <1>1, <2>5, SMTT(60)
    <3>2. s[i - 1].blk \in Chain[tip] /\ Height[s[i - 1].blk] = Height[fin] + i - 1
      BY <1>1, <3>1
    <3> QED BY <2>3, <2>5, <3>2, ChainUnique
  <2> QED BY <2>4, <2>5
<1> QED BY <1>1, <1>3, <1>4, <1>5

(* chainTo. *)
LEMMA ChainToIs ==
  ASSUME NEW t \in Trackers,
         NEW h, IsTable(t.table, h), NEW b \in Block, Linked(t, b)
  PROVE  /\ ChainTo(t, b) \in Seq(Captures) /\ IsPath(ChainTo(t, b), t.fin, b)
         /\ Elements(ChainTo(t, b)) \subseteq t.table
<1> DEFINE n == Height[b] - Height[t.fin]
           x(i) == CHOOSE y \in Chain[b] : Height[y] = Height[t.fin] + i
<1>1. t.fin \in Block /\ t.fin \in Chain[b] /\ Height[t.fin] \in Nat /\ Height[b] \in Nat /\ n \in Nat
  BY ChainFacts, BlockFacts, SMTT(60) DEF Linked, Trackers
<1>2. ASSUME NEW i \in 1..n
      PROVE  /\ x(i) \in Chain[b] /\ Height[x(i)] = Height[t.fin] + i
             /\ Entry(t, x(i)) \in t.table /\ Entry(t, x(i)).blk = x(i)
  <2>1. Height[t.fin] + i \in Height[Root]..Height[b]
    <3>1. Height[Root] <= Height[t.fin] /\ Height[Root] \in Nat
      BY <1>1, ChainFacts, ChainAssumption, SMTT(60)
    <3> QED BY <1>1, <3>1, SMTT(60)
  <2>2. \E y \in Chain[b] : Height[y] = Height[t.fin] + i
    BY <2>1, ChainEveryHeight
  <2>3. x(i) \in Chain[b] /\ Height[x(i)] = Height[t.fin] + i
    BY <2>2
  <2> HIDE DEF x
  <2>4. x(i) \notin Chain[t.fin]
    BY <1>1, <2>3, ChainFacts, SMTT(60)
  <2>5. Known(t, x(i))
    BY <2>3, <2>4 DEF Linked
  <2>6. PICK e \in t.table : e.blk = x(i)
    BY <2>5 DEF Known
  <2>7. Entry(t, x(i)) = e
    BY <2>6, EntryIs
  <2> QED BY <2>3, <2>6, <2>7
<1>3. ChainTo(t, b) = [i \in 1..n |-> Entry(t, x(i))]
  BY DEF ChainTo
<1> HIDE DEF x
<1>4. ChainTo(t, b) \in [1..n -> Captures]
  <2>1. t.table \subseteq Captures
    BY DEF Trackers
  <2>2. \A i \in 1..n : Entry(t, x(i)) \in Captures
    BY <1>2, <2>1
  <2> QED BY <1>3, <2>2
<1>5. ChainTo(t, b) \in Seq(Captures) /\ Len(ChainTo(t, b)) = n
  BY <1>1, <1>4, SMTT(60)
<1>6. \A i \in 1..n : ChainTo(t, b)[i] = Entry(t, x(i))
  BY <1>3
<1> HIDE DEF n
<1>7. IsPath(ChainTo(t, b), t.fin, b)
  BY <1>1, <1>2, <1>5, <1>6 DEF IsPath, n
<1>8. Elements(ChainTo(t, b)) \subseteq t.table
  BY <1>2, <1>5, <1>6, SMTT(60) DEF Elements
<1> QED BY <1>5, <1>7, <1>8

LEMMA SameInterval ==
  ASSUME NEW m \in Nat, NEW n \in Nat, 1..m = 1..n
  PROVE  m = n
<1>1. ASSUME m > 0 PROVE m <= n
  <2>1. m \in 1..m
    BY <1>1, SMTT(60)
  <2>2. m \in 1..n
    BY <2>1
  <2> QED BY <2>2, SMTT(60)
<1>2. ASSUME n > 0 PROVE n <= m
  <2>1. n \in 1..n
    BY <1>2, SMTT(60)
  <2>2. n \in 1..m
    BY <2>1
  <2> QED BY <2>2, SMTT(60)
<1> QED BY <1>1, <1>2, SMTT(60)

(* Two paths of the same blocks through one table are the same. *)
LEMMA SamePath ==
  ASSUME NEW table, NEW h, IsTable(table, h),
         NEW s \in Seq(Captures), NEW u \in Seq(Captures),
         Elements(s) \subseteq table, Elements(u) \subseteq table,
         BlocksOf(s) = BlocksOf(u)
  PROVE  s = u
<1>1. DOMAIN s = 1..Len(s) /\ DOMAIN u = 1..Len(u) /\ Len(s) \in Nat /\ Len(u) \in Nat
  BY SMTT(60)
<1>2. DOMAIN s = DOMAIN u /\ \A i \in DOMAIN s : s[i].blk = u[i].blk
  <2>1. DOMAIN BlocksOf(s) = DOMAIN s /\ DOMAIN BlocksOf(u) = DOMAIN u
    BY DEF BlocksOf
  <2>2. \A i \in DOMAIN s : BlocksOf(s)[i] = s[i].blk
    BY DEF BlocksOf
  <2>3. \A i \in DOMAIN u : BlocksOf(u)[i] = u[i].blk
    BY DEF BlocksOf
  <2> QED BY <2>1, <2>2, <2>3
<1>3. ASSUME NEW i \in 1..Len(s) PROVE s[i] = u[i]
  <2>1. s[i] \in table /\ u[i] \in table /\ s[i].blk = u[i].blk
    BY <1>1, <1>2 DEF Elements
  <2> QED BY <2>1 DEF IsTable
<1>4. Len(s) = Len(u)
  <2>1. 1..Len(s) = 1..Len(u)
    BY <1>1, <1>2
  <2> QED BY <1>1, <2>1, SameInterval
<1> QED BY <1>1, <1>3, <1>4, SMTT(60)

LEMMA TrackerFacts ==
  ASSUME NEW t, GoodTracker(t)
  PROVE  /\ t.stack \in Seq(Captures) /\ t.fin \in Block /\ TipOf(t) \in Block
         /\ t.table \in SUBSET Captures /\ Len(t.stack) \in Nat
         /\ t.stack = <<>> <=> t.fin = TipOf(t)
         /\ t.stack # <<>> => t.stack[Len(t.stack)].blk = TipOf(t)
         /\ \A i \in 1..Len(t.stack) :
              Parent[t.stack[i].blk] = IF i = 1 THEN t.fin ELSE t.stack[i - 1].blk
<1>1. t.stack \in Seq(Captures) /\ t.fin \in Block /\ t.table \in SUBSET Captures
  BY DEF GoodTracker, Trackers
<1>2. TipOf(t) \in Block
  <2>1. CASE t.stack = <<>>
    BY <1>1, <2>1 DEF TipOf
  <2>2. CASE t.stack # <<>>
    <3>1. t.stack[Len(t.stack)] \in Captures
      BY <1>1, <2>2, SMTT(60)
    <3> QED BY <2>2, <3>1, CaptureFacts DEF TipOf
  <2> QED BY <2>1, <2>2
<1> QED BY <1>1, <1>2, PathFacts, SMTT(60) DEF GoodTracker

(* A longer path through the same blocks is the old one and a block more. *)
LEMMA PathGrows ==
  ASSUME NEW table, NEW h, IsTable(table, h),
         NEW s \in Seq(Captures), NEW u \in Seq(Captures),
         Elements(s) \subseteq table, Elements(u) \subseteq table,
         Len(u) = Len(s) + 1, BlocksOf(SubSeq(u, 1, Len(s))) = BlocksOf(s)
  PROVE  u = Append(s, u[Len(u)])
<1> DEFINE v == SubSeq(u, 1, Len(s))
<1>1. Len(s) \in Nat /\ v \in Seq(Captures) /\ Len(v) = Len(s)
  BY SMTT(60)
<1>2. \A i \in 1..Len(s) : v[i] = u[i]
  BY SMTT(60)
<1>3. Elements(v) \subseteq table
  BY <1>1, <1>2, SMTT(60) DEF Elements
<1> HIDE DEF v
<1>4. v = s
  BY <1>1, <1>3, SamePath DEF v
<1>5. \A i \in 1..Len(s) : s[i] = u[i]
  BY <1>2, <1>4
<1>6. u[Len(u)] \in Captures
  BY <1>1, SMTT(60)
<1>7. ASSUME NEW i \in 1..Len(u) PROVE u[i] = Append(s, u[Len(u)])[i]
  <2>1. CASE i = Len(u)
    BY <1>1, <2>1, SMTT(60)
  <2>2. CASE i # Len(u)
    <3>1. i \in 1..Len(s)
      BY <1>1, <2>2, SMTT(60)
    <3> QED BY <1>5, <3>1, SMTT(60)
  <2> QED BY <2>1, <2>2
<1>8. Append(s, u[Len(u)]) \in Seq(Captures) /\ Len(Append(s, u[Len(u)])) = Len(u)
  BY <1>1, <1>6, SMTT(60)
<1> QED BY <1>7, <1>8, SMTT(60)

(***************************************************************************)
(* What an event says of the stack above the finalized block.              *)
(***************************************************************************)
Events == [kind : {"block", "reset"}, es : Seq(Captures)] \cup [kind : {"final"}, blk : Block]

At(layers, fin) == [stack |-> layers, fin |-> fin]

Applies(ev, old, new) ==
    \/ ev.kind = "block" /\ new = At(Append(old.stack, Head(ev.es)), old.fin)
    \/ ev.kind = "reset" /\ ev.es # <<>> /\ new = At(ev.es, old.fin)
    \/ ev.kind = "final" /\ OldestIs(old.stack, ev.blk) /\ new = At(Tail(old.stack), ev.blk)

(* The bus goes from old to new, by one event. *)
Publishes(old, new) ==
    \E ev \in Events : bus'.log = Append(bus.log, ev) /\ Applies(ev, old, new)

(* The bus is left alone, or one event tells of its new layers. *)
Published(fin) == bus' = bus \/ Publishes(At(bus.layers, fin), At(bus'.layers, fin))

LEMMA BlockPublishes ==
  ASSUME NEW e \in Captures, SinkBlock(e), NEW fin
  PROVE  Published(fin)
<1> DEFINE ev == [kind |-> "block", es |-> <<e>>]
<1>1. bus'.layers = Append(bus.layers, e) /\ bus'.log = Append(bus.log, ev)
  BY DEF SinkBlock, Publish
<1>2. <<e>> \in Seq(Captures) /\ Head(<<e>>) = e
  BY SMTT(60)
<1>3. ev \in Events /\ ev.kind = "block" /\ Head(ev.es) = e
  BY <1>2 DEF Events
<1> HIDE DEF ev
<1>4. Applies(ev, At(bus.layers, fin), At(bus'.layers, fin))
  BY <1>1, <1>3 DEF Applies, At
<1> QED BY <1>1, <1>3, <1>4 DEF Published, Publishes

LEMMA ResetPublishes ==
  ASSUME NEW chain \in Seq(Captures), chain # <<>>, SinkReset(chain), NEW fin
  PROVE  Published(fin)
<1> DEFINE ev == [kind |-> "reset", es |-> chain]
<1>1. bus'.layers = chain /\ bus'.log = Append(bus.log, ev)
  BY DEF SinkReset, Publish
<1>2. ev \in Events /\ ev.kind = "reset" /\ ev.es = chain
  BY DEF Events
<1> HIDE DEF ev
<1>3. Applies(ev, At(bus.layers, fin), At(bus'.layers, fin))
  BY <1>1, <1>2 DEF Applies, At
<1> QED BY <1>1, <1>2, <1>3 DEF Published, Publishes

(* A reset to a chain that is not empty: the sink and the bus hold it. *)
LEMMA ResetKeeps ==
  ASSUME SinkTypeOK, NEW chain \in Seq(Captures), chain # <<>>, SinkReset(chain)
  PROVE  /\ pending' = Elements(chain) /\ bus'.layers = chain /\ st'.layers = chain
         /\ st'.tip = chain[Len(chain)].blk /\ SinkTypeOK'
<1>1. DOMAIN chain = 1..Len(chain) /\ chain[Len(chain)] \in Captures
  BY SMTT(60)
<1>2. pending' = Elements(chain) /\ pending' \subseteq Captures
  BY <1>1, SMTT(60) DEF SinkReset, Elements
<1>3. bus'.layers = chain /\ bus' \in [layers : Seq(Captures), log : {bus'.log}]
  BY DEF SinkReset, Publish
<1>4. st' = [st EXCEPT !.layers = chain, !.tip = chain[Len(chain)].blk]
  BY DEF SinkReset, PreferenceReset, SinkTypeOK
<1>5. chain[Len(chain)].blk \in Block
  BY <1>1, CaptureFacts
<1>6. st \in [base : {st.base}, layers : Seq(Captures), tip : Block \cup {None}]
  BY DEF SinkTypeOK
<1>7. /\ st'.layers = chain /\ st'.tip = chain[Len(chain)].blk
      /\ st' \in [base : {st'.base}, layers : Seq(Captures), tip : Block \cup {None}]
  BY <1>4, <1>5, <1>6
<1> QED BY <1>2, <1>3, <1>7 DEF SinkTypeOK

(***************************************************************************)
(* Tracker.Head with a block that links to the finalized one: whichever    *)
(* event it emits, the stack, the sink and the bus end up on that block.   *)
(***************************************************************************)
LEMMA HeadKeeps ==
  ASSUME SinkTypeOK, NEW t, GoodTracker(t), Mirrors(t), NEW p \in Block, Linked(t, p),
         p = t.fin => t.stack = <<>>, TrackerHead(t, p)
  PROVE  /\ GoodTracker(tr') /\ tr'.table = t.table /\ tr'.fin = t.fin /\ TipOf(tr') = p
         /\ Mirrors(tr)' /\ SinkTypeOK' /\ pc' = "live" /\ Published(t.fin)
<1> DEFINE chain == ChainTo(t, p)
<1>1. /\ t \in Trackers /\ t.stack \in Seq(Captures) /\ t.fin \in Block
      /\ IsTable(t.table, Height[t.fin]) /\ Elements(t.stack) \subseteq t.table
      /\ Len(t.stack) \in Nat
  BY TrackerFacts DEF GoodTracker
<1>2. chain \in Seq(Captures) /\ IsPath(chain, t.fin, p) /\ Elements(chain) \subseteq t.table
  BY <1>1, ChainToIs
<1>3. Len(chain) \in Nat /\ (chain = <<>> <=> t.fin = p) /\ (chain # <<>> => chain[Len(chain)].blk = p)
  BY <1>1, <1>2, PathFacts, SMTT(60)
<1>4. ASSUME NEW u, u = [t EXCEPT !.stack = chain]
      PROVE  /\ GoodTracker(u) /\ u.table = t.table /\ u.fin = t.fin /\ TipOf(u) = p /\ u.stack = chain
  <2>1. u \in Trackers /\ u.stack = chain /\ u.fin = t.fin /\ u.table = t.table
    BY <1>1, <1>2, <1>4 DEF Trackers
  <2>2. TipOf(u) = p
    BY <1>3, <2>1 DEF TipOf
  <2> QED BY <1>1, <1>2, <2>1, <2>2 DEF GoodTracker
<1>5. CASE BlocksOf(chain) = BlocksOf(t.stack)
  <2>1. chain = t.stack
    BY <1>1, <1>2, <1>5, SamePath
  <2>2. TipOf(t) = p
    BY <1>3, <2>1 DEF TipOf
  <2>3. tr' = t /\ pc' = "live" /\ UNCHANGED <<pending, st, bus>>
    BY <1>5 DEF TrackerHead
  <2> QED BY <2>2, <2>3 DEF Mirrors, SinkTypeOK, Published
<1>6. CASE BlocksOf(chain) # BlocksOf(t.stack)
  <2>1. /\ tr' = [t EXCEPT !.stack = chain] /\ pc' = "live"
        /\ IF /\ Len(chain) = Len(t.stack) + 1
              /\ BlocksOf(SubSeq(chain, 1, Len(t.stack))) = BlocksOf(t.stack)
           THEN SinkBlock(chain[Len(chain)]) ELSE SinkReset(chain)
    BY <1>6 DEF TrackerHead
  <2>2. /\ GoodTracker(tr') /\ tr'.table = t.table /\ tr'.fin = t.fin /\ TipOf(tr') = p
        /\ tr'.stack = chain
    BY <1>4, <2>1
  <2>3. chain # <<>>
    BY <1>3, <1>6
  <2>4. Len(chain) \in 1..Len(chain) /\ chain[Len(chain)] \in Captures /\ chain[Len(chain)].blk = p
    BY <1>2, <1>3, <2>3, SMTT(60)
  <2> HIDE DEF chain
  <2>5. pending' = Elements(chain) /\ bus'.layers = chain /\ st'.layers = chain /\ st'.tip = p /\ SinkTypeOK'
    <3>1. CASE /\ Len(chain) = Len(t.stack) + 1
               /\ BlocksOf(SubSeq(chain, 1, Len(t.stack))) = BlocksOf(t.stack)
      <4> DEFINE e == chain[Len(chain)]
      <4>1. chain = Append(t.stack, e)
        BY <1>1, <1>2, <3>1, PathGrows
      <4>2. /\ pending' = Replace(pending, e) /\ st' = ApplyBlock(st, e)
            /\ bus' = Publish(Append(bus.layers, e), [kind |-> "block", es |-> <<e>>])
        BY <2>1, <3>1 DEF SinkBlock
      <4>3. \A f \in Elements(t.stack) : f.blk # e.blk
        <5> SUFFICES ASSUME NEW i \in 1..Len(t.stack) PROVE t.stack[i].blk # e.blk
          BY DEF Elements
        <5>1. i \in 1..Len(chain) /\ i # Len(chain) /\ t.stack[i] = chain[i]
          BY <1>1, <3>1, <4>1, SMTT(60)
        <5>2. Height[chain[i].blk] = Height[t.fin] + i /\ Height[e.blk] = Height[t.fin] + Len(chain)
          BY <1>2, <2>4, <5>1 DEF IsPath
        <5>3. Height[t.fin] \in Nat
          BY <1>1, BlockFacts
        <5> QED BY <1>3, <5>1, <5>2, <5>3, SMTT(60)
      <4>4. Elements(chain) = Elements(t.stack) \cup {e}
        <5>1. \A i \in 1..Len(t.stack) : chain[i] = t.stack[i]
          BY <1>1, <4>1, SMTT(60)
        <5>2. 1..Len(chain) = 1..Len(t.stack) \cup {Len(chain)}
          BY <1>1, <3>1, SMTT(60)
        <5> HIDE DEF e
        <5> QED BY <5>1, <5>2, SMTT(60) DEF Elements, e
      <4>5. pending' = Elements(chain)
        BY <4>2, <4>3, <4>4 DEF Replace, Mirrors
      <4>6. /\ st.layers = t.stack /\ bus.layers = t.stack
            /\ st \in [base : {st.base}, layers : Seq(Captures), tip : Block \cup {None}]
        BY DEF Mirrors, SinkTypeOK
      <4>7. st' = [st EXCEPT !.layers = chain, !.tip = p]
        BY <2>4, <4>1, <4>2, <4>6 DEF ApplyBlock
      <4>8. /\ st'.layers = chain /\ st'.tip = p
            /\ st' \in [base : {st'.base}, layers : Seq(Captures), tip : Block \cup {None}]
        BY <1>2, <4>6, <4>7
      <4>9. bus'.layers = chain /\ bus' \in [layers : Seq(Captures), log : {bus'.log}]
        BY <1>2, <4>1, <4>2, <4>6 DEF Publish
      <4>10. pending' \subseteq Captures
        BY <1>2, <4>5, SMTT(60) DEF Elements
      <4> QED BY <4>5, <4>8, <4>9, <4>10 DEF SinkTypeOK
    <3>2. CASE ~(/\ Len(chain) = Len(t.stack) + 1
                 /\ BlocksOf(SubSeq(chain, 1, Len(t.stack))) = BlocksOf(t.stack))
      <4>1. SinkReset(chain)
        BY <2>1, <3>2
      <4> QED BY <1>2, <2>3, <2>4, <4>1, ResetKeeps
    <3> QED BY <3>1, <3>2
  <2>6. Published(t.fin)
    BY <1>2, <2>1, <2>3, <2>4, BlockPublishes, ResetPublishes
  <2> QED BY <2>1, <2>2, <2>5, <2>6 DEF Mirrors
<1> QED BY <1>5, <1>6

(***************************************************************************)
(* emitHead with a leaf of the processing tree, whether the sink hears of  *)
(* it or knew it already.                                                  *)
(***************************************************************************)
LEMMA EmitKeeps ==
  ASSUME SinkTypeOK, eng \in [acc : Block, lastPref : Block],
         NEW t, GoodTracker(t), Mirrors(t), t.fin = eng.acc,
         NEW proc \in SUBSET (Block \ {Root}), Rooted(eng.acc, proc),
         \A x \in proc : Known(t, x), TipOf(t) \in proc \cup {eng.acc},
         NEW p \in Leaves(eng.acc, proc), eng.lastPref = p => TipOf(t) = p,
         EmitHead(t, p)
  PROVE  /\ GoodTracker(tr') /\ tr'.table = t.table /\ tr'.fin = t.fin /\ TipOf(tr') = p
         /\ Mirrors(tr)' /\ SinkTypeOK' /\ pc' = "live" /\ Published(t.fin)
         /\ eng' \in [acc : Block, lastPref : Block] /\ eng'.acc = eng.acc /\ eng'.lastPref = p
<1>1. CASE p = eng.lastPref
  <2>1. tr' = t /\ pc' = "live" /\ UNCHANGED <<eng, pending, st, bus>>
    BY <1>1 DEF EmitHead
  <2>2. Mirrors(tr)' /\ SinkTypeOK'
    BY <2>1 DEF Mirrors, SinkTypeOK
  <2> QED BY <1>1, <2>1, <2>2 DEF Published
<1>2. CASE p # eng.lastPref
  <2>1. eng' = [eng EXCEPT !.lastPref = p] /\ TrackerHead(t, p)
    BY <1>2 DEF EmitHead
  <2>2. eng.acc \in Block /\ p \in proc \cup {eng.acc}
    BY DEF Leaves
  <2>3. p \in Block /\ eng.acc \in Chain[p]
    BY <2>2, RootedFacts
  <2>4. ASSUME NEW x \in Chain[p] \ Chain[eng.acc] PROVE Known(t, x)
    <3>1. Height[x] > Height[eng.acc]
      <4>1. Chain[eng.acc] = {y \in Chain[p] : Height[y] <= Height[eng.acc]}
        BY <2>3, ChainNested, SMTT(60)
      <4>2. Height[x] \in Nat /\ Height[eng.acc] \in Nat
        BY <2>2, <2>3, ChainFacts, BlockFacts
      <4> QED BY <4>1, <4>2, SMTT(60)
    <3> QED BY <2>2, <3>1, RootedLine
  <2>5. Linked(t, p)
    BY <2>3, <2>4 DEF Linked
  <2>6. p = t.fin => t.stack = <<>>
    <3> SUFFICES ASSUME p = t.fin, t.stack # <<>> PROVE FALSE
      OBVIOUS
    <3> DEFINE x == t.stack[1].blk
    <3>1. t.stack \in Seq(Captures) /\ 1 \in 1..Len(t.stack)
      BY TrackerFacts, SMTT(60)
    <3>2. Parent[x] = t.fin
      BY <3>1, TrackerFacts
    <3>3. x \in Chain[TipOf(t)] /\ Height[x] = Height[t.fin] + 1
      BY <3>1 DEF GoodTracker, IsPath
    <3>4. x \in proc
      <4>1. Height[eng.acc] \in Nat
        BY <2>2, BlockFacts
      <4> QED BY <2>2, <3>3, <4>1, RootedLine, SMTT(60)
    <3> QED BY <3>2, <3>4 DEF Leaves
  <2>7. eng' \in [acc : Block, lastPref : Block] /\ eng'.acc = eng.acc /\ eng'.lastPref = p
    BY <2>1, <2>3
  <2> QED BY <2>1, <2>3, <2>5, <2>6, <2>7, HeadKeeps
<1> QED BY <1>1, <1>2

-----------------------------------------------------------------------------
(***************************************************************************)
(* The steps of a live engine.                                             *)
(***************************************************************************)
(* What the invariant says of an engine that is live. *)
LEMMA LiveFacts ==
  ASSUME NodeInv, pc \in {"live", "polled"}
  PROVE  /\ ~boot /\ Grown /\ ProcInv /\ PrefInv /\ GoodTracker(tr) /\ Mirrors(tr)
         /\ tr.fin = eng.acc /\ net = eng.acc /\ disk.mark = tr.fin /\ disk.top = tr.fin
         /\ ex = tr.table /\ Rooted(eng.acc, cons.proc)
         /\ cons.proc \in SUBSET (Block \ {Root}) /\ eng.acc \in Block
<1>1. NodeTypeOK /\ DiskInv /\ Shape /\ Phase
  BY DEF NodeInv
<1>2. ~boot /\ tr.fin = eng.acc /\ ProcInv /\ PrefInv
  BY <1>1 DEF Phase
<1>3. ex = tr.table /\ GoodTracker(tr) /\ Mirrors(tr) /\ tr.fin = disk.mark
  BY <1>1 DEF Shape
<1>4. disk.mark = disk.top
  BY <1>1 DEF DiskInv
<1>5. net = eng.acc /\ Rooted(eng.acc, cons.proc)
  BY <1>2 DEF ProcInv
<1>6. Grown
  BY <1>1, <1>2, <1>3 DEF Grown, GoodTracker
<1>7. cons.proc \in SUBSET (Block \ {Root}) /\ eng.acc \in Block
  BY <1>1 DEF NodeTypeOK
<1> QED BY <1>2, <1>3, <1>4, <1>5, <1>6, <1>7

(* A handler that ends with the engine idle. *)
LEMMA NowLive ==
  ASSUME NodeInv, pc \in {"live", "polled"}, pc' = "live",
         UNCHANGED <<net, disk, cur, boot, torn>>,
         ex' = tr'.table, GoodTracker(tr'), tr'.fin = tr.fin, Mirrors(tr)', SinkTypeOK',
         cons' \in [proc : SUBSET (Block \ {Root}), pref : Block],
         eng' \in [acc : Block, lastPref : Block], eng'.acc = eng.acc,
         Rooted(eng.acc, cons'.proc), \A x \in cons'.proc : Known(tr', x),
         eng'.lastPref = TipOf(tr'), cons'.pref = TipOf(tr'),
         TipOf(tr') \in Leaves(eng.acc, cons'.proc),
         ~torn => \A e \in ex' : e.diff = Diff[e.blk]
  PROVE  NodeInv'
<1>1. NodeTypeOK /\ DiskInv /\ Exact
  BY DEF NodeInv
<1>2. ~boot /\ tr.fin = eng.acc /\ net = eng.acc /\ disk.mark = tr.fin /\ disk.top = tr.fin
  BY LiveFacts
<1>3. NodeTypeOK'
  <2>1. tr' \in Trackers /\ ex' \subseteq Captures
    BY TrackerFacts DEF GoodTracker
  <2> QED BY <1>1, <2>1 DEF NodeTypeOK, Pcs
<1>4. DiskInv'
  BY <1>1, <1>2 DEF DiskInv
<1>5. NoHalt'
  BY DEF NoHalt
<1>6. Shape'
  BY <1>2 DEF Shape
<1>7. ProcInv'
  BY <1>2 DEF ProcInv
<1>8. PrefInv'
  BY DEF PrefInv, Leaves
<1>9. Phase'
  BY <1>2, <1>7, <1>8 DEF Phase
<1>10. Exact'
  BY <1>1 DEF Exact
<1> QED BY <1>3, <1>4, <1>5, <1>6, <1>9, <1>10 DEF NodeInv

LEMMA PollDoneKeeps ==
  ASSUME NodeInv, NEW p \in Block, PollDone(p)
  PROVE  NodeInv' /\ Published(tr.fin) /\ tr'.fin = tr.fin
<1>1. /\ pc \in {"live", "polled"} /\ p \in Leaves(eng.acc, cons.proc)
      /\ cons' = [cons EXCEPT !.pref = p] /\ EmitHead(tr, p)
      /\ UNCHANGED <<net, ex, disk, cur, boot, torn>>
  BY DEF PollDone, crashVars
<1>2. NodeTypeOK /\ SinkTypeOK /\ eng \in [acc : Block, lastPref : Block] /\ Exact
  BY <1>1 DEF NodeInv, NodeTypeOK
<1>3. /\ ~boot /\ ProcInv /\ PrefInv /\ GoodTracker(tr) /\ Mirrors(tr)
      /\ tr.fin = eng.acc /\ ex = tr.table /\ Rooted(eng.acc, cons.proc)
      /\ cons.proc \in SUBSET (Block \ {Root})
  BY <1>1, LiveFacts
<1>4. TipOf(tr) \in cons.proc \cup {eng.acc} /\ (eng.lastPref = p => TipOf(tr) = p)
  BY <1>1, <1>3 DEF PrefInv, Leaves
<1>5. \A x \in cons.proc : Known(tr, x)
  BY <1>3 DEF ProcInv
<1>6. /\ GoodTracker(tr') /\ tr'.table = tr.table /\ tr'.fin = tr.fin /\ TipOf(tr') = p
      /\ Mirrors(tr)' /\ SinkTypeOK' /\ pc' = "live" /\ Published(tr.fin)
      /\ eng' \in [acc : Block, lastPref : Block] /\ eng'.acc = eng.acc /\ eng'.lastPref = p
  BY <1>1, <1>2, <1>3, <1>4, <1>5, EmitKeeps
<1>7. cons' \in [proc : SUBSET (Block \ {Root}), pref : Block] /\ cons'.proc = cons.proc /\ cons'.pref = p
  BY <1>1, <1>2 DEF NodeTypeOK
<1>8. \A x \in cons'.proc : Known(tr', x)
  BY <1>5, <1>6, <1>7 DEF Known
<1>9. ~torn => \A e \in ex' : e.diff = Diff[e.blk]
  BY <1>1, <1>2 DEF Exact
<1> QED BY <1>1, <1>3, <1>6, <1>7, <1>8, <1>9, NowLive

(* The executor fails loud: only after a death inside Sink.Finalize. *)
LEMMA HaltKeeps ==
  ASSUME NodeInv, torn, Halt, ex' = ex, cons' = cons, eng' = eng, net' = net, disk' = disk,
         cur' \in Block, boot' = boot, torn' = torn, pc # "mark"
  PROVE  NodeInv'
<1>1. NodeTypeOK /\ DiskInv
  BY DEF NodeInv
<1>2. pc' = "halt" /\ UNCHANGED <<tr, pending, st, bus>>
  BY DEF Halt
<1>3. NodeTypeOK'
  BY <1>1, <1>2 DEF NodeTypeOK, SinkTypeOK, Pcs
<1>4. DiskInv'
  BY <1>1, <1>2 DEF DiskInv
<1>5. NoHalt'
  BY DEF NoHalt
<1> QED BY <1>2, <1>3, <1>4, <1>5 DEF NodeInv

LEMMA IssueKeeps ==
  ASSUME NodeInv, NEW b \in Block \ {Root}, Issue(b)
  PROVE  NodeInv' /\ Published(tr.fin) /\ tr'.fin = tr.fin
<1> DEFINE e == Capture(b, Execute(b))
           t == [tr EXCEPT !.table = Replace(tr.table, e)]
           pref == IF cons.pref = Parent[b] THEN b ELSE cons.pref
           proc == cons.proc \cup {b}
<1>1. /\ pc = "live" /\ b \notin cons.proc /\ Parent[b] \in cons.proc \cup {eng.acc}
      /\ IF Execute(b) = Fail THEN Halt /\ UNCHANGED <<cons, eng, ex>>
         ELSE /\ ex' = Replace(ex, e) /\ cons' = [proc |-> proc, pref |-> pref]
              /\ EmitHead(t, pref)
      /\ UNCHANGED <<net, disk, cur, boot, torn>>
  BY DEF Issue, crashVars
<1>2. /\ ~boot /\ Grown /\ ProcInv /\ PrefInv /\ GoodTracker(tr) /\ Mirrors(tr)
      /\ tr.fin = eng.acc /\ disk.top = eng.acc
      /\ ex = tr.table /\ Rooted(eng.acc, cons.proc)
      /\ cons.proc \in SUBSET (Block \ {Root}) /\ eng.acc \in Block
  BY <1>1, LiveFacts
<1>3. /\ NodeTypeOK /\ SinkTypeOK /\ eng \in [acc : Block, lastPref : Block] /\ Exact
      /\ cons.pref = eng.lastPref /\ eng.lastPref = TipOf(tr)
      /\ eng.lastPref \in Leaves(eng.acc, cons.proc)
  BY <1>1 DEF NodeInv, NodeTypeOK, Phase
<1>4. /\ Execute(b) \in Batch \cup {Fail}
      /\ Latest(disk) = WorldOf[eng.acc] /\ (\A f \in ex : f.diff = Diff[f.blk]) => Execute(b) = Diff[b]
  BY <1>1, <1>2, ExecuteIssued DEF Issued
<1>5. ~torn => Execute(b) = Diff[b] /\ \A f \in ex : f.diff = Diff[f.blk]
  BY <1>2, <1>3, <1>4 DEF Exact
<1>6. CASE Execute(b) = Fail
  <2>1. torn
    BY <1>5, <1>6, ChainAssumption, SMTT(60)
  <2>2. cur' \in Block
    BY <1>1, <1>3 DEF NodeTypeOK
  <2>3. bus' = bus /\ tr' = tr
    BY <1>1, <1>6 DEF Halt
  <2> QED BY <1>1, <1>6, <2>1, <2>2, <2>3, HaltKeeps DEF Published
<1>7. CASE Execute(b) # Fail
  <2>1. /\ ex' = Replace(ex, e) /\ cons' = [proc |-> proc, pref |-> pref]
        /\ EmitHead(t, pref)
    BY <1>1, <1>7
  <2>2. e \in Captures /\ e.blk = b /\ e.diff = Execute(b)
    BY <1>4, <1>7 DEF Captures, Capture
  <2> HIDE DEF e
  <2>3. /\ Parent[b] \in Block /\ eng.acc \in Chain[Parent[b]] /\ Height[Parent[b]] >= Height[eng.acc]
    BY <1>1, <1>2, RootedFacts, ChainFacts, SMTT(60)
  <2>4. /\ eng.acc \in Chain[b] /\ Height[b] > Height[eng.acc] /\ b # eng.acc /\ Parent[b] # b
        /\ Height[eng.acc] \in Nat
    BY <1>2, <2>3, BlockFacts, SMTT(60)
  <2>5. /\ IsTable(Replace(tr.table, e), Height[tr.fin]) /\ Replace(tr.table, e) \in SUBSET Captures
        /\ e \in Replace(tr.table, e)
        /\ \A f \in tr.table : f.blk # b => f \in Replace(tr.table, e)
        /\ \A f \in Replace(tr.table, e) : f = e \/ f \in tr.table
    <3>1. tr.table \in SUBSET Captures /\ IsTable(tr.table, Height[eng.acc])
      BY <1>2, TrackerFacts DEF GoodTracker
    <3>2. PICK table, h : table = tr.table /\ h = Height[eng.acc]
      OBVIOUS
    <3>3. /\ table \in SUBSET Captures /\ e \in Captures /\ h \in Nat /\ IsTable(table, h)
          /\ Height[e.blk] > h
      BY <2>2, <2>4, <3>1, <3>2
    <3>4. /\ IsTable(Replace(table, e), h) /\ Replace(table, e) \in SUBSET Captures
          /\ e \in Replace(table, e)
          /\ \A f \in table : f.blk # e.blk => f \in Replace(table, e)
          /\ \A f \in Replace(table, e) : f = e \/ f \in table
      BY <3>3, ReplaceTable
    <3> QED BY <1>2, <2>2, <3>2, <3>4
  <2>6. tr \in Trackers
    BY <1>2 DEF GoodTracker
  <2>7. /\ t \in Trackers /\ t.table = Replace(tr.table, e) /\ t.stack = tr.stack /\ t.fin = tr.fin
        /\ TipOf(t) = TipOf(tr)
    BY <2>5, <2>6 DEF Trackers, TipOf
  <2> HIDE DEF t
  <2>8. Elements(tr.stack) \subseteq Replace(tr.table, e)
    <3> SUFFICES ASSUME NEW i \in 1..Len(tr.stack) PROVE tr.stack[i] \in Replace(tr.table, e)
      BY DEF Elements
    <3>1. tr.stack[i] \in tr.table
      BY <1>2 DEF GoodTracker, Elements
    <3>2. tr.stack[i].blk \in Chain[TipOf(tr)] /\ Height[tr.stack[i].blk] = Height[tr.fin] + i
      BY <1>2 DEF GoodTracker, IsPath
    <3>3. TipOf(tr) \in cons.proc \cup {eng.acc}
      BY <1>2 DEF PrefInv
    <3>4. Len(tr.stack) \in Nat
      BY <1>2, TrackerFacts
    <3>5. Height[tr.stack[i].blk] > Height[eng.acc]
      BY <1>2, <2>4, <3>2, <3>4, SMTT(60)
    <3>6. tr.stack[i].blk \in cons.proc
      BY <1>2, <3>2, <3>3, <3>5, RootedLine, SMTT(60)
    <3> QED BY <1>1, <2>5, <3>1, <3>6
  <2>9. GoodTracker(t) /\ Mirrors(t)
    BY <1>2, <2>5, <2>7, <2>8 DEF GoodTracker, Mirrors
  <2>10. proc \in SUBSET (Block \ {Root}) /\ Rooted(eng.acc, proc)
    BY <1>1, <1>2, <2>4 DEF Rooted
  <2>11. \A x \in proc : Known(t, x)
    <3> SUFFICES ASSUME NEW x \in proc PROVE \E f \in Replace(tr.table, e) : f.blk = x
      BY <2>7 DEF Known
    <3>1. CASE x = b
      BY <2>2, <2>5, <3>1
    <3>2. CASE x # b
      <4>1. PICK f \in tr.table : f.blk = x
        BY <1>2, <3>2 DEF ProcInv, Known
      <4> QED BY <2>5, <3>2, <4>1
    <3> QED BY <3>1, <3>2
  <2>12. TipOf(t) \in proc \cup {eng.acc}
    BY <1>2, <2>7 DEF PrefInv
  <2>13. pref \in Leaves(eng.acc, proc)
    BY <1>1, <1>2, <1>3, <2>4 DEF Leaves, Rooted
  <2>14. pref \in Block
    BY <1>3 DEF NodeTypeOK
  <2>15. eng.lastPref = pref => TipOf(t) = pref
    BY <1>3, <2>7
  <2> HIDE DEF pref, proc
  <2>16. /\ GoodTracker(tr') /\ tr'.table = t.table /\ tr'.fin = t.fin /\ TipOf(tr') = pref
         /\ Mirrors(tr)' /\ SinkTypeOK' /\ pc' = "live" /\ Published(t.fin)
         /\ eng' \in [acc : Block, lastPref : Block] /\ eng'.acc = eng.acc /\ eng'.lastPref = pref
    BY <1>2, <1>3, <2>1, <2>7, <2>9, <2>10, <2>11, <2>12, <2>13, <2>15, EmitKeeps
  <2>17. cons' \in [proc : SUBSET (Block \ {Root}), pref : Block] /\ cons'.proc = proc /\ cons'.pref = pref
    BY <2>1, <2>10, <2>14
  <2>18. \A x \in cons'.proc : Known(tr', x)
    BY <2>11, <2>16, <2>17 DEF Known
  <2>19. ex' = tr'.table
    BY <1>2, <2>1, <2>7, <2>16
  <2>20. ~torn => \A f \in ex' : f.diff = Diff[f.blk]
    BY <1>2, <1>5, <2>1, <2>2, <2>5
  <2> QED BY <1>1, <2>7, <2>10, <2>13, <2>16, <2>17, <2>18, <2>19, <2>20, NowLive
<1> QED BY <1>6, <1>7

-----------------------------------------------------------------------------
(***************************************************************************)
(* Acceptance, Sink.Finalize, crashes and the bootstrap.                   *)
(***************************************************************************)
(***************************************************************************)
(* Tracker.Accepted with a known child of the finalized block: it becomes  *)
(* or stays the oldest of the stack, and the sink and the bus follow.      *)
(***************************************************************************)
LEMMA AcceptedKeeps ==
  ASSUME SinkTypeOK, NEW t, GoodTracker(t), Mirrors(t), NEW b \in Block \ {Root},
         Known(t, b), Parent[b] = t.fin, TrackerAccepted(t, b)
  PROVE  /\ GoodTracker(tr') /\ tr'.table = t.table /\ tr'.fin = t.fin
         /\ OldestIs(tr'.stack, b) /\ Mirrors(tr)' /\ SinkTypeOK' /\ pc' = "write"
         /\ Published(t.fin)
         /\ OldestIs(t.stack, b) => TipOf(tr') = TipOf(t)
         /\ ~OldestIs(t.stack, b) => TipOf(tr') = b
<1>1. CASE OldestIs(t.stack, b)
  <2>1. tr' = t /\ pc' = "write" /\ UNCHANGED <<pending, st, bus>>
    BY <1>1 DEF TrackerAccepted
  <2>2. Mirrors(tr)' /\ SinkTypeOK'
    BY <2>1 DEF Mirrors, SinkTypeOK
  <2> QED BY <1>1, <2>1, <2>2 DEF Published
<1>2. CASE ~OldestIs(t.stack, b)
  <2>1. /\ tr' = [t EXCEPT !.stack = <<Entry(t, b)>>]
        /\ SinkReset(tr'.stack) /\ pc' = "write"
    BY <1>2 DEF TrackerAccepted
  <2>2. PICK e \in t.table : e.blk = b
    BY DEF Known
  <2>3. Entry(t, b) = e
    BY <2>2, EntryIs DEF GoodTracker
  <2>4. e \in Captures /\ t \in Trackers /\ t.fin \in Block
    BY <2>2, TrackerFacts DEF GoodTracker
  <2>5. /\ tr' \in Trackers /\ tr'.stack = <<e>> /\ tr'.table = t.table /\ tr'.fin = t.fin
    <3>1. PICK s : s = <<e>>
      OBVIOUS
    <3>2. s \in Seq(Captures)
      BY <2>4, <3>1, SMTT(60)
    <3>3. tr' = [t EXCEPT !.stack = s]
      BY <2>1, <2>3, <3>1
    <3>4. tr' \in Trackers /\ tr'.stack = s /\ tr'.table = t.table /\ tr'.fin = t.fin
      BY <2>4, <3>2, <3>3 DEF Trackers
    <3> QED BY <3>1, <3>4
  <2>6. /\ <<e>> \in Seq(Captures) /\ <<e>> # <<>> /\ Len(<<e>>) = 1 /\ <<e>>[1] = e
    BY <2>4, SMTT(60)
  <2>7. TipOf(tr') = b
    BY <2>2, <2>5, <2>6 DEF TipOf
  <2>8. OldestIs(tr'.stack, b)
    BY <2>2, <2>5, <2>6, SMTT(60) DEF OldestIs
  <2>9. t.fin \in Chain[b] /\ b \in Chain[b] /\ Height[b] = Height[t.fin] + 1 /\ Height[t.fin] \in Nat
    BY <2>4, BlockFacts, ChainEnds
  <2>10. IsPath(<<e>>, t.fin, b)
    <3>1. 1..1 = {1}
      BY SMTT(60)
    <3> QED BY <2>2, <2>6, <2>9, <3>1, SMTT(60) DEF IsPath
  <2>11. Elements(<<e>>) \subseteq t.table
    BY <2>2, <2>6, SMTT(60) DEF Elements
  <2>12. GoodTracker(tr')
    BY <2>5, <2>7, <2>10, <2>11 DEF GoodTracker
  <2>13. /\ pending' = Elements(<<e>>) /\ bus'.layers = <<e>> /\ st'.layers = <<e>>
         /\ st'.tip = b /\ SinkTypeOK'
    BY <2>1, <2>2, <2>5, <2>6, ResetKeeps
  <2>14. Mirrors(tr)'
    BY <2>5, <2>7, <2>13 DEF Mirrors
  <2>15. Published(t.fin)
    BY <2>1, <2>5, <2>6, ResetPublishes
  <2> QED BY <1>2, <2>1, <2>5, <2>7, <2>8, <2>12, <2>13, <2>14, <2>15
<1> QED BY <1>1, <1>2

(* The rivals of an accepted block and what is above them are dropped. *)
LEMMA BelowRooted ==
  ASSUME NEW acc \in Block, NEW proc \in SUBSET (Block \ {Root}), Rooted(acc, proc),
         NEW b \in proc, Parent[b] = acc
  PROVE  Rooted(b, Below(b, proc)) /\ Below(b, proc) \in SUBSET (Block \ {Root})
<1>1. b \notin Chain[acc]
  BY ChainFacts, BlockFacts, SMTT(60)
<1>2. ASSUME NEW x \in Below(b, proc)
      PROVE  b \in Chain[x] /\ x # b /\ Parent[x] \in Below(b, proc) \cup {b}
  <2>1. x \in proc /\ b \in Chain[x] /\ x # b
    BY DEF Below
  <2>2. b \in Chain[Parent[x]]
    BY <2>1, BlockFacts, SMTT(60)
  <2>3. Parent[x] \in proc
    BY <1>1, <2>1, <2>2 DEF Rooted
  <2> QED BY <2>1, <2>2, <2>3 DEF Below
<1>3. Below(b, proc) \in SUBSET (Block \ {Root})
  BY DEF Below
<1> QED BY <1>2, <1>3 DEF Rooted

LEMMA AcceptKeeps ==
  ASSUME NodeInv, NEW b \in Block \ {Root}, Accept(b)
  PROVE  NodeInv' /\ Published(tr.fin) /\ tr'.fin = tr.fin
<1> DEFINE proc == Below(b, cons.proc)
<1>1. /\ pc \in {"live", "polled"} /\ b \in cons.proc /\ Parent[b] = eng.acc
      /\ net' = (IF b \in Chain[net] THEN net ELSE b)
      /\ eng' = [eng EXCEPT !.acc = b] /\ cons' = [cons EXCEPT !.proc = proc]
      /\ TrackerAccepted(tr, b) /\ cur' = b
      /\ UNCHANGED <<ex, disk, boot, torn>>
  BY DEF Accept, crashVars
<1>2. /\ ~boot /\ ProcInv /\ PrefInv /\ GoodTracker(tr) /\ Mirrors(tr)
      /\ tr.fin = eng.acc /\ net = eng.acc /\ disk.mark = tr.fin /\ disk.top = tr.fin
      /\ ex = tr.table /\ Rooted(eng.acc, cons.proc)
      /\ cons.proc \in SUBSET (Block \ {Root}) /\ eng.acc \in Block
  BY <1>1, LiveFacts
<1>3. NodeTypeOK /\ SinkTypeOK /\ Exact /\ DiskInv
  BY <1>1 DEF NodeInv, NodeTypeOK
<1>4. b \notin Chain[eng.acc] /\ Height[b] = Height[eng.acc] + 1 /\ Height[eng.acc] \in Nat
  BY <1>1, <1>2, ChainFacts, BlockFacts, SMTT(60)
<1>5. net' = b
  BY <1>1, <1>2, <1>4
<1>6. Known(tr, b)
  BY <1>1, <1>2 DEF ProcInv
<1>7. /\ GoodTracker(tr') /\ tr'.table = tr.table /\ tr'.fin = tr.fin
      /\ OldestIs(tr'.stack, b) /\ Mirrors(tr)' /\ SinkTypeOK' /\ pc' = "write" /\ Published(tr.fin)
      /\ OldestIs(tr.stack, b) => TipOf(tr') = TipOf(tr)
      /\ ~OldestIs(tr.stack, b) => TipOf(tr') = b
  BY <1>1, <1>2, <1>3, <1>6, AcceptedKeeps
<1>8. Rooted(b, proc) /\ proc \in SUBSET (Block \ {Root}) /\ proc \subseteq cons.proc
  BY <1>1, <1>2, BelowRooted DEF Below
<1>9. /\ eng' \in [acc : Block, lastPref : Block] /\ eng'.acc = b /\ eng'.lastPref = eng.lastPref
  BY <1>1, <1>3 DEF NodeTypeOK
<1>10. cons' \in [proc : SUBSET (Block \ {Root}), pref : Block] /\ cons'.proc = proc
  BY <1>1, <1>3, <1>8 DEF NodeTypeOK
<1>11. \A x \in cons.proc : b \in Chain[x] => x \in proc \cup {b}
  BY DEF Below
<1>12. \A x \in proc \cup {b} : x \in cons.proc /\ b \in Chain[x]
  BY <1>1, ChainEnds DEF Below
<1> HIDE DEF proc
<1>13. NodeTypeOK'
  <2>1. tr' \in Trackers
    BY <1>7 DEF GoodTracker
  <2> QED BY <1>1, <1>3, <1>5, <1>7, <1>9, <1>10, <2>1 DEF NodeTypeOK, Pcs
<1>14. DiskInv'
  <2>1. eng.acc \in Chain[b]
    BY <1>1, <1>2 DEF Rooted
  <2> QED BY <1>1, <1>2, <1>5, <1>7, <2>1 DEF DiskInv
<1>15. NoHalt'
  BY <1>7 DEF NoHalt
<1>16. Shape'
  BY <1>1, <1>2, <1>7 DEF Shape
<1>17. Finalizing'
  BY <1>1, <1>2, <1>5, <1>7, ChainEnds DEF Finalizing
<1>18. ProcInv'
  <2>1. \A x \in proc : Known(tr', x)
    BY <1>2, <1>7, <1>8 DEF ProcInv, Known
  <2> QED BY <1>5, <1>8, <1>9, <1>10, <2>1 DEF ProcInv
<1>19. OldestIs(tr.stack, b) <=> b \in Chain[TipOf(tr)]
  <2>1. /\ tr.stack \in Seq(Captures) /\ TipOf(tr) \in Block /\ Len(tr.stack) \in Nat
        /\ (tr.stack = <<>> <=> tr.fin = TipOf(tr))
    BY <1>2, TrackerFacts
  <2>2. CASE tr.stack = <<>>
    BY <1>2, <1>4, <2>1, <2>2 DEF OldestIs
  <2>3. CASE tr.stack # <<>>
    <3>1. 1 \in 1..Len(tr.stack) /\ Head(tr.stack) = tr.stack[1]
      BY <2>1, <2>3, SMTT(60)
    <3>2. tr.stack[1].blk \in Chain[TipOf(tr)] /\ Height[tr.stack[1].blk] = Height[tr.fin] + 1
      BY <1>2, <3>1 DEF GoodTracker, IsPath
    <3>3. b \in Chain[TipOf(tr)] => tr.stack[1].blk = b
      BY <1>2, <1>4, <2>1, <3>2, ChainUnique
    <3> QED BY <2>3, <3>1, <3>2, <3>3 DEF OldestIs
  <2> QED BY <2>2, <2>3
<1>20. TipOf(tr') \in proc \cup {b}
  <2>1. CASE OldestIs(tr.stack, b)
    <3>1. TipOf(tr) \in cons.proc
      BY <1>2, <1>4, <1>19, <2>1 DEF PrefInv
    <3> QED BY <1>7, <1>11, <1>19, <2>1, <3>1
  <2>2. CASE ~OldestIs(tr.stack, b)
    BY <1>7, <2>2
  <2> QED BY <2>1, <2>2
<1>21. ASSUME eng.lastPref \in proc \cup {b}
       PROVE  eng.lastPref = TipOf(tr') /\ eng.lastPref \in Leaves(b, proc)
  <2>1. eng.lastPref \in cons.proc /\ b \in Chain[eng.lastPref]
    BY <1>12, <1>21
  <2>2. eng.lastPref = TipOf(tr) /\ eng.lastPref \in Leaves(eng.acc, cons.proc)
    BY <1>2, <2>1 DEF PrefInv
  <2>3. TipOf(tr') = TipOf(tr)
    BY <1>7, <1>19, <2>1, <2>2
  <2> QED BY <1>8, <1>21, <2>2, <2>3 DEF Leaves
<1>22. PrefInv'
  BY <1>9, <1>10, <1>20, <1>21 DEF PrefInv
<1>23. Phase'
  BY <1>1, <1>2, <1>7, <1>9, <1>17, <1>18, <1>22 DEF Phase
<1>24. Exact'
  BY <1>1, <1>3 DEF Exact
<1> QED BY <1>7, <1>13, <1>14, <1>15, <1>16, <1>23, <1>24 DEF NodeInv

(***************************************************************************)
(* Sink.Finalize, commit by commit.                                        *)
(***************************************************************************)
LEMMA FinalizeFacts ==
  ASSUME NodeInv, pc \in {"write", "mark", "publish"}
  PROVE  /\ NodeTypeOK /\ SinkTypeOK /\ DiskInv /\ Exact /\ Shape /\ Phase /\ Finalizing
         /\ ex = tr.table /\ GoodTracker(tr) /\ cur \in Block \ {Root} /\ cur \in Chain[net]
         /\ Parent[cur] = tr.fin /\ Height[cur] = Height[tr.fin] + 1 /\ Height[tr.fin] \in Nat
         /\ tr.stack \in Seq(Captures) /\ Len(tr.stack) \in Nat /\ 1 \in 1..Len(tr.stack)
         /\ tr.stack # <<>> /\ Head(tr.stack) = tr.stack[1] /\ tr.stack[1].blk = cur
         /\ pending = Elements(tr.stack) /\ bus.layers = tr.stack /\ st.tip = TipOf(tr)
         /\ pc # "publish" => st.layers = tr.stack /\ tr.fin = disk.mark
<1>1. NodeTypeOK /\ DiskInv /\ Exact /\ Shape /\ Phase
  BY DEF NodeInv
<1>2. Finalizing /\ cur \in Block /\ SinkTypeOK
  BY <1>1 DEF Phase, NodeTypeOK
<1>3. ex = tr.table /\ GoodTracker(tr)
  BY <1>1 DEF Shape
<1>4. cur \in Block \ {Root} /\ cur \in Chain[net] /\ Parent[cur] = tr.fin /\ OldestIs(tr.stack, cur)
  BY <1>2 DEF Finalizing
<1>5. tr.stack \in Seq(Captures) /\ Len(tr.stack) \in Nat /\ tr.stack # <<>> /\ Head(tr.stack).blk = cur
  BY <1>3, <1>4, TrackerFacts DEF OldestIs
<1>6. 1 \in 1..Len(tr.stack) /\ Head(tr.stack) = tr.stack[1]
  BY <1>5, SMTT(60)
<1>7. Height[cur] = Height[tr.fin] + 1 /\ Height[tr.fin] \in Nat
  BY <1>4, BlockFacts
<1>8. CASE pc = "publish"
  <2>1. HalfFinalized(tr)
    BY <1>1, <1>8 DEF Shape
  <2>2. pending = Elements(tr.stack) /\ bus.layers = tr.stack /\ st.tip = TipOf(tr)
    BY <2>1 DEF HalfFinalized
  <2> QED BY <1>1, <1>2, <1>3, <1>4, <1>5, <1>6, <1>7, <1>8, <2>2
<1>9. CASE pc # "publish"
  <2>1. Mirrors(tr) /\ tr.fin = disk.mark
    BY <1>1, <1>9 DEF Shape
  <2>2. pending = Elements(tr.stack) /\ bus.layers = tr.stack /\ st.layers = tr.stack /\ st.tip = TipOf(tr)
    BY <1>5, <2>1 DEF Mirrors
  <2> QED BY <1>1, <1>2, <1>3, <1>4, <1>5, <1>6, <1>7, <1>9, <2>1, <2>2
<1> QED BY <1>8, <1>9

(* The engine and the tracker wait for the commits. *)
LEMMA StillFinalizing ==
  ASSUME Phase, Finalizing', pc \in {"write", "mark", "publish"}, pc' \in {"mark", "publish"},
         UNCHANGED <<engineVars, tr, cur, boot>>
  PROVE  Phase'
<1>1. UNCHANGED <<net, cons, eng, ex>>
  BY DEF engineVars
<1>2. ~boot => ProcInv' /\ PrefInv'
  BY <1>1 DEF Phase, ProcInv, PrefInv
<1> QED BY <1>1, <1>2 DEF Phase

LEMMA StoreCommitKeeps ==
  ASSUME NodeInv, StoreCommit
  PROVE  NodeInv'
<1>1. /\ pc = "write" /\ UNCHANGED <<engineVars, cur, boot, torn>>
      /\ \/ \A e \in pending : e.blk # cur
         \/ \E e \in pending :
              /\ e.blk = cur /\ disk' = WriteBlock(disk, e) /\ pc' = "mark"
              /\ UNCHANGED <<tr, pending, st, bus>>
  BY DEF StoreCommit, crashVars
<1>2. /\ NodeTypeOK /\ SinkTypeOK /\ DiskInv /\ Exact /\ Shape /\ Phase /\ Finalizing
      /\ ex = tr.table /\ GoodTracker(tr) /\ cur \in Block \ {Root} /\ cur \in Chain[net]
      /\ Parent[cur] = tr.fin /\ Height[cur] = Height[tr.fin] + 1 /\ Height[tr.fin] \in Nat
      /\ 1 \in 1..Len(tr.stack) /\ tr.stack[1].blk = cur
      /\ pending = Elements(tr.stack) /\ tr.fin = disk.mark
  BY <1>1, FinalizeFacts
<1>3. tr.stack[1] \in pending
  BY <1>2 DEF Elements
<1>4. PICK e \in pending :
        /\ e.blk = cur /\ disk' = WriteBlock(disk, e) /\ pc' = "mark"
        /\ UNCHANGED <<tr, pending, st, bus>>
  BY <1>1, <1>2, <1>3
<1>5. UNCHANGED <<net, cons, eng, ex>>
  BY <1>1 DEF engineVars
<1>6. e \in Captures /\ e.diff \in Batch /\ e \in ex
  BY <1>2, <1>4, CaptureFacts DEF SinkTypeOK, GoodTracker
<1>7. disk \in [below : World, rows : Batch, top : Block, mark : Block]
  BY <1>2 DEF NodeTypeOK
<1>8. /\ disk' \in [below : World, rows : Batch, top : Block, mark : Block]
      /\ disk'.top = cur /\ disk'.mark = disk.mark
      /\ disk.top # cur => Latest(disk') = After(Latest(disk), e.diff)
  <2>1. CASE disk.top = cur
    <3>1. disk' = [disk EXCEPT !.rows = MergeRows(disk.rows, e.diff)]
      BY <1>4, <2>1 DEF WriteBlock
    <3>2. MergeRows(disk.rows, e.diff) \in Batch
      BY <1>6, <1>7, MergeRowsType
    <3> QED BY <1>7, <2>1, <3>1, <3>2
  <2>2. CASE disk.top # cur
    <3>1. disk' = [disk EXCEPT !.below = Latest(disk), !.rows = e.diff, !.top = cur]
      BY <1>4, <2>2 DEF WriteBlock
    <3>2. PICK w : w = Latest(disk)
      OBVIOUS
    <3>3. w \in World
      BY <1>2, <3>2, LatestType
    <3>4. disk' = [disk EXCEPT !.below = w, !.rows = e.diff, !.top = cur]
      BY <3>1, <3>2
    <3>5. disk' \in [below : World, rows : Batch, top : Block, mark : Block]
      BY <1>2, <1>6, <1>7, <3>3, <3>4
    <3>6. disk'.below = w /\ disk'.rows = e.diff /\ disk'.top = cur /\ disk'.mark = disk.mark
      BY <1>7, <3>4
    <3> QED BY <3>2, <3>5, <3>6 DEF Latest
  <2> QED BY <2>1, <2>2
<1>9. NodeTypeOK'
  BY <1>1, <1>2, <1>4, <1>5, <1>8 DEF NodeTypeOK, SinkTypeOK, Pcs
<1>10. DiskInv'
  BY <1>1, <1>2, <1>4, <1>5, <1>8 DEF DiskInv
<1>11. NoHalt'
  BY <1>4 DEF NoHalt
<1>12. Shape'
  <2>1. Mirrors(tr)
    BY <1>1, <1>2 DEF Shape
  <2>2. Mirrors(tr)'
    BY <1>4, <2>1 DEF Mirrors
  <2> QED BY <1>2, <1>4, <1>5, <1>8, <2>2 DEF Shape
<1>13. Finalizing'
  BY <1>1, <1>2, <1>4, <1>5 DEF Finalizing
<1>14. Phase'
  BY <1>1, <1>2, <1>4, <1>13, StillFinalizing
<1>15. Exact'
  <2> SUFFICES ASSUME ~torn PROVE Latest(disk') = WorldOf[cur]
    BY <1>1, <1>2, <1>5, <1>8 DEF Exact
  <2>1. disk.top = Parent[cur]
    BY <1>1, <1>2 DEF DiskInv
  <2>2. disk.top # cur
    BY <1>2, <2>1, SMTT(60)
  <2>3. e.diff = Diff[cur] /\ Latest(disk) = WorldOf[Parent[cur]]
    BY <1>2, <1>4, <1>6, <2>1 DEF Exact
  <2> QED BY <1>2, <1>8, <2>2, <2>3, ChainAssumption
<1> QED BY <1>4, <1>9, <1>10, <1>11, <1>12, <1>14, <1>15 DEF NodeInv

LEMMA SetFinalizedKeeps ==
  ASSUME NodeInv, SetFinalized
  PROVE  NodeInv'
<1>1. /\ pc = "mark" /\ UNCHANGED <<engineVars, cur, boot, torn>>
      /\ \/ ~OldestIs(st.layers, cur)
         \/ /\ st' = Finalize(st, cur) /\ disk' = [disk EXCEPT !.mark = cur]
            /\ pc' = "publish" /\ UNCHANGED <<tr, pending, bus>>
  BY DEF SetFinalized, crashVars
<1>2. /\ NodeTypeOK /\ SinkTypeOK /\ DiskInv /\ Exact /\ Shape /\ Phase /\ Finalizing
      /\ ex = tr.table /\ GoodTracker(tr) /\ cur \in Block \ {Root} /\ cur \in Chain[net]
      /\ tr.stack \in Seq(Captures) /\ Len(tr.stack) \in Nat
      /\ tr.stack # <<>> /\ Head(tr.stack) = tr.stack[1] /\ tr.stack[1].blk = cur
      /\ pending = Elements(tr.stack) /\ bus.layers = tr.stack /\ st.tip = TipOf(tr)
      /\ st.layers = tr.stack
  BY <1>1, FinalizeFacts
<1>3. /\ st' = Finalize(st, cur) /\ disk' = [disk EXCEPT !.mark = cur]
      /\ pc' = "publish" /\ UNCHANGED <<tr, pending, bus>>
  BY <1>1, <1>2 DEF OldestIs
<1>4. UNCHANGED <<net, cons, eng, ex>>
  BY <1>1 DEF engineVars
<1>5. disk.top = cur
  BY <1>1, <1>2 DEF DiskInv
<1>6. /\ disk' \in [below : World, rows : Batch, top : Block, mark : Block]
      /\ disk'.top = disk.top /\ disk'.mark = cur /\ disk'.below = disk.below /\ disk'.rows = disk.rows
  BY <1>2, <1>3 DEF NodeTypeOK
<1>7. TipOf(tr) \in Block /\ (Len(tr.stack) = 1 => TipOf(tr) = cur)
  BY <1>2, TrackerFacts DEF TipOf
<1>8. st'.layers = Tail(tr.stack) /\ st'.tip = TipOf(tr)
  BY <1>2, <1>3, <1>7 DEF Finalize
<1>9. SinkTypeOK'
  <2>1. Tail(tr.stack) \in Seq(Captures)
    BY <1>2, SMTT(60)
  <2>2. st' \in [base : {st'.base}, layers : Seq(Captures), tip : Block \cup {None}]
    <3>1. st' = [base |-> st'.base, layers |-> st'.layers, tip |-> st'.tip]
      BY <1>3 DEF Finalize
    <3> QED BY <1>7, <1>8, <2>1, <3>1
  <2> QED BY <1>2, <1>3, <2>2 DEF SinkTypeOK
<1>10. NodeTypeOK'
  BY <1>1, <1>2, <1>3, <1>4, <1>6, <1>9 DEF NodeTypeOK, Pcs
<1>11. DiskInv'
  BY <1>1, <1>2, <1>3, <1>4, <1>5, <1>6 DEF DiskInv
<1>12. NoHalt'
  BY <1>3 DEF NoHalt
<1>13. Shape'
  BY <1>2, <1>3, <1>4, <1>8 DEF Shape, HalfFinalized
<1>14. Finalizing'
  BY <1>1, <1>2, <1>3, <1>4, <1>6 DEF Finalizing
<1>15. Phase'
  BY <1>1, <1>2, <1>3, <1>14, StillFinalizing
<1>16. Exact'
  BY <1>1, <1>2, <1>4, <1>6 DEF Exact, Latest
<1> QED BY <1>3, <1>10, <1>11, <1>12, <1>13, <1>15, <1>16 DEF NodeInv

LEMMA PublishFinalizeKeeps ==
  ASSUME NodeInv, PublishFinalize
  PROVE  /\ NodeInv' /\ pc' \in {"backfill", "polled"}
         /\ Publishes(At(bus.layers, tr.fin), At(bus'.layers, tr'.fin))
<1> DEFINE s == tr.stack
           u == Tail(tr.stack)
<1>1. /\ pc = "publish" /\ UNCHANGED <<net, cons, eng, disk, cur, boot, torn>>
      /\ \/ ~OldestHeightIs(bus.layers, Height[cur])
         \/ /\ pending' = Above(pending)
            /\ bus' = Publish(Tail(bus.layers), [kind |-> "final", blk |-> cur])
            /\ tr' = [table |-> Above(tr.table), stack |-> Tail(tr.stack), fin |-> cur]
            /\ ex' = Above(ex) /\ pc' = (IF boot THEN "backfill" ELSE "polled") /\ UNCHANGED st
  BY DEF PublishFinalize, crashVars
<1>2. /\ NodeTypeOK /\ SinkTypeOK /\ DiskInv /\ Exact /\ Shape /\ Phase /\ Finalizing
      /\ ex = tr.table /\ GoodTracker(tr) /\ cur \in Block \ {Root}
      /\ Height[cur] = Height[tr.fin] + 1 /\ Height[tr.fin] \in Nat
      /\ s \in Seq(Captures) /\ Len(s) \in Nat /\ 1 \in 1..Len(s)
      /\ s # <<>> /\ Head(s) = s[1] /\ s[1].blk = cur
      /\ pending = Elements(s) /\ bus.layers = s /\ st.tip = TipOf(tr)
  BY <1>1, FinalizeFacts
<1>3. /\ pending' = Above(pending)
      /\ bus' = Publish(u, [kind |-> "final", blk |-> cur])
      /\ tr' = [table |-> Above(tr.table), stack |-> u, fin |-> cur]
      /\ ex' = Above(ex) /\ pc' = (IF boot THEN "backfill" ELSE "polled") /\ UNCHANGED st
  BY <1>1, <1>2 DEF OldestHeightIs
<1>4. u \in Seq(Captures) /\ Len(u) = Len(s) - 1 /\ \A i \in 1..Len(u) : u[i] = s[i + 1]
  BY <1>2, SMTT(60)
<1>5. st.layers = u /\ disk.mark = cur
  BY <1>1, <1>2 DEF Shape, HalfFinalized, Finalizing
<1> HIDE DEF u
<1>6. \A i \in 1..Len(s) : s[i] \in tr.table /\ Height[s[i].blk] = Height[tr.fin] + i /\ s[i].blk \in Chain[TipOf(tr)]
  BY <1>2 DEF GoodTracker, IsPath, Elements
<1>7. Elements(u) = Above(Elements(s))
  <2>1. ASSUME NEW i \in 1..Len(u) PROVE u[i] \in Above(Elements(s))
    <3>1. i + 1 \in 1..Len(s) /\ u[i] = s[i + 1]
      BY <1>2, <1>4, SMTT(60)
    <3>2. Height[s[i + 1].blk] > Height[cur]
      BY <1>2, <1>6, <3>1, SMTT(60)
    <3> QED BY <3>1, <3>2 DEF Above, Elements
  <2>2. ASSUME NEW i \in 1..Len(s), Height[s[i].blk] > Height[cur] PROVE s[i] \in Elements(u)
    <3>1. i # 1
      BY <1>2, <2>2, SMTT(60)
    <3>2. i - 1 \in 1..Len(u) /\ (i - 1) + 1 = i
      BY <1>2, <1>4, <3>1, SMTT(60)
    <3>3. u[i - 1] = s[i]
      BY <1>4, <3>2
    <3> QED BY <3>2, <3>3 DEF Elements
  <2> QED BY <2>1, <2>2 DEF Elements, Above
<1>8. Elements(u) \subseteq Above(tr.table) /\ Above(tr.table) \in SUBSET Captures
  BY <1>2, <1>7 DEF GoodTracker, Above, Trackers
<1>9. tr' \in Trackers /\ tr'.table = Above(tr.table) /\ tr'.stack = u /\ tr'.fin = cur
  BY <1>2, <1>3, <1>4, <1>8 DEF Trackers
<1>10. TipOf(tr') = TipOf(tr)
  <2>1. CASE u = <<>>
    <3>1. Len(s) = 1
      BY <1>2, <1>4, <2>1, SMTT(60)
    <3> QED BY <1>2, <1>9, <2>1, <3>1 DEF TipOf
  <2>2. CASE u # <<>>
    <3>1. Len(u) \in 1..Len(u)
      BY <1>4, <2>2, SMTT(60)
    <3>2. u[Len(u)] = s[Len(s)]
      BY <1>2, <1>4, <3>1, SMTT(60)
    <3> QED BY <1>2, <1>9, <2>2, <3>2 DEF TipOf
  <2> QED BY <2>1, <2>2
<1>11. IsPath(u, cur, TipOf(tr))
  <2>1. cur \in Chain[TipOf(tr)]
    BY <1>2, <1>6
  <2>2. Len(u) = Height[TipOf(tr)] - Height[cur]
    <3>1. Len(s) = Height[TipOf(tr)] - Height[tr.fin] /\ TipOf(tr) \in Block
      BY <1>2, TrackerFacts DEF GoodTracker, IsPath
    <3>2. Height[TipOf(tr)] \in Nat
      BY <3>1, BlockFacts
    <3> QED BY <1>2, <1>4, <3>1, <3>2, SMTT(60)
  <2>3. ASSUME NEW i \in 1..Len(u)
        PROVE  u[i].blk \in Chain[TipOf(tr)] /\ Height[u[i].blk] = Height[cur] + i
    <3>1. i + 1 \in 1..Len(s) /\ u[i] = s[i + 1]
      BY <1>2, <1>4, SMTT(60)
    <3>2. u[i].blk \in Chain[TipOf(tr)] /\ Height[u[i].blk] = Height[tr.fin] + (i + 1)
      BY <1>6, <3>1
    <3>3. i \in Nat
      BY SMTT(60)
    <3> QED BY <1>2, <3>2, <3>3, SMTT(60)
  <2> QED BY <2>1, <2>2, <2>3 DEF IsPath
<1>12. GoodTracker(tr')
  <2>1. IsTable(Above(tr.table), Height[cur])
    BY <1>2 DEF GoodTracker, IsTable, Above
  <2> QED BY <1>8, <1>9, <1>10, <1>11, <2>1 DEF GoodTracker
<1>13. bus'.layers = u /\ bus' \in [layers : Seq(Captures), log : {bus'.log}]
  BY <1>3, <1>4 DEF Publish
<1>23. Publishes(At(bus.layers, tr.fin), At(bus'.layers, tr'.fin))
  <2> DEFINE ev == [kind |-> "final", blk |-> cur]
  <2>1. bus'.log = Append(bus.log, ev) /\ Tail(bus.layers) = u
    BY <1>2, <1>3 DEF Publish, u
  <2>2. ev \in Events /\ ev.kind = "final" /\ ev.blk = cur
    BY <1>2 DEF Events
  <2>3. OldestIs(bus.layers, cur)
    BY <1>2 DEF OldestIs
  <2> HIDE DEF ev
  <2>4. Applies(ev, At(bus.layers, tr.fin), At(bus'.layers, tr'.fin))
    BY <1>9, <1>13, <2>1, <2>2, <2>3 DEF Applies, At
  <2> QED BY <2>1, <2>2, <2>4 DEF Publishes
<1>14. SinkTypeOK'
  BY <1>2, <1>3, <1>13 DEF SinkTypeOK, Above
<1>15. NodeTypeOK'
  <2>1. ex' \subseteq Captures
    BY <1>2, <1>3, <1>8
  <2> QED BY <1>1, <1>2, <1>3, <1>9, <1>14, <2>1 DEF NodeTypeOK, Pcs
<1>16. pc' \in {"backfill", "polled"}
  BY <1>3
<1>17. DiskInv'
  BY <1>1, <1>2, <1>16 DEF DiskInv
<1>18. NoHalt'
  BY <1>16 DEF NoHalt
<1>19. Mirrors(tr)'
  BY <1>2, <1>3, <1>5, <1>7, <1>9, <1>10, <1>13 DEF Mirrors
<1>20. Shape'
  BY <1>1, <1>2, <1>3, <1>5, <1>9, <1>12, <1>16, <1>19 DEF Shape
<1>21. CASE boot
  <2>1. Above(tr.table) = {}
    <3>1. \A e \in tr.table : e.blk = cur
      BY <1>1, <1>2, <1>21 DEF Phase
    <3>2. Height[cur] \in Nat
      BY <1>2, SMTT(60)
    <3>3. ~ (Height[cur] > Height[cur])
      BY <3>2, SMTT(60)
    <3> QED BY <3>1, <3>3 DEF Above
  <2>2. u = <<>>
    <3> SUFFICES ASSUME u # <<>> PROVE FALSE
      OBVIOUS
    <3>1. 1 \in 1..Len(u)
      BY <1>4, SMTT(60)
    <3> QED BY <1>8, <2>1, <3>1 DEF Elements
  <2>3. Phase'
    BY <1>1, <1>3, <1>9, <1>21, <2>1, <2>2 DEF Phase
  <2>4. Exact'
    BY <1>1, <1>2, <1>3 DEF Exact, Above
  <2> QED BY <1>15, <1>16, <1>17, <1>18, <1>20, <1>23, <2>3, <2>4 DEF NodeInv
<1>22. CASE ~boot
  <2>1. ProcInv /\ PrefInv /\ eng.acc = cur
    BY <1>1, <1>2, <1>22 DEF Phase
  <2>2. ASSUME NEW x \in cons.proc PROVE Known(tr', x)
    <3>1. PICK e \in tr.table : e.blk = x
      BY <2>1 DEF ProcInv, Known
    <3>2. cons.proc \in SUBSET (Block \ {Root}) /\ Rooted(cur, cons.proc)
      BY <1>2, <2>1 DEF NodeTypeOK, ProcInv
    <3>3. Height[x] > Height[cur]
      BY <1>2, <3>2, RootedFacts, SMTT(60)
    <3> QED BY <1>9, <3>1, <3>3 DEF Known, Above
  <2>3. ProcInv' /\ PrefInv'
    BY <1>1, <1>10, <2>1, <2>2 DEF ProcInv, PrefInv
  <2>4. Phase'
    BY <1>1, <1>3, <1>9, <1>22, <2>1, <2>3 DEF Phase
  <2>5. Exact'
    BY <1>1, <1>2, <1>3 DEF Exact, Above
  <2> QED BY <1>15, <1>16, <1>17, <1>18, <1>20, <1>23, <2>4, <2>5 DEF NodeInv
<1> QED BY <1>16, <1>21, <1>22, <1>23

(***************************************************************************)
(* Start, bootstrap and crash.                                             *)
(***************************************************************************)
LEMMA EmptyTracker ==
  ASSUME NEW b \in Block
  PROVE  /\ NewTracker(b) \in Trackers /\ GoodTracker(NewTracker(b)) /\ TipOf(NewTracker(b)) = b
         /\ NewTracker(b).table = {} /\ NewTracker(b).stack = <<>> /\ NewTracker(b).fin = b
<1>1. <<>> \in Seq(Captures) /\ Len(<<>>) = 0
  BY SMTT(60)
<1>2. NewTracker(b).table = {} /\ NewTracker(b).stack = <<>> /\ NewTracker(b).fin = b
  BY DEF NewTracker
<1>3. NewTracker(b) \in Trackers
  BY <1>1 DEF NewTracker, Trackers
<1>4. TipOf(NewTracker(b)) = b
  BY <1>2 DEF TipOf
<1>5. b \in Chain[b] /\ Height[b] \in Nat
  BY ChainEnds, BlockFacts
<1>6. 1..Len(<<>>) = {}
  BY <1>1, SMTT(60)
<1>7. IsPath(<<>>, b, b)
  BY <1>1, <1>5, <1>6, SMTT(60) DEF IsPath
<1>8. Elements(<<>>) = {}
  BY <1>6 DEF Elements
<1>9. IsTable({}, Height[b])
  BY DEF IsTable
<1> QED BY <1>2, <1>3, <1>4, <1>7, <1>8, <1>9 DEF GoodTracker

LEMMA BootKeeps ==
  ASSUME NodeInv, Boot
  PROVE  NodeInv'
<1>1. /\ pc = "down" /\ bus' = NoBus /\ st' = NewState /\ tr' = NewTracker(disk.mark)
      /\ ex' = {} /\ pending' = {} /\ pc' = "backfill" /\ boot' = TRUE
      /\ UNCHANGED <<net, cons, eng, disk, cur, torn>>
  BY DEF Boot, crashVars
<1>2. NodeTypeOK /\ DiskInv /\ Exact /\ disk.mark \in Block
  BY <1>1 DEF NodeInv, NodeTypeOK
<1>3. /\ tr' \in Trackers /\ GoodTracker(tr')
      /\ tr'.table = {} /\ tr'.stack = <<>> /\ tr'.fin = disk.mark
  BY <1>1, <1>2, EmptyTracker
<1>4. <<>> \in Seq(Captures)
  BY SMTT(60)
<1>5. bus'.layers = <<>> /\ SinkTypeOK'
  BY <1>1, <1>4 DEF SinkTypeOK, NoBus, NewState
<1>6. NodeTypeOK'
  BY <1>1, <1>2, <1>3, <1>5 DEF NodeTypeOK, Pcs
<1>7. DiskInv'
  BY <1>1, <1>2 DEF DiskInv
<1>8. Mirrors(tr)'
  <2>1. Elements(<<>>) = {}
    <3>1. 1..Len(<<>>) = {}
      BY SMTT(60)
    <3> QED BY <3>1 DEF Elements
  <2> QED BY <1>1, <1>3, <1>5, <2>1 DEF Mirrors, NewState
<1>9. Shape'
  BY <1>1, <1>3, <1>8 DEF Shape
<1>10. Phase'
  BY <1>1, <1>3 DEF Phase
<1>11. Exact'
  BY <1>1, <1>2 DEF Exact
<1> QED BY <1>1, <1>6, <1>7, <1>9, <1>10, <1>11 DEF NodeInv, NoHalt

LEMMA BackfillKeeps ==
  ASSUME NodeInv, NEW b \in Block \ {Root}, Backfill(b)
  PROVE  NodeInv' /\ Published(tr.fin) /\ tr'.fin = tr.fin
<1> DEFINE e == Capture(b, Execute(b))
           t == [tr EXCEPT !.table = Replace(tr.table, e)]
<1>1. /\ pc = "backfill" /\ b \in Chain[net] /\ Parent[b] = tr.fin
      /\ IF Execute(b) = Fail THEN Halt /\ UNCHANGED ex
         ELSE ex' = Replace(ex, e) /\ TrackerAccepted(t, b)
      /\ cur' = b /\ UNCHANGED <<net, cons, eng, disk, boot, torn>>
  BY DEF Backfill, crashVars
<1>2. NodeTypeOK /\ SinkTypeOK /\ DiskInv /\ Exact /\ Shape /\ Phase
  BY <1>1 DEF NodeInv, NodeTypeOK
<1>3. boot /\ tr.table = {} /\ tr.stack = <<>>
  BY <1>1, <1>2 DEF Phase
<1>4. GoodTracker(tr) /\ Mirrors(tr) /\ tr.fin = disk.mark /\ ex = {}
  BY <1>1, <1>2, <1>3 DEF Shape
<1>5. /\ Execute(b) \in Batch \cup {Fail}
      /\ Latest(disk) = WorldOf[Parent[b]] => Execute(b) = Diff[b]
  BY <1>2, <1>4, ExecuteBoot
<1>6. ~torn => Execute(b) = Diff[b]
  <2> SUFFICES ASSUME ~torn PROVE Execute(b) = Diff[b]
    OBVIOUS
  <2>1. disk.top = Parent[b]
    BY <1>1, <1>2, <1>4 DEF DiskInv
  <2> QED BY <1>2, <1>5, <2>1 DEF Exact
<1>7. CASE Execute(b) = Fail
  <2>1. torn
    BY <1>6, <1>7, ChainAssumption, SMTT(60)
  <2>2. bus' = bus /\ tr' = tr
    BY <1>1, <1>7 DEF Halt
  <2> QED BY <1>1, <1>7, <2>1, <2>2, HaltKeeps DEF Published
<1>8. CASE Execute(b) # Fail
  <2>1. ex' = Replace(ex, e) /\ TrackerAccepted(t, b)
    BY <1>1, <1>8
  <2>2. e \in Captures /\ e.blk = b /\ e.diff = Execute(b)
    BY <1>5, <1>8 DEF Captures, Capture
  <2> HIDE DEF e
  <2>3. tr \in Trackers /\ tr.fin \in Block /\ Height[b] > Height[tr.fin] /\ Height[tr.fin] \in Nat
    BY <1>1, <1>4, BlockFacts, TrackerFacts, SMTT(60) DEF GoodTracker
  <2>4. Replace({}, e) = {e}
    BY DEF Replace
  <2>5. t \in Trackers /\ t.table = {e} /\ t.stack = <<>> /\ t.fin = tr.fin /\ TipOf(t) = TipOf(tr)
    BY <1>3, <2>2, <2>3, <2>4 DEF Trackers, TipOf
  <2> HIDE DEF t
  <2>6. IsTable({e}, Height[tr.fin])
    BY <2>2, <2>3 DEF IsTable
  <2>7. Elements(<<>>) \subseteq {e}
    <3>1. 1..Len(<<>>) = {}
      BY SMTT(60)
    <3> QED BY <3>1 DEF Elements
  <2>8. GoodTracker(t) /\ Mirrors(t)
    BY <1>3, <1>4, <2>5, <2>6, <2>7 DEF GoodTracker, Mirrors
  <2>9. Known(t, b)
    BY <2>2, <2>5 DEF Known
  <2>10. /\ GoodTracker(tr') /\ tr'.table = t.table /\ tr'.fin = t.fin
         /\ OldestIs(tr'.stack, b) /\ Mirrors(tr)' /\ SinkTypeOK' /\ pc' = "write" /\ Published(t.fin)
    BY <1>1, <1>2, <2>1, <2>5, <2>8, <2>9, AcceptedKeeps
  <2>11. ex' = {e}
    BY <1>4, <2>1, <2>4
  <2>12. NodeTypeOK'
    <3>1. tr' \in Trackers
      BY <2>10 DEF GoodTracker
    <3> QED BY <1>1, <1>2, <2>2, <2>10, <2>11, <3>1 DEF NodeTypeOK, Pcs
  <2>13. DiskInv'
    BY <1>1, <1>2, <2>10 DEF DiskInv
  <2>14. Shape'
    BY <1>1, <1>4, <2>5, <2>10, <2>11 DEF Shape
  <2>15. Finalizing'
    BY <1>1, <2>5, <2>10 DEF Finalizing
  <2>16. Phase'
    BY <1>1, <1>3, <2>2, <2>5, <2>10, <2>15 DEF Phase
  <2>17. Exact'
    BY <1>1, <1>2, <1>6, <2>2, <2>11 DEF Exact
  <2> QED BY <2>5, <2>10, <2>12, <2>13, <2>14, <2>16, <2>17 DEF NodeInv, NoHalt
<1> QED BY <1>7, <1>8

LEMMA GoLiveKeeps ==
  ASSUME NodeInv, GoLive
  PROVE  NodeInv'
<1>1. /\ pc = "backfill" /\ tr.fin = net
      /\ cons' = [proc |-> {}, pref |-> net] /\ eng' = [acc |-> net, lastPref |-> net]
      /\ pc' = "live" /\ boot' = FALSE
      /\ UNCHANGED <<net, ex, tr, pending, st, disk, bus, cur, torn>>
  BY DEF GoLive, sinkVars, crashVars
<1>2. NodeTypeOK /\ SinkTypeOK /\ DiskInv /\ Exact /\ Shape /\ Phase
  BY <1>1 DEF NodeInv, NodeTypeOK
<1>3. tr.stack = <<>> /\ Mirrors(tr) /\ tr.fin = disk.mark
  BY <1>1, <1>2 DEF Phase, Shape
<1>4. NodeTypeOK'
  BY <1>1, <1>2 DEF NodeTypeOK, SinkTypeOK, Pcs
<1>5. disk.top = disk.mark
  <2> SUFFICES ASSUME disk.top # Root, disk.mark = Parent[disk.top] PROVE FALSE
    BY <1>2 DEF DiskInv
  <2>1. net \in Block /\ disk.top \in Chain[net] /\ disk.top \in Block
    BY <1>2 DEF DiskInv, NodeTypeOK
  <2>2. Height[disk.top] = Height[net] + 1 /\ Height[net] \in Nat
    BY <1>1, <1>3, <2>1, BlockFacts
  <2>3. Height[disk.top] <= Height[net]
    BY <2>1, ChainFacts
  <2> QED BY <2>2, <2>3, SMTT(60)
<1>6. DiskInv'
  BY <1>1, <1>2, <1>5 DEF DiskInv
<1>7. Shape'
  <2>1. Mirrors(tr)'
    BY <1>1, <1>3 DEF Mirrors
  <2> QED BY <1>1, <1>2, <1>3, <2>1 DEF Shape
<1>8. TipOf(tr) = net
  BY <1>1, <1>3 DEF TipOf
<1>9. ProcInv' /\ PrefInv' /\ net \in Leaves(net, {})
  BY <1>1, <1>8 DEF ProcInv, PrefInv, Rooted, Leaves
<1>10. Phase'
  BY <1>1, <1>8, <1>9 DEF Phase
<1>11. Exact'
  BY <1>1, <1>2 DEF Exact
<1> QED BY <1>1, <1>4, <1>6, <1>7, <1>10, <1>11 DEF NodeInv, NoHalt

LEMMA CrashKeeps ==
  ASSUME NodeInv, Crash
  PROVE  NodeInv'
<1>1. /\ torn' = (torn \/ disk.top # disk.mark) /\ pc' = "down" /\ boot' = TRUE /\ cur' = Root
      /\ cons' = [proc |-> {}, pref |-> Root] /\ eng' = [acc |-> Root, lastPref |-> Root]
      /\ ex' = {} /\ pending' = {} /\ tr' = NewTracker(Root) /\ st' = NewState
      /\ UNCHANGED <<net, disk, bus>>
  BY DEF Crash
<1>2. NodeTypeOK /\ SinkTypeOK /\ DiskInv /\ NoHalt /\ Root \in Block
  BY ChainAssumption DEF NodeInv, NodeTypeOK
<1>3. tr' \in Trackers /\ tr'.table = {}
  BY <1>1, <1>2, EmptyTracker
<1>4. <<>> \in Seq(Captures)
  BY SMTT(60)
<1>5. SinkTypeOK'
  BY <1>1, <1>2, <1>4 DEF SinkTypeOK, NewState
<1>6. torn' \in BOOLEAN
  BY <1>1, <1>2 DEF NodeTypeOK
<1>7. NodeTypeOK'
  BY <1>1, <1>2, <1>3, <1>5, <1>6 DEF NodeTypeOK, Pcs
<1>8. ~torn' => ~torn /\ disk.top = disk.mark
  BY <1>1
<1>9. DiskInv'
  BY <1>1, <1>2, <1>8 DEF DiskInv
<1>10. Exact'
  <2> SUFFICES ASSUME ~torn' PROVE Latest(disk) = WorldOf[disk.top]
    BY <1>1 DEF Exact
  <2>1. Exact
    BY <1>2, <1>8 DEF NodeInv, NoHalt
  <2> QED BY <1>8, <2>1 DEF Exact
<1> QED BY <1>1, <1>3, <1>7, <1>9, <1>10 DEF NodeInv, NoHalt

LEMMA NetAcceptKeeps ==
  ASSUME NodeInv, NEW b \in Block \ {Root}, NetAccept(b)
  PROVE  NodeInv'
<1>1. /\ pc = "down" /\ Parent[b] = net /\ net' = b
      /\ UNCHANGED <<cons, eng, ex, tr, pending, st, disk, bus, pc, cur, boot, torn>>
  BY DEF NetAccept, sinkVars, crashVars
<1>2. NodeTypeOK /\ SinkTypeOK /\ DiskInv /\ Exact /\ ex = {} /\ tr.table = {} /\ pending = {}
  BY <1>1 DEF NodeInv, NodeTypeOK
<1>3. NodeTypeOK'
  BY <1>1, <1>2 DEF NodeTypeOK, SinkTypeOK
<1>4. Chain[net] \subseteq Chain[b]
  BY <1>1, BlockFacts
<1>5. DiskInv'
  BY <1>1, <1>2, <1>4 DEF DiskInv
<1>6. Exact'
  BY <1>1, <1>2 DEF Exact
<1> QED BY <1>1, <1>2, <1>3, <1>5, <1>6 DEF NodeInv, NoHalt

LEMMA NodeInit ==
  Init => NodeInv
<1> SUFFICES ASSUME Init PROVE NodeInv
  OBVIOUS
<1>1. Root \in Block /\ WorldOf[Root] \in World /\ Chain[Root] = {Root}
  BY ChainAssumption
<1>2. NoRows \in Batch
  BY DEF NoRows, Batch
<1>3. After(WorldOf[Root], NoRows) = WorldOf[Root]
  BY <1>1 DEF After, NoRows, AcctAfter, SlotAfter, World
<1>4. tr \in Trackers /\ tr.table = {}
  BY <1>1, EmptyTracker DEF Init
<1>5. <<>> \in Seq(Captures)
  BY SMTT(60)
<1>6. SinkTypeOK
  BY <1>5 DEF Init, SinkTypeOK, NoBus, NewState
<1>7. NodeTypeOK
  BY <1>1, <1>2, <1>4, <1>6 DEF Init, NodeTypeOK, Pcs
<1>8. DiskInv
  BY <1>1 DEF Init, DiskInv
<1>9. Exact
  BY <1>3 DEF Init, Exact, Latest
<1> QED BY <1>4, <1>7, <1>8, <1>9 DEF Init, NodeInv, NoHalt

LEMMA NodeStutters ==
  ASSUME NodeInv, UNCHANGED vars
  PROVE  NodeInv'
<1>1. UNCHANGED <<net, cons, eng, ex, tr, pending, st, disk, bus, pc, cur, boot, crashes, torn>>
  BY DEF vars, engineVars, sinkVars, crashVars
<1>2. NodeTypeOK'
  BY <1>1 DEF NodeInv, NodeTypeOK, SinkTypeOK
<1>3. DiskInv' /\ NoHalt'
  BY <1>1 DEF NodeInv, DiskInv, NoHalt
<1>4. Shape => Shape'
  BY <1>1 DEF Shape, Mirrors, HalfFinalized
<1>5. Phase => Phase'
  BY <1>1 DEF Phase, Finalizing, ProcInv, PrefInv
<1>6. Exact => Exact'
  BY <1>1 DEF Exact
<1> QED BY <1>1, <1>2, <1>3, <1>4, <1>5, <1>6 DEF NodeInv

LEMMA NodeInductive ==
  ASSUME NodeInv, [Next]_vars
  PROVE  NodeInv'
<1>1. ASSUME NEW b \in Block \ {Root}, Issue(b) \/ Accept(b) \/ Backfill(b) PROVE NodeInv'
  BY <1>1, IssueKeeps, AcceptKeeps, BackfillKeeps
<1>2. ASSUME NEW p \in Block, PollDone(p) PROVE NodeInv'
  BY <1>2, PollDoneKeeps
<1>3. ASSUME StoreCommit \/ SetFinalized \/ PublishFinalize PROVE NodeInv'
  BY <1>3, StoreCommitKeeps, SetFinalizedKeeps, PublishFinalizeKeeps
<1>4. ASSUME Boot \/ GoLive \/ Crash PROVE NodeInv'
  BY <1>4, BootKeeps, GoLiveKeeps, CrashKeeps
<1>5. ASSUME NEW b \in Block \ {Root}, NetAccept(b) PROVE NodeInv'
  BY <1>5, NetAcceptKeeps
<1>6. ASSUME UNCHANGED vars PROVE NodeInv'
  BY <1>6, NodeStutters
<1> QED BY <1>1, <1>2, <1>3, <1>4, <1>5, <1>6 DEF Next, Step

(* The inductive invariant holds in every state of every behaviour. *)
THEOREM NodeInvariant == Spec => []NodeInv
<1>1. Init => NodeInv
  BY NodeInit
<1>2. NodeInv /\ [Next]_vars => NodeInv'
  BY NodeInductive
<1> QED BY <1>1, <1>2, PTL DEF Spec

(***************************************************************************)
(* No fail-loud check of the executor, the tracker, the sink, mem.Finalize *)
(* or PublishFinalize fires unless the process died between WriteBlock and *)
(* SetFinalized.                                                           *)
(***************************************************************************)
THEOREM NeverHalts == Spec => []NoHalt
<1>1. NodeInv => NoHalt
  BY DEF NodeInv
<1> QED BY <1>1, NodeInvariant, PTL

(***************************************************************************)
(* Exec.Execute runs every block on the state of its parent: viewAt over   *)
(* the pending layers and LMDB at Latest is that state, so every capture   *)
(* of the executor, the tracker and the sink is what the block does.       *)
(***************************************************************************)
THEOREM ExecutesOnParent == Spec => []ExecutedOnParent
<1>1. NodeInv => ExecutedOnParent
  <2> SUFFICES ASSUME NodeInv, ~torn, NEW e \in ex \cup tr.table \cup pending
               PROVE  e.diff = Diff[e.blk]
    BY DEF ExecutedOnParent
  <2>1. pc # "halt" /\ Exact
    BY DEF NodeInv, NoHalt
  <2>2. e \in ex
    <3>1. CASE pc = "down"
      BY <3>1 DEF NodeInv
    <3>2. CASE pc # "down"
      <4>1. Shape
        BY <2>1, <3>2 DEF NodeInv
      <4>2. ex = tr.table /\ pending = Elements(tr.stack) /\ Elements(tr.stack) \subseteq tr.table
        BY <4>1 DEF Shape, Mirrors, HalfFinalized, GoodTracker
      <4> QED BY <4>2
    <3> QED BY <3>1, <3>2
  <2> QED BY <2>1, <2>2 DEF Exact
<1> QED BY <1>1, NodeInvariant, PTL

(***************************************************************************)
(* The main environment holds accepted blocks only, is at most one block   *)
(* ahead of its watermark, and read at Latest is the state after its       *)
(* highest block (WriteBlock, SetFinalized; D7).                           *)
(***************************************************************************)
THEOREM PersistsOnlyAccepted == Spec => []OnlyAcceptedPersists
<1>1. NodeInv => OnlyAcceptedPersists
  BY DEF NodeInv, OnlyAcceptedPersists, DiskInv, NoHalt, Exact
<1> QED BY <1>1, NodeInvariant, PTL

(***************************************************************************)
(* Between handlers Tracker's stack, the layers of mem.State, the bus's    *)
(* handshake state and Sink.pending are one chain on the watermark.        *)
(***************************************************************************)
THEOREM MirrorsStayEqual == Spec => []MirrorsAgree
<1>1. NodeInv => MirrorsAgree
  <2> SUFFICES ASSUME NodeInv, pc \in {"live", "polled", "backfill"}
               PROVE  /\ bus.layers = tr.stack /\ st.layers = tr.stack
                      /\ tr.fin = disk.mark
                      /\ \A i \in DOMAIN tr.stack :
                           /\ Parent[tr.stack[i].blk] = IF i = 1 THEN tr.fin ELSE tr.stack[i - 1].blk
                           /\ tr.stack[i] \in pending
    BY DEF MirrorsAgree
  <2>1. GoodTracker(tr) /\ Mirrors(tr) /\ tr.fin = disk.mark
    BY DEF NodeInv, Shape
  <2>2. DOMAIN tr.stack = 1..Len(tr.stack)
    BY <2>1, TrackerFacts, SMTT(60)
  <2>3. pending = Elements(tr.stack) /\ bus.layers = tr.stack /\ st.layers = tr.stack
    BY <2>1 DEF Mirrors
  <2>4. \A i \in 1..Len(tr.stack) : tr.stack[i] \in pending
    BY <2>3 DEF Elements
  <2> QED BY <2>1, <2>2, <2>3, <2>4, TrackerFacts
<1> QED BY <1>1, NodeInvariant, PTL

(***************************************************************************)
(* When the engine is idle the published tip and the batch stamp of        *)
(* mem.State are the block consensus prefers, although emitHead reports    *)
(* only changes.                                                           *)
(***************************************************************************)
THEOREM PublishesPreference == Spec => []TipIsPreference
<1>1. NodeInv => TipIsPreference
  <2> SUFFICES ASSUME NodeInv, pc = "live" PROVE TipIsPreference
    BY DEF TipIsPreference
  <2>1. cons.pref = TipOf(tr) /\ Mirrors(tr) /\ GoodTracker(tr)
    BY DEF NodeInv, Phase, Shape
  <2>2. TipOf(tr) # None
    BY <2>1, TrackerFacts, ChainAssumption
  <2> QED BY <2>1, <2>2 DEF TipIsPreference, Mirrors, TipOf
<1> QED BY <1>1, NodeInvariant, PTL

LEMMA MarkStep ==
  ASSUME NodeInv, [Next]_vars
  PROVE  disk'.mark # disk.mark => Parent[disk'.mark] = disk.mark /\ disk.top = disk'.mark
<1>1. ASSUME NEW b \in Block \ {Root}, Issue(b) \/ Accept(b) \/ Backfill(b) \/ NetAccept(b)
      PROVE  disk' = disk
  BY <1>1 DEF Issue, Accept, Backfill, NetAccept, sinkVars
<1>2. ASSUME NEW p \in Block, PollDone(p) PROVE disk' = disk
  BY <1>2 DEF PollDone
<1>3. ASSUME PublishFinalize \/ Boot \/ GoLive \/ Crash PROVE disk' = disk
  BY <1>3 DEF PublishFinalize, Boot, GoLive, Crash, sinkVars
<1>4. disk \in [below : World, rows : Batch, top : Block, mark : Block]
  BY DEF NodeInv, NodeTypeOK
<1>5. ASSUME StoreCommit PROVE disk'.mark = disk.mark
  <2>1. disk' = disk \/ \E e \in pending : disk' = WriteBlock(disk, e)
    BY <1>5 DEF StoreCommit
  <2> QED BY <1>4, <2>1 DEF WriteBlock
<1>6. ASSUME SetFinalized, disk'.mark # disk.mark
      PROVE  Parent[disk'.mark] = disk.mark /\ disk.top = disk'.mark
  <2>1. pc = "mark" /\ (disk' = disk \/ disk' = [disk EXCEPT !.mark = cur])
    BY <1>6 DEF SetFinalized
  <2>2. disk.top = cur /\ disk.mark = Parent[cur]
    BY <2>1 DEF NodeInv, DiskInv
  <2> QED BY <1>4, <1>6, <2>1, <2>2
<1>7. ASSUME UNCHANGED vars PROVE disk' = disk
  BY <1>7 DEF vars, sinkVars
<1> QED BY <1>1, <1>2, <1>3, <1>5, <1>6, <1>7 DEF Next, Step

(***************************************************************************)
(* SetFinalized moves the watermark to a child whose rows are committed;   *)
(* nothing else moves it, a crash or a restart included.                   *)
(***************************************************************************)
THEOREM WatermarkOnlyStepsUp == Spec => WatermarkStepsUp
<1>1. NodeInv /\ [Next]_vars =>
        [disk'.mark # disk.mark => Parent[disk'.mark] = disk.mark /\ disk.top = disk'.mark]_vars
  BY MarkStep
<1> QED BY <1>1, NodeInvariant, PTL DEF Spec, WatermarkStepsUp

=============================================================================
