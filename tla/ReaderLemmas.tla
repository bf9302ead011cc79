---------------------------- MODULE ReaderLemmas ----------------------------
(***************************************************************************)
(* The inductive invariant of Reader, and what the proof rests on: the     *)
(* history of the bus, the pinned values, the events, the layers.          *)
(***************************************************************************)
EXTENDS Reader, NodeProofs

\* A minute for each leaf: the default of five seconds is short for a large module.
USE ZenonT(60)

(***************************************************************************)
(* The inductive invariant.  H is a history of the bus: what the stack and *)
(* the finalized block were after each of its events.  A bot that is       *)
(* attached stands at one point of the history, and everything it has      *)
(* pinned is from the finalized block of that point, or later.             *)
(***************************************************************************)
Stacks == [stack : Seq(Captures), fin : Block]

IsHistory(H) ==
    /\ H \in [0..Len(bus.log) -> Stacks]
    /\ \A n \in 0..Len(bus.log) :
         IsPath(H[n].stack, H[n].fin, TipOf(H[n])) /\ H[n].fin \in Chain[disk.mark]
    /\ \A n \in 1..Len(bus.log) : Applies(bus.log[n], H[n - 1], H[n])
    /\ H[Len(bus.log)].stack = bus.layers
    /\ pc \notin {"down", "halt"} => H[Len(bus.log)].fin = tr.fin
    /\ ~torn => \A n \in 0..Len(bus.log) : \A e \in Elements(H[n].stack) : e.diff = Diff[e.blk]

(* The map m holds no value from before block x. *)
Pinned(m, x) ==
    \A a \in Addr :
      /\ m.acct[a] # None => SinceAcct(x, a, m.acct[a])
      /\ \A s \in Slot : m.slot[a][s] # None => SinceSlot(x, a, s, m.slot[a][s])

(* How many events of the bus the bot has applied. *)
Position == fol.next - Len(fol.events)

Following ==
    /\ fol.events \in Seq(Events) /\ fol.cur \in Nat /\ fol.next \in Nat
    /\ Position \in Nat /\ fol.next <= Len(bus.log)
    /\ fol.events = <<>> => fol.cur = fol.next /\ ~fol.lock
    /\ \A i \in 1..Len(fol.events) : fol.events[i] = bus.log[Position + i]

BotAt(h) ==
    /\ rst = [base |-> rst.base, layers |-> h.stack, tip |-> rst.tip]
    /\ rst.tip = TipOf(h) \/ (rst.tip = None /\ h.stack = <<>>)
    /\ sbs \in [1..Execs -> Map]
    /\ ~torn => Pinned(rst.base, h.fin) /\ \A w \in 1..Execs : Pinned(sbs[w], h.fin)

BotInv ==
    /\ NodeInv /\ bus.log \in Seq(Events)
    /\ crashes \in Nat /\ seen \in Nat /\ seen <= Openings
    /\ fol = [on |-> fol.on, cur |-> fol.cur, next |-> fol.next,
              events |-> fol.events, lock |-> fol.lock]
    /\ fol.on \in BOOLEAN
    /\ ~fol.on => /\ rst = NewState /\ sbs = EmptyBuffers /\ bat.pc = "idle"
                  /\ fol.events = <<>> /\ ~fol.lock
    /\ \E H : IsHistory(H) /\ (Attached => Following /\ BotAt(H[Position]))
-----------------------------------------------------------------------------
(***************************************************************************)
(* The history of the bus.                                                 *)
(***************************************************************************)
(* A bus just opened, at the follower's resume point. *)
Opened ==
    /\ bus.log = <<>> /\ bus.layers = <<>> /\ disk.mark \in Block
    /\ pc \notin {"down", "halt"} => tr.fin = disk.mark

HasHistory == \E H : IsHistory(H)

LEMMA HistoryOpens == Opened => HasHistory
<1> SUFFICES ASSUME Opened PROVE \E H : IsHistory(H)
  BY DEF HasHistory
<1> USE DEF Opened
<1> DEFINE h == At(<<>>, disk.mark)
           H == [n \in 0..Len(bus.log) |-> h]
<1>1. Len(bus.log) = 0 /\ 0..Len(bus.log) = {0} /\ 1..Len(bus.log) = {}
  BY SMTT(60)
<1>2. h \in Stacks /\ h.stack = <<>> /\ h.fin = disk.mark /\ TipOf(h) = disk.mark
  <2>1. <<>> \in Seq(Captures)
    BY SMTT(60)
  <2> QED BY <2>1 DEF At, Stacks, TipOf
<1>3. IsPath(<<>>, disk.mark, disk.mark) /\ disk.mark \in Chain[disk.mark]
  <2>1. Len(<<>>) = 0 /\ 1..Len(<<>>) = {}
    BY SMTT(60)
  <2> QED BY <2>1, ChainEnds, BlockFacts, SMTT(60) DEF IsPath
<1>4. Elements(<<>>) = {}
  <2>1. 1..Len(<<>>) = {}
    BY SMTT(60)
  <2> QED BY <2>1 DEF Elements
<1> HIDE DEF h
<1>5. H \in [0..Len(bus.log) -> Stacks] /\ \A n \in 0..Len(bus.log) : H[n] = h
  BY <1>2
<1>6. Len(bus.log) \in 0..Len(bus.log)
  BY <1>1
<1> HIDE DEF H
<1>7. IsHistory(H)
  BY <1>1, <1>2, <1>3, <1>4, <1>5, <1>6 DEF IsHistory
<1> QED BY <1>7

(* The same bus under a follower that moved on. *)
LEMMA HistoryStays ==
  ASSUME NEW H, IsHistory(H), bus' = bus, Chain[disk.mark] \subseteq Chain[disk'.mark],
         pc' \notin {"down", "halt"} => pc \notin {"down", "halt"} /\ tr'.fin = tr.fin,
         ~torn' => ~torn
  PROVE  IsHistory(H)'
BY DEF IsHistory

(* One more event. *)
LEMMA HistoryGrows ==
  ASSUME NodeInv', bus.log \in Seq(Events), bus'.log \in Seq(Events),
         NEW H, IsHistory(H), Publishes(At(bus.layers, tr.fin), At(bus'.layers, tr'.fin)),
         pc \notin {"down", "halt"}, pc' \notin {"down", "halt", "publish"},
         Chain[disk.mark] \subseteq Chain[disk'.mark], ~torn' => ~torn
  PROVE  \E G : IsHistory(G)' /\ \A n \in 0..Len(bus.log) : G[n] = H[n]
<1> DEFINE k == Len(bus.log)
           h == At(bus'.layers, tr'.fin)
<1>1. PICK ev \in Events : bus'.log = Append(bus.log, ev)
                           /\ Applies(ev, At(bus.layers, tr.fin), At(bus'.layers, tr'.fin))
  BY DEF Publishes
<1>2. k \in Nat /\ Len(bus'.log) = k + 1 /\ bus'.log[k + 1] = ev
      /\ \A n \in 1..k : bus'.log[n] = bus.log[n]
  BY <1>1, SMTT(60)
<1>3. /\ Shape' /\ tr'.fin = disk'.mark /\ bus'.layers = tr'.stack /\ GoodTracker(tr')
      /\ ex' = tr'.table
  BY DEF NodeInv, Shape, Mirrors
<1>4. tr' \in Trackers /\ IsPath(tr'.stack, tr'.fin, TipOf(tr')) /\ disk'.mark \in Block
  BY <1>3 DEF GoodTracker, NodeInv, NodeTypeOK
<1>5. h \in Stacks /\ h.stack = tr'.stack /\ h.fin = tr'.fin /\ TipOf(h) = TipOf(tr')
  BY <1>3, <1>4 DEF At, Stacks, TipOf, Trackers
<1>6. ASSUME ~torn' PROVE \A e \in Elements(tr'.stack) : e.diff = Diff[e.blk]
  BY <1>3, <1>6 DEF NodeInv, Exact, GoodTracker
<1>7. h.fin \in Chain[disk'.mark]
  BY <1>3, <1>4, <1>5, ChainEnds
<1>8. H \in [0..k -> Stacks] /\ H[k].stack = bus.layers /\ H[k].fin = tr.fin /\ k \in 0..k
  BY <1>2, SMTT(60) DEF IsHistory
<1>9. At(bus.layers, tr.fin) = H[k]
  BY <1>8 DEF At, Stacks
<1>10. Applies(ev, H[k], h)
  BY <1>1, <1>9
<1> HIDE DEF h
<1>0. PICK G : G = [n \in 0..k + 1 |-> IF n \in 0..k THEN H[n] ELSE h]
  OBVIOUS
<1>11. /\ G \in [0..k + 1 -> Stacks] /\ \A n \in 0..k : G[n] = H[n]
  BY <1>0, <1>2, <1>5, <1>8, SMTT(60)
<1>12. G[k + 1] = h
  BY <1>0, <1>2, SMTT(60)
<1>13. \A n \in 0..k + 1 : n \in 0..k \/ n = k + 1
  BY <1>2, SMTT(60)
<1>14. k + 1 \in 0..k + 1
  BY <1>2, SMTT(60)
<1>15. ASSUME NEW n \in 0..k + 1
       PROVE  /\ IsPath(G[n].stack, G[n].fin, TipOf(G[n])) /\ G[n].fin \in Chain[disk'.mark]
              /\ ~torn' => \A e \in Elements(G[n].stack) : e.diff = Diff[e.blk]
  <2>1. CASE n \in 0..k
    <3>1. /\ IsPath(H[n].stack, H[n].fin, TipOf(H[n])) /\ H[n].fin \in Chain[disk.mark]
          /\ ~torn => \A e \in Elements(H[n].stack) : e.diff = Diff[e.blk]
      BY <2>1 DEF IsHistory
    <3> QED BY <1>11, <2>1, <3>1
  <2>2. CASE n = k + 1
    BY <1>4, <1>5, <1>6, <1>7, <1>12, <2>2
  <2> QED BY <1>13, <2>1, <2>2
<1>16. ASSUME NEW n \in 1..k + 1 PROVE Applies(bus'.log[n], G[n - 1], G[n])
  <2>1. CASE n \in 1..k
    <3>1. Applies(bus.log[n], H[n - 1], H[n])
      BY <2>1 DEF IsHistory
    <3>2. n \in 0..k /\ n - 1 \in 0..k
      BY <1>2, <2>1, SMTT(60)
    <3> QED BY <1>2, <1>11, <2>1, <3>1, <3>2
  <2>2. CASE n = k + 1
    <3>1. n - 1 = k /\ G[k] = H[k]
      BY <1>2, <1>8, <1>11, <2>2, SMTT(60)
    <3> QED BY <1>2, <1>10, <1>12, <2>2, <3>1
  <2> QED BY <1>2, <2>1, <2>2, SMTT(60)
<1>17. G[k + 1].stack = bus'.layers /\ G[k + 1].fin = tr'.fin
  BY <1>3, <1>5, <1>12
<1> HIDE DEF k
<1>18. IsHistory(G)'
  BY <1>2, <1>11, <1>15, <1>16, <1>17 DEF IsHistory
<1> QED BY <1>11, <1>18 DEF k

(* A point of the history. *)
LEMMA PointFacts ==
  ASSUME NodeInv, NEW H, IsHistory(H), NEW n \in 0..Len(bus.log)
  PROVE  /\ H[n] \in Stacks /\ H[n].stack \in Seq(Captures) /\ H[n].fin \in Block
         /\ disk.top \in Block /\ disk.mark \in Block /\ TipOf(H[n]) \in Block
         /\ IsPath(H[n].stack, H[n].fin, TipOf(H[n]))
         /\ H[n].fin \in Chain[disk.mark] /\ disk.mark \in Chain[disk.top]
         /\ H[n].fin \in Chain[disk.top] /\ Height[disk.top] >= Height[H[n].fin]
<1>1. H[n] \in Stacks /\ IsPath(H[n].stack, H[n].fin, TipOf(H[n])) /\ H[n].fin \in Chain[disk.mark]
  BY DEF IsHistory
<1>2. H[n].stack \in Seq(Captures) /\ H[n].fin \in Block
  BY <1>1 DEF Stacks
<1>3. disk.top \in Block /\ disk.mark \in Block
  BY DEF NodeInv, NodeTypeOK
<1>4. disk.mark \in Chain[disk.top]
  BY <1>3, ChainEnds, BlockFacts DEF NodeInv, DiskInv
<1>5. H[n].fin \in Chain[disk.top]
  BY <1>1, <1>3, <1>4, ChainFacts
<1>6. TipOf(H[n]) \in Block
  <2>1. CASE H[n].stack = <<>>
    BY <1>2, <2>1 DEF TipOf
  <2>2. CASE H[n].stack # <<>>
    <3>1. H[n].stack[Len(H[n].stack)] \in Captures
      BY <1>2, <2>2, SMTT(60)
    <3> QED BY <2>2, <3>1, CaptureFacts DEF TipOf
  <2> QED BY <2>1, <2>2
<1>7. Height[disk.top] >= Height[H[n].fin]
  <2>1. Height[H[n].fin] <= Height[disk.top] /\ Height[H[n].fin] \in Nat
    BY <1>3, <1>5, ChainFacts
  <2> QED BY <1>3, <2>1, BlockFacts
<1> QED BY <1>1, <1>2, <1>3, <1>4, <1>5, <1>6, <1>7

LEMMA PositionFacts ==
  ASSUME Following, bus.log \in Seq(Events)
  PROVE  /\ Position \in 0..Len(bus.log) /\ Len(fol.events) \in Nat /\ Len(bus.log) \in Nat
         /\ Position + Len(fol.events) = fol.next
         /\ fol.events # <<>> => Position + 1 \in 1..Len(bus.log) /\ Head(fol.events) = bus.log[Position + 1]
         /\ fol.events = <<>> => Position = fol.next
<1>1. /\ Len(fol.events) \in Nat /\ Len(bus.log) \in Nat /\ fol.next \in Nat
      /\ Position \in Nat /\ fol.next <= Len(bus.log)
  BY SMTT(60) DEF Following
<1>2. Position = fol.next - Len(fol.events)
  BY DEF Position
<1>3. Position \in 0..Len(bus.log) /\ Position + Len(fol.events) = fol.next
  BY <1>1, <1>2, SMTT(60)
<1>4. ASSUME fol.events # <<>>
      PROVE  Position + 1 \in 1..Len(bus.log) /\ Head(fol.events) = bus.log[Position + 1]
  <2>1. fol.events \in Seq(Events) /\ Len(fol.events) # 0 /\ Head(fol.events) = fol.events[1]
    BY <1>4, SMTT(60) DEF Following
  <2>2. 1 \in 1..Len(fol.events)
    BY <1>1, <2>1, SMTT(60)
  <2>3. fol.events[1] = bus.log[Position + 1]
    BY <2>2 DEF Following
  <2> QED BY <1>1, <1>3, <2>1, <2>3, SMTT(60)
<1>5. ASSUME fol.events = <<>> PROVE Position = fol.next
  <2>1. Len(fol.events) = 0
    BY <1>5, SMTT(60)
  <2> QED BY <1>1, <1>2, <2>1, SMTT(60)
<1> QED BY <1>1, <1>3, <1>4, <1>5
-----------------------------------------------------------------------------
(***************************************************************************)
(* What is pinned.                                                         *)
(***************************************************************************)
(* The first of some numbers is one of them. *)
LEMMA FirstIs ==
  ASSUME NEW hits \in SUBSET Nat, hits # {}
  PROVE  First(hits) \in hits
BY LeastNatural DEF First

LEMMA PinnedMerge ==
  ASSUME NEW m, NEW bufs \in [1..Execs -> Map], NEW x, Pinned(m, x),
         \A w \in 1..Execs : Pinned(bufs[w], x)
  PROVE  Pinned(Merge(m, bufs), x)
<1> DEFINE A(a) == {i \in DOMAIN bufs : bufs[i].acct[a] # None}
           Owned(i, a) == m.acct[a] # None \/ \E j \in A(a) : j <= i
           S(a, s) == {i \in DOMAIN bufs : bufs[i].slot[a][s] # None /\ Owned(i, a)}
<1>0. DOMAIN bufs = 1..Execs /\ 1..Execs \subseteq Nat
  BY ReaderAssumption, SMTT(60)
<1>1. ASSUME NEW a \in Addr, Merge(m, bufs).acct[a] # None
      PROVE  SinceAcct(x, a, Merge(m, bufs).acct[a])
  <2>1. Merge(m, bufs).acct[a] = IF m.acct[a] # None \/ A(a) = {} THEN m.acct[a]
                                 ELSE bufs[First(A(a))].acct[a]
    BY DEF Merge
  <2>2. CASE m.acct[a] # None \/ A(a) = {}
    BY <1>1, <2>1, <2>2 DEF Pinned
  <2>3. CASE ~(m.acct[a] # None \/ A(a) = {})
    <3>1. A(a) \in SUBSET Nat /\ A(a) # {}
      BY <1>0, <2>3
    <3>2. First(A(a)) \in A(a)
      <4> HIDE DEF A
      <4> QED BY <3>1, FirstIs
    <3>3. First(A(a)) \in 1..Execs
      BY <1>0, <3>2
    <3>4. Merge(m, bufs).acct[a] = bufs[First(A(a))].acct[a]
      BY <2>1, <2>3
    <3> HIDE DEF A
    <3> QED BY <1>1, <3>3, <3>4 DEF Pinned
  <2> QED BY <2>2, <2>3
<1>2. ASSUME NEW a \in Addr, NEW s \in Slot, Merge(m, bufs).slot[a][s] # None
      PROVE  SinceSlot(x, a, s, Merge(m, bufs).slot[a][s])
  <2>1. Merge(m, bufs).slot[a][s] = IF m.slot[a][s] # None \/ S(a, s) = {} THEN m.slot[a][s]
                                    ELSE bufs[First(S(a, s))].slot[a][s]
    BY DEF Merge
  <2>2. CASE m.slot[a][s] # None \/ S(a, s) = {}
    BY <1>2, <2>1, <2>2 DEF Pinned
  <2>3. CASE ~(m.slot[a][s] # None \/ S(a, s) = {})
    <3>1. S(a, s) \in SUBSET Nat /\ S(a, s) # {}
      BY <1>0, <2>3
    <3>2. First(S(a, s)) \in S(a, s)
      <4> HIDE DEF S
      <4> QED BY <3>1, FirstIs
    <3>3. First(S(a, s)) \in 1..Execs
      BY <1>0, <3>2
    <3>4. Merge(m, bufs).slot[a][s] = bufs[First(S(a, s))].slot[a][s]
      BY <2>1, <2>3
    <3> HIDE DEF S
    <3> QED BY <1>2, <3>3, <3>4 DEF Pinned
  <2> QED BY <2>2, <2>3
<1> QED BY <1>1, <1>2 DEF Pinned

(* An account after a block's diff: what the diff leaves of its earlier value. *)
LEMMA AfterAcct ==
  ASSUME NEW w, NEW d, NEW v, v = After(w, d), NEW a \in Addr
  PROVE  v.acct[a] = AcctAfter(w.acct[a], d, a)
BY DEF After

(* A block's state has a value under every key. *)
LEMMA WorldHas ==
  ASSUME NEW w \in World, NEW a \in Addr
  PROVE  w.acct[a] # None /\ \A s \in Slot : w.slot[a][s] # None
<1>1. w.acct[a] \in Acct \cup {NoAcct} /\ \A s \in Slot : w.slot[a][s] \in Val
  BY DEF World
<1> QED BY <1>1, DataAssumption

(* Map.Apply with the block after x leaves nothing from before that block. *)
LEMMA PinnedApply ==
  ASSUME NEW m, NEW x \in Block, NEW b \in Block \ {Root}, Parent[b] = x, Pinned(m, x),
         disk.top \in Block, b \in Chain[disk.top]
  PROVE  Pinned(Apply(m, Diff[b]), b)
<1>1. /\ WorldOf[b] = After(WorldOf[x], Diff[b]) /\ Height[b] = Height[x] + 1
      /\ Height[b] \in Nat /\ Height[x] \in Nat /\ x \in Chain[disk.top]
  BY ChainAssumption, BlockFacts, ChainFacts
<1>2. ASSUME NEW y \in Chain[disk.top], Height[y] >= Height[x]
      PROVE  y = x \/ Height[y] >= Height[b]
  <2>1. Height[y] \in Nat
    BY ChainFacts
  <2>2. CASE Height[y] = Height[x]
    BY <1>1, <2>2, ChainUnique
  <2>3. CASE Height[y] # Height[x]
    BY <1>1, <1>2, <2>1, <2>3, SMTT(60)
  <2> QED BY <2>2, <2>3
<1>3. Height[b] >= Height[b]
  BY <1>1, SMTT(60)
<1>4. ASSUME NEW a \in Addr, m.acct[a] # None
      PROVE  SinceAcct(b, a, AcctAfter(m.acct[a], Diff[b], a))
  <2>1. PICK y \in Chain[disk.top] : Height[y] >= Height[x] /\ m.acct[a] = WorldOf[y].acct[a]
    BY <1>4 DEF Pinned, SinceAcct
  <2>2. WorldOf[b].acct[a] = AcctAfter(WorldOf[x].acct[a], Diff[b], a)
    BY <1>1, SMTT(60) DEF After
  <2>3. AcctAfter(m.acct[a], Diff[b], a) = WorldOf[b].acct[a] \/
        (Height[y] >= Height[b] /\ AcctAfter(m.acct[a], Diff[b], a) = WorldOf[y].acct[a])
    BY <1>2, <2>1, <2>2, SMTT(60) DEF AcctAfter
  <2> QED BY <1>3, <2>3 DEF SinceAcct
<1>5. ASSUME NEW a \in Addr, NEW s \in Slot, m.slot[a][s] # None
      PROVE  SinceSlot(b, a, s, SlotAfter(m.slot[a][s], Diff[b], a, s))
  <2>1. PICK y \in Chain[disk.top] : Height[y] >= Height[x] /\ m.slot[a][s] = WorldOf[y].slot[a][s]
    BY <1>5 DEF Pinned, SinceSlot
  <2>2. WorldOf[b].slot[a][s] = SlotAfter(WorldOf[x].slot[a][s], Diff[b], a, s)
    BY <1>1, SMTT(60) DEF After
  <2>3. SlotAfter(m.slot[a][s], Diff[b], a, s) = WorldOf[b].slot[a][s] \/
        (Height[y] >= Height[b] /\ SlotAfter(m.slot[a][s], Diff[b], a, s) = WorldOf[y].slot[a][s])
    BY <1>2, <2>1, <2>2, SMTT(60) DEF SlotAfter
  <2> QED BY <1>3, <2>3 DEF SinceSlot
<1>6. ASSUME NEW a \in Addr, Apply(m, Diff[b]).acct[a] # None
      PROVE  SinceAcct(b, a, Apply(m, Diff[b]).acct[a])
  BY <1>4, <1>6 DEF Apply
<1>7. ASSUME NEW a \in Addr, NEW s \in Slot, Apply(m, Diff[b]).slot[a][s] # None
      PROVE  SinceSlot(b, a, s, Apply(m, Diff[b]).slot[a][s])
  BY <1>5, <1>7 DEF Apply
<1> QED BY <1>6, <1>7 DEF Pinned

(***************************************************************************)
(* A miss pins a value of LMDB, which is never behind the finalized block  *)
(* of the bot's point.                                                     *)
(***************************************************************************)
LEMMA MissIsCurrent ==
  ASSUME NodeInv, ~torn, NEW H, IsHistory(H), NEW n \in 0..Len(bus.log), NEW a \in Addr
  PROVE  /\ SinceAcct(H[n].fin, a, Latest(disk).acct[a])
         /\ \A s \in Slot : SinceSlot(H[n].fin, a, s, Latest(disk).slot[a][s])
<1>1. Latest(disk) = WorldOf[disk.top]
  BY DEF NodeInv, Exact, NoHalt
<1>2. disk.top \in Chain[disk.top] /\ Height[disk.top] >= Height[H[n].fin]
  BY PointFacts, ChainEnds
<1> QED BY <1>1, <1>2 DEF SinceAcct, SinceSlot
-----------------------------------------------------------------------------
(***************************************************************************)
(* What an event does to the bot's state.                                  *)
(***************************************************************************)
(* A drain: the base takes over what the buffers hold. *)
LEMMA DrainKeeps ==
  ASSUME NEW h, BotAt(h)
  PROVE  /\ Drain(rst, sbs) = [base |-> Merge(rst.base, sbs), layers |-> h.stack, tip |-> rst.tip]
         /\ ~torn => Pinned(Merge(rst.base, sbs), h.fin)
<1>1. rst = [base |-> rst.base, layers |-> h.stack, tip |-> rst.tip]
  BY DEF BotAt
<1>2. Drain(rst, sbs) = [base |-> Merge(rst.base, sbs), layers |-> h.stack, tip |-> rst.tip]
  BY <1>1, SMTT(60) DEF Drain
<1> QED BY <1>2, PinnedMerge DEF BotAt

TwoSet(r, l, t) == [r EXCEPT !.layers = l, !.tip = t]

LEMMA TwoFields ==
  ASSUME NEW r, r = [base |-> r.base, layers |-> r.layers, tip |-> r.tip], NEW l, NEW t
  PROVE  TwoSet(r, l, t) = [base |-> r.base, layers |-> l, tip |-> t]
<1>1. PICK b, k, u : b = r.base /\ k = r.layers /\ u = r.tip
  OBVIOUS
<1>2. PICK q : q = [r EXCEPT !.layers = l]
  OBVIOUS
<1>3. r = [base |-> b, layers |-> k, tip |-> u]
  BY <1>1
<1>4. q = [base |-> b, layers |-> l, tip |-> u]
  BY <1>2, <1>3
<1>5. [q EXCEPT !.tip = t] = [base |-> b, layers |-> l, tip |-> t]
  BY <1>4, SMTT(60)
<1>6. [r EXCEPT !.layers = l, !.tip = t] = [q EXCEPT !.tip = t]
  BY <1>2
<1> QED BY <1>1, <1>5, <1>6 DEF TwoSet

(* The write phases on a state of the bot. *)
LEMMA PhasesAre ==
  ASSUME NEW s, s = [base |-> s.base, layers |-> s.layers, tip |-> s.tip]
  PROVE  /\ \A e : ApplyBlock(s, e) =
                  [base |-> s.base, layers |-> Append(s.layers, e), tip |-> e.blk]
         /\ \A p : p # <<>> => PreferenceReset(s, p) =
                  [base |-> s.base, layers |-> p, tip |-> p[Len(p)].blk]
         /\ \A b : Finalize(s, b) =
                  [base |-> Apply(s.base, Head(s.layers).diff), layers |-> Tail(s.layers),
                   tip |-> IF Len(s.layers) = 1 THEN b ELSE s.tip]
<1>1. ASSUME NEW l, NEW t
      PROVE  [s EXCEPT !.layers = l, !.tip = t] = [base |-> s.base, layers |-> l, tip |-> t]
  BY TwoFields DEF TwoSet
<1>2. ASSUME NEW e
      PROVE  ApplyBlock(s, e) = [base |-> s.base, layers |-> Append(s.layers, e), tip |-> e.blk]
  BY <1>1 DEF ApplyBlock
<1>3. ASSUME NEW p, p # <<>>
      PROVE  PreferenceReset(s, p) = [base |-> s.base, layers |-> p, tip |-> p[Len(p)].blk]
  BY <1>1, <1>3 DEF PreferenceReset
<1> QED BY <1>2, <1>3 DEF Finalize

(* The newer part of a stack. *)
LEMMA TailFacts ==
  ASSUME NEW q \in Seq(Captures), q # <<>>
  PROVE  /\ Len(q) \in Nat \ {0} /\ Head(q) = q[1] /\ q[1] \in Captures
         /\ Len(q) = 1 => Tail(q) = <<>>
         /\ Len(q) # 1 => Tail(q) # <<>> /\ Tail(q)[Len(Tail(q))] = q[Len(q)]
<1>1. Len(q) \in Nat \ {0} /\ Head(q) = q[1] /\ q[1] \in Captures
  BY SMTT(60)
<1>2. Tail(q) \in Seq(Captures) /\ Len(Tail(q)) = Len(q) - 1
  BY SMTT(60)
<1>5. Tail(q) = <<>> <=> Len(Tail(q)) = 0
  <2>1. PICK u : u = Tail(q)
    OBVIOUS
  <2>2. u \in Seq(Captures)
    BY <1>2, <2>1
  <2>3. u = <<>> <=> Len(u) = 0
    BY <2>2, SMTT(60)
  <2> QED BY <2>1, <2>3
<1>3. ASSUME Len(q) = 1 PROVE Tail(q) = <<>>
  <2>1. Len(Tail(q)) = 0
    BY <1>2, <1>3, SMTT(60)
  <2> QED BY <1>5, <2>1
<1>4. ASSUME Len(q) # 1 PROVE Tail(q) # <<>> /\ Tail(q)[Len(Tail(q))] = q[Len(q)]
  <2>1. \A i \in 1..(Len(q) - 1) : Tail(q)[i] = q[i + 1]
    BY SMTT(60)
  <2>2. Len(q) - 1 \in 1..(Len(q) - 1) /\ Len(Tail(q)) # 0 /\ (Len(q) - 1) + 1 = Len(q)
    BY <1>1, <1>2, <1>4, SMTT(60)
  <2>3. Tail(q) # <<>>
    BY <1>5, <2>2
  <2> QED BY <1>2, <2>1, <2>2, <2>3
<1> QED BY <1>1, <1>3, <1>4

(***************************************************************************)
(* One event: the bot goes from its point of the history to the next, and  *)
(* a finalize event always names its oldest layer.                         *)
(***************************************************************************)
LEMMA EventKeeps ==
  ASSUME BotInv, NEW H, IsHistory(H), Following, BotAt(H[Position]), fol.events # <<>>,
         NEW ev, ev = Head(fol.events), NEW s, s = Drain(rst, sbs)
  PROVE  /\ ev.kind \in {"block", "reset", "final"}
         /\ Position + 1 \in 0..Len(bus.log)
         /\ ev.kind = "final" => OldestIs(s.layers, ev.blk)
         /\ \A r : /\ ev.kind = "block" => r = ApplyBlock(s, Head(ev.es))
                   /\ ev.kind = "final" => r = Finalize(s, ev.blk)
                   /\ ev.kind = "reset" => r = PreferenceReset(s, ev.es)
                   => /\ r = [base |-> r.base, layers |-> H[Position + 1].stack, tip |-> r.tip]
                      /\ r.tip = TipOf(H[Position + 1])
                      /\ ~torn => Pinned(r.base, H[Position + 1].fin)
<1>1. NodeInv /\ bus.log \in Seq(Events)
  BY DEF BotInv
<1>2. PICK n : n = Position
  OBVIOUS
<1>3. n \in 0..Len(bus.log) /\ n + 1 \in 1..Len(bus.log) /\ ev = bus.log[n + 1]
  BY <1>1, <1>2, PositionFacts
<1>4. n + 1 \in 0..Len(bus.log) /\ n = (n + 1) - 1
  BY <1>3, SMTT(60)
<1>5. PICK old : old = H[n]
  OBVIOUS
<1>6. PICK new : new = H[n + 1]
  OBVIOUS
<1>7. Applies(ev, old, new)
  BY <1>3, <1>4, <1>5, <1>6 DEF IsHistory
<1>8. /\ old \in Stacks /\ old.stack \in Seq(Captures) /\ old.fin \in Block
      /\ disk.top \in Block /\ IsPath(old.stack, old.fin, TipOf(old)) /\ TipOf(old) \in Block
      /\ new \in Stacks /\ new.stack \in Seq(Captures) /\ new.fin \in Chain[disk.top]
  BY <1>1, <1>3, <1>4, <1>5, <1>6, PointFacts
<1>9. BotAt(old)
  BY <1>2, <1>5
<1>10. PICK m : m = Merge(rst.base, sbs)
  OBVIOUS
<1>11. s = [base |-> m, layers |-> old.stack, tip |-> rst.tip] /\ (~torn => Pinned(m, old.fin))
  BY <1>9, <1>10, DrainKeeps
<1>18. s.base = m /\ s.layers = old.stack /\ s.tip = rst.tip
       /\ s = [base |-> s.base, layers |-> s.layers, tip |-> s.tip]
  BY <1>11, SMTT(60)
<1>12. ev.kind \in {"block", "reset", "final"}
  BY <1>7 DEF Applies
<1>13. ev.kind = "final" => OldestIs(s.layers, ev.blk)
  BY <1>7, <1>11, SMTT(60) DEF Applies
<1>14. ASSUME NEW r, ev.kind = "block", r = ApplyBlock(s, Head(ev.es))
       PROVE  /\ r = [base |-> r.base, layers |-> new.stack, tip |-> r.tip]
              /\ r.tip = TipOf(new) /\ (~torn => Pinned(r.base, new.fin))
  <2>1. PICK e : e = Head(ev.es)
    OBVIOUS
  <2>2. new.stack = Append(old.stack, e) /\ new.fin = old.fin
    BY <1>7, <1>14, <2>1, SMTT(60) DEF Applies, At
  <2>3. new.stack # <<>> /\ new.stack[Len(new.stack)] = e
    BY <1>8, <2>2, SMTT(60)
  <2>4. r = [base |-> m, layers |-> new.stack, tip |-> e.blk]
    <3>1. ApplyBlock(s, e) = [base |-> s.base, layers |-> Append(s.layers, e), tip |-> e.blk]
      BY <1>18, PhasesAre
    <3> QED BY <1>14, <1>18, <2>1, <2>2, <3>1
  <2>5. TipOf(new) = e.blk
    BY <2>3 DEF TipOf
  <2> QED BY <1>11, <2>2, <2>4, <2>5
<1>15. ASSUME NEW r, ev.kind = "reset", r = PreferenceReset(s, ev.es)
       PROVE  /\ r = [base |-> r.base, layers |-> new.stack, tip |-> r.tip]
              /\ r.tip = TipOf(new) /\ (~torn => Pinned(r.base, new.fin))
  <2>1. new.stack = ev.es /\ new.fin = old.fin /\ ev.es # <<>>
    BY <1>7, <1>15, SMTT(60) DEF Applies, At
  <2>2. r = [base |-> m, layers |-> new.stack, tip |-> new.stack[Len(new.stack)].blk]
    <3>1. PreferenceReset(s, ev.es) = [base |-> s.base, layers |-> ev.es, tip |-> ev.es[Len(ev.es)].blk]
      BY <1>18, <2>1, PhasesAre
    <3> QED BY <1>15, <1>18, <2>1, <3>1
  <2>3. TipOf(new) = new.stack[Len(new.stack)].blk
    BY <2>1 DEF TipOf
  <2> QED BY <1>11, <2>1, <2>2, <2>3
<1>16. ASSUME NEW r, ev.kind = "final", r = Finalize(s, ev.blk)
       PROVE  /\ r = [base |-> r.base, layers |-> new.stack, tip |-> r.tip]
              /\ r.tip = TipOf(new) /\ (~torn => Pinned(r.base, new.fin))
  <2>1. OldestIs(old.stack, ev.blk) /\ new = At(Tail(old.stack), ev.blk)
    BY <1>7, <1>16 DEF Applies
  <2>2. /\ old.stack # <<>> /\ Head(old.stack).blk = ev.blk
        /\ new.stack = Tail(old.stack) /\ new.fin = ev.blk
    BY <2>1 DEF At, OldestIs
  <2>3. PICK e : e = Head(old.stack)
    OBVIOUS
  <2>4. e \in Captures /\ e = old.stack[1] /\ Len(old.stack) \in Nat \ {0} /\ 1 \in 1..Len(old.stack)
    BY <1>8, <2>2, <2>3, TailFacts, SMTT(60)
  <2>5. ev.blk = e.blk /\ e.blk \in Block \ {Root} /\ Parent[e.blk] = old.fin
    BY <1>8, <2>2, <2>3, <2>4, PathFacts, CaptureFacts, SMTT(60)
  <2>6. r = [base |-> Apply(m, e.diff), layers |-> new.stack,
             tip |-> IF Len(old.stack) = 1 THEN e.blk ELSE rst.tip]
    <3>1. r = [base |-> Apply(s.base, Head(s.layers).diff), layers |-> Tail(s.layers),
               tip |-> IF Len(s.layers) = 1 THEN ev.blk ELSE s.tip]
      BY <1>16, <1>18, PhasesAre
    <3> QED BY <1>18, <2>2, <2>3, <2>5, <3>1
  <2>7. rst.tip = TipOf(old)
    BY <1>9, <2>2 DEF BotAt
  <2>8. r.tip = TipOf(new)
    <3>1. CASE Len(old.stack) = 1
      <4>1. new.stack = <<>>
        BY <1>8, <2>2, <3>1, TailFacts
      <4> QED BY <2>2, <2>5, <2>6, <3>1, <4>1 DEF TipOf
    <3>2. CASE Len(old.stack) # 1
      <4>1. new.stack # <<>> /\ new.stack[Len(new.stack)] = old.stack[Len(old.stack)]
        BY <1>8, <2>2, <3>2, TailFacts
      <4> QED BY <2>2, <2>6, <2>7, <3>2, <4>1 DEF TipOf
    <3> QED BY <3>1, <3>2
  <2>9. ASSUME ~torn PROVE Pinned(r.base, new.fin)
    <3>1. e.diff = Diff[e.blk]
      <4>1. \A f \in Elements(old.stack) : f.diff = Diff[f.blk]
        BY <1>3, <1>5, <2>9 DEF IsHistory
      <4>2. e \in Elements(old.stack)
        BY <2>4 DEF Elements
      <4> QED BY <4>1, <4>2
    <3>2. Pinned(Apply(m, Diff[e.blk]), e.blk)
      BY <1>8, <1>11, <2>2, <2>5, <2>9, PinnedApply
    <3> QED BY <2>2, <2>5, <2>6, <3>1, <3>2
  <2>10. r = [base |-> r.base, layers |-> new.stack, tip |-> r.tip]
    BY <2>6
  <2> QED BY <2>8, <2>9, <2>10
<1>17. ASSUME NEW r,
              /\ ev.kind = "block" => r = ApplyBlock(s, Head(ev.es))
              /\ ev.kind = "final" => r = Finalize(s, ev.blk)
              /\ ev.kind = "reset" => r = PreferenceReset(s, ev.es)
       PROVE  /\ r = [base |-> r.base, layers |-> new.stack, tip |-> r.tip]
              /\ r.tip = TipOf(new) /\ (~torn => Pinned(r.base, new.fin))
  BY <1>12, <1>14, <1>15, <1>16, <1>17
<1> QED BY <1>2, <1>4, <1>6, <1>12, <1>13, <1>17
-----------------------------------------------------------------------------
(***************************************************************************)
(* What a chain of blocks, and the layers of it, say of one key.           *)
(***************************************************************************)
TouchesAcct(z, a) == Diff[z].acct[a] # None \/ a \in Diff[z].dest

TouchesSlot(z, a, s) == Diff[z].slot[a][s] # None \/ a \in Diff[z].dest

LEMMA AcctSettled ==
  ASSUME NEW t \in Block, NEW x \in Chain[t], NEW a \in Addr,
         \A z \in Chain[t] : Height[z] > Height[x] => ~TouchesAcct(z, a)
  PROVE  WorldOf[t].acct[a] = WorldOf[x].acct[a]
<1> DEFINE S == {c \in Block : \A y \in Chain[c] :
                   (\A z \in Chain[c] : Height[z] > Height[y] => ~TouchesAcct(z, a))
                   => WorldOf[c].acct[a] = WorldOf[y].acct[a]}
<1>1. Root \in S
  BY ChainAssumption
<1>2. ASSUME NEW c \in Block \ {Root}, Parent[c] \in S PROVE c \in S
  <2>1. SUFFICES ASSUME NEW y \in Chain[c],
                        \A z \in Chain[c] : Height[z] > Height[y] => ~TouchesAcct(z, a)
                 PROVE  WorldOf[c].acct[a] = WorldOf[y].acct[a]
    OBVIOUS
  <2>2. /\ Chain[c] = Chain[Parent[c]] \cup {c} /\ Parent[c] \in Block /\ c \in Chain[c]
        /\ WorldOf[c] = After(WorldOf[Parent[c]], Diff[c])
    BY ChainAssumption
  <2>3. CASE y = c
    BY <2>3
  <2>4. CASE y # c
    <3>1. y \in Chain[Parent[c]]
      BY <2>2, <2>4
    <3>2. Height[c] > Height[y]
      BY <2>4, ChainEnds, BlockFacts
    <3>3. ~TouchesAcct(c, a)
      BY <2>1, <2>2, <3>2
    <3>4. WorldOf[Parent[c]].acct[a] = WorldOf[y].acct[a]
      BY <1>2, <2>1, <2>2, <3>1
    <3>5. WorldOf[c].acct[a] = AcctAfter(WorldOf[Parent[c]].acct[a], Diff[c], a)
      BY <2>2, SMTT(60) DEF After
    <3> QED BY <3>3, <3>4, <3>5 DEF TouchesAcct, AcctAfter
  <2> QED BY <2>3, <2>4
<1>3. Block \subseteq S
  <2> HIDE DEF S
  <2> QED BY <1>1, <1>2, TreeInduction
<1> QED BY <1>3

LEMMA SlotSettled ==
  ASSUME NEW t \in Block, NEW x \in Chain[t], NEW a \in Addr, NEW s \in Slot,
         \A z \in Chain[t] : Height[z] > Height[x] => ~TouchesSlot(z, a, s)
  PROVE  WorldOf[t].slot[a][s] = WorldOf[x].slot[a][s]
<1> DEFINE S == {c \in Block : \A y \in Chain[c] :
                   (\A z \in Chain[c] : Height[z] > Height[y] => ~TouchesSlot(z, a, s))
                   => WorldOf[c].slot[a][s] = WorldOf[y].slot[a][s]}
<1>1. Root \in S
  BY ChainAssumption
<1>2. ASSUME NEW c \in Block \ {Root}, Parent[c] \in S PROVE c \in S
  <2>1. SUFFICES ASSUME NEW y \in Chain[c],
                        \A z \in Chain[c] : Height[z] > Height[y] => ~TouchesSlot(z, a, s)
                 PROVE  WorldOf[c].slot[a][s] = WorldOf[y].slot[a][s]
    OBVIOUS
  <2>2. /\ Chain[c] = Chain[Parent[c]] \cup {c} /\ Parent[c] \in Block /\ c \in Chain[c]
        /\ WorldOf[c] = After(WorldOf[Parent[c]], Diff[c])
    BY ChainAssumption
  <2>3. CASE y = c
    BY <2>3
  <2>4. CASE y # c
    <3>1. y \in Chain[Parent[c]]
      BY <2>2, <2>4
    <3>2. Height[c] > Height[y]
      BY <2>4, ChainEnds, BlockFacts
    <3>3. ~TouchesSlot(c, a, s)
      BY <2>1, <2>2, <3>2
    <3>4. WorldOf[Parent[c]].slot[a][s] = WorldOf[y].slot[a][s]
      BY <1>2, <2>1, <2>2, <3>1
    <3>5. WorldOf[c].slot[a][s] = SlotAfter(WorldOf[Parent[c]].slot[a][s], Diff[c], a, s)
      BY <2>2, SMTT(60) DEF After
    <3> QED BY <3>3, <3>4, <3>5 DEF TouchesSlot, SlotAfter
  <2> QED BY <2>3, <2>4
<1>3. Block \subseteq S
  <2> HIDE DEF S
  <2> QED BY <1>1, <1>2, TreeInduction
<1> QED BY <1>3

LEMMA MaxIs ==
  ASSUME NEW n \in Nat, NEW hits \in SUBSET (1..n), hits # {}
  PROVE  Max(hits) \in hits /\ \A j \in hits : j <= Max(hits)
<1> DEFINE T == {n - i : i \in hits}
<1>1. T \subseteq Nat /\ T # {}
  <2>1. \A i \in hits : i \in 1..n
    OBVIOUS
  <2>2. \A i \in 1..n : n - i \in Nat
    BY SMTT(60)
  <2> QED BY <2>1, <2>2
<1>2. PICK k \in T : \A m \in T : k <= m
  <2> HIDE DEF T
  <2> QED BY <1>1, LeastNatural
<1>3. PICK i \in hits : k = n - i
  BY <1>2
<1>4. ASSUME NEW j \in hits PROVE i >= j /\ j <= i
  <2>1. n - j \in T
    OBVIOUS
  <2>2. n - i <= n - j
    BY <1>2, <1>3, <2>1
  <2> QED BY <2>2, SMTT(60)
<1>5. \E x \in hits : \A y \in hits : x >= y
  BY <1>4
<1>6. Max(hits) \in hits /\ \A y \in hits : Max(hits) >= y
  BY <1>5 DEF Max
<1>7. \A j \in hits : j \in Nat
  BY SMTT(60)
<1> QED BY <1>6, <1>7

(* The layers of a path, with what they really changed. *)
Layered(s, fin, tip) ==
    /\ s \in Seq(Captures) /\ fin \in Block /\ tip \in Block /\ IsPath(s, fin, tip)
    /\ \A e \in Elements(s) : e.diff = Diff[e.blk]

LEMMA LayersAre ==
  ASSUME NEW s, NEW fin, NEW tip, Layered(s, fin, tip)
  PROVE  /\ DOMAIN s = 1..Len(s) /\ Len(s) \in Nat
         /\ \A i \in 1..Len(s) : /\ s[i].blk \in Chain[tip] /\ s[i].blk \in Block \ {Root}
                                 /\ s[i].diff = Diff[s[i].blk]
                                 /\ Height[s[i].blk] = Height[fin] + i
         /\ \A z \in Chain[tip] : Height[z] > Height[fin] =>
              \E i \in 1..Len(s) : s[i].blk = z /\ i = Height[z] - Height[fin]
<1>1. /\ s \in Seq(Captures) /\ fin \in Block /\ tip \in Block
      /\ fin \in Chain[tip] /\ Len(s) = Height[tip] - Height[fin]
      /\ \A i \in 1..Len(s) : s[i].blk \in Chain[tip] /\ Height[s[i].blk] = Height[fin] + i
  BY DEF Layered, IsPath
<1>2. DOMAIN s = 1..Len(s) /\ Len(s) \in Nat /\ \A i \in 1..Len(s) : s[i] \in Captures
  BY <1>1, SMTT(60)
<1>3. ASSUME NEW i \in 1..Len(s) PROVE s[i].blk \in Block \ {Root} /\ s[i].diff = Diff[s[i].blk]
  BY <1>2, CaptureFacts DEF Layered, Elements
<1>4. ASSUME NEW z \in Chain[tip], Height[z] > Height[fin]
      PROVE  \E i \in 1..Len(s) : s[i].blk = z /\ i = Height[z] - Height[fin]
  <2>1. Height[z] \in Nat /\ Height[z] <= Height[tip] /\ Height[fin] \in Nat /\ Height[tip] \in Nat
    BY <1>1, ChainFacts, BlockFacts
  <2>2. PICK i : i = Height[z] - Height[fin]
    OBVIOUS
  <2>3. i \in 1..Len(s) /\ Height[z] = Height[fin] + i
    BY <1>1, <1>4, <2>1, <2>2, SMTT(60)
  <2>4. s[i].blk = z
    BY <1>1, <2>3, ChainUnique
  <2> QED BY <2>2, <2>3, <2>4
<1> QED BY <1>1, <1>2, <1>3, <1>4

(* The layers answer with the value at the tip, or nothing above touched it. *)
LEMMA LayerAccountIs ==
  ASSUME NEW s, NEW fin, NEW tip, Layered(s, fin, tip), NEW a \in Addr
  PROVE  \/ LayerAccount(s, a) # None /\ LayerAccount(s, a) = WorldOf[tip].acct[a]
         \/ /\ LayerAccount(s, a) = None
            /\ \A z \in Chain[tip] : Height[z] > Height[fin] => ~TouchesAcct(z, a)
<1> DEFINE hits == {i \in DOMAIN s : s[i].diff.acct[a] # None \/ a \in s[i].diff.dest}
<1>1. /\ DOMAIN s = 1..Len(s) /\ Len(s) \in Nat
      /\ \A i \in 1..Len(s) : /\ s[i].blk \in Chain[tip] /\ s[i].blk \in Block \ {Root}
                              /\ s[i].diff = Diff[s[i].blk]
                              /\ Height[s[i].blk] = Height[fin] + i
      /\ \A z \in Chain[tip] : Height[z] > Height[fin] =>
           \E i \in 1..Len(s) : s[i].blk = z /\ i = Height[z] - Height[fin]
  BY LayersAre, SMTT(60)
<1>2. \A i \in 1..Len(s) : i \in hits <=> TouchesAcct(s[i].blk, a)
  BY <1>1 DEF TouchesAcct
<1>3. hits \in SUBSET (1..Len(s))
  BY <1>1
<1>4. LayerAccount(s, a) = IF hits = {} THEN None ELSE AcctAfter(NoAcct, s[Max(hits)].diff, a)
  BY DEF LayerAccount
<1>5. tip \in Block /\ fin \in Block
  BY DEF Layered
<1> HIDE DEF hits
<1>6. CASE hits = {}
  <2>1. LayerAccount(s, a) = None
    BY <1>4, <1>6
  <2>2. ASSUME NEW z \in Chain[tip], Height[z] > Height[fin] PROVE ~TouchesAcct(z, a)
    <3>1. PICK i \in 1..Len(s) : s[i].blk = z
      BY <1>1, <2>2
    <3> QED BY <1>2, <1>6, <3>1
  <2> QED BY <2>1, <2>2
<1>7. CASE hits # {}
  <2>1. PICK i : i = Max(hits)
    OBVIOUS
  <2>2. i \in hits /\ i \in 1..Len(s) /\ \A j \in hits : j <= i
    BY <1>1, <1>3, <1>7, <2>1, MaxIs
  <2>3. PICK b : b = s[i].blk
    OBVIOUS
  <2>4. /\ b \in Chain[tip] /\ b \in Block \ {Root} /\ s[i].diff = Diff[b]
        /\ Height[b] = Height[fin] + i /\ TouchesAcct(b, a)
    BY <1>1, <1>2, <2>2, <2>3
  <2>5. /\ WorldOf[b] = After(WorldOf[Parent[b]], Diff[b]) /\ Diff[b] \in Batch
        /\ WorldOf[b] \in World
    BY <2>4, ChainAssumption
  <2>6. WorldOf[b].acct[a] = AcctAfter(NoAcct, Diff[b], a)
    <3>1. WorldOf[b].acct[a] = AcctAfter(WorldOf[Parent[b]].acct[a], Diff[b], a)
      BY <2>5, AfterAcct
    <3> QED BY <2>4, <3>1 DEF TouchesAcct, AcctAfter
  <2>7. WorldOf[b].acct[a] # None
    BY <2>5, WorldHas
  <2>8. ASSUME NEW z \in Chain[tip], Height[z] > Height[b] PROVE ~TouchesAcct(z, a)
    <3>1. Height[z] \in Nat /\ Height[fin] \in Nat /\ i \in Nat
      <4>1. z \in Block
        BY <1>5, ChainFacts
      <4>2. Height[z] \in Nat /\ Height[fin] \in Nat
        BY <1>5, <4>1, BlockFacts
      <4>3. i \in 1..Len(s)
        BY <2>2
      <4>4. i \in Nat
        BY <4>3, SMTT(60)
      <4> QED BY <4>2, <4>4
    <3>2. Height[z] > Height[fin] /\ Height[z] - Height[fin] > i
      BY <2>2, <2>4, <2>8, <3>1, SMTT(60)
    <3>3. PICK j \in 1..Len(s) : s[j].blk = z /\ j = Height[z] - Height[fin]
      BY <1>1, <3>2
    <3>4. j \notin hits
      <4>1. j > i /\ j \in Nat
        BY <3>2, <3>3, SMTT(60)
      <4> QED BY <2>2, <3>1, <4>1, SMTT(60)
    <3> QED BY <1>2, <3>3, <3>4
  <2>9. WorldOf[tip].acct[a] = WorldOf[b].acct[a]
    BY <1>5, <2>4, <2>8, AcctSettled
  <2>10. LayerAccount(s, a) = AcctAfter(NoAcct, Diff[b], a)
    BY <1>4, <1>7, <2>1, <2>4
  <2> QED BY <2>6, <2>7, <2>9, <2>10
<1> QED BY <1>6, <1>7

LEMMA LayerSlotIs ==
  ASSUME NEW s, NEW fin, NEW tip, Layered(s, fin, tip), NEW a \in Addr, NEW k \in Slot
  PROVE  \/ LayerSlot(s, a, k) # None /\ LayerSlot(s, a, k) = WorldOf[tip].slot[a][k]
         \/ /\ LayerSlot(s, a, k) = None
            /\ \A z \in Chain[tip] : Height[z] > Height[fin] => ~TouchesSlot(z, a, k)
<1> DEFINE hits == {i \in DOMAIN s : s[i].diff.slot[a][k] # None \/ a \in s[i].diff.dest}
<1>1. /\ DOMAIN s = 1..Len(s) /\ Len(s) \in Nat
      /\ \A i \in 1..Len(s) : /\ s[i].blk \in Chain[tip] /\ s[i].blk \in Block \ {Root}
                              /\ s[i].diff = Diff[s[i].blk]
                              /\ Height[s[i].blk] = Height[fin] + i
      /\ \A z \in Chain[tip] : Height[z] > Height[fin] =>
           \E i \in 1..Len(s) : s[i].blk = z /\ i = Height[z] - Height[fin]
  BY LayersAre, SMTT(60)
<1>2. \A i \in 1..Len(s) : i \in hits <=> TouchesSlot(s[i].blk, a, k)
  BY <1>1 DEF TouchesSlot
<1>3. hits \in SUBSET (1..Len(s))
  BY <1>1
<1>4. LayerSlot(s, a, k) = IF hits = {} THEN None ELSE SlotAfter(Zero, s[Max(hits)].diff, a, k)
  BY DEF LayerSlot
<1>5. tip \in Block /\ fin \in Block
  BY DEF Layered
<1> HIDE DEF hits
<1>6. CASE hits = {}
  <2>1. LayerSlot(s, a, k) = None
    BY <1>4, <1>6
  <2>2. ASSUME NEW z \in Chain[tip], Height[z] > Height[fin] PROVE ~TouchesSlot(z, a, k)
    <3>1. PICK i \in 1..Len(s) : s[i].blk = z
      BY <1>1, <2>2
    <3> QED BY <1>2, <1>6, <3>1
  <2> QED BY <2>1, <2>2
<1>7. CASE hits # {}
  <2>1. PICK i : i = Max(hits)
    OBVIOUS
  <2>2. i \in hits /\ i \in 1..Len(s) /\ \A j \in hits : j <= i
    BY <1>1, <1>3, <1>7, <2>1, MaxIs
  <2>3. PICK b : b = s[i].blk
    OBVIOUS
  <2>4. /\ b \in Chain[tip] /\ b \in Block \ {Root} /\ s[i].diff = Diff[b]
        /\ Height[b] = Height[fin] + i /\ TouchesSlot(b, a, k)
    BY <1>1, <1>2, <2>2, <2>3
  <2>5. /\ WorldOf[b] = After(WorldOf[Parent[b]], Diff[b]) /\ Diff[b] \in Batch
        /\ WorldOf[b] \in World
    BY <2>4, ChainAssumption
  <2>6. WorldOf[b].slot[a][k] = SlotAfter(Zero, Diff[b], a, k)
    <3>1. WorldOf[b].slot[a][k] = SlotAfter(WorldOf[Parent[b]].slot[a][k], Diff[b], a, k)
      <4>1. PICK v, w, d : v = WorldOf[b] /\ w = WorldOf[Parent[b]] /\ d = Diff[b]
        OBVIOUS
      <4>2. v = After(w, d)
        BY <2>5, <4>1
      <4>3. v.slot[a][k] = SlotAfter(w.slot[a][k], d, a, k)
        BY <4>2 DEF After
      <4> QED BY <4>1, <4>3
    <3> QED BY <2>4, <3>1 DEF TouchesSlot, SlotAfter
  <2>7. WorldOf[b].slot[a][k] # None
    BY <2>5, WorldHas
  <2>8. ASSUME NEW z \in Chain[tip], Height[z] > Height[b] PROVE ~TouchesSlot(z, a, k)
    <3>1. Height[z] \in Nat /\ Height[fin] \in Nat /\ i \in Nat
      <4>1. z \in Block
        BY <1>5, ChainFacts
      <4>2. Height[z] \in Nat /\ Height[fin] \in Nat
        BY <1>5, <4>1, BlockFacts
      <4>3. i \in 1..Len(s)
        BY <2>2
      <4>4. i \in Nat
        BY <4>3, SMTT(60)
      <4> QED BY <4>2, <4>4
    <3>2. Height[z] > Height[fin] /\ Height[z] - Height[fin] > i
      BY <2>2, <2>4, <2>8, <3>1, SMTT(60)
    <3>3. PICK j \in 1..Len(s) : s[j].blk = z /\ j = Height[z] - Height[fin]
      BY <1>1, <3>2
    <3>4. j \notin hits
      <4>1. j > i /\ j \in Nat
        BY <3>2, <3>3, SMTT(60)
      <4> QED BY <2>2, <3>1, <4>1, SMTT(60)
    <3> QED BY <1>2, <3>3, <3>4
  <2>9. WorldOf[tip].slot[a][k] = WorldOf[b].slot[a][k]
    BY <1>5, <2>4, <2>8, SlotSettled
  <2>10. LayerSlot(s, a, k) = SlotAfter(Zero, Diff[b], a, k)
    BY <1>4, <1>7, <2>1, <2>4
  <2> QED BY <2>6, <2>7, <2>9, <2>10
<1> QED BY <1>6, <1>7
=============================================================================
