---------------------------- MODULE ReaderProofs ----------------------------
(***************************************************************************)
(* Proofs about Reader, on top of NodeProofs: for any tree of blocks, any  *)
(* number of executors and crashes and any interleaving of the follower's  *)
(* commits with the bot's polls, misses, drains and folds.                 *)
(***************************************************************************)
EXTENDS ReaderLemmas

\* A minute for each leaf: the default of five seconds is short for a large module.
USE ZenonT(60)

(***************************************************************************)
(* The follower's steps, as the bot sees them.                             *)
(***************************************************************************)
(* What is polled is the log past the cursor. *)
LEMMA LogPast ==
  ASSUME NEW S, NEW l \in Seq(S), NEW m \in Nat, NEW k, k = Len(l), m < k,
         NEW e, e = SubSeq(l, m + 1, k)
  PROVE  e \in Seq(S) /\ Len(e) = k - m /\ \A i \in 1..Len(e) : e[i] = l[m + i]
BY SMTT(60)

(* A step of the follower publishes at most one event, and tells all of it. *)
LEMMA BusStep ==
  ASSUME NodeInv, [Next]_vars
  PROVE  /\ NodeInv'
         /\ \/ Boot
            \/ /\ bus' = bus
               /\ pc' \notin {"down", "halt"} => pc \notin {"down", "halt"} /\ tr'.fin = tr.fin
            \/ /\ Publishes(At(bus.layers, tr.fin), At(bus'.layers, tr'.fin))
               /\ pc \notin {"down", "halt"} /\ pc' \notin {"down", "halt", "publish"}
<1>1. NodeInv'
  BY NodeInductive
<1>2. ASSUME NEW b \in Block \ {Root}, Issue(b) \/ Accept(b) \/ Backfill(b)
      PROVE  /\ Published(tr.fin) /\ tr'.fin = tr.fin /\ pc \notin {"down", "halt"}
             /\ pc' \in {"live", "write"} \/ bus' = bus
  <2>1. CASE Issue(b)
    <3>1. pc = "live" /\ (pc' = "live" \/ bus' = bus)
      BY <2>1 DEF Issue, EmitHead, TrackerHead, Halt
    <3> QED BY <2>1, <3>1, IssueKeeps
  <2>2. CASE Accept(b)
    <3>1. pc \in {"live", "polled"} /\ (pc' = "write" \/ bus' = bus)
      BY <2>2 DEF Accept, TrackerAccepted, Halt
    <3> QED BY <2>2, <3>1, AcceptKeeps
  <2>3. CASE Backfill(b)
    <3>1. pc = "backfill" /\ (pc' = "write" \/ bus' = bus)
      BY <2>3 DEF Backfill, TrackerAccepted, Halt
    <3> QED BY <2>3, <3>1, BackfillKeeps
  <2> QED BY <1>2, <2>1, <2>2, <2>3
<1>3. ASSUME NEW p \in Block, PollDone(p)
      PROVE  /\ Published(tr.fin) /\ tr'.fin = tr.fin /\ pc \notin {"down", "halt"}
             /\ pc' \in {"live", "write"} \/ bus' = bus
  <2>1. pc \in {"live", "polled"} /\ (pc' = "live" \/ bus' = bus)
    BY <1>3 DEF PollDone, EmitHead, TrackerHead, Halt
  <2> QED BY <1>3, <2>1, PollDoneKeeps
<1>4. ASSUME StoreCommit \/ SetFinalized \/ GoLive
      PROVE  bus' = bus /\ tr' = tr /\ pc \notin {"down", "halt"}
  BY <1>4 DEF StoreCommit, SetFinalized, GoLive, Halt, sinkVars
<1>5. ASSUME PublishFinalize
      PROVE  /\ Publishes(At(bus.layers, tr.fin), At(bus'.layers, tr'.fin))
             /\ pc \notin {"down", "halt"} /\ pc' \in {"backfill", "polled"}
  <2>1. pc = "publish"
    BY <1>5 DEF PublishFinalize
  <2> QED BY <1>5, <2>1, PublishFinalizeKeeps
<1>6. ASSUME Crash PROVE bus' = bus /\ pc' = "down"
  BY <1>6 DEF Crash
<1>7. ASSUME NEW b \in Block \ {Root}, NetAccept(b) PROVE bus' = bus /\ pc' = "down"
  BY <1>7 DEF NetAccept, sinkVars
<1>8. ASSUME UNCHANGED vars PROVE bus' = bus /\ pc' = pc /\ tr' = tr
  BY <1>8 DEF vars, sinkVars
<1> QED BY <1>1, <1>2, <1>3, <1>4, <1>5, <1>6, <1>7, <1>8 DEF Next, Step, Published

LEMMA OpeningStep ==
  ASSUME crashes \in Nat, [Next]_vars
  PROVE  /\ crashes' \in Nat /\ Openings \in Nat /\ Openings' \in Nat
         /\ Openings' = IF Boot THEN Openings + 1 ELSE Openings
<1>1. ASSUME NEW b \in Block \ {Root}, Issue(b) \/ Accept(b) \/ Backfill(b)
      PROVE  crashes' = crashes /\ pc # "down" /\ pc' # "down"
  BY <1>1 DEF Issue, EmitHead, TrackerHead, Accept, Backfill, TrackerAccepted, Halt, crashVars
<1>2. ASSUME NEW p \in Block, PollDone(p)
      PROVE  crashes' = crashes /\ pc # "down" /\ pc' # "down"
  BY <1>2 DEF PollDone, EmitHead, TrackerHead, Halt, crashVars
<1>3. ASSUME StoreCommit \/ SetFinalized \/ PublishFinalize \/ GoLive
      PROVE  crashes' = crashes /\ pc # "down" /\ pc' # "down"
  BY <1>3 DEF StoreCommit, SetFinalized, PublishFinalize, GoLive, Halt, crashVars
<1>4. ASSUME Boot PROVE crashes' = crashes /\ pc = "down" /\ pc' # "down"
  BY <1>4 DEF Boot, crashVars
<1>5. ASSUME Crash PROVE crashes' = crashes + 1 /\ pc # "down" /\ pc' = "down"
  BY <1>5 DEF Crash
<1>6. ASSUME NEW b \in Block \ {Root}, NetAccept(b)
      PROVE  crashes' = crashes /\ pc' = pc /\ pc = "down"
  BY <1>6 DEF NetAccept, crashVars
<1>7. ASSUME UNCHANGED vars PROVE crashes' = crashes /\ pc' = pc
  BY <1>7 DEF vars, crashVars
<1>8. Boot => pc = "down" /\ pc' = "backfill"
  BY DEF Boot
<1>9. \/ crashes' = crashes /\ pc # "down" /\ pc' # "down"
      \/ Boot /\ crashes' = crashes /\ pc = "down" /\ pc' # "down"
      \/ crashes' = crashes + 1 /\ pc # "down" /\ pc' = "down"
      \/ crashes' = crashes /\ pc' = pc
  BY <1>1, <1>2, <1>3, <1>4, <1>5, <1>6, <1>7 DEF Next, Step
<1> QED BY <1>8, <1>9, SMTT(60) DEF Openings

(* LMDB only grows, unless the process died between two of its commits. *)
LEMMA DiskStep ==
  ASSUME NodeInv, [Next]_vars
  PROVE  /\ Chain[disk.mark] \subseteq Chain[disk'.mark]
         /\ ~torn' => ~torn /\ Chain[disk.top] \subseteq Chain[disk'.top]
<1>1. NodeInv' /\ disk.mark \in Block /\ disk'.mark \in Block /\ disk.top \in Block
  BY NodeInductive DEF NodeInv, NodeTypeOK
<1>2. Chain[disk.mark] \subseteq Chain[disk'.mark]
  <2>1. CASE disk'.mark = disk.mark
    BY <2>1
  <2>2. CASE disk'.mark # disk.mark
    <3>1. Parent[disk'.mark] = disk.mark /\ disk.top = disk'.mark
      BY <2>2, MarkStep
    <3>2. disk.top # Root
      BY <2>2, <3>1 DEF NodeInv, DiskInv
    <3> QED BY <1>1, <3>1, <3>2, BlockFacts
  <2> QED BY <2>1, <2>2
<1>3. ASSUME NEW b \in Block \ {Root}, Issue(b) \/ Accept(b) \/ Backfill(b) \/ NetAccept(b)
      PROVE  disk' = disk /\ torn' = torn
  BY <1>3 DEF Issue, Accept, Backfill, NetAccept, sinkVars, crashVars
<1>4. ASSUME NEW p \in Block, PollDone(p) PROVE disk' = disk /\ torn' = torn
  BY <1>4 DEF PollDone, crashVars
<1>5. ASSUME PublishFinalize \/ Boot \/ GoLive PROVE disk' = disk /\ torn' = torn
  BY <1>5 DEF PublishFinalize, Boot, GoLive, sinkVars, crashVars
<1>6. ASSUME Crash PROVE disk' = disk /\ (~torn' => ~torn)
  BY <1>6 DEF Crash
<1>7. disk \in [below : World, rows : Batch, top : Block, mark : Block]
  BY DEF NodeInv, NodeTypeOK
<1>8. ASSUME SetFinalized PROVE disk'.top = disk.top /\ torn' = torn
  BY <1>7, <1>8 DEF SetFinalized, crashVars
<1>9. ASSUME StoreCommit, ~torn' PROVE ~torn /\ Chain[disk.top] \subseteq Chain[disk'.top]
  <2>1. pc = "write" /\ torn' = torn
    BY <1>9 DEF StoreCommit, crashVars
  <2>2. disk' = disk \/ \E e \in pending : e.blk = cur /\ disk' = WriteBlock(disk, e)
    BY <1>9 DEF StoreCommit
  <2>3. cur \in Block \ {Root} /\ Parent[cur] = disk.mark
    BY <2>1, FinalizeFacts
  <2>4. disk.top = disk.mark
    BY <1>9, <2>1 DEF NodeInv, DiskInv
  <2>5. disk'.top \in {disk.top, cur}
    BY <1>7, <2>2 DEF WriteBlock
  <2>6. Chain[Parent[cur]] \subseteq Chain[cur]
    BY <2>3, BlockFacts
  <2> QED BY <1>9, <2>1, <2>3, <2>4, <2>5, <2>6
<1>10. ASSUME UNCHANGED vars PROVE disk' = disk /\ torn' = torn
  BY <1>10 DEF vars, sinkVars, crashVars
<1> QED BY <1>2, <1>3, <1>4, <1>5, <1>6, <1>8, <1>9, <1>10, SMTT(60) DEF Next, Step

LEMMA NodeStepKeeps ==
  ASSUME BotInv, [Next]_vars, UNCHANGED botVars
  PROVE  BotInv'
<1>1. PICK H : IsHistory(H) /\ (Attached => Following /\ BotAt(H[Position]))
  BY DEF BotInv
<1>2. /\ NodeInv /\ bus.log \in Seq(Events) /\ crashes \in Nat /\ seen \in Nat /\ seen <= Openings
      /\ rst' = rst /\ sbs' = sbs /\ fol' = fol /\ bat' = bat /\ seen' = seen
  BY DEF BotInv, botVars
<1>3. NodeInv' /\ crashes' \in Nat /\ Openings \in Nat /\ Openings' \in Nat
      /\ Openings' = IF Boot THEN Openings + 1 ELSE Openings
  BY <1>2, BusStep, OpeningStep
<1>4. seen' <= Openings'
  BY <1>2, <1>3, SMTT(60)
<1>5. /\ Chain[disk.mark] \subseteq Chain[disk'.mark]
      /\ ~torn' => ~torn /\ Chain[disk.top] \subseteq Chain[disk'.top]
  BY <1>2, DiskStep
<1>6. SUFFICES /\ bus'.log \in Seq(Events)
               /\ \E G : IsHistory(G)' /\ (Attached' => Following' /\ BotAt(G[Position])')
  BY <1>2, <1>3, <1>4 DEF BotInv
<1>7. Position' = Position
  BY <1>2 DEF Position
<1>8. CASE Boot
  <2>1. /\ bus' = NoBus /\ tr' = NewTracker(disk.mark) /\ disk' = disk /\ disk'.mark \in Block
    BY <1>2, <1>8 DEF Boot, NodeInv, NodeTypeOK
  <2>2. bus'.log = <<>> /\ bus'.layers = <<>> /\ tr'.fin = disk'.mark
    BY <2>1 DEF NoBus, NewTracker
  <2>3. \E G : IsHistory(G)'
    <3>1. Opened'
      BY <2>1, <2>2 DEF Opened
    <3>2. HasHistory'
      BY <3>1, HistoryOpens, PTL
    <3> QED BY <3>2 DEF HasHistory
  <2>4. ~Attached'
    BY <1>2, <1>3, <1>8, SMTT(60) DEF Attached
  <2>5. bus'.log \in Seq(Events)
    BY <2>2, SMTT(60)
  <2> QED BY <2>3, <2>4, <2>5
<1>9. ASSUME ~Boot, NEW G, IsHistory(G)', bus'.log \in Seq(Events),
             \A n \in 0..Len(bus.log) : G[n] = H[n],
             Len(bus'.log) >= Len(bus.log), \A n \in 1..Len(bus.log) : bus'.log[n] = bus.log[n]
      PROVE  Attached' => Following' /\ BotAt(G[Position])'
  <2> SUFFICES ASSUME Attached' PROVE Following' /\ BotAt(G[Position])'
    OBVIOUS
  <2>1. Attached
    BY <1>2, <1>3, <1>9 DEF Attached
  <2>2. Following /\ BotAt(H[Position])
    BY <1>1, <2>1
  <2>3. Position \in 0..Len(bus.log) /\ G[Position] = H[Position]
    BY <1>2, <1>9, <2>2, PositionFacts
  <2>4. \A i \in 1..Len(fol.events) : Position + i \in 1..Len(bus.log)
    BY <1>2, <2>2, PositionFacts, SMTT(60) DEF Following
  <2>5. fol.next <= Len(bus'.log)
    <3>1. fol.next \in Nat /\ Len(bus.log) \in Nat /\ Len(bus'.log) \in Nat /\ fol.next <= Len(bus.log)
      BY <1>2, <1>9, <2>2, SMTT(60) DEF Following
    <3> QED BY <1>9, <3>1, SMTT(60)
  <2>6. Following'
    BY <1>2, <1>7, <1>9, <2>2, <2>4, <2>5 DEF Following
  <2>7. BotAt(H[Position])'
    <3>1. PICK h : h = H[Position]
      OBVIOUS
    <3>2. ASSUME ~torn'
          PROVE  Pinned(rst.base, h.fin)' /\ \A w \in 1..Execs : Pinned(sbs[w], h.fin)'
      <4>1. Pinned(rst.base, h.fin) /\ \A w \in 1..Execs : Pinned(sbs[w], h.fin)
        BY <1>5, <2>2, <3>1, <3>2 DEF BotAt
      <4> QED BY <1>2, <1>5, <3>2, <4>1, SMTT(60) DEF Pinned, SinceAcct, SinceSlot
    <3>3. BotAt(h)'
      BY <1>2, <2>2, <3>1, <3>2 DEF BotAt
    <3> QED BY <1>7, <3>1, <3>3
  <2> QED BY <1>7, <2>3, <2>6, <2>7
<1>10. CASE /\ ~Boot /\ bus' = bus
            /\ pc' \notin {"down", "halt"} => pc \notin {"down", "halt"} /\ tr'.fin = tr.fin
  <2>1. IsHistory(H)'
    BY <1>1, <1>5, <1>10, HistoryStays
  <2>2. Len(bus'.log) >= Len(bus.log)
    BY <1>2, <1>10, SMTT(60)
  <2> QED BY <1>2, <1>9, <1>10, <2>1, <2>2
<1>11. CASE /\ ~Boot /\ Publishes(At(bus.layers, tr.fin), At(bus'.layers, tr'.fin))
            /\ pc \notin {"down", "halt"} /\ pc' \notin {"down", "halt", "publish"}
  <2>1. PICK ev \in Events : bus'.log = Append(bus.log, ev)
    BY <1>11 DEF Publishes
  <2>2. /\ bus'.log \in Seq(Events) /\ Len(bus'.log) >= Len(bus.log)
        /\ \A n \in 1..Len(bus.log) : bus'.log[n] = bus.log[n]
    BY <1>2, <2>1, SMTT(60)
  <2>3. PICK G : IsHistory(G)' /\ \A n \in 0..Len(bus.log) : G[n] = H[n]
    BY <1>1, <1>2, <1>3, <1>5, <1>11, <2>2, HistoryGrows
  <2> QED BY <1>9, <1>11, <2>2, <2>3
<1> QED BY <1>2, <1>8, <1>10, <1>11, BusStep
-----------------------------------------------------------------------------
(***************************************************************************)
(* The bot's steps.                                                        *)
(***************************************************************************)
(* The steps of the bot leave the follower alone: the history stays. *)
LEMMA BotKeeps ==
  ASSUME BotInv, UNCHANGED vars, seen' \in Nat, seen' <= Openings, fol'.on \in BOOLEAN,
         fol' = [on |-> fol'.on, cur |-> fol'.cur, next |-> fol'.next,
                 events |-> fol'.events, lock |-> fol'.lock],
         fol'.on, NEW H, IsHistory(H), Attached' => Following' /\ BotAt(H[Position])'
  PROVE  BotInv'
<1>1. NodeInv' /\ IsHistory(H)' /\ Openings' = Openings /\ bus' = bus /\ crashes' = crashes
  <2>1. /\ NodeInv'
    BY NodeStutters DEF BotInv
  <2>2. IsHistory(H)' /\ Openings' = Openings /\ bus' = bus /\ crashes' = crashes
    BY DEF vars, sinkVars, crashVars, IsHistory, Openings
  <2> QED BY <2>1, <2>2
<1> QED BY <1>1 DEF BotInv

LEMMA AttachKeeps ==
  ASSUME BotInv, Attach
  PROVE  BotInv'
<1>1. PICK H : IsHistory(H)
  BY DEF BotInv
<1>2. /\ NodeInv /\ rst = NewState /\ sbs = EmptyBuffers /\ crashes \in Nat
      /\ bus.log \in Seq(Events) /\ UNCHANGED vars /\ sbs' = sbs /\ seen' = Openings
      /\ rst' = PreferenceReset(NewState, bus.layers)
      /\ fol' = [on |-> TRUE, cur |-> Len(bus.log), next |-> Len(bus.log),
                 events |-> <<>>, lock |-> FALSE]
  BY DEF BotInv, Attach
<1>3. Openings \in Nat /\ seen' \in Nat /\ seen' <= Openings
  BY <1>2, SMTT(60) DEF Openings
<1>4. Len(bus.log) \in Nat /\ Len(<<>>) = 0 /\ 1..0 = {} /\ <<>> \in Seq(Events)
  BY <1>2, SMTT(60)
<1>5. Position' = Len(bus.log) /\ bus' = bus /\ torn' = torn /\ disk' = disk
  <2>1. Position' = Len(bus.log) - Len(<<>>)
    BY <1>2 DEF Position
  <2> QED BY <1>2, <1>4, <2>1, SMTT(60) DEF vars, sinkVars, crashVars
<1>6. Following'
  BY <1>2, <1>4, <1>5, SMTT(60) DEF Following
<1>7. PICK h : h = H[Len(bus.log)]
  OBVIOUS
<1>8. h.stack = bus.layers /\ h \in Stacks
  BY <1>1, <1>4, <1>7, SMTT(60) DEF IsHistory
<1>9. rst' = [base |-> EmptyMap, layers |-> h.stack,
              tip |-> IF h.stack = <<>> THEN None ELSE h.stack[Len(h.stack)].blk]
  BY <1>2, <1>8 DEF PreferenceReset, NewState
<1>10. EmptyMap \in Map
  BY DEF EmptyMap, Map
<1>11. sbs' \in [1..Execs -> Map] /\ \A w \in 1..Execs : sbs'[w] = EmptyMap
  BY <1>2, <1>10 DEF EmptyBuffers
<1>12. Pinned(rst.base, h.fin)' /\ \A w \in 1..Execs : Pinned(sbs[w], h.fin)'
  BY <1>9, <1>11, SMTT(60) DEF Pinned, EmptyMap
<1>13. BotAt(h)'
  BY <1>9, <1>11, <1>12 DEF BotAt, TipOf
<1>14. BotAt(H[Position])'
  BY <1>5, <1>7, <1>13
<1>15. fol'.on \in BOOLEAN /\ fol'.on
       /\ fol' = [on |-> fol'.on, cur |-> fol'.cur, next |-> fol'.next,
                  events |-> fol'.events, lock |-> fol'.lock]
  BY <1>2
<1> QED BY <1>1, <1>2, <1>3, <1>6, <1>14, <1>15, BotKeeps

(* What a step that leaves the state and the buffers alone keeps. *)
LEMMA BotStays ==
  ASSUME UNCHANGED vars, rst' = rst, sbs' = sbs, NEW h, BotAt(h)
  PROVE  BotAt(h)'
<1>1. disk' = disk /\ torn' = torn
  BY DEF vars, sinkVars, crashVars
<1>2. \A m : Pinned(m, h.fin) => Pinned(m, h.fin)'
  BY <1>1 DEF Pinned, SinceAcct, SinceSlot
<1>3. TipOf(h)' = TipOf(h)
  BY DEF TipOf
<1> QED BY <1>1, <1>2, <1>3 DEF BotAt

LEMMA PollKeeps ==
  ASSUME BotInv, Poll
  PROVE  BotInv'
<1>1. PICK H : IsHistory(H) /\ (Attached => Following /\ BotAt(H[Position]))
  BY DEF BotInv
<1>2. /\ NodeInv /\ bus.log \in Seq(Events) /\ UNCHANGED vars /\ rst' = rst /\ sbs' = sbs
      /\ bat' = bat /\ seen' = seen /\ seen \in Nat /\ seen <= Openings
      /\ fol.on /\ fol.on \in BOOLEAN /\ fol.events = <<>>
      /\ fol = [on |-> fol.on, cur |-> fol.cur, next |-> fol.next,
                events |-> fol.events, lock |-> fol.lock]
      /\ bus' = bus /\ Openings' = Openings
  BY DEF BotInv, Poll, vars, sinkVars, crashVars, Openings
<1>3. PICK k : k = Len(bus.log)
  OBVIOUS
<1>4. fol' = [fol EXCEPT !.events = SubSeq(bus.log, fol.cur + 1, k),
                         !.next = IF k > fol.cur THEN k ELSE fol.cur]
      /\ k # fol.cur /\ k \in Nat
  BY <1>2, <1>3, SMTT(60) DEF Poll
<1>5. PICK evs : evs = SubSeq(bus.log, fol.cur + 1, k)
  OBVIOUS
<1>6. PICK nx : nx = IF k > fol.cur THEN k ELSE fol.cur
  OBVIOUS
<1>7. /\ fol'.on = fol.on /\ fol'.cur = fol.cur /\ fol'.lock = fol.lock
      /\ fol'.events = evs /\ fol'.next = nx
      /\ fol' = [on |-> fol'.on, cur |-> fol'.cur, next |-> fol'.next,
                 events |-> fol'.events, lock |-> fol'.lock]
  BY <1>2, <1>4, <1>5, <1>6
<1>8. ASSUME Attached' PROVE Following' /\ BotAt(H[Position])'
  <2>1. Attached /\ Following /\ BotAt(H[Position])
    BY <1>1, <1>2, <1>7, <1>8 DEF Attached
  <2>2. /\ fol.cur = fol.next /\ ~fol.lock /\ Position = fol.next
        /\ fol.next \in Nat /\ fol.next <= k
    BY <1>2, <1>3, <2>1, PositionFacts DEF Following
  <2>3. fol.cur \in Nat /\ fol.cur < k /\ nx = k
    BY <1>4, <1>6, <2>2, SMTT(60)
  <2>4. /\ evs \in Seq(Events) /\ Len(evs) = k - fol.cur
        /\ \A i \in 1..Len(evs) : evs[i] = bus.log[fol.cur + i]
    <3>1. PICK l, m : l = bus.log /\ m = fol.cur
      OBVIOUS
    <3>2. l \in Seq(Events) /\ m \in Nat /\ k = Len(l) /\ m < k /\ evs = SubSeq(l, m + 1, k)
      BY <1>2, <1>3, <1>5, <2>3, <3>1
    <3>3. /\ evs \in Seq(Events) /\ Len(evs) = k - m
          /\ \A i \in 1..Len(evs) : evs[i] = l[m + i]
      BY <3>2, LogPast, SMTT(60)
    <3> QED BY <3>1, <3>3
  <2>5. Position' = Position
    <3>1. Position' = nx - Len(evs)
      BY <1>7 DEF Position
    <3> QED BY <2>2, <2>3, <2>4, <3>1, <1>4, SMTT(60)
  <2>6. evs # <<>>
    <3>1. Len(evs) # 0
      BY <1>4, <2>3, <2>4, SMTT(60)
    <3> QED BY <3>1, SMTT(60)
  <2>7. Following'
    <3>1. Position' \in Nat /\ Position' = fol.cur
      BY <2>2, <2>5
    <3>2. fol'.events \in Seq(Events) /\ fol'.events # <<>> /\ fol'.cur \in Nat
      BY <1>7, <2>3, <2>4, <2>6
    <3>3. fol'.next \in Nat /\ fol'.next <= Len(bus'.log)
      BY <1>2, <1>3, <1>4, <1>7, <2>3, SMTT(60)
    <3>4. \A i \in 1..Len(fol'.events) : fol'.events[i] = bus'.log[Position' + i]
      BY <1>2, <1>7, <2>4, <3>1
    <3> QED BY <3>1, <3>2, <3>3, <3>4 DEF Following
  <2>8. PICK h : h = H[Position]
    OBVIOUS
  <2>9. BotAt(h)'
    BY <1>2, <2>1, <2>8, BotStays
  <2> QED BY <2>5, <2>7, <2>8, <2>9
<1> QED BY <1>1, <1>2, <1>7, <1>8, BotKeeps

LEMMA WantLockKeeps ==
  ASSUME BotInv, WantLock
  PROVE  BotInv'
<1>1. PICK H : IsHistory(H) /\ (Attached => Following /\ BotAt(H[Position]))
  BY DEF BotInv
<1>2. /\ NodeInv /\ UNCHANGED vars /\ rst' = rst /\ sbs' = sbs
      /\ seen' = seen /\ seen \in Nat /\ seen <= Openings
      /\ fol.on /\ fol.on \in BOOLEAN /\ fol.events # <<>>
      /\ fol' = [on |-> fol.on, cur |-> fol.cur, next |-> fol.next,
                 events |-> fol.events, lock |-> TRUE]
      /\ bus' = bus /\ Openings' = Openings
  BY DEF BotInv, WantLock, vars, sinkVars, crashVars, Openings
<1>3. ASSUME Attached' PROVE Following' /\ BotAt(H[Position])'
  <2>1. Following /\ BotAt(H[Position])
    BY <1>1, <1>2, <1>3 DEF Attached
  <2>2. Position' = Position
    BY <1>2 DEF Position
  <2>3. Following'
    BY <1>2, <2>1, <2>2 DEF Following
  <2>4. PICK h : h = H[Position]
    OBVIOUS
  <2>5. BotAt(h)'
    BY <1>2, <2>1, <2>4, BotStays
  <2> QED BY <2>2, <2>3, <2>4, <2>5
<1>4. fol' = [on |-> fol'.on, cur |-> fol'.cur, next |-> fol'.next,
              events |-> fol'.events, lock |-> fol'.lock] /\ fol'.on /\ fol'.on \in BOOLEAN
  BY <1>2
<1> QED BY <1>1, <1>2, <1>3, <1>4, BotKeeps

LEMMA ApplyEventKeeps ==
  ASSUME BotInv, ApplyEvent
  PROVE  BotInv'
<1>1. PICK H : IsHistory(H) /\ (Attached => Following /\ BotAt(H[Position]))
  BY DEF BotInv
<1>2. /\ NodeInv /\ UNCHANGED vars /\ sbs' = EmptyBuffers /\ bus.log \in Seq(Events)
      /\ seen' = seen /\ seen \in Nat /\ seen <= Openings
      /\ fol.on /\ fol.on \in BOOLEAN /\ fol.lock
      /\ fol = [on |-> fol.on, cur |-> fol.cur, next |-> fol.next,
                events |-> fol.events, lock |-> fol.lock]
      /\ bus' = bus /\ disk' = disk /\ torn' = torn /\ Openings' = Openings
  BY DEF BotInv, ApplyEvent, vars, sinkVars, crashVars, Openings
<1> DEFINE ev == Head(fol.events)
           s == Drain(rst, sbs)
           resync == ev.kind = "final" /\ ~OldestIs(s.layers, ev.blk)
           nx == IF resync THEN Len(bus.log) ELSE fol.next
           c == IF Len(fol.events) = 1 THEN nx ELSE fol.cur
<1>3. ev = Head(fol.events) /\ s = Drain(rst, sbs)
  OBVIOUS
<1>4. resync <=> (ev.kind = "final" /\ ~OldestIs(s.layers, ev.blk))
  OBVIOUS
<1>5. nx = IF resync THEN Len(bus.log) ELSE fol.next
  OBVIOUS
<1>6. c = IF Len(fol.events) = 1 THEN nx ELSE fol.cur
  OBVIOUS
<1>7. /\ fol' = [fol EXCEPT !.events = Tail(fol.events), !.next = nx, !.lock = FALSE, !.cur = c]
      /\ rst' = IF resync THEN PreferenceReset(s, bus.layers)
                ELSE CASE ev.kind = "block" -> ApplyBlock(s, Head(ev.es))
                       [] ev.kind = "final" -> Finalize(s, ev.blk)
                       [] ev.kind = "reset" -> PreferenceReset(s, ev.es)
  BY DEF ApplyEvent
<1> HIDE DEF ev, s, resync, nx, c
<1>8. PICK tl : tl = Tail(fol.events)
  OBVIOUS
<1>9. fol' = [on |-> fol.on, cur |-> c, next |-> nx, events |-> tl, lock |-> FALSE]
  <2>1. PICK a1, a2, a3, a4, a5 : /\ a1 = fol.on /\ a2 = fol.cur /\ a3 = fol.next
                                  /\ a4 = fol.events /\ a5 = fol.lock
    OBVIOUS
  <2>2. fol = [on |-> a1, cur |-> a2, next |-> a3, events |-> a4, lock |-> a5]
    BY <1>2, <2>1
  <2> QED BY <1>7, <1>8, <2>1, <2>2
<1>10. ASSUME Attached' PROVE Following' /\ BotAt(H[Position])'
  <2>1. Following /\ BotAt(H[Position])
    BY <1>1, <1>2, <1>9, <1>10 DEF Attached
  <2>2. fol.events # <<>> /\ fol.events \in Seq(Events)
    BY <1>2, <2>1 DEF Following
  <2>3. /\ ev.kind \in {"block", "reset", "final"} /\ ~resync
        /\ Position + 1 \in 0..Len(bus.log)
    <3>1. /\ ev.kind \in {"block", "reset", "final"} /\ Position + 1 \in 0..Len(bus.log)
          /\ ev.kind = "final" => OldestIs(s.layers, ev.blk)
      BY <1>1, <1>3, <2>1, <2>2, EventKeeps
    <3> QED BY <1>4, <3>1
  <2>4. PICK h : h = H[Position + 1]
    OBVIOUS
  <2>5. nx = fol.next
    BY <1>5, <2>3
  <2>6. /\ tl \in Seq(Events) /\ Len(tl) = Len(fol.events) - 1 /\ Len(tl) \in Nat
        /\ \A i \in 1..Len(tl) : tl[i] = fol.events[i + 1]
    BY <1>8, <2>2, SMTT(60)
  <2>7. Position' = Position + 1 /\ Position' \in Nat
    <3>1. Position' = fol.next - Len(tl)
      BY <1>9, <2>5 DEF Position
    <3>2. Position + Len(fol.events) = fol.next /\ Position \in Nat /\ Len(fol.events) \in Nat
      BY <1>2, <2>1, PositionFacts DEF Following
    <3> QED BY <2>6, <3>1, <3>2, SMTT(60)
  <2>8. Following'
    <3>1. fol.cur \in Nat /\ fol.next \in Nat /\ fol.next <= Len(bus.log)
      BY <2>1 DEF Following
    <3>2. c \in Nat
      BY <1>6, <2>5, <3>1
    <3>3. tl = <<>> => c = fol.next
      <4>1. tl = <<>> => Len(tl) = 0
        BY SMTT(60)
      <4>2. tl = <<>> => Len(fol.events) = 1
        BY <2>2, <2>6, <4>1, SMTT(60)
      <4> QED BY <1>6, <2>5, <4>2
    <3>4. ASSUME NEW i \in 1..Len(tl) PROVE tl[i] = bus.log[Position' + i]
      <4>1. i + 1 \in 1..Len(fol.events)
        BY <2>2, <2>6, SMTT(60)
      <4>2. fol.events[i + 1] = bus.log[Position + (i + 1)]
        BY <2>1, <4>1 DEF Following
      <4>3. Position + (i + 1) = Position' + i
        BY <2>1, <2>7, SMTT(60) DEF Following
      <4> QED BY <2>6, <4>2, <4>3
    <3> QED BY <1>2, <1>9, <2>5, <2>6, <2>7, <3>1, <3>2, <3>3, <3>4 DEF Following
  <2>9. PICK r : r = rst'
    OBVIOUS
  <2>10. /\ ev.kind = "block" => r = ApplyBlock(s, Head(ev.es))
         /\ ev.kind = "final" => r = Finalize(s, ev.blk)
         /\ ev.kind = "reset" => r = PreferenceReset(s, ev.es)
    BY <1>7, <2>3, <2>9
  <2>11. /\ r = [base |-> r.base, layers |-> h.stack, tip |-> r.tip] /\ r.tip = TipOf(h)
         /\ ~torn => Pinned(r.base, h.fin)
    BY <1>1, <1>3, <2>1, <2>2, <2>4, <2>10, EventKeeps, SMTT(60)
  <2>12. EmptyMap \in Map
    BY DEF EmptyMap, Map
  <2>13. sbs' \in [1..Execs -> Map] /\ \A w \in 1..Execs : sbs'[w] = EmptyMap
    BY <1>2, <2>12 DEF EmptyBuffers
  <2>14. \A w \in 1..Execs : Pinned(sbs[w], h.fin)'
    BY <2>13, SMTT(60) DEF Pinned, EmptyMap
  <2>15. ~torn' => Pinned(rst.base, h.fin)'
    BY <1>2, <2>9, <2>11, SMTT(60) DEF Pinned, SinceAcct, SinceSlot
  <2>16. BotAt(h)'
    BY <2>9, <2>11, <2>13, <2>14, <2>15 DEF BotAt
  <2> QED BY <2>4, <2>7, <2>8, <2>16
<1>11. fol' = [on |-> fol'.on, cur |-> fol'.cur, next |-> fol'.next,
               events |-> fol'.events, lock |-> fol'.lock] /\ fol'.on /\ fol'.on \in BOOLEAN
  BY <1>2, <1>9
<1> QED BY <1>1, <1>2, <1>10, <1>11, BotKeeps

(* A step of a batch: at most one value goes into one side buffer. *)
LEMMA PinKeeps ==
  ASSUME BotInv, UNCHANGED <<vars, rst, fol, seen>>, bat.pc = "run",
         NEW w \in 1..Execs, NEW a \in Addr,
         \/ sbs' = sbs
         \/ sbs' = [sbs EXCEPT ![w].acct[a] = Latest(disk).acct[a]]
         \/ \E s \in Slot : sbs' = [sbs EXCEPT ![w].slot[a][s] = Latest(disk).slot[a][s]]
  PROVE  BotInv'
<1>1. PICK H : IsHistory(H) /\ (Attached => Following /\ BotAt(H[Position]))
  BY DEF BotInv
<1>2. /\ NodeInv /\ UNCHANGED vars /\ rst' = rst /\ bus.log \in Seq(Events)
      /\ seen' = seen /\ seen \in Nat /\ seen <= Openings
      /\ fol.on /\ fol.on \in BOOLEAN /\ fol' = fol
      /\ fol = [on |-> fol.on, cur |-> fol.cur, next |-> fol.next,
                events |-> fol.events, lock |-> fol.lock]
      /\ bus' = bus /\ disk' = disk /\ torn' = torn /\ Openings' = Openings
  BY DEF BotInv, vars, sinkVars, crashVars, Openings
<1>3. ASSUME Attached' PROVE Following' /\ BotAt(H[Position])'
  <2>1. Following /\ BotAt(H[Position])
    BY <1>1, <1>2, <1>3 DEF Attached
  <2>2. Position' = Position /\ Following' /\ Position \in 0..Len(bus.log)
    BY <1>2, <2>1, PositionFacts DEF Position, Following
  <2>3. PICK h : h = H[Position]
    OBVIOUS
  <2>4. sbs \in [1..Execs -> Map] /\ Latest(disk) \in World
    BY <1>2, <2>1, LatestType DEF BotAt, NodeInv
  <2>5. ASSUME sbs' = [sbs EXCEPT ![w].acct[a] = Latest(disk).acct[a]] PROVE BotAt(h)'
    <3>1. PICK v : v = Latest(disk).acct[a]
      OBVIOUS
    <3>2. PICK m : m = [sbs[w] EXCEPT !.acct[a] = v]
      OBVIOUS
    <3>3. sbs' = [sbs EXCEPT ![w] = m]
      BY <2>5, <3>1, <3>2
    <3>4. v \in Acct \cup {NoAcct, None} /\ sbs[w] \in Map
      BY <2>4, <3>1 DEF World
    <3>5. m \in Map /\ m.slot = sbs[w].slot /\ m.acct = [sbs[w].acct EXCEPT ![a] = v]
      BY <3>2, <3>4 DEF Map
    <3>6. sbs' \in [1..Execs -> Map]
      BY <2>4, <3>3, <3>5
    <3>7. ASSUME ~torn PROVE Pinned(m, h.fin)
      <4>1. Pinned(sbs[w], h.fin) /\ SinceAcct(h.fin, a, v)
        BY <1>1, <1>2, <2>1, <2>2, <2>3, <3>1, <3>7, MissIsCurrent DEF BotAt
      <4>2. ASSUME NEW b \in Addr, m.acct[b] # None PROVE SinceAcct(h.fin, b, m.acct[b])
        <5>1. m.acct[b] = IF b = a THEN v ELSE sbs[w].acct[b]
          BY <3>4, <3>5 DEF Map
        <5> QED BY <4>1, <4>2, <5>1 DEF Pinned
      <4> QED BY <3>5, <4>1, <4>2 DEF Pinned
    <3>8. \A x \in 1..Execs : sbs'[x] = IF x = w THEN m ELSE sbs[x]
      BY <2>4, <3>3
    <3>9. ASSUME ~torn', NEW x \in 1..Execs PROVE Pinned(sbs'[x], h.fin)
      BY <1>2, <2>1, <2>3, <3>7, <3>8, <3>9 DEF BotAt
    <3>10. ASSUME ~torn', NEW x \in 1..Execs PROVE Pinned(sbs[x], h.fin)'
      <4>1. Pinned(sbs'[x], h.fin)
        BY <3>9, <3>10
      <4>2. disk' = disk
        BY <1>2
      <4> QED BY <4>1, <4>2 DEF Pinned, SinceAcct, SinceSlot
    <3>11. ASSUME ~torn' PROVE Pinned(rst.base, h.fin)'
      <4>1. Pinned(rst.base, h.fin)
        BY <1>2, <2>1, <2>3, <3>11 DEF BotAt
      <4>2. disk' = disk /\ rst' = rst
        BY <1>2
      <4> QED BY <4>1, <4>2, SMTT(60) DEF Pinned, SinceAcct, SinceSlot
    <3> QED BY <1>2, <2>1, <2>3, <3>6, <3>10, <3>11 DEF BotAt
  <2>6. ASSUME NEW s \in Slot, sbs' = [sbs EXCEPT ![w].slot[a][s] = Latest(disk).slot[a][s]]
        PROVE  BotAt(h)'
    <3>1. PICK v : v = Latest(disk).slot[a][s]
      OBVIOUS
    <3>2. PICK m : m = [sbs[w] EXCEPT !.slot[a][s] = v]
      OBVIOUS
    <3>3. sbs' = [sbs EXCEPT ![w] = m]
      BY <2>6, <3>1, <3>2
    <3>4. v \in Val \cup {None} /\ sbs[w] \in Map
      BY <2>4, <3>1 DEF World
    <3>5. m \in Map /\ m.acct = sbs[w].acct /\ m.slot = [sbs[w].slot EXCEPT ![a][s] = v]
      BY <3>2, <3>4 DEF Map
    <3>6. sbs' \in [1..Execs -> Map]
      BY <2>4, <3>3, <3>5
    <3>7. ASSUME ~torn PROVE Pinned(m, h.fin)
      <4>1. Pinned(sbs[w], h.fin) /\ SinceSlot(h.fin, a, s, v)
        BY <1>1, <1>2, <2>1, <2>2, <2>3, <3>1, <3>7, MissIsCurrent DEF BotAt
      <4>2. ASSUME NEW b \in Addr, NEW q \in Slot, m.slot[b][q] # None
            PROVE  SinceSlot(h.fin, b, q, m.slot[b][q])
        <5>1. m.slot[b][q] = IF b = a /\ q = s THEN v ELSE sbs[w].slot[b][q]
          BY <3>4, <3>5, SMTT(60) DEF Map
        <5> QED BY <4>1, <4>2, <5>1 DEF Pinned
      <4> QED BY <3>5, <4>1, <4>2 DEF Pinned
    <3>8. \A x \in 1..Execs : sbs'[x] = IF x = w THEN m ELSE sbs[x]
      BY <2>4, <3>3
    <3>9. ASSUME ~torn', NEW x \in 1..Execs PROVE Pinned(sbs'[x], h.fin)
      BY <1>2, <2>1, <2>3, <3>7, <3>8, <3>9 DEF BotAt
    <3>10. ASSUME ~torn', NEW x \in 1..Execs PROVE Pinned(sbs[x], h.fin)'
      <4>1. Pinned(sbs'[x], h.fin)
        BY <3>9, <3>10
      <4>2. disk' = disk
        BY <1>2
      <4> QED BY <4>1, <4>2 DEF Pinned, SinceAcct, SinceSlot
    <3>11. ASSUME ~torn' PROVE Pinned(rst.base, h.fin)'
      <4>1. Pinned(rst.base, h.fin)
        BY <1>2, <2>1, <2>3, <3>11 DEF BotAt
      <4>2. disk' = disk /\ rst' = rst
        BY <1>2
      <4> QED BY <4>1, <4>2, SMTT(60) DEF Pinned, SinceAcct, SinceSlot
    <3> QED BY <1>2, <2>1, <2>3, <3>6, <3>10, <3>11 DEF BotAt
  <2>7. ASSUME sbs' = sbs PROVE BotAt(h)'
    BY <1>2, <2>1, <2>3, <2>7, BotStays
  <2> QED BY <2>2, <2>3, <2>5, <2>6, <2>7
<1> QED BY <1>1, <1>2, <1>3, BotKeeps

(* The other steps of a batch touch neither the state nor the buffers. *)
LEMMA BatchKeeps ==
  ASSUME BotInv, UNCHANGED <<vars, rst, sbs, fol, seen>>, fol.on
  PROVE  BotInv'
<1>1. PICK H : IsHistory(H) /\ (Attached => Following /\ BotAt(H[Position]))
  BY DEF BotInv
<1>2. /\ UNCHANGED vars /\ rst' = rst /\ sbs' = sbs /\ bus' = bus /\ Openings' = Openings
      /\ seen' = seen /\ seen \in Nat /\ seen <= Openings
      /\ fol.on \in BOOLEAN /\ fol' = fol
      /\ fol = [on |-> fol.on, cur |-> fol.cur, next |-> fol.next,
                events |-> fol.events, lock |-> fol.lock]
  BY DEF BotInv, vars, sinkVars, crashVars, Openings
<1>3. ASSUME Attached' PROVE Following' /\ BotAt(H[Position])'
  <2>1. Following /\ BotAt(H[Position])
    BY <1>1, <1>2, <1>3 DEF Attached
  <2>2. Position' = Position /\ Following'
    BY <1>2, <2>1 DEF Position, Following
  <2>3. PICK h : h = H[Position]
    OBVIOUS
  <2>4. BotAt(h)'
    BY <1>2, <2>1, <2>3, BotStays
  <2> QED BY <2>2, <2>3, <2>4
<1> QED BY <1>1, <1>2, <1>3, BotKeeps

LEMMA BotStepKeeps ==
  ASSUME BotInv, BotNext
  PROVE  BotInv'
<1>0. /\ ~fol.on => rst = NewState /\ bat.pc = "idle"
  BY DEF BotInv
<1>1. CASE Attach
  BY <1>1, AttachKeeps
<1>2. CASE Poll
  BY <1>2, PollKeeps
<1>3. CASE WantLock
  BY <1>3, WantLockKeeps
<1>4. CASE ApplyEvent
  BY <1>4, ApplyEventKeeps
<1>5. CASE BeginBatch
  <2>1. rst.tip # None /\ UNCHANGED <<vars, rst, sbs, fol, seen>>
    BY <1>5 DEF BeginBatch
  <2>2. fol.on
    BY <1>0, <2>1, SMTT(60) DEF NewState
  <2> QED BY <2>1, <2>2, BatchKeeps
<1>6. CASE EndBatch
  <2>1. bat.pc = "run" /\ UNCHANGED <<vars, rst, sbs, fol, seen>>
    BY <1>6 DEF EndBatch
  <2> QED BY <1>0, <2>1, BatchKeeps
<1>7. CASE CheckStamp
  <2>1. bat.pc = "check" /\ UNCHANGED <<vars, rst, sbs, fol, seen>>
    BY <1>7 DEF CheckStamp
  <2> QED BY <1>0, <2>1, BatchKeeps
<1>8. ASSUME NEW w \in 1..Execs, NEW a \in Addr, PinOwner(w, a) PROVE BotInv'
  <2>1. /\ bat.pc = "run" /\ UNCHANGED <<vars, rst, fol, seen>>
        /\ sbs' = [sbs EXCEPT ![w].acct[a] = Latest(disk).acct[a]]
    BY <1>8 DEF PinOwner
  <2> QED BY <2>1, PinKeeps
<1>9. ASSUME NEW w \in 1..Execs, NEW a \in Addr, ReadAccount(w, a) PROVE BotInv'
  <2>1. /\ bat.pc = "run" /\ UNCHANGED <<vars, rst, fol, seen>>
    BY <1>9 DEF ReadAccount
  <2>2. sbs' = sbs \/ sbs' = [sbs EXCEPT ![w].acct[a] = Latest(disk).acct[a]]
    BY <1>9 DEF ReadAccount, Else
  <2> QED BY <2>1, <2>2, PinKeeps
<1>10. ASSUME NEW w \in 1..Execs, NEW a \in Addr, NEW s \in Slot, ReadSlot(w, a, s) PROVE BotInv'
  <2>1. /\ bat.pc = "run" /\ UNCHANGED <<vars, rst, fol, seen>>
    BY <1>10 DEF ReadSlot
  <2>2. sbs' = sbs \/ sbs' = [sbs EXCEPT ![w].slot[a][s] = Latest(disk).slot[a][s]]
    BY <1>10 DEF ReadSlot, Else
  <2> QED BY <2>1, <2>2, PinKeeps, SMTT(60)
<1> QED BY <1>1, <1>2, <1>3, <1>4, <1>5, <1>6, <1>7, <1>8, <1>9, <1>10 DEF BotNext

LEMMA BotInit0 ==
  ASSUME Init, BotInit
  PROVE  BotInv
<1>1. NodeInv /\ bus = NoBus /\ pc = "down" /\ crashes = 0 /\ disk.mark \in Block
  BY NodeInit DEF Init, NodeInv, NodeTypeOK
<1>2. Opened
  BY <1>1 DEF Opened, NoBus
<1>3. \E H : IsHistory(H)
  BY <1>2, HistoryOpens DEF HasHistory
<1>4. bus.log \in Seq(Events)
  BY <1>1, SMTT(60) DEF NoBus
<1>5. /\ fol = [on |-> FALSE, cur |-> 0, next |-> 0, events |-> <<>>, lock |-> FALSE]
      /\ rst = NewState /\ sbs = EmptyBuffers /\ bat.pc = "idle" /\ seen = 0
  BY DEF BotInit, NoBatch
<1>6. /\ ~fol.on /\ fol.on \in BOOLEAN /\ fol.events = <<>> /\ ~fol.lock
      /\ fol = [on |-> fol.on, cur |-> fol.cur, next |-> fol.next,
                events |-> fol.events, lock |-> fol.lock]
  BY <1>5
<1>7. ~Attached
  BY <1>6 DEF Attached
<1>8. crashes \in Nat /\ seen \in Nat /\ seen <= Openings
  BY <1>1, <1>5, SMTT(60) DEF Openings
<1> QED BY <1>1, <1>3, <1>4, <1>5, <1>6, <1>7, <1>8 DEF BotInv

(* The invariant holds whatever the follower, the network and the bot do. *)
THEOREM BotInvariant == BotSpec => []BotInv
<1>1. Init /\ BotInit => BotInv
  BY BotInit0
<1>2. BotInv /\ [NodeStep \/ BotNext]_allVars => BotInv'
  <2> SUFFICES ASSUME BotInv, [NodeStep \/ BotNext]_allVars PROVE BotInv'
    OBVIOUS
  <2>1. CASE NodeStep
    BY <2>1, NodeStepKeeps DEF NodeStep
  <2>2. CASE BotNext
    BY <2>2, BotStepKeeps
  <2>3. CASE UNCHANGED allVars
    <3>1. UNCHANGED vars /\ UNCHANGED botVars
      BY <2>3 DEF allVars
    <3> QED BY <3>1, NodeStepKeeps
  <2> QED BY <2>1, <2>2, <2>3
<1> QED BY <1>1, <1>2, PTL DEF BotSpec
-----------------------------------------------------------------------------
(***************************************************************************)
(* The events of the bus (tipbus.go) rebuild the writer's stack, wherever  *)
(* the bot attached and however far it is behind, and the mismatch that    *)
(* makes the follow loop handshake again never occurs.                     *)
(***************************************************************************)
THEOREM StreamRebuilds == BotSpec => []StreamRebuildsStack
<1>1. BotInv => StreamRebuildsStack
  <2> SUFFICES ASSUME BotInv, Attached
               PROVE  /\ CaughtUp => rst.layers = bus.layers
                      /\ fol.events # <<>> /\ Head(fol.events).kind = "final" =>
                           OldestIs(rst.layers, Head(fol.events).blk)
    BY DEF StreamRebuildsStack
  <2>1. PICK H : IsHistory(H) /\ Following /\ BotAt(H[Position])
    BY DEF BotInv
  <2>2. bus.log \in Seq(Events) /\ rst.layers = H[Position].stack
    <3>1. rst = [base |-> rst.base, layers |-> H[Position].stack, tip |-> rst.tip]
      BY <2>1 DEF BotAt
    <3> QED BY <3>1, SMTT(60) DEF BotInv
  <2>3. ASSUME CaughtUp PROVE rst.layers = bus.layers
    <3>1. Position = Len(bus.log)
      BY <2>1, <2>2, <2>3, PositionFacts DEF CaughtUp, Following
    <3> QED BY <2>1, <2>2, <3>1 DEF IsHistory
  <2>4. ASSUME fol.events # <<>>, Head(fol.events).kind = "final"
        PROVE  OldestIs(rst.layers, Head(fol.events).blk)
    <3>1. PICK ev, s : ev = Head(fol.events) /\ s = Drain(rst, sbs)
      OBVIOUS
    <3>2. OldestIs(s.layers, ev.blk)
      BY <2>1, <2>4, <3>1, EventKeeps
    <3>3. s.layers = rst.layers
      <4>1. s = [base |-> Merge(rst.base, sbs), layers |-> H[Position].stack, tip |-> rst.tip]
        BY <2>1, <3>1, DrainKeeps
      <4> QED BY <2>2, <4>1
    <3> QED BY <3>1, <3>2, <3>3
  <2> QED BY <2>3, <2>4
<1> QED BY <1>1, BotInvariant, PTL

(***************************************************************************)
(* A miss of the bot's read path (mem.go, D7) never pins a value that is   *)
(* older than the block the bot holds for final, at any interleaving of    *)
(* the misses, drains and folds with the writer's commits.                 *)
(***************************************************************************)
THEOREM PinsAreFresh == BotSpec => []PinsNeverStale
<1>1. BotInv => PinsNeverStale
  <2> SUFFICES ASSUME BotInv, Attached, ~torn
               PROVE  \A m \in {rst.base} \cup {sbs[w] : w \in 1..Execs} : Pinned(m, BotFin)
    BY DEF PinsNeverStale, Pinned
  <2>1. PICK H : IsHistory(H) /\ Following /\ BotAt(H[Position])
    BY DEF BotInv
  <2>2. PICK h : h = H[Position]
    OBVIOUS
  <2>3. NodeInv /\ bus.log \in Seq(Events)
    BY DEF BotInv
  <2>4. Position \in 0..Len(bus.log)
    BY <2>1, <2>3, PositionFacts
  <2>5. /\ h.stack \in Seq(Captures) /\ h.fin \in Block /\ TipOf(h) \in Block
        /\ IsPath(h.stack, h.fin, TipOf(h)) /\ disk.top \in Block /\ h.fin \in Chain[disk.top]
    BY <2>1, <2>2, <2>3, <2>4, PointFacts
  <2>6. BotAt(h)
    BY <2>1, <2>2
  <2>7. rst.layers = h.stack
    <3>1. rst = [base |-> rst.base, layers |-> h.stack, tip |-> rst.tip]
      BY <2>6 DEF BotAt
    <3> QED BY <3>1, SMTT(60)
  <2>8. BotFin = h.fin \/ BotFin = Root
    <3>1. CASE h.stack # <<>>
      <4>1. Head(h.stack) = h.stack[1] /\ 1 \in 1..Len(h.stack)
        BY <2>5, <3>1, SMTT(60)
      <4>2. Parent[h.stack[1].blk] = h.fin
        BY <2>5, <4>1, PathFacts
      <4> QED BY <2>7, <3>1, <4>1, <4>2 DEF BotFin
    <3>2. CASE h.stack = <<>>
      <4>1. rst.tip = None \/ rst.tip = h.fin
        BY <2>6, <3>2 DEF BotAt, TipOf
      <4> QED BY <2>7, <3>2, <4>1 DEF BotFin
    <3> QED BY <3>1, <3>2
  <2>9. Height[BotFin] <= Height[h.fin] /\ Height[BotFin] \in Nat /\ Height[h.fin] \in Nat
    <3>1. Height[Root] <= Height[h.fin] /\ Height[h.fin] \in Nat
      BY <2>5, ChainFacts
    <3>2. Height[Root] \in Nat
      BY ChainAssumption
    <3> QED BY <2>8, <3>1, <3>2, SMTT(60)
  <2>10. ASSUME NEW m, Pinned(m, h.fin) PROVE Pinned(m, BotFin)
    <3>1. \A y \in Chain[disk.top] : Height[y] >= Height[h.fin] => Height[y] >= Height[BotFin]
      <4> SUFFICES ASSUME NEW y \in Chain[disk.top], Height[y] >= Height[h.fin]
                   PROVE  Height[y] >= Height[BotFin]
        OBVIOUS
      <4>1. Height[y] \in Nat
        BY <2>5, ChainFacts
      <4> QED BY <2>9, <4>1, SMTT(60)
    <3> QED BY <2>10, <3>1 DEF Pinned, SinceAcct, SinceSlot
  <2>11. Pinned(rst.base, h.fin) /\ \A w \in 1..Execs : Pinned(sbs[w], h.fin)
    BY <2>6 DEF BotAt
  <2> QED BY <2>10, <2>11
<1> QED BY <1>1, BotInvariant, PTL

(***************************************************************************)
(* The read path of D8 (Layers, Base, SideBuffer, LMDB in mem.go) serves   *)
(* every account and slot at its value at the end of the tip block, as     *)
(* long as LMDB is not ahead of the bot.                                   *)
(***************************************************************************)
THEOREM ViewIsExact == BotSpec => []ViewExact
<1>1. BotInv => ViewExact
  <2> SUFFICES ASSUME BotInv, Attached, ~torn, rst.tip # None, disk.top \in Chain[rst.tip],
                      NEW w \in 1..Execs, NEW a \in Addr
               PROVE  /\ Else(Account(rst, sbs[w], a), Latest(disk).acct[a]) = WorldOf[rst.tip].acct[a]
                      /\ \A s \in Slot :
                           Else(SlotValue(rst, sbs[w], a, s), Latest(disk).slot[a][s])
                             = WorldOf[rst.tip].slot[a][s]
    BY DEF ViewExact
  <2>1. PICK H : IsHistory(H) /\ Following /\ BotAt(H[Position])
    BY DEF BotInv
  <2>2. PICK h : h = H[Position]
    OBVIOUS
  <2>3. NodeInv /\ bus.log \in Seq(Events)
    BY DEF BotInv
  <2>4. Position \in 0..Len(bus.log)
    BY <2>1, <2>3, PositionFacts
  <2>5. /\ h.stack \in Seq(Captures) /\ h.fin \in Block /\ TipOf(h) \in Block
        /\ IsPath(h.stack, h.fin, TipOf(h)) /\ disk.top \in Block /\ h.fin \in Chain[disk.top]
    BY <2>1, <2>2, <2>3, <2>4, PointFacts
  <2>6. BotAt(h)
    BY <2>1, <2>2
  <2>7. PICK tip : tip = rst.tip
    OBVIOUS
  <2>8. rst.layers = h.stack /\ tip = TipOf(h)
    <3>1. rst = [base |-> rst.base, layers |-> h.stack, tip |-> rst.tip]
      BY <2>6 DEF BotAt
    <3> QED BY <2>6, <2>7, <3>1, SMTT(60) DEF BotAt
  <2>9. Layered(h.stack, h.fin, tip)
    <3>1. \A e \in Elements(h.stack) : e.diff = Diff[e.blk]
      BY <2>1, <2>2, <2>4 DEF IsHistory
    <3> QED BY <2>5, <2>8, <3>1 DEF Layered
  <2>10. Pinned(rst.base, h.fin) /\ Pinned(sbs[w], h.fin)
    BY <2>6 DEF BotAt
  <2>11. /\ SinceAcct(h.fin, a, Latest(disk).acct[a])
         /\ \A s \in Slot : SinceSlot(h.fin, a, s, Latest(disk).slot[a][s])
    BY <2>1, <2>2, <2>3, <2>4, MissIsCurrent
  <2>12. ASSUME NEW y \in Chain[disk.top], Height[y] >= Height[h.fin]
         PROVE  /\ y \in Chain[tip] /\ y \in Block
                /\ \A z \in Chain[tip] : Height[z] > Height[y] => Height[z] > Height[h.fin]
    <3>1. tip \in Block /\ y \in Chain[tip] /\ y \in Block
      BY <2>5, <2>7, <2>8, ChainFacts
    <3>2. ASSUME NEW z \in Chain[tip], Height[z] > Height[y] PROVE Height[z] > Height[h.fin]
      <4>1. Height[z] \in Nat /\ Height[y] \in Nat /\ Height[h.fin] \in Nat
        BY <2>5, <3>1, ChainFacts, BlockFacts
      <4> QED BY <2>12, <3>2, <4>1, SMTT(60)
    <3> QED BY <3>1, <3>2
  <2>13. tip \in Block
    BY <2>5, <2>8
  <2>14. ASSUME \A z \in Chain[tip] : Height[z] > Height[h.fin] => ~TouchesAcct(z, a),
                NEW v, SinceAcct(h.fin, a, v)
         PROVE  v = WorldOf[tip].acct[a]
    <3>1. PICK y \in Chain[disk.top] : Height[y] >= Height[h.fin] /\ v = WorldOf[y].acct[a]
      BY <2>14 DEF SinceAcct
    <3>2. y \in Chain[tip] /\ \A z \in Chain[tip] : Height[z] > Height[y] => ~TouchesAcct(z, a)
      BY <2>12, <2>14, <3>1
    <3> QED BY <2>13, <3>1, <3>2, AcctSettled
  <2>15. Else(Account(rst, sbs[w], a), Latest(disk).acct[a]) = WorldOf[tip].acct[a]
    <3>1. PICK l : l = LayerAccount(h.stack, a)
      OBVIOUS
    <3>2. Account(rst, sbs[w], a) = Else(l, Else(rst.base.acct[a], sbs[w].acct[a]))
      BY <2>8, <3>1 DEF Account
    <3>3. CASE l # None /\ l = WorldOf[tip].acct[a]
      BY <3>2, <3>3 DEF Else
    <3>4. CASE /\ l = None
               /\ \A z \in Chain[tip] : Height[z] > Height[h.fin] => ~TouchesAcct(z, a)
      <4>1. rst.base.acct[a] # None => rst.base.acct[a] = WorldOf[tip].acct[a]
        BY <2>10, <2>14, <3>4 DEF Pinned
      <4>2. sbs[w].acct[a] # None => sbs[w].acct[a] = WorldOf[tip].acct[a]
        BY <2>10, <2>14, <3>4 DEF Pinned
      <4>3. Latest(disk).acct[a] = WorldOf[tip].acct[a]
        BY <2>11, <2>14, <3>4
      <4> QED BY <3>2, <3>4, <4>1, <4>2, <4>3 DEF Else
    <3> QED BY <2>9, <3>1, <3>3, <3>4, LayerAccountIs
  <2>16. ASSUME NEW s \in Slot
         PROVE  Else(SlotValue(rst, sbs[w], a, s), Latest(disk).slot[a][s]) = WorldOf[tip].slot[a][s]
    <3>1. PICK l : l = LayerSlot(h.stack, a, s)
      OBVIOUS
    <3>2. PICK b : b = BaseSlot(rst.base, a, s)
      OBVIOUS
    <3>3. SlotValue(rst, sbs[w], a, s) = Else(l, Else(b, sbs[w].slot[a][s]))
      BY <2>8, <3>1, <3>2 DEF SlotValue
    <3>4. CASE l # None /\ l = WorldOf[tip].slot[a][s]
      BY <3>3, <3>4 DEF Else
    <3>5. CASE /\ l = None
               /\ \A z \in Chain[tip] : Height[z] > Height[h.fin] => ~TouchesSlot(z, a, s)
      <4>1. ASSUME NEW y \in Chain[disk.top], Height[y] >= Height[h.fin]
            PROVE  WorldOf[tip].slot[a][s] = WorldOf[y].slot[a][s]
        BY <2>12, <2>13, <3>5, <4>1, SlotSettled
      <4>2. ASSUME NEW v, SinceSlot(h.fin, a, s, v) PROVE v = WorldOf[tip].slot[a][s]
        BY <4>1, <4>2 DEF SinceSlot
      <4>3. b # None => b = WorldOf[tip].slot[a][s]
        <5>1. CASE rst.base.acct[a] = NoAcct
          <6>1. rst.base.acct[a] # None /\ b = Zero
            BY <3>2, <5>1, DataAssumption DEF BaseSlot
          <6>2. SinceAcct(h.fin, a, rst.base.acct[a])
            BY <2>10, <6>1 DEF Pinned
          <6>3. PICK y \in Chain[disk.top] : Height[y] >= Height[h.fin] /\ WorldOf[y].acct[a] = NoAcct
            BY <5>1, <6>2 DEF SinceAcct
          <6>4. WorldOf[y].slot[a][s] = Zero
            BY <2>12, <6>3, WorldAssumption DEF NoOrphans
          <6> QED BY <4>1, <6>1, <6>3, <6>4
        <5>2. CASE rst.base.acct[a] # NoAcct
          <6>1. b = rst.base.slot[a][s]
            BY <3>2, <5>2 DEF BaseSlot
          <6> QED BY <2>10, <4>2, <6>1 DEF Pinned
        <5> QED BY <5>1, <5>2
      <4>4. sbs[w].slot[a][s] # None => sbs[w].slot[a][s] = WorldOf[tip].slot[a][s]
        BY <2>10, <4>2 DEF Pinned
      <4>5. Latest(disk).slot[a][s] = WorldOf[tip].slot[a][s]
        BY <2>11, <4>2
      <4> QED BY <3>3, <3>5, <4>3, <4>4, <4>5 DEF Else
    <3> QED BY <2>9, <3>1, <3>4, <3>5, LayerSlotIs
  <2> QED BY <2>7, <2>15, <2>16
<1> QED BY <1>1, BotInvariant, PTL
=============================================================================
