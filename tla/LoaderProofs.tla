---------------------------- MODULE LoaderProofs ----------------------------
(***************************************************************************)
(* Proofs about Loader, for any accounts, segments and codes, any lengths  *)
(* of responses, any chunking, any number of runs and failed commits: the  *)
(* steps of the goroutines and of Run preserve LoadInv of LoaderLemmas,    *)
(* and what follows from it.                                               *)
(***************************************************************************)
EXTENDS LoaderLemmas

\* A minute for each leaf: the default is short for a large module.
USE ZenonT(60)

(***************************************************************************)
(* The segment goroutines' steps.                                          *)
(***************************************************************************)
LEMMA ReplaceAt ==
  ASSUME NEW A, NEW B, NEW f \in [A -> B], NEW s \in A, NEW h \in B, NEW f2, f2 = [f EXCEPT ![s] = h]
  PROVE  f2 \in [A -> B] /\ f2[s] = h /\ \A t \in A : t # s => f2[t] = f[t]
OBVIOUS

LEMMA ExceptKeysRows ==
  ASSUME NEW P, NEW N, NEW K, NEW R, NEW L, NEW I,
         NEW f \in [I -> [pc : P, start : N, keys : K, rows : R, last : L]], NEW s \in I,
         NEW k \in K, NEW r \in R, NEW f2, f2 = [f EXCEPT ![s].keys = k, ![s].rows = r]
  PROVE  /\ f2 \in [I -> [pc : P, start : N, keys : K, rows : R, last : L]]
         /\ f2[s].keys = k /\ f2[s].rows = r /\ f2[s].pc = f[s].pc /\ f2[s].start = f[s].start
         /\ f2[s].last = f[s].last /\ \A t \in I : t # s => f2[t] = f[t]
OBVIOUS

LEMMA ExceptRows ==
  ASSUME NEW P, NEW N, NEW K, NEW R, NEW L, NEW I,
         NEW f \in [I -> [pc : P, start : N, keys : K, rows : R, last : L]], NEW s \in I,
         NEW r \in R, NEW f2, f2 = [f EXCEPT ![s].rows = r]
  PROVE  /\ f2 \in [I -> [pc : P, start : N, keys : K, rows : R, last : L]]
         /\ f2[s].keys = f[s].keys /\ f2[s].rows = r /\ f2[s].pc = f[s].pc
         /\ f2[s].start = f[s].start /\ f2[s].last = f[s].last
         /\ \A t \in I : t # s => f2[t] = f[t]
OBVIOUS

AtPc(f, s, p) == [f EXCEPT ![s].pc = p]

PcSet == {"fetch", "handle", "final", "done"}

LEMMA SegPc ==
  ASSUME NEW sg \in [Segs -> SegSet], NEW s \in Segs, NEW p \in PcSet,
         NEW sg2, sg2 = AtPc(sg, s, p), NEW g, g = sg[s], NEW g2, g2 = sg2[s]
  PROVE  /\ sg2 \in [Segs -> SegSet] /\ Others(sg, sg2, s) /\ g2.keys = g.keys
         /\ g2.rows = g.rows /\ g2.pc = p /\ g2.start = g.start /\ g2.last = g.last
<1>1. PICK N, K, R, L : N = Nat /\ K = SUBSET Accounts /\ R = SUBSET RowSet /\ L = BOOLEAN
  OBVIOUS
<1>2. SegSet = [pc : PcSet, start : N, keys : K, rows : R, last : L]
  BY <1>1 DEF SegSet, PcSet
<1>3. sg \in [Segs -> [pc : PcSet, start : N, keys : K, rows : R, last : L]]
  BY <1>2
<1>4. /\ sg2 \in [Segs -> [pc : PcSet, start : N, keys : K, rows : R, last : L]]
      /\ sg2[s].keys = sg[s].keys /\ sg2[s].rows = sg[s].rows /\ sg2[s].pc = p
      /\ sg2[s].start = sg[s].start /\ sg2[s].last = sg[s].last
      /\ \A t \in Segs : t # s => sg2[t] = sg[t]
  BY <1>3 DEF AtPc
<1> QED BY <1>2, <1>4 DEF Others

LEMMA SegStepKeeps ==
  ASSUME LoadInv, main = "phase1", disk' = disk, bl' = bl, bitmap' = bitmap, writer' = writer,
         main' = main, tries' = tries, seg' \in [Segs -> SegSet], writes' \in Seq(BundleSet),
         NEW T, NEW TC, NEW TS, T = TakenA(disk, bl.ops), TC = TakenC(disk, bl.ops),
         TS = TakenS(disk, bl.ops),
         Arriving(T, TC, TS, writes, seg, claims) /\ Fenced(writes, main, seg)
           => Arriving(T, TC, TS, writes', seg', claims') /\ Fenced(writes', main, seg')
  PROVE  LoadInv'
<1>1. LoadTypes'
  BY DEF LoadInv, LoadTypes
<1>2. "phase1" \notin Stopped \cup Ending /\ "phase1" \notin Late
  BY DEF Stopped, Ending, Late
<1>3. Phased'
  BY <1>2 DEF Phased
<1>4. Sound(disk')
  BY DEF LoadInv
<1>5. ASSUME Alive' PROVE RunOK'
  <2>1. RunOK
    BY <1>5 DEF LoadInv, Alive
  <2>2. Drained(TS, writes', main', tries')
    BY DEF Drained
  <2> QED BY <2>1, <2>2 DEF RunOK, Running
<1> QED BY <1>1, <1>3, <1>4, <1>5 DEF LoadInv

LEMMA FencedStep ==
  ASSUME NEW w, NEW m, m # "wait", NEW sg, Fenced(w, m, sg), NEW sg2
  PROVE  Fenced(w, m, sg2)
BY DEF Fenced

LEMMA FencedSend ==
  ASSUME NEW w \in Seq(BundleSet), NEW m, m # "wait", NEW sg, Fenced(w, m, sg), NEW sg2,
         NEW b \in BundleSet, b.kind # "barrier", NEW w2, w2 = Append(w, b)
  PROVE  Fenced(w2, m, sg2)
<1>1. \A j \in DOMAIN w2 : w2[j] = b \/ (j \in DOMAIN w /\ w2[j] = w[j])
  BY AppendIs, SMTT(60)
<1> QED BY <1>1 DEF Fenced

(* A segment changes, but not the claims its rows stand for. *)
LEMMA ClaimedStep ==
  ASSUME NEW TC, NEW w, NEW sg, NEW c, Claimed(TC, w, sg, c), NEW s, NEW sg2, Others(sg, sg2, s),
         sg[s].rows \subseteq sg2[s].rows
  PROVE  Claimed(TC, w, sg2, c)
BY DEF Claimed, Others

LEMMA FetchStep ==
  ASSUME LoadInv, NEW s \in Segs, Fetch(s)
  PROVE  LoadInv'
<1>1. PICK n \in Sizes :
        LET resp == Response(s, n)
            keys == resp \cap SegAccounts(s)
            more == Max(Accounts) \notin resp /\ resp # {}
        IN  seg' = [seg EXCEPT ![s] =
              [pc |-> "handle", keys |-> keys, rows |-> {},
               start |-> IF keys = {} THEN @.start ELSE Max(keys) + 1,
               last |-> keys # resp \/ ~more]]
  BY DEF Fetch
<1>2. PICK g, R : g = seg[s] /\ R = RightOf(g, s)
  OBVIOUS
<1>3. PICK resp, keys : resp = FirstOf(R, n) /\ keys = resp \cap SegAccounts(s)
  OBVIOUS
<1>4. Response(s, n) = resp
  BY <1>2, <1>3 DEF Response, FirstOf, RightOf
<1>5. PICK g2 : g2 = [pc |-> "handle", keys |-> keys, rows |-> {},
                      start |-> IF keys = {} THEN g.start ELSE Max(keys) + 1,
                      last |-> keys # resp \/ ~(Max(Accounts) \notin resp /\ resp # {})]
  OBVIOUS
<1>6. seg' = [seg EXCEPT ![s] = g2]
  BY <1>1, <1>2, <1>3, <1>4, <1>5
<1>7. /\ main = "phase1" /\ g.pc = "fetch" /\ disk' = disk /\ bl' = bl /\ bitmap' = bitmap
      /\ writes' = writes /\ writer' = writer /\ main' = main /\ claims' = claims
      /\ tries' = tries
  BY <1>2 DEF Fetch
<1>8. seg \in [Segs -> SegSet] /\ g \in SegSet /\ writes \in Seq(BundleSet)
  BY <1>2 DEF LoadInv, LoadTypes
<1>9. /\ g2.pc = "handle" /\ g2.keys = keys /\ g2.rows = {}
      /\ g2.start = NextStart(g, keys) /\ (g2.last => AtEnd(keys, resp))
  BY <1>5 DEF NextStart, AtEnd
<1>10. g2 \in SegSet
  <2>1. keys \in SUBSET Accounts
    BY <1>3 DEF SegAccounts
  <2>2. g.start \in Nat /\ (keys # {} => Max(keys) \in Nat)
    <3>1. keys # {} => Max(keys) \in Nat
      BY <2>1, AccountMax
    <3> QED BY <1>8, <3>1 DEF SegSet
  <2>3. PICK z : z = IF keys = {} THEN g.start ELSE Max(keys) + 1
    OBVIOUS
  <2>4. z \in Nat
    BY <2>2, <2>3, SMTT(60)
  <2>5. PICK l : l = (keys # resp \/ ~(Max(Accounts) \notin resp /\ resp # {}))
    OBVIOUS
  <2>6. l \in BOOLEAN
    BY <2>5
  <2>7. g2 = [pc |-> "handle", keys |-> keys, rows |-> {}, start |-> z, last |-> l]
    BY <1>5, <2>3, <2>5
  <2> QED BY <2>1, <2>4, <2>6, <2>7 DEF SegSet
<1>11. seg' \in [Segs -> SegSet] /\ seg'[s] = g2 /\ Others(seg, seg', s)
  BY <1>6, <1>8, <1>10, ReplaceAt DEF Others
<1>12. n \in Nat /\ n # 0
  <2>1. Sizes \subseteq Nat \ {0}
    BY LoaderAssumption
  <2> QED BY <2>1
<1>13. PICK T, TC, TS : /\ T = TakenA(disk, bl.ops) /\ TC = TakenC(disk, bl.ops)
                        /\ TS = TakenS(disk, bl.ops)
  OBVIOUS
<1>14. ASSUME Arriving(T, TC, TS, writes, seg, claims), Fenced(writes, main, seg)
       PROVE  Arriving(T, TC, TS, writes', seg', claims') /\ Fenced(writes', main, seg')
  <2>1. PICK U : U = T \cup Enqueued(writes)
    OBVIOUS
  <2>2. SegOK(U, claims, g, s) /\ SegsOK(U, claims, seg)
    BY <1>2, <1>14, <2>1 DEF Arriving, SegsOK
  <2>3. SegOK(U, claims, g2, s)
    <3>1. bl.ops \in Seq(OpSet) /\ disk \in DiskSet
      BY DEF LoadInv, LoadTypes, BlSet
    <3>2. U \in SUBSET Accounts
      BY <1>8, <1>13, <2>1, <3>1, TakenIn, EnqueuedIn
    <3> QED BY <3>2, <1>2, <1>3, <1>7, <1>8, <1>9, <1>12, <2>2, FetchOK
  <2>4. SegsOK(U, claims, seg')
    <3>1. \A x \in U : x \in U \/ SegOf[x] = s
      OBVIOUS
    <3>2. U \subseteq U /\ claims \subseteq claims \cup {NoCode}
      OBVIOUS
    <3> QED BY <1>11, <2>2, <2>3, <3>1, <3>2, SegsReplace
  <2>5. seg[s].rows \subseteq seg'[s].rows
    <3>1. Held(g) = {}
      BY <1>7, <2>2 DEF SegOK
    <3>2. g.rows = {}
      BY <3>1 DEF Held, Rows
    <3> QED BY <1>2, <3>2
  <2>6. \A c \in claims : Claimed(TC, writes, seg', c)
    BY <1>11, <1>14, <2>5, ClaimedStep DEF Arriving
  <2>7. Arriving(T, TC, TS, writes, seg', claims)
    <3>1. claims \subseteq claims \cup {NoCode}
      OBVIOUS
    <3> QED BY <1>14, <2>1, <2>4, <2>6, <3>1, StepArriving
  <2>8. Fenced(writes, main, seg')
    BY <1>7, <1>14, FencedStep
  <2> QED BY <1>7, <2>7, <2>8
<1> QED BY <1>7, <1>8, <1>11, <1>13, <1>14, SegStepKeeps

(* A row moves from the goroutine into the channel, its claim with it. *)
LEMMA ClaimedSend ==
  ASSUME NEW TC, NEW w \in Seq(BundleSet), NEW sg, NEW c, Claimed(TC, w, sg, c), NEW s, NEW sg2,
         Others(sg, sg2, s), NEW b \in BundleSet, NEW w2, w2 = Append(w, b),
         \A r \in sg[s].rows : r \in sg2[s].rows \/ (b.kind = "account" /\ b.of = r)
  PROVE  Claimed(TC, w2, sg2, c)
<1>1. PICK n : n \in DOMAIN w2 /\ w2[n] = b /\ \A i \in DOMAIN w : i \in DOMAIN w2 /\ w2[i] = w[i]
  BY AppendIs, SMTT(60)
<1>2. ASSUME NEW j \in DOMAIN w, w[j].kind = "account", w[j].of.code, CodeOf[w[j].of.a] = c
      PROVE  Claimed(TC, w2, sg2, c)
  BY <1>1, <1>2 DEF Claimed
<1>3. ASSUME NEW t \in Segs, NEW r \in sg[t].rows, r.code, CodeOf[r.a] = c
      PROVE  Claimed(TC, w2, sg2, c)
  <2>1. CASE r \in sg2[t].rows
    BY <1>3, <2>1 DEF Claimed
  <2>2. CASE r \notin sg2[t].rows
    <3>1. t = s
      BY <2>2 DEF Others
    <3>2. b.kind = "account" /\ b.of = r
      BY <2>2, <3>1
    <3>3. n \in DOMAIN w2 /\ w2[n].kind = "account" /\ w2[n].of = r
      BY <1>1, <3>2
    <3> QED BY <1>3, <3>3 DEF Claimed
  <2> QED BY <2>1, <2>2
<1>4. c \in TC => Claimed(TC, w2, sg2, c)
  BY DEF Claimed
<1>5. \/ c \in TC
      \/ \E j \in DOMAIN w : w[j].kind = "account" /\ w[j].of.code /\ CodeOf[w[j].of.a] = c
      \/ \E t \in Segs : \E r \in sg[t].rows : r.code /\ CodeOf[r.a] = c
  BY DEF Claimed
<1> QED BY <1>2, <1>3, <1>4, <1>5

LEMMA HandleStep ==
  ASSUME LoadInv, NEW s \in Segs, NEW a \in Accounts, Handle(s, a)
  PROVE  LoadInv'
<1>1. PICK g, c, r : g = seg[s] /\ c = CodeOf[a] /\ r = [a |-> a, code |-> c # NoCode /\ c \notin claims]
  OBVIOUS
<1>2. r \in RowSet /\ r.a = a /\ (r.code <=> c # NoCode /\ c \notin claims)
  BY <1>1 DEF RowSet
<1>3. PICK K, R : K = g.keys \ {a} /\ R = g.rows \cup {r}
  OBVIOUS
<1>4. /\ main = "phase1" /\ g.pc = "handle" /\ a \in g.keys /\ disk' = disk /\ bl' = bl
      /\ bitmap' = bitmap /\ writes' = writes /\ writer' = writer /\ main' = main
      /\ tries' = tries /\ claims' = (claims \cup {c}) \ {NoCode}
  BY <1>1 DEF Handle
<1>5. seg' = [seg EXCEPT ![s].keys = K, ![s].rows = R]
  BY <1>1, <1>3 DEF Handle
<1>6. seg \in [Segs -> SegSet] /\ g \in SegSet /\ writes \in Seq(BundleSet)
  BY <1>1 DEF LoadInv, LoadTypes
<1>7. K \in SUBSET Accounts /\ R \in SUBSET RowSet
  BY <1>2, <1>3, <1>6 DEF SegSet
<1>8. PICK g2 : g2 = seg'[s]
  OBVIOUS
<1>9. /\ seg' \in [Segs -> SegSet] /\ Others(seg, seg', s) /\ g2.keys = K /\ g2.rows = R
      /\ g2.pc = g.pc /\ g2.start = g.start /\ g2.last = g.last
  BY <1>1, <1>5, <1>6, <1>7, <1>8, ExceptKeysRows DEF SegSet, Others
<1>10. PICK T, TC, TS : /\ T = TakenA(disk, bl.ops) /\ TC = TakenC(disk, bl.ops)
                        /\ TS = TakenS(disk, bl.ops)
  OBVIOUS
<1>11. ASSUME Arriving(T, TC, TS, writes, seg, claims), Fenced(writes, main, seg)
       PROVE  Arriving(T, TC, TS, writes', seg', claims') /\ Fenced(writes', main, seg')
  <2>1. PICK U : U = T \cup Enqueued(writes)
    OBVIOUS
  <2>2. SegOK(U, claims, g, s) /\ SegsOK(U, claims, seg)
    BY <1>1, <1>11, <2>1 DEF Arriving, SegsOK
  <2>3. claims \subseteq claims' \cup {NoCode} /\ RowClaimed(claims', r)
    BY <1>1, <1>2, <1>4 DEF RowClaimed
  <2>4. SegOK(U, claims', g2, s)
    BY <1>2, <1>3, <1>4, <1>9, <2>2, <2>3, HandleOK
  <2>5. SegsOK(U, claims', seg')
    <3>1. U \subseteq U /\ \A x \in U : x \in U \/ SegOf[x] = s
      OBVIOUS
    <3> QED BY <1>8, <1>9, <2>2, <2>3, <2>4, <3>1, SegsReplace
  <2>6. ASSUME NEW k \in claims' PROVE Claimed(TC, writes, seg', k)
    <3>1. CASE k \in claims
      <4>1. seg[s].rows \subseteq seg'[s].rows
        BY <1>1, <1>3, <1>8, <1>9
      <4> QED BY <1>9, <1>11, <3>1, <4>1, ClaimedStep DEF Arriving
    <3>2. CASE k \notin claims
      <4>1. k = c /\ r.code /\ CodeOf[r.a] = k
        BY <1>1, <1>2, <1>4, <2>6, <3>2
      <4>2. r \in seg'[s].rows
        BY <1>3, <1>8, <1>9
      <4> QED BY <4>1, <4>2 DEF Claimed
    <3> QED BY <3>1, <3>2
  <2>7. Arriving(T, TC, TS, writes, seg', claims')
    BY <1>11, <2>1, <2>3, <2>5, <2>6, StepArriving
  <2>8. Fenced(writes, main, seg')
    BY <1>4, <1>11, FencedStep
  <2> QED BY <1>4, <2>7, <2>8
<1> QED BY <1>4, <1>6, <1>9, <1>10, <1>11, SegStepKeeps

LEMMA SendIs ==
  ASSUME NEW b, writes \in Seq(BundleSet), b \in BundleSet, Enqueue(b)
  PROVE  writes' = Append(writes, b) /\ writes' \in Seq(BundleSet)
<1>1. writes' = Append(writes, b)
  BY DEF Enqueue
<1>2. Append(writes, b) \in Seq(BundleSet)
  BY SMTT(60)
<1> QED BY <1>1, <1>2

LEMMA EnqueueRowStep ==
  ASSUME LoadInv, NEW s \in Segs, EnqueueRow(s)
  PROVE  LoadInv'
<1>1. PICK g : g = seg[s]
  OBVIOUS
<1>2. PICK row \in g.rows : /\ \A r \in g.rows : row.a <= r.a
                            /\ Enqueue(Bundle("account", row))
                            /\ seg' = [seg EXCEPT ![s].rows = @ \ {row}]
  BY <1>1 DEF EnqueueRow
<1>3. PICK b, R : b = Bundle("account", row) /\ R = g.rows \ {row}
  OBVIOUS
<1>4. /\ main = "phase1" /\ g.pc = "handle" /\ g.keys = {} /\ disk' = disk /\ bl' = bl
      /\ bitmap' = bitmap /\ writer' = writer /\ main' = main /\ claims' = claims
      /\ tries' = tries
  BY <1>1 DEF EnqueueRow
<1>5. seg \in [Segs -> SegSet] /\ g \in SegSet /\ writes \in Seq(BundleSet)
  BY <1>1 DEF LoadInv, LoadTypes
<1>6. row \in RowSet /\ R \in SUBSET RowSet
  BY <1>2, <1>3, <1>5 DEF SegSet
<1>7. b \in BundleSet /\ b.kind = "account" /\ b.of = row
  BY <1>3, <1>6 DEF BundleSet, Bundle
<1>8. writes' = Append(writes, b) /\ writes' \in Seq(BundleSet)
  BY <1>2, <1>3, <1>5, <1>7, SendIs
<1>9. PICK g2 : g2 = seg'[s]
  OBVIOUS
<1>10. /\ seg' \in [Segs -> SegSet] /\ Others(seg, seg', s) /\ g2.keys = g.keys /\ g2.rows = R
       /\ g2.pc = g.pc /\ g2.start = g.start /\ g2.last = g.last
  <2>1. seg' = [seg EXCEPT ![s].rows = R]
    BY <1>1, <1>2, <1>3
  <2> QED BY <1>1, <1>5, <1>6, <1>9, <2>1, ExceptRows DEF SegSet, Others
<1>11. PICK T, TC, TS : /\ T = TakenA(disk, bl.ops) /\ TC = TakenC(disk, bl.ops)
                        /\ TS = TakenS(disk, bl.ops)
  OBVIOUS
<1>12. ASSUME Arriving(T, TC, TS, writes, seg, claims), Fenced(writes, main, seg)
       PROVE  Arriving(T, TC, TS, writes', seg', claims') /\ Fenced(writes', main, seg')
  <2>1. PICK U, U2 : U = T \cup Enqueued(writes) /\ U2 = T \cup Enqueued(writes')
    OBVIOUS
  <2>2. SegOK(U, claims, g, s) /\ SegsOK(U, claims, seg)
    BY <1>1, <1>12, <2>1 DEF Arriving, SegsOK
  <2>3. \A x : x \in U2 <=> x \in U \/ x = row.a
    <3>1. \A x : x \in Enqueued(writes') <=> x \in Enqueued(writes) \/ (b.kind = "account" /\ x = b.of.a)
      BY <1>5, <1>7, <1>8, AppendEnqueued
    <3> QED BY <1>7, <2>1, <3>1
  <2>4. /\ SegOK(U2, claims, g2, s) /\ row.a \in Accounts /\ SegOf[row.a] = s
        /\ \A x \in U : SameSeg(x, row.a) => x < row.a
    <3>1. \A r \in g.rows : row.a <= r.a
      BY <1>2
    <3>2. g.keys = {} /\ g.pc = "handle"
      BY <1>4
    <3>3. /\ g2.keys = g.keys /\ g2.rows = R /\ g2.pc = g.pc /\ g2.start = g.start
          /\ g2.last = g.last /\ R = g.rows \ {row}
      BY <1>3, <1>10
    <3>4. SendsRow(g, g2, row)
      BY <1>2, <3>1, <3>2, <3>3 DEF SendsRow
    <3>5. Adds(U, U2, row.a)
      BY <2>3 DEF Adds
    <3> QED BY <2>2, <3>4, <3>5, SendRowOK
  <2>5. SegsOK(U2, claims, seg')
    <3>1. U \subseteq U2 /\ \A x \in U2 : x \in U \/ SegOf[x] = s
      BY <2>3, <2>4
    <3>2. claims \subseteq claims \cup {NoCode}
      OBVIOUS
    <3>3. SegOK(U2, claims, seg'[s], s) /\ Others(seg, seg', s)
      BY <1>9, <1>10, <2>4
    <3> QED BY <2>2, <3>1, <3>2, <3>3, SegsReplace
  <2>6. MaySend(T, TS, writes, claims, b)
    <3>1. RowClaimed(claims, row)
      BY <2>2 DEF SegOK
    <3> QED BY <1>7, <2>1, <2>4, <3>1 DEF MaySend
  <2>7. \A c \in claims : Claimed(TC, writes', seg', c)
    <3>1. \A r \in seg[s].rows : r \in seg'[s].rows \/ (b.kind = "account" /\ b.of = r)
      BY <1>1, <1>3, <1>7, <1>9, <1>10
    <3>2. \A c \in claims : Claimed(TC, writes, seg, c)
      BY <1>12 DEF Arriving
    <3>3. Others(seg, seg', s)
      BY <1>10
    <3> QED BY <1>5, <1>7, <1>8, <3>1, <3>2, <3>3, ClaimedSend
  <2>8. Arriving(T, TC, TS, writes', seg', claims)
    BY <1>5, <1>7, <1>8, <1>12, <2>1, <2>5, <2>6, <2>7, SendArriving
  <2>9. Fenced(writes', main, seg')
    BY <1>4, <1>5, <1>7, <1>8, <1>12, FencedSend
  <2> QED BY <1>4, <2>8, <2>9
<1> QED BY <1>4, <1>8, <1>10, <1>11, <1>12, SegStepKeeps

(* The goroutine holds nothing and moves on; nothing is sent. *)
LEMMA HandledStep ==
  ASSUME LoadInv, NEW s \in Segs, Handled(s)
  PROVE  LoadInv'
<1>1. PICK g, p : g = seg[s] /\ p = IF seg[s].last THEN "final" ELSE "fetch"
  OBVIOUS
<1>2. /\ main = "phase1" /\ g.pc = "handle" /\ g.keys = {} /\ g.rows = {} /\ disk' = disk
      /\ bl' = bl /\ bitmap' = bitmap /\ writes' = writes /\ writer' = writer /\ main' = main
      /\ claims' = claims /\ tries' = tries /\ seg' = [seg EXCEPT ![s].pc = p]
  BY <1>1 DEF Handled
<1>3. seg \in [Segs -> SegSet] /\ writes \in Seq(BundleSet)
  BY DEF LoadInv, LoadTypes
<1>4. p \in PcSet /\ (p = "final" => g.last) /\ p \in {"final", "fetch"}
  BY <1>1 DEF PcSet
<1>5. PICK g2 : g2 = seg'[s]
  OBVIOUS
<1>6. /\ seg' \in [Segs -> SegSet] /\ Others(seg, seg', s) /\ g2.keys = g.keys
      /\ g2.rows = g.rows /\ g2.pc = p /\ g2.start = g.start /\ g2.last = g.last
  <2>1. seg' = AtPc(seg, s, p)
    BY <1>2 DEF AtPc
  <2>2. seg \in [Segs -> SegSet] /\ p \in PcSet /\ g = seg[s]
    BY <1>1, <1>3, <1>4
  <2> QED BY <1>5, <2>1, <2>2, SegPc, SMTT(60)
<1>7. PICK T, TC, TS : /\ T = TakenA(disk, bl.ops) /\ TC = TakenC(disk, bl.ops)
                       /\ TS = TakenS(disk, bl.ops)
  OBVIOUS
<1>8. ASSUME Arriving(T, TC, TS, writes, seg, claims), Fenced(writes, main, seg)
      PROVE  Arriving(T, TC, TS, writes', seg', claims') /\ Fenced(writes', main, seg')
  <2>1. PICK U : U = T \cup Enqueued(writes)
    OBVIOUS
  <2>2. SegOK(U, claims, g, s) /\ SegsOK(U, claims, seg)
    BY <1>1, <1>8, <2>1 DEF Arriving, SegsOK
  <2>3. SegOK(U, claims, g2, s)
    <3>1. Held(g) = {}
      BY <1>2 DEF Held, Rows
    <3>2. WalkedOut(g2) => WalkedOut(g)
      BY <1>2, <1>4, <1>6 DEF WalkedOut
    <3> QED BY <1>6, <2>2, <3>1, <3>2, HandledOK
  <2>4. SegsOK(U, claims, seg')
    <3>1. U \subseteq U /\ (\A x \in U : x \in U \/ SegOf[x] = s) /\ claims \subseteq claims \cup {NoCode}
      OBVIOUS
    <3>2. SegOK(U, claims, seg'[s], s)
      BY <1>5, <2>3
    <3> QED BY <1>6, <2>2, <3>1, <3>2, SegsReplace
  <2>5. \A c \in claims : Claimed(TC, writes, seg', c)
    <3>1. seg[s].rows \subseteq seg'[s].rows
      BY <1>1, <1>5, <1>6
    <3> QED BY <1>6, <1>8, <3>1, ClaimedStep DEF Arriving
  <2>6. Arriving(T, TC, TS, writes, seg', claims)
    <3>1. claims \subseteq claims \cup {NoCode}
      OBVIOUS
    <3> QED BY <1>8, <2>1, <2>4, <2>5, <3>1, StepArriving
  <2>7. Fenced(writes, main, seg')
    BY <1>2, <1>8, FencedStep
  <2> QED BY <1>2, <2>6, <2>7
<1> QED BY <1>2, <1>3, <1>6, <1>7, <1>8, SegStepKeeps

LEMMA EnqueueFinalStep ==
  ASSUME LoadInv, NEW s \in Segs, EnqueueFinal(s)
  PROVE  LoadInv'
<1>1. PICK g, b : g = seg[s] /\ b = Bundle("final", s)
  OBVIOUS
<1>2. /\ main = "phase1" /\ g.pc = "final" /\ disk' = disk /\ bl' = bl /\ bitmap' = bitmap
      /\ Enqueue(b) /\ writer' = writer /\ main' = main /\ claims' = claims /\ tries' = tries
      /\ seg' = [seg EXCEPT ![s].pc = "done"]
  BY <1>1 DEF EnqueueFinal
<1>3. seg \in [Segs -> SegSet] /\ writes \in Seq(BundleSet)
  BY DEF LoadInv, LoadTypes
<1>4. b \in BundleSet /\ b.kind = "final" /\ b.of = s
  BY <1>1 DEF BundleSet, Bundle
<1>5. writes' = Append(writes, b) /\ writes' \in Seq(BundleSet)
  BY <1>2, <1>3, <1>4, SendIs
<1>6. PICK g2 : g2 = seg'[s]
  OBVIOUS
<1>7. /\ seg' \in [Segs -> SegSet] /\ Others(seg, seg', s) /\ g2.keys = g.keys
      /\ g2.rows = g.rows /\ g2.pc = "done" /\ g2.start = g.start /\ g2.last = g.last
  <2>1. PICK p : p = "done"
    OBVIOUS
  <2>2. seg' = AtPc(seg, s, p) /\ p \in PcSet
    BY <1>2, <2>1 DEF AtPc, PcSet
  <2>3. seg \in [Segs -> SegSet] /\ g = seg[s]
    BY <1>1, <1>3
  <2> QED BY <1>6, <2>1, <2>2, <2>3, SegPc, SMTT(60)
<1>8. PICK T, TC, TS : /\ T = TakenA(disk, bl.ops) /\ TC = TakenC(disk, bl.ops)
                       /\ TS = TakenS(disk, bl.ops)
  OBVIOUS
<1>9. ASSUME Arriving(T, TC, TS, writes, seg, claims), Fenced(writes, main, seg)
      PROVE  Arriving(T, TC, TS, writes', seg', claims') /\ Fenced(writes', main, seg')
  <2>1. PICK U, U2 : U = T \cup Enqueued(writes) /\ U2 = T \cup Enqueued(writes')
    OBVIOUS
  <2>2. SegOK(U, claims, g, s) /\ SegsOK(U, claims, seg)
    BY <1>1, <1>9, <2>1 DEF Arriving, SegsOK
  <2>3. U2 = U
    <3>1. \A x : x \in Enqueued(writes') <=> x \in Enqueued(writes) \/ (b.kind = "account" /\ x = b.of.a)
      BY <1>3, <1>4, <1>5, AppendEnqueued
    <3>2. b.kind # "account"
      BY <1>4
    <3>3. Enqueued(writes') = Enqueued(writes)
      BY <3>1, <3>2
    <3> QED BY <2>1, <3>3
  <2>4. Held(g) = {} /\ WalkedOut(g)
    BY <1>2, <2>2 DEF SegOK, WalkedOut
  <2>5. SegOK(U, claims, seg'[s], s)
    <3>1. SegOK(U, claims, g2, s)
      BY <1>7, <2>2, <2>4, HandledOK
    <3> QED BY <1>6, <3>1
  <2>6. SegsOK(U2, claims, seg')
    <3>1. U \subseteq U /\ (\A x \in U : x \in U \/ SegOf[x] = s) /\ claims \subseteq claims \cup {NoCode}
      OBVIOUS
    <3>2. SegsOK(U, claims, seg')
      BY <1>7, <2>2, <2>5, <3>1, SegsReplace
    <3> QED BY <2>3, <3>2
  <2>7. MaySend(T, TS, writes, claims, b)
    <3>1. SegAccounts(s) \subseteq U
      BY <2>2, <2>4 DEF SegOK
    <3> QED BY <1>4, <2>1, <3>1 DEF MaySend
  <2>8. \A c \in claims : Claimed(TC, writes', seg', c)
    <3>1. \A r \in seg[s].rows : r \in seg'[s].rows \/ (b.kind = "account" /\ b.of = r)
      BY <1>1, <1>6, <1>7
    <3>2. \A c \in claims : Claimed(TC, writes, seg, c)
      BY <1>9 DEF Arriving
    <3>3. Others(seg, seg', s)
      BY <1>7
    <3> QED BY <1>3, <1>4, <1>5, <3>1, <3>2, <3>3, ClaimedSend
  <2>9. Arriving(T, TC, TS, writes', seg', claims)
    BY <1>3, <1>4, <1>5, <1>9, <2>1, <2>6, <2>7, <2>8, SendArriving
  <2>10. Fenced(writes', main, seg')
    BY <1>2, <1>3, <1>4, <1>5, <1>9, FencedSend
  <2> QED BY <1>2, <2>9, <2>10
<1> QED BY <1>2, <1>5, <1>7, <1>8, <1>9, SegStepKeeps

-----------------------------------------------------------------------------
(***************************************************************************)
(* The steps of Run.                                                       *)
(***************************************************************************)
LEMMA StoppedKeeps ==
  ASSUME LoadTypes', Sound(disk'), main' \in Stopped, writes' = << >>
  PROVE  LoadInv'
<1>1. \A m \in Stopped : m \notin Ending /\ m \notin Late
  BY DEF Stopped, Ending, Late
<1>2. Phased' /\ ~ Alive'
  BY <1>1 DEF Phased, Alive
<1> QED BY <1>2 DEF LoadInv

(* What is sent here is no account row: nothing else changes. *)
LEMMA PlainSend ==
  ASSUME NEW T, NEW TC, NEW TS, NEW w \in Seq(BundleSet), NEW sg, NEW cl,
         Arriving(T, TC, TS, w, sg, cl), NEW b \in BundleSet, b.kind # "account",
         MaySend(T, TS, w, cl, b), NEW w2, w2 = Append(w, b)
  PROVE  Arriving(T, TC, TS, w2, sg, cl)
<1>1. Enqueued(w2) = Enqueued(w)
  <2>1. \A x : x \in Enqueued(w2) <=> x \in Enqueued(w) \/ (b.kind = "account" /\ x = b.of.a)
    BY AppendEnqueued
  <2> QED BY <2>1
<1>2. SegsOK(T \cup Enqueued(w2), cl, sg)
  BY <1>1 DEF Arriving
<1>3. \A i \in DOMAIN w : i \in DOMAIN w2 /\ w2[i] = w[i]
  BY AppendIs, SMTT(60)
<1>4. ASSUME NEW c, Claimed(TC, w, sg, c) PROVE Claimed(TC, w2, sg, c)
  BY <1>3, <1>4 DEF Claimed
<1>5. \A c \in cl : Claimed(TC, w2, sg, c)
  BY <1>4 DEF Arriving
<1> QED BY <1>2, <1>5, SendArriving

LEMMA FenceStep ==
  ASSUME LoadInv, Fence
  PROVE  LoadInv'
<1>1. PICK b : b = Bundle("barrier", {})
  OBVIOUS
<1>2. /\ main = "phase1" /\ (\A s \in Segs : seg[s].pc = "done") /\ Enqueue(b) /\ main' = "wait"
      /\ disk' = disk /\ bl' = bl /\ bitmap' = bitmap /\ writer' = writer /\ seg' = seg
      /\ claims' = claims /\ tries' = tries
  BY <1>1 DEF Fence
<1>3. b \in BundleSet /\ b.kind = "barrier"
  BY <1>1 DEF BundleSet, Bundle
<1>4. writes \in Seq(BundleSet)
  BY DEF LoadInv, LoadTypes
<1>5. writes' = Append(writes, b) /\ writes' \in Seq(BundleSet)
  BY <1>2, <1>3, <1>4, SendIs
<1>6. LoadTypes' /\ Sound(disk')
  BY <1>2, <1>5 DEF LoadInv, LoadTypes
<1>7. Phased'
  <2>1. "wait" \notin Stopped \cup Ending /\ "wait" \notin Late
    BY DEF Stopped, Ending, Late
  <2> QED BY <1>2, <2>1 DEF Phased
<1>8. ASSUME Alive' PROVE RunOK'
  <2>1. RunOK
    <3>1. "phase1" \notin Stopped
      BY DEF Stopped
    <3> QED BY <1>2, <1>8, <3>1 DEF LoadInv, Alive
  <2>2. PICK T, TC, TS : /\ T = TakenA(disk, bl.ops) /\ TC = TakenC(disk, bl.ops)
                         /\ TS = TakenS(disk, bl.ops)
    OBVIOUS
  <2>3. Arriving(T, TC, TS, writes, seg, claims) /\ Fenced(writes, main, seg)
    BY <2>1, <2>2 DEF RunOK, Running
  <2>4. MaySend(T, TS, writes, claims, b) /\ b.kind # "account"
    BY <1>3 DEF MaySend
  <2>5. Arriving(T, TC, TS, writes', seg, claims)
    BY <1>3, <1>4, <1>5, <2>3, <2>4, PlainSend
  <2>6. Fenced(writes', "wait", seg)
    <3>1. \A j \in DOMAIN writes' : j = Len(writes') \/ (j \in DOMAIN writes /\ writes'[j] = writes[j])
      BY <1>3, <1>4, <1>5, SMTT(60)
    <3>2. \A j \in DOMAIN writes : writes[j].kind # "barrier"
      BY <1>2, <2>3 DEF Fenced
    <3> QED BY <1>2, <3>1, <3>2 DEF Fenced
  <2>7. Drained(TS, writes', "wait", tries)
    BY DEF Drained
  <2> QED BY <1>2, <2>1, <2>2, <2>5, <2>6, <2>7 DEF RunOK, Running
<1> QED BY <1>6, <1>7, <1>8 DEF LoadInv

LEMMA ScanQueueStep ==
  ASSUME LoadInv, ScanQueue
  PROVE  LoadInv'
<1>1. /\ main = "scan" /\ main' = "phase2" /\ disk' = disk /\ bl' = bl /\ bitmap' = bitmap
      /\ writes' = writes /\ writer' = writer /\ seg' = seg /\ claims' = claims
      /\ tries' = [a \in disk.queue |-> "walk"]
  BY DEF ScanQueue
<1>2. DOMAIN tries' = disk.queue /\ \A a \in DOMAIN tries' : tries'[a] = "walk"
  BY <1>1
<1>3. disk.queue \subseteq Stored
  BY DEF LoadInv, LoadTypes, DiskSet
<1>4. LoadTypes' /\ Sound(disk')
  BY <1>1, <1>2, <1>3 DEF LoadInv, LoadTypes
<1>5. /\ "scan" \in Late /\ "scan" \notin Stopped
      /\ "phase2" \notin Stopped \cup Ending
  BY DEF Stopped, Ending, Late
<1>6. Phased'
  BY <1>1, <1>5 DEF LoadInv, Phased
<1>7. ASSUME Alive' PROVE RunOK'
  <2>1. RunOK
    BY <1>1, <1>5, <1>7 DEF LoadInv, Alive
  <2>2. PICK TS : TS = TakenS(disk, bl.ops)
    OBVIOUS
  <2>3. Fenced(writes, "phase2", seg) /\ Drained(TS, writes, "phase2", tries')
    <3>1. Fenced(writes, "scan", seg)
      BY <1>1, <2>1 DEF RunOK, Running
    <3> QED BY <1>2, <3>1 DEF Fenced, Drained
  <2> QED BY <1>1, <2>1, <2>2, <2>3 DEF RunOK, Running
<1> QED BY <1>4, <1>6, <1>7 DEF LoadInv

LEMMA DrainStep ==
  ASSUME LoadInv, NEW a \in DOMAIN tries, Drain(a)
  PROVE  LoadInv'
<1>1. PICK k, b : k = (IF tries[a] = "walk" THEN "slots" ELSE "del") /\ b = Bundle(k, a)
  OBVIOUS
<1>2. /\ main = "phase2" /\ tries[a] # "done" /\ Enqueue(b) /\ main' = main
      /\ disk' = disk /\ bl' = bl /\ bitmap' = bitmap /\ writer' = writer /\ seg' = seg
      /\ claims' = claims
      /\ tries' = [tries EXCEPT ![a] = IF @ = "walk" THEN "walked" ELSE "done"]
  BY <1>1 DEF Drain
<1>3. writes \in Seq(BundleSet) /\ a \in Stored
  BY DEF LoadInv, LoadTypes
<1>4. k \in {"slots", "del"} /\ (k = "del" => tries[a] # "walk")
  BY <1>1
<1>5. b \in BundleSet /\ b.kind = k /\ b.of = a
  BY <1>1, <1>3, <1>4 DEF BundleSet, Bundle
<1>6. writes' = Append(writes, b) /\ writes' \in Seq(BundleSet)
  BY <1>2, <1>3, <1>5, SendIs
<1>7. /\ DOMAIN tries' = DOMAIN tries
      /\ \A x \in DOMAIN tries : x # a => tries'[x] = tries[x]
  BY <1>2
<1>8. LoadTypes' /\ Sound(disk')
  BY <1>2, <1>6, <1>7 DEF LoadInv, LoadTypes
<1>9. "phase2" \notin Stopped \cup Ending
  BY DEF Stopped, Ending
<1>10. Phased'
  BY <1>2, <1>9 DEF LoadInv, Phased
<1>11. ASSUME Alive' PROVE RunOK'
  <2>1. RunOK
    BY <1>2, <1>11 DEF LoadInv, Alive
  <2>2. PICK T, TC, TS : /\ T = TakenA(disk, bl.ops) /\ TC = TakenC(disk, bl.ops)
                         /\ TS = TakenS(disk, bl.ops)
    OBVIOUS
  <2>3. /\ Arriving(T, TC, TS, writes, seg, claims) /\ Fenced(writes, main, seg)
        /\ Drained(TS, writes, main, tries)
    BY <2>1, <2>2 DEF RunOK, Running
  <2>4. k = "del" => a \in TS \/ \E j \in DOMAIN writes : writes[j] = Bundle("slots", a)
    BY <1>2, <1>4, <2>3 DEF Drained
  <2>5. MaySend(T, TS, writes, claims, b) /\ b.kind # "account" /\ b.kind # "barrier"
    BY <1>4, <1>5, <2>4 DEF MaySend
  <2>6. Arriving(T, TC, TS, writes', seg, claims)
    BY <1>3, <1>5, <1>6, <2>3, <2>5, PlainSend
  <2>7. Fenced(writes', main, seg)
    <3>1. main # "wait"
      BY <1>2
    <3> QED BY <1>3, <1>5, <1>6, <2>3, <2>5, <3>1, FencedSend
  <2>8. Drained(TS, writes', main, tries')
    <3>1. /\ \A j \in DOMAIN writes : j \in DOMAIN writes' /\ writes'[j] = writes[j]
          /\ \E n \in DOMAIN writes' : writes'[n] = b
      BY <1>3, <1>5, <1>6, AppendIs, SMTT(60)
    <3>2. ASSUME NEW x \in DOMAIN tries, tries'[x] # "walk"
          PROVE  x \in TS \/ \E j \in DOMAIN writes' : writes'[j] = Bundle("slots", x)
      <4>1. CASE x # a
        BY <1>2, <1>7, <2>3, <3>1, <3>2, <4>1 DEF Drained
      <4>2. CASE x = a /\ k = "slots"
        BY <1>1, <3>1, <4>2
      <4>3. CASE x = a /\ k = "del"
        BY <2>4, <3>1, <4>3
      <4> QED BY <1>4, <4>1, <4>2, <4>3
    <3> QED BY <1>7, <3>2 DEF Drained
  <2> QED BY <1>2, <2>1, <2>2, <2>6, <2>7, <2>8 DEF RunOK, Running
<1> QED BY <1>8, <1>10, <1>11 DEF LoadInv

(* No more rows are sent; Run goes on unless the writer gave up. *)
LEMMA CloseWritesStep ==
  ASSUME LoadInv, CloseWrites
  PROVE  LoadInv'
<1>1. /\ main = "phase2" /\ writes = << >> /\ disk' = disk /\ bl' = bl /\ bitmap' = bitmap
      /\ writes' = writes /\ writer' = writer /\ seg' = seg /\ claims' = claims /\ tries' = tries
      /\ main' = IF writer = "failed" THEN "off" ELSE "flush"
  BY DEF CloseWrites
<1>2. LoadTypes' /\ Sound(disk')
  BY <1>1 DEF LoadInv, LoadTypes
<1>3. "off" \in Stopped /\ "phase2" \in Late /\ "phase2" \notin Stopped /\ "flush" \in Ending
  BY DEF Stopped, Late, Ending
<1>4. CASE writer = "failed"
  BY <1>1, <1>2, <1>3, <1>4, StoppedKeeps
<1>5. CASE writer # "failed"
  <2>1. writer = "run" /\ main' = "flush"
    BY <1>1, <1>5 DEF LoadInv, LoadTypes
  <2>2. Phased'
    BY <1>1, <1>3, <2>1 DEF LoadInv, Phased
  <2>3. RunOK
    BY <1>1, <1>3, <2>1 DEF LoadInv, Alive
  <2>4. RunOK'
    <3>1. PICK TS : TS = TakenS(disk, bl.ops)
      OBVIOUS
    <3>2. Fenced(<< >>, "flush", seg) /\ Drained(TS, << >>, "flush", tries)
      BY SMTT(60) DEF Fenced, Drained
    <3> QED BY <1>1, <2>1, <2>3, <3>1, <3>2 DEF RunOK, Running
  <2> QED BY <1>2, <2>2, <2>4 DEF LoadInv
<1> QED BY <1>4, <1>5

LEMMA ReturnErrorStep ==
  ASSUME LoadInv, ReturnError
  PROVE  LoadInv'
<1>1. /\ writes = << >> /\ disk' = disk /\ bl' = bl /\ bitmap' = bitmap /\ writes' = writes
      /\ writer' = writer /\ seg' = seg /\ tries' = tries /\ main' = "off"
  BY DEF ReturnError
<1>2. LoadTypes' /\ Sound(disk')
  BY <1>1 DEF LoadInv, LoadTypes
<1>3. "off" \in Stopped
  BY DEF Stopped
<1> QED BY <1>1, <1>2, <1>3, StoppedKeeps

LEMMA StopStep ==
  ASSUME LoadInv, Stop
  PROVE  LoadInv'
<1>1. /\ disk' = disk /\ bl' = bl /\ bitmap' = bitmap /\ writes' = << >>
      /\ writer' = writer /\ seg' = seg /\ tries' = tries /\ main' = "off"
  BY DEF Stop
<1>2. << >> \in Seq(BundleSet)
  BY SMTT(60)
<1>3. LoadTypes' /\ Sound(disk')
  BY <1>1, <1>2 DEF LoadInv, LoadTypes
<1>4. "off" \in Stopped
  BY DEF Stopped
<1> QED BY <1>1, <1>3, <1>4, StoppedKeeps

(* After the last row: a flush fails and Run returns, or it goes on. *)
LEMMA EndFails ==
  ASSUME LoadInv, main \in Ending, FlushFails, main' = "off", bitmap' = bitmap, writes' = writes,
         writer' = writer, seg' = seg, tries' = tries
  PROVE  LoadInv'
<1>1. bl' \in BlSet /\ bl'.progress = bl.progress /\ disk' = disk
  BY FailedTypes DEF LoadInv
<1>2. LoadTypes' /\ Sound(disk')
  BY <1>1 DEF LoadInv, LoadTypes
<1>3. "off" \in Stopped
  BY DEF Stopped
<1>4. writes' = << >>
  BY DEF LoadInv, Phased
<1> QED BY <1>2, <1>3, <1>4, StoppedKeeps

LEMMA EndAlive ==
  ASSUME LoadInv, main \in Ending
  PROVE  /\ Alive /\ RunOK /\ Stable(disk, bl.ops) /\ Settled(disk, bl.ops)
         /\ CursorIn(bl.progress, TakenA(disk, bl.ops))
         /\ writes = << >> /\ writer = "run" /\ disk.acct = Accounts
<1>1. \A m \in Ending : m \notin Stopped /\ m \in Late
  BY DEF Ending, Stopped, Late
<1>2. writes = << >> /\ writer = "run" /\ disk.acct = Accounts
  BY <1>1 DEF LoadInv, Phased
<1>3. Alive
  BY <1>1, <1>2 DEF Alive
<1> QED BY <1>2, <1>3, AliveFacts

LEMMA EndKeeps ==
  ASSUME LoadInv, main \in Ending, main' \in Ending, bl' \in BlSet,
         bl'.progress = bl.progress \/ bl'.progress = {}, Stable(disk', bl'.ops),
         SameTaken(disk, bl.ops, disk', bl'.ops), Accounts \subseteq disk'.acct, bitmap' = bitmap,
         writes' = writes, writer' = writer, seg' = seg, claims' = claims, tries' = tries
  PROVE  LoadInv'
<1>1. Alive /\ RunOK /\ writes = << >> /\ writer = "run"
  BY EndAlive
<1>2. PICK T, TC, TS : T = TakenA(disk, bl.ops) /\ TC = TakenC(disk, bl.ops) /\ TS = TakenS(disk, bl.ops)
  OBVIOUS
<1>3. TakenA(disk', bl'.ops) = T /\ TakenC(disk', bl'.ops) = TC /\ TakenS(disk', bl'.ops) = TS
  BY <1>2 DEF SameTaken
<1>4. Fenced(<< >>, main', seg) /\ Drained(TS, << >>, main', tries)
  BY SMTT(60) DEF Fenced, Drained, Ending
<1>5. RunOK'
  BY <1>1, <1>2, <1>3, <1>4 DEF RunOK, Running
<1>6. LoadTypes'
  BY DEF LoadInv, LoadTypes, Stable
<1>7. disk'.acct = Accounts
  <2>1. \A d \in DiskSet : d.acct \subseteq Accounts
    BY DEF DiskSet
  <2> QED BY <1>6, <2>1 DEF LoadTypes
<1>8. Phased' /\ Sound(disk')
  BY <1>1, <1>7 DEF Phased, Stable
<1> QED BY <1>5, <1>6, <1>8 DEF LoadInv

LEMMA LastFlushStep ==
  ASSUME LoadInv, LastFlush
  PROVE  LoadInv'
<1>1. /\ main = "flush" /\ bitmap' = bitmap /\ writes' = writes /\ writer' = writer /\ seg' = seg
      /\ claims' = claims /\ tries' = tries
  BY DEF LastFlush
<1>2. "flush" \in Ending /\ "sweep" \in Ending /\ main \in Ending
  BY <1>1 DEF Ending
<1>3. CASE FlushOps /\ main' = "sweep"
  <2>1. PICK d, ops : d = disk /\ ops = bl.ops
    OBVIOUS
  <2>2. /\ Stable(d, ops) /\ Settled(d, ops) /\ CursorIn(bl.progress, TakenA(d, ops))
        /\ d.acct = Accounts
    BY <1>2, <2>1, EndAlive
  <2>3. /\ bl' \in BlSet /\ bl'.ops = << >> /\ bl'.progress = {}
        /\ Stable(disk', << >>) /\ SameTaken(d, ops, disk', << >>)
        /\ disk'.acct = TakenA(d, ops)
    BY <1>3, <2>1, <2>2, FlushKeeps
  <2>4. Accounts \subseteq disk'.acct
    BY <2>2, <2>3 DEF TakenA
  <2>5. Stable(disk', bl'.ops) /\ SameTaken(disk, bl.ops, disk', bl'.ops) /\ main' \in Ending
    BY <1>2, <1>3, <2>1, <2>3
  <2> QED BY <1>1, <1>2, <2>3, <2>4, <2>5, EndKeeps
<1>4. CASE FlushFails /\ main' = "off"
  BY <1>1, <1>2, <1>4, EndFails
<1> QED BY <1>3, <1>4 DEF LastFlush

LEMMA AllCode ==
  ASSUME NEW d, d.acct = Accounts, Owed(d.acct, d.code)
  PROVE  \A a \in Accounts : CodeOf[a] \in d.code \cup {NoCode}
BY DEF Owed

LEMMA NoneMissing ==
  ASSUME LoadInv, main \in Late
  PROVE  MissingCodeHashes = {}
<1>1. disk.acct = Accounts /\ Owed(disk.acct, disk.code)
  BY DEF LoadInv, Phased, Sound
<1>2. \A a \in Accounts : CodeOf[a] \in disk.code \cup {NoCode}
  BY <1>1, AllCode
<1> QED BY <1>1, <1>2 DEF MissingCodeHashes

LEMMA CodeSweepStep ==
  ASSUME LoadInv, CodeSweep
  PROVE  LoadInv'
<1>1. /\ main = "sweep" /\ bitmap' = bitmap /\ writes' = writes /\ writer' = writer /\ seg' = seg
      /\ claims' = claims /\ tries' = tries
  BY DEF CodeSweep
<1>2. "sweep" \in Ending /\ "finish" \in Ending /\ main \in Ending /\ main \in Late
  BY <1>1 DEF Ending, Late
<1>3. MissingCodeHashes = {}
  BY <1>2, NoneMissing
<1>4. PICK order \in [1..Cardinality(MissingCodeHashes) -> MissingCodeHashes] :
        /\ AddOps([i \in DOMAIN order |-> Op("code", order[i])])
        /\ main' = "finish"
  BY <1>3 DEF CodeSweep
<1>5. PICK add : add = [i \in DOMAIN order |-> Op("code", order[i])]
  OBVIOUS
<1>6. add = << >>
  <2>1. Cardinality(MissingCodeHashes) = 0
    BY <1>3, FS_EmptySet
  <2>2. 1..0 = {}
    BY SMTT(60)
  <2>3. DOMAIN order = {}
    BY <2>1, <2>2
  <2> QED BY <1>5, <2>3, SMTT(60)
<1>7. PICK d, ops : d = disk /\ ops = bl.ops
  OBVIOUS
<1>8. /\ Stable(d, ops) /\ d.acct = Accounts /\ bl \in BlSet /\ ops \in Seq(OpSet)
  BY <1>2, <1>7, EndAlive DEF LoadInv, LoadTypes, Stable
<1>9. ops \o << >> = ops /\ (Len(ops) + 1)..Len(ops) = {}
  BY <1>8, SMTT(60)
<1>10. bl' = [bl EXCEPT !.ops = ops] /\ disk' = disk
  <2>1. AddOps(<< >>)
    BY <1>4, <1>5, <1>6
  <2> QED BY <1>7, <1>9, <2>1 DEF AddOps
<1>11. bl' \in BlSet /\ bl'.ops = ops /\ bl'.progress = bl.progress
  BY <1>8, <1>10, BlIs DEF BlSet
<1>12. /\ Stable(disk', bl'.ops) /\ SameTaken(disk, bl.ops, disk', bl'.ops) /\ main' \in Ending
       /\ Accounts \subseteq disk'.acct
  BY <1>2, <1>4, <1>7, <1>8, <1>10, <1>11 DEF SameTaken
<1> QED BY <1>1, <1>2, <1>11, <1>12, EndKeeps

LEMMA FinishFlushStep ==
  ASSUME LoadInv, FinishFlush
  PROVE  LoadInv'
<1>1. /\ main = "finish" /\ bitmap' = bitmap /\ writes' = writes /\ writer' = writer /\ seg' = seg
      /\ claims' = claims /\ tries' = tries
  BY DEF FinishFlush
<1>2. "finish" \in Ending /\ "mark" \in Ending /\ main \in Ending
  BY <1>1 DEF Ending
<1>3. CASE /\ disk' = Written(disk, bl.ops) /\ bl' = [ops |-> << >>, progress |-> NoProgress]
           /\ main' = "mark"
  <2>1. PICK d, ops, e : d = disk /\ ops = bl.ops /\ e = disk'
    OBVIOUS
  <2>2. Stable(d, ops) /\ Settled(d, ops) /\ d.acct = Accounts /\ e = Written(d, ops)
    BY <1>2, <1>3, <2>1, EndAlive
  <2>3. /\ Stable(e, << >>) /\ SameTaken(d, ops, e, << >>)
        /\ e.acct = d.acct \cup Puts(ops, "acct")
    BY <2>2, FinishKeeps
  <2>4. bl' \in BlSet /\ bl'.ops = << >> /\ bl'.progress = {}
    BY <1>3, SMTT(60) DEF NoProgress, BlSet
  <2>5. /\ Stable(disk', bl'.ops) /\ SameTaken(disk, bl.ops, disk', bl'.ops) /\ main' \in Ending
        /\ Accounts \subseteq disk'.acct
    BY <1>2, <1>3, <2>1, <2>2, <2>3, <2>4
  <2> QED BY <1>1, <1>2, <2>4, <2>5, EndKeeps
<1>4. CASE FlushFails /\ main' = "off"
  BY <1>1, <1>2, <1>4, EndFails
<1> QED BY <1>3, <1>4 DEF FinishFlush

Marked(d) == [d EXCEPT !.bits = {}, !.complete = TRUE]

LEMMA MarkedIs ==
  ASSUME NEW d \in DiskSet, NEW e, e = Marked(d)
  PROVE  /\ e \in DiskSet /\ e.acct = d.acct /\ e.code = d.code /\ e.queue = d.queue
         /\ e.slots = d.slots /\ e.bits = {} /\ e.complete
<1>1. {} \in SUBSET Segs /\ TRUE \in BOOLEAN
  OBVIOUS
<1>2. /\ e \in DiskSet /\ e.acct = d.acct /\ e.code = d.code /\ e.queue = d.queue
      /\ e.slots = d.slots /\ e.bits = {} /\ e.complete = TRUE
  BY <1>1 DEF DiskSet, Marked
<1> QED BY <1>2

LEMMA MarkCompleteStep ==
  ASSUME LoadInv, MarkComplete
  PROVE  LoadInv'
<1>1. /\ main = "mark" /\ main' = "off" /\ bl' = bl /\ bitmap' = bitmap /\ writes' = writes
      /\ writer' = writer /\ seg' = seg /\ tries' = tries
      /\ disk' = IF disk.queue # {} THEN disk ELSE [disk EXCEPT !.bits = {}, !.complete = TRUE]
  BY DEF MarkComplete
<1>2. "mark" \in Ending /\ "off" \in Stopped
  BY DEF Ending, Stopped
<1>3. writes = << >> /\ disk.acct = Accounts /\ disk \in DiskSet /\ Sound(disk)
  BY <1>1, <1>2, EndAlive DEF LoadInv, LoadTypes
<1>4. disk' \in DiskSet /\ Sound(disk')
  <2>1. CASE disk.queue # {}
    BY <1>1, <1>3, <2>1
  <2>2. CASE disk.queue = {}
    <3>1. PICK d, e : d = disk /\ e = disk'
      OBVIOUS
    <3>2. d \in DiskSet /\ Sound(d) /\ d.acct = Accounts /\ d.queue = {} /\ e = Marked(d)
      BY <1>1, <1>3, <2>2, <3>1 DEF Marked
    <3>3. /\ e \in DiskSet /\ e.acct = d.acct /\ e.code = d.code /\ e.queue = d.queue
          /\ e.slots = d.slots /\ e.bits = {} /\ e.complete
      BY <3>2, MarkedIs
    <3>4. d.code = Codes
      <4>1. d.code \subseteq Codes /\ Owed(d.acct, d.code)
        BY <3>2 DEF DiskSet, Sound
      <4>2. \A a \in Accounts : CodeOf[a] \in d.code \cup {NoCode}
        BY <3>2, <4>1, AllCode
      <4> QED BY <4>1, <4>2 DEF Codes
    <3>5. d.slots = Stored
      <4>1. d.slots \subseteq Stored /\ Accounts \cap Stored \subseteq d.slots
        BY <3>2 DEF DiskSet, Sound
      <4> QED BY <4>1, LoaderAssumption
    <3>6. Sound(e)
      BY <3>2, <3>3, <3>4, <3>5 DEF Sound, Whole
    <3> QED BY <3>1, <3>3, <3>6
  <2> QED BY <2>1, <2>2
<1>5. LoadTypes'
  BY <1>1, <1>4 DEF LoadInv, LoadTypes
<1> QED BY <1>1, <1>2, <1>3, <1>4, <1>5, StoppedKeeps

(* A segment resumes past what it has committed, and right after it. *)
LEMMA ResumeIs ==
  ASSUME NEW D, D = disk.acct, D \in SUBSET Accounts, Ordered(D), NEW s \in Segs,
         NEW z, z = ResumeAt(s)
  PROVE  /\ z \in Nat /\ \A x \in D : SegOf[x] = s => x < z
         /\ \A a \in SegAccounts(s) : a < z => a \in D
<1>1. PICK have : have = D \cap SegAccounts(s)
  OBVIOUS
<1>2. have \in SUBSET Accounts /\ \A x : x \in have <=> x \in D /\ SegOf[x] = s
  BY <1>1 DEF SegAccounts
<1>3. z = IF have = {} THEN 0 ELSE Max(have) + 1
  BY <1>1 DEF ResumeAt
<1>4. \A a \in Accounts : a \in Nat
  BY AccountIs
<1>5. CASE have = {}
  <2>1. z = 0
    BY <1>3, <1>5
  <2>2. \A a \in SegAccounts(s) : ~ (a < z)
    <3>1. \A a \in SegAccounts(s) : a \in Nat
      BY <1>4 DEF SegAccounts
    <3> QED BY <2>1, <3>1, SMTT(60)
  <2>3. z \in Nat
    BY <2>1, SMTT(60)
  <2> QED BY <1>2, <1>5, <2>2, <2>3
<1>6. CASE have # {}
  <2>1. PICK m : m = Max(have)
    OBVIOUS
  <2>2. m \in have /\ m \in Nat /\ \A y \in have : y <= m
    BY <1>2, <1>6, <2>1, AccountMax
  <2>3. z = m + 1
    BY <1>3, <1>6, <2>1
  <2>4. z \in Nat
    BY <2>2, <2>3, SMTT(60)
  <2>5. \A x \in have : x < z
    <3>1. \A x \in have : x \in Nat /\ x <= m
      BY <1>2, <1>4, <2>2
    <3> QED BY <2>2, <2>3, <3>1, SMTT(60)
  <2>6. ASSUME NEW a \in SegAccounts(s), a < z PROVE a \in D
    <3>1. a \in Accounts /\ SegOf[a] = s
      BY DEF SegAccounts
    <3>2. a = m \/ a < m
      <4>1. a \in Nat
        BY <1>4, <3>1
      <4> QED BY <2>2, <2>3, <2>6, <4>1, SMTT(60)
    <3>3. m \in D /\ SegOf[m] = s
      BY <1>2, <2>2
    <3> QED BY <3>1, <3>2, <3>3 DEF Ordered
  <2> QED BY <1>2, <2>4, <2>5, <2>6
<1> QED BY <1>5, <1>6

FreshSeg(z, p) == [pc |-> p, start |-> z, keys |-> {}, rows |-> {}, last |-> FALSE]

LEMMA FreshIs ==
  ASSUME NEW z, NEW p, NEW g, g = FreshSeg(z, p)
  PROVE  /\ z \in Nat /\ p \in PcSet => g \in SegSet
         /\ g.pc = p /\ g.start = z /\ g.rows = {} /\ Held(g) = {}
         /\ p # "handle" => (WalkedOut(g) <=> p \in {"final", "done"})
BY DEF FreshSeg, SegSet, PcSet, Held, Rows, WalkedOut

LEMMA FreshOK ==
  ASSUME NEW D \in SUBSET Accounts, NEW s \in Segs, NEW z,
         \A x \in D : SegOf[x] = s => x < z, \A a \in SegAccounts(s) : a < z => a \in D,
         NEW p, p \in {"done", "fetch"}, p = "done" => SegAccounts(s) \subseteq D,
         NEW g, g = FreshSeg(z, p)
  PROVE  SegOK(D, {}, g, s)
<1>1. /\ g.pc = p /\ g.start = z /\ g.rows = {} /\ Held(g) = {}
      /\ p # "handle" => (WalkedOut(g) <=> p \in {"final", "done"})
  BY FreshIs
<1>2. p # "handle" /\ p # "final"
  OBVIOUS
<1>3. \A a \in SegAccounts(s) : a < g.start \/ WalkedOut(g) => a \in D
  BY <1>1, <1>2
<1> QED BY <1>1, <1>3 DEF SegOK

LEMMA NothingArrives ==
  ASSUME NEW T, NEW TC, NEW TS, Owed(T, TC), NEW sg, SegsOK(T, {}, sg)
  PROVE  Arriving(T, TC, TS, << >>, sg, {})
<1>1. DOMAIN << >> = {}
  BY SMTT(60)
<1>2. Enqueued(<< >>) = {}
  BY SMTT(60) DEF Enqueued
<1>3. T \cup Enqueued(<< >>) = T
  BY <1>2
<1> QED BY <1>1, <1>3 DEF Arriving, Rising, Coded, Finals, Deletes

LEMMA StartStep ==
  ASSUME LoadInv, Start
  PROVE  LoadInv'
<1>1. PICK d : d = disk
  OBVIOUS
<1>2. /\ main' = "phase1" /\ writer' = "run" /\ writes' = << >> /\ bitmap' = d.bits
      /\ bl' = [ops |-> << >>, progress |-> NoProgress] /\ claims' = {} /\ disk' = d
      /\ tries' = [a \in {} |-> "walk"]
      /\ seg' = [s \in Segs |-> FreshSeg(ResumeAt(s), IF s \in d.bits THEN "done" ELSE "fetch")]
  BY <1>1 DEF Start, FreshSeg
<1>3. d \in DiskSet /\ Sound(d)
  BY <1>1 DEF LoadInv, LoadTypes
<1>4. PICK D : D = d.acct
  OBVIOUS
<1>5. /\ D \in SUBSET Accounts /\ d.bits \in SUBSET Segs /\ Ordered(D) /\ Owed(D, d.code)
      /\ \A s \in d.bits : SegAccounts(s) \subseteq D
  BY <1>3, <1>4 DEF DiskSet, Sound
<1>6. bl' \in BlSet /\ bl'.ops = << >> /\ bl'.progress = {}
  BY <1>2, SMTT(60) DEF NoProgress, BlSet
<1>7. ASSUME NEW s \in Segs PROVE seg'[s] \in SegSet /\ SegOK(D, {}, seg'[s], s)
  <2>1. PICK z, p : z = ResumeAt(s) /\ p = IF s \in d.bits THEN "done" ELSE "fetch"
    OBVIOUS
  <2>2. PICK g : g = FreshSeg(z, p)
    OBVIOUS
  <2>3. seg'[s] = g
    BY <1>2, <2>1, <2>2
  <2>4. /\ z \in Nat /\ (\A x \in D : SegOf[x] = s => x < z)
        /\ \A a \in SegAccounts(s) : a < z => a \in D
    <3>1. D = disk.acct
      BY <1>1, <1>4
    <3>2. z = ResumeAt(s) /\ D \in SUBSET Accounts /\ Ordered(D)
      BY <1>5, <2>1
    <3> QED BY <3>1, <3>2, ResumeIs
  <2>5. p \in {"done", "fetch"} /\ (p = "done" => SegAccounts(s) \subseteq D) /\ p \in PcSet
    BY <1>5, <2>1 DEF PcSet
  <2>6. SegOK(D, {}, g, s)
    BY <1>5, <2>2, <2>4, <2>5, FreshOK
  <2>7. g \in SegSet
    BY <2>2, <2>4, <2>5, FreshIs
  <2> QED BY <2>3, <2>6, <2>7
<1>8. LoadTypes'
  <2>1. << >> \in Seq(BundleSet)
    BY SMTT(60)
  <2>2. seg' \in [Segs -> SegSet]
    BY <1>2, <1>7
  <2>3. DOMAIN tries' = {}
    BY <1>2
  <2> QED BY <1>2, <1>3, <1>5, <1>6, <2>1, <2>2, <2>3 DEF LoadTypes
<1>9. Phased'
  <2>1. "phase1" \notin Stopped \cup Ending /\ "phase1" \notin Late
    BY DEF Stopped, Ending, Late
  <2> QED BY <1>2, <2>1 DEF Phased
<1>10. RunOK'
  <2>1. PICK T, TC, TS : T = TakenA(d, << >>) /\ TC = TakenC(d, << >>) /\ TS = TakenS(d, << >>)
    OBVIOUS
  <2>2. T = D /\ TC = d.code
    BY <1>4, <2>1, NoPuts DEF TakenA, TakenC
  <2>3. SegsOK(T, {}, seg')
    BY <1>7, <2>2 DEF SegsOK
  <2>4. Arriving(T, TC, TS, << >>, seg', {})
    BY <1>5, <2>2, <2>3, NothingArrives
  <2>5. Stable(d, << >>)
    <3>1. << >> \in Seq(OpSet)
      BY SMTT(60)
    <3> QED BY <1>3, <3>1, NoneBuffered DEF Stable
  <2>6. Behind(d.bits, T)
    BY <1>5, <2>2 DEF Behind
  <2>7. Fenced(<< >>, "phase1", seg') /\ Drained(TS, << >>, "phase1", tries')
    BY SMTT(60) DEF Fenced, Drained
  <2> QED BY <1>2, <1>6, <2>1, <2>4, <2>5, <2>6, <2>7 DEF RunOK, Running
<1> QED BY <1>2, <1>3, <1>8, <1>9, <1>10 DEF LoadInv

-----------------------------------------------------------------------------
LEMMA LoadInitInv == LoadInit => LoadInv
<1> SUFFICES ASSUME LoadInit PROVE LoadInv
  OBVIOUS
<1>1. PICK d : d = disk
  OBVIOUS
<1>2. /\ d = [acct |-> {}, code |-> {}, queue |-> {}, slots |-> {}, bits |-> {}, complete |-> FALSE]
      /\ bl = [ops |-> << >>, progress |-> NoProgress] /\ bitmap = {} /\ writes = << >>
      /\ writer = "run" /\ main = "off" /\ tries = [a \in {} |-> "walk"]
      /\ seg = [s \in Segs |-> FreshSeg(0, "done")]
  BY <1>1 DEF LoadInit, FreshSeg
<1>3. /\ d.acct = {} /\ d.code = {} /\ d.queue = {} /\ d.slots = {} /\ d.bits = {}
      /\ d.complete = FALSE /\ d \in DiskSet
  BY <1>2 DEF DiskSet
<1>4. Sound(d)
  BY <1>3 DEF Sound, Ordered, Owed
<1>5. bl \in BlSet /\ bl.progress = {}
  BY <1>2, SMTT(60) DEF NoProgress, BlSet
<1>6. LoadTypes
  <2>1. << >> \in Seq(BundleSet)
    BY SMTT(60)
  <2>2. FreshSeg(0, "done") \in SegSet
    BY DEF FreshSeg, SegSet
  <2>3. seg \in [Segs -> SegSet] /\ DOMAIN tries = {}
    BY <1>2, <2>2
  <2> QED BY <1>1, <1>2, <1>3, <1>5, <2>1, <2>3 DEF LoadTypes
<1>7. "off" \in Stopped /\ "off" \notin Ending /\ "off" \notin Late
  BY DEF Stopped, Ending, Late
<1>8. Phased /\ ~ Alive
  BY <1>2, <1>7 DEF Phased, Alive
<1> QED BY <1>1, <1>4, <1>6, <1>8 DEF LoadInv

LEMMA LoadStep == LoadInv /\ [LoadNext]_loadVars => LoadInv'
<1> SUFFICES ASSUME LoadInv, [LoadNext]_loadVars PROVE LoadInv'
  OBVIOUS
<1>1. CASE WriterStep
  BY <1>1, ApplyStep, ApplyFailsStep, FinalStep, BarrierStep, DrainWritesStep
     DEF WriterStep
<1>2. CASE MainStep
  BY <1>2, StartStep, FenceStep, ScanQueueStep, CloseWritesStep, ReturnErrorStep, LastFlushStep,
     CodeSweepStep, FinishFlushStep, MarkCompleteStep
     DEF MainStep
<1>3. CASE Stop
  BY <1>3, StopStep
<1>4. ASSUME NEW s \in Segs, SegStep(s) PROVE LoadInv'
  BY <1>4, FetchStep, HandleStep, EnqueueRowStep, HandledStep, EnqueueFinalStep
     DEF SegStep
<1>5. ASSUME NEW a \in DOMAIN tries, Drain(a) PROVE LoadInv'
  BY <1>5, DrainStep
<1>6. CASE UNCHANGED loadVars
  <2>1. /\ disk' = disk /\ bl' = bl /\ bitmap' = bitmap /\ writes' = writes /\ writer' = writer
        /\ main' = main /\ seg' = seg /\ claims' = claims /\ tries' = tries
    BY <1>6 DEF loadVars
  <2>2. LoadTypes' /\ Phased' /\ Sound(disk') /\ (Alive' => RunOK')
    BY <2>1 DEF LoadInv, LoadTypes, Phased, Alive, RunOK
  <2> QED BY <2>2 DEF LoadInv
<1> QED BY <1>1, <1>2, <1>3, <1>4, <1>5, <1>6 DEF LoadNext

(***************************************************************************)
(* Whatever goroutine steps, wherever a chunk ends, a commit fails or Run  *)
(* is stopped: what is on disk, in the Baseline's buffer, in the channel   *)
(* and in the goroutines' hands fits together.                             *)
(***************************************************************************)
THEOREM LoadInvariant == LoadSpec => []LoadInv
<1>1. LoadInit => LoadInv
  BY LoadInitInv
<1>2. LoadInv /\ [LoadNext]_loadVars => LoadInv'
  BY LoadStep
<1> QED BY <1>1, <1>2, PTL DEF LoadSpec

(***************************************************************************)
(* SetProgress: a committed segment bit never runs ahead of the segment's  *)
(* committed rows, for any accounts, segments, chunk ends and failures.    *)
(***************************************************************************)
THEOREM ProgressBehindRowsHolds == LoadSpec => []ProgressBehindRows
<1>1. LoadInv => ProgressBehindRows
  BY DEF LoadInv, Sound, ProgressBehindRows
<1> QED BY <1>1, LoadInvariant, PTL

(***************************************************************************)
(* MaxBaseAccountWithPrefix: the committed accounts of a segment are a     *)
(* prefix of it, so the greatest one is where a new run may go on.         *)
(***************************************************************************)
THEOREM WatermarkSoundHolds == LoadSpec => []WatermarkSound
<1>1. LoadInv => WatermarkSound
  BY DEF LoadInv, Sound, Ordered, WatermarkSound
<1> QED BY <1>1, LoadInvariant, PTL

(***************************************************************************)
(* QueueStorage: a committed account with storage has its queue row or its *)
(* storage committed.                                                      *)
(***************************************************************************)
THEOREM StorageQueuedHolds == LoadSpec => []StorageQueued
<1>1. LoadInv => StorageQueued
  BY DEF LoadInv, Sound, StorageQueued
<1> QED BY <1>1, LoadInvariant, PTL

(***************************************************************************)
(* codeClaims: when the walk is over no committed account's code is        *)
(* missing, whoever claimed it and whichever run that was.                 *)
(***************************************************************************)
THEOREM ClaimsKeptHolds == LoadSpec => []ClaimsKept
<1>1. LoadInv => ClaimsKept
  <2>1. "sweep" \in Late
    BY DEF Late, Ending
  <2> QED BY <2>1, NoneMissing DEF ClaimsKept
<1> QED BY <1>1, LoadInvariant, PTL

(***************************************************************************)
(* baseline_complete is set only over the whole baseline: every account,   *)
(* all storage, all code and an empty queue.                               *)
(***************************************************************************)
THEOREM BaselineWholeHolds == LoadSpec => []BaselineWhole
<1>1. LoadInv => BaselineWhole
  BY DEF LoadInv, Sound, Whole, BaselineWhole
<1> QED BY <1>1, LoadInvariant, PTL

=============================================================================
