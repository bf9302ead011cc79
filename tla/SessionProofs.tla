--------------------------- MODULE SessionProofs ---------------------------
(***************************************************************************)
(* Proofs about what a bot keeps for itself: the replay session and the    *)
(* suite cache (History), for any keys, any number of blocks and any       *)
(* course of the two readers beside the writer; and the journal of the     *)
(* simulation statedb (SimStateDB).                                        *)
(***************************************************************************)
EXTENDS History, SimStateDB, SequenceTheorems, WellFoundedInduction, TLAPS

\* A minute for each leaf: the default is short for a large module.
USE ZenonT(60)

(***************************************************************************)
(* Induction over the naturals, with the set of the good ones.             *)
(***************************************************************************)
LEMMA SetInduction ==
  ASSUME NEW S, 0 \in S, \A n \in Nat : n \in S => n + 1 \in S
  PROVE  Nat \subseteq S
<1> SUFFICES ASSUME Nat \ S # {} PROVE FALSE
  OBVIOUS
<1>1. PICK n \in Nat \ S : \A m \in Nat \ S : ~ (<<m, n>> \in OpToRel(<, Nat))
  BY NatLessThanWellFounded, WFMin
<1>2. OpToRel(<, Nat) = {ss \in Nat \X Nat : ss[1] < ss[2]}
  BY DEF OpToRel
<1>3. n # 0 /\ n \in Nat
  OBVIOUS
<1>4. n - 1 \in Nat /\ n - 1 < n /\ (n - 1) + 1 = n
  BY <1>3, SMTT(60)
<1>5. n - 1 \notin Nat \ S
  <2>1. ~ (n - 1 \in Nat \ S /\ <<n - 1, n>> \in {ss \in Nat \X Nat : ss[1] < ss[2]})
    BY <1>1, <1>2
  <2> QED BY <1>3, <1>4, <2>1
<1> QED BY <1>4, <1>5

LEMMA AfterIsWorld ==
  ASSUME NEW w \in World, NEW b \in Batch
  PROVE  After(w, b) \in World
<1>1. \A a \in Addr : AcctAfter(w.acct[a], b, a) \in Acct \cup {NoAcct}
  BY DEF AcctAfter, World, Batch
<1>2. \A a \in Addr, s \in Slot : SlotAfter(w.slot[a][s], b, a, s) \in Val
  BY DataAssumption, SMTT(60) DEF SlotAfter, World, Batch
<1> QED BY <1>1, <1>2 DEF After, World
-----------------------------------------------------------------------------
(***************************************************************************)
(* The states that diffs lead through.                                     *)
(***************************************************************************)
Runs(g, diffs, n) ==
    /\ g \in [0..n -> World] /\ g[0] = Origin
    /\ \A i \in 1..n : g[i] = After(g[i - 1], diffs[i])

LEMMA RunExists ==
  ASSUME NEW diffs \in Seq(Batches), NEW n \in 0..Len(diffs)
  PROVE  \E g : Runs(g, diffs, n)
<1> DEFINE S == {m \in Nat : m <= Len(diffs) => \E g : Runs(g, diffs, m)}
<1>1. 0 \in S
  <2>1. PICK g : g = [i \in 0..0 |-> Origin]
    OBVIOUS
  <2>2. Runs(g, diffs, 0)
    BY <2>1, HistoryAssumption, SMTT(60) DEF Runs
  <2> QED BY <2>2
<1>2. ASSUME NEW m \in Nat, m \in S PROVE m + 1 \in S
  <2> SUFFICES ASSUME m + 1 <= Len(diffs) PROVE \E g : Runs(g, diffs, m + 1)
    BY SMTT(60)
  <2>1. PICK g : Runs(g, diffs, m)
    BY <1>2, SMTT(60)
  <2>2. diffs[m + 1] \in Batch /\ g[m] \in World
    BY <2>1, HistoryAssumption, SMTT(60) DEF Runs
  <2>3. PICK x : x = After(g[m], diffs[m + 1])
    OBVIOUS
  <2>4. x \in World
    BY <2>2, <2>3, AfterIsWorld
  <2>5. PICK k : k = [i \in 0..(m + 1) |-> IF i = m + 1 THEN x ELSE g[i]]
    OBVIOUS
  <2>6. /\ k[m + 1] = x /\ k[0] = g[0]
        /\ \A i \in 0..m : k[i] = g[i]
    BY <2>5, SMTT(60)
  <2>7. k \in [0..(m + 1) -> World]
    <3>1. \A i \in 0..(m + 1) : i # m + 1 => i \in 0..m
      BY SMTT(60)
    <3>2. \A i \in 0..m : g[i] \in World
      BY <2>1 DEF Runs
    <3> QED BY <2>4, <2>5, <3>1, <3>2
  <2>8. ASSUME NEW i \in 1..(m + 1) PROVE k[i] = After(k[i - 1], diffs[i])
    <3>1. CASE i = m + 1
      <4>1. i - 1 = m /\ k[m] = g[m]
        BY <2>6, <3>1, SMTT(60)
      <4> QED BY <2>3, <2>6, <3>1, <4>1
    <3>2. CASE i # m + 1
      <4>1. i \in 1..m /\ i \in 0..m /\ i - 1 \in 0..m
        BY <3>2, SMTT(60)
      <4>2. g[i] = After(g[i - 1], diffs[i])
        BY <2>1, <4>1 DEF Runs
      <4> QED BY <2>6, <4>1, <4>2
    <3> QED BY <3>1, <3>2
  <2>9. Runs(k, diffs, m + 1)
    BY <2>1, <2>6, <2>7, <2>8 DEF Runs
  <2> QED BY <2>9
<1>3. Nat \subseteq S
  <2> HIDE DEF S
  <2> QED BY <1>1, <1>2, SetInduction
<1> QED BY <1>3, SMTT(60)

LEMMA ReplayedRuns ==
  ASSUME NEW diffs \in Seq(Batches)
  PROVE  Runs(Replayed(diffs), diffs, Len(diffs))
<1> DEFINE F(f) == [n \in 0..Len(diffs) |-> IF n = 0 THEN Origin ELSE After(f[n - 1], diffs[n])]
<1>1. Replayed(diffs) = CHOOSE f : f = F(f)
  BY DEF Replayed
<1>2. PICK g : Runs(g, diffs, Len(diffs))
  BY RunExists, SMTT(60)
<1>3. Len(diffs) \in Nat /\ 0 \in 0..Len(diffs)
  BY SMTT(60)
<1>4. g = F(g)
  <2>1. g \in [0..Len(diffs) -> World]
    BY <1>2 DEF Runs
  <2>2. ASSUME NEW n \in 0..Len(diffs)
        PROVE  g[n] = IF n = 0 THEN Origin ELSE After(g[n - 1], diffs[n])
    <3>1. CASE n = 0
      BY <1>2, <3>1 DEF Runs
    <3>2. CASE n # 0
      <4>1. n \in 1..Len(diffs)
        BY <3>2, SMTT(60)
      <4> QED BY <1>2, <3>2, <4>1 DEF Runs
    <3> QED BY <3>1, <3>2
  <2> QED BY <2>1, <2>2
<1>5. PICK r : r = Replayed(diffs)
  OBVIOUS
<1>6. r = F(r)
  BY <1>1, <1>4, <1>5
<1>7. \A n \in 0..Len(diffs) : r[n] = IF n = 0 THEN Origin ELSE After(r[n - 1], diffs[n])
  BY <1>6
<1>8. DOMAIN r = 0..Len(diffs) /\ r = [n \in 0..Len(diffs) |-> r[n]]
  BY <1>6
<1>9. r[0] = Origin /\ \A n \in 1..Len(diffs) : r[n] = After(r[n - 1], diffs[n])
  BY <1>3, <1>7, SMTT(60)
<1> HIDE DEF F
<1>10. \A n \in 0..Len(diffs) : r[n] \in World
  <2> DEFINE S == {m \in Nat : m <= Len(diffs) => r[m] \in World}
  <2>1. 0 \in S
    BY <1>9, HistoryAssumption
  <2>2. ASSUME NEW m \in Nat, m \in S PROVE m + 1 \in S
    <3> SUFFICES ASSUME m + 1 <= Len(diffs) PROVE r[m + 1] \in World
      BY SMTT(60)
    <3>1. r[m] \in World /\ m + 1 \in 1..Len(diffs) /\ (m + 1) - 1 = m
      BY <1>3, <2>2, SMTT(60)
    <3>2. diffs[m + 1] \in Batch
      BY <3>1, HistoryAssumption, SMTT(60)
    <3>3. r[m + 1] = After(r[m], diffs[m + 1])
      BY <1>9, <3>1
    <3> QED BY <3>1, <3>2, <3>3, AfterIsWorld
  <2>3. Nat \subseteq S
    <3> HIDE DEF S
    <3> QED BY <2>1, <2>2, SetInduction
  <2> QED BY <2>3, SMTT(60)
<1>11. r \in [0..Len(diffs) -> World]
  BY <1>8, <1>10
<1> QED BY <1>5, <1>9, <1>11 DEF Runs

(* Two replays of diffs that begin alike agree that far. *)
LEMMA RunsAgree ==
  ASSUME NEW n \in Nat, NEW m \in Nat, n <= m, NEW d, NEW e, \A i \in 1..n : d[i] = e[i],
         NEW f, Runs(f, d, n), NEW g, Runs(g, e, m)
  PROVE  \A i \in 0..n : f[i] = g[i]
<1> DEFINE S == {k \in Nat : k <= n => f[k] = g[k]}
<1>1. 0 \in S
  BY DEF Runs
<1>2. ASSUME NEW k \in Nat, k \in S PROVE k + 1 \in S
  <2> SUFFICES ASSUME k + 1 <= n PROVE f[k + 1] = g[k + 1]
    BY SMTT(60)
  <2>1. k + 1 \in 1..n /\ k + 1 \in 1..m /\ (k + 1) - 1 = k /\ f[k] = g[k]
    BY <1>2, SMTT(60)
  <2>2. f[k + 1] = After(f[k], d[k + 1]) /\ g[k + 1] = After(g[k], e[k + 1])
    BY <2>1 DEF Runs
  <2> QED BY <2>1, <2>2
<1>3. Nat \subseteq S
  <2> HIDE DEF S
  <2> QED BY <1>1, <1>2, SetInduction
<1> QED BY <1>3, SMTT(60)

-----------------------------------------------------------------------------
(* The state at a block, from the diffs alone. *)
StateOf(diffs, h) ==
    Replayed(diffs)[IF h <= Genesis + Len(diffs) THEN h - Genesis ELSE Len(diffs)]

LEMMA StateAtIs ==
  written \in Seq(Batches) =>
    /\ Newest \in Nat /\ Newest >= Genesis /\ Newest - Genesis = Len(written)
    /\ \A h \in Nat : h >= Genesis => StateAt(h) = StateOf(written, h)
<1> SUFFICES ASSUME written \in Seq(Batches)
             PROVE  /\ Newest \in Nat /\ Newest >= Genesis /\ Newest - Genesis = Len(written)
                    /\ \A h \in Nat : h >= Genesis => StateAt(h) = StateOf(written, h)
  OBVIOUS
<1>1. Newest \in Nat /\ Newest >= Genesis /\ Newest - Genesis = Len(written)
  BY HistoryAssumption, SMTT(60) DEF Newest
<1>2. ASSUME NEW h \in Nat, h >= Genesis
      PROVE  StateAt(h) = StateOf(written, h)
  <2>1. PICK n : n = Newest
    OBVIOUS
  <2>2. Min({h, n}) = IF h <= n THEN h ELSE n
    BY <1>1, <2>1, SMTT(60) DEF Min
  <2>3. Min({h, n}) - Genesis = IF h <= n THEN h - Genesis ELSE Len(written)
    BY <1>1, <2>1, <2>2
  <2> QED BY <2>1, <2>3 DEF StateAt, StateOf, Newest
<1> QED BY <1>1, <1>2

LEMMA StateOfIsWorld ==
  ASSUME NEW diffs \in Seq(Batches), NEW h \in Nat, h >= Genesis
  PROVE  StateOf(diffs, h) \in World
<1>1. Runs(Replayed(diffs), diffs, Len(diffs))
  BY ReplayedRuns
<1>2. (IF h <= Genesis + Len(diffs) THEN h - Genesis ELSE Len(diffs)) \in 0..Len(diffs)
  BY HistoryAssumption, SMTT(60)
<1> QED BY <1>1, <1>2 DEF Runs, StateOf

(* The state at a block that is written is final. *)
LEMMA StateIsFinal ==
  ASSUME NEW diffs \in Seq(Batches), NEW b \in Batches,
         NEW h \in Nat, h >= Genesis, h <= Genesis + Len(diffs)
  PROVE  StateOf(Append(diffs, b), h) = StateOf(diffs, h)
<1>1. PICK more : more = Append(diffs, b)
  OBVIOUS
<1>2. /\ more \in Seq(Batches) /\ Len(more) = Len(diffs) + 1
      /\ \A i \in 1..Len(diffs) : diffs[i] = more[i]
  BY <1>1, SMTT(60)
<1>3. Len(diffs) \in Nat /\ Len(more) \in Nat /\ Len(diffs) <= Len(more)
  BY <1>2, SMTT(60)
<1>4. /\ Runs(Replayed(diffs), diffs, Len(diffs))
      /\ Runs(Replayed(more), more, Len(more))
  BY <1>2, ReplayedRuns
<1>5. h - Genesis \in 0..Len(diffs) /\ h <= Genesis + Len(more)
  BY <1>3, HistoryAssumption, SMTT(60)
<1>6. Replayed(diffs)[h - Genesis] = Replayed(more)[h - Genesis]
  <2>1. PICK f, g : f = Replayed(diffs) /\ g = Replayed(more)
    OBVIOUS
  <2>2. Runs(f, diffs, Len(diffs)) /\ Runs(g, more, Len(more))
    BY <1>4, <2>1
  <2>3. PICK n, m : n = Len(diffs) /\ m = Len(more)
    OBVIOUS
  <2>4. n \in Nat /\ m \in Nat /\ n <= m /\ h - Genesis \in 0..n
    BY <1>3, <1>5, <2>3
  <2>5. Runs(f, diffs, n) /\ Runs(g, more, m) /\ \A i \in 1..n : diffs[i] = more[i]
    BY <1>2, <2>2, <2>3
  <2>6. PICK k : k = h - Genesis
    OBVIOUS
  <2>7. n \in Nat /\ m \in Nat /\ n <= m /\ k \in 0..n
    BY <2>4, <2>6
  <2>8. f[k] = g[k]
    BY <2>5, <2>7, RunsAgree, SMTT(60)
  <2> QED BY <2>1, <2>6, <2>8
<1> QED BY <1>1, <1>5, <1>6 DEF StateOf

(* One block on, the state is what its diff makes of it. *)
LEMMA StateSteps ==
  ASSUME NEW diffs \in Seq(Batches), NEW h \in Nat, h >= Genesis, h < Genesis + Len(diffs)
  PROVE  /\ h + 1 - Genesis \in 1..Len(diffs)
         /\ StateOf(diffs, h + 1) = After(StateOf(diffs, h), diffs[h + 1 - Genesis])
<1>1. Runs(Replayed(diffs), diffs, Len(diffs))
  BY ReplayedRuns
<1>2. /\ h + 1 - Genesis \in 1..Len(diffs) /\ (h + 1 - Genesis) - 1 = h - Genesis
      /\ h <= Genesis + Len(diffs) /\ h + 1 <= Genesis + Len(diffs)
  BY HistoryAssumption, SMTT(60)
<1>3. Replayed(diffs)[h + 1 - Genesis] =
        After(Replayed(diffs)[h - Genesis], diffs[h + 1 - Genesis])
  BY <1>1, <1>2 DEF Runs
<1>4. StateOf(diffs, h) = Replayed(diffs)[h - Genesis]
  BY <1>2 DEF StateOf
<1>5. StateOf(diffs, h + 1) = Replayed(diffs)[h + 1 - Genesis]
  <2>1. PICK k : k = h + 1
    OBVIOUS
  <2>2. StateOf(diffs, k) = Replayed(diffs)[k - Genesis]
    BY <1>2, <2>1 DEF StateOf
  <2>3. k - Genesis = h + 1 - Genesis
    BY <2>1, HistoryAssumption, SMTT(60)
  <2> QED BY <2>1, <2>2, <2>3
<1> QED BY <1>2, <1>3, <1>4, <1>5

-----------------------------------------------------------------------------
(***************************************************************************)
(* The file: what is decoded is what was encoded, an account that does not *)
(* exist as well as one that was never read.                               *)
(***************************************************************************)
AccountRec(m, a) ==
    [tag |-> "account", a |-> a, exists |-> m.acct[a] # NoAcct,
     acct |-> IF m.acct[a] = NoAcct THEN None ELSE m.acct[a]]

SlotRec(m, a, s) == [tag |-> "slot", a |-> a, s |-> s, v |-> m.slot[a][s]]

LEMMA RecordsAre ==
  ASSUME NEW m \in Map, NEW e
  PROVE  e \in Encoded(m) <=>
           \/ \E a \in Addr : m.acct[a] # None /\ e = AccountRec(m, a)
           \/ \E a \in Addr, s \in Slot : m.slot[a][s] # None /\ e = SlotRec(m, a, s)
<1> DEFINE A == {AccountRec(m, a) : a \in {x \in Addr : m.acct[x] # None}}
           S == {SlotRec(m, k[1], k[2]) : k \in {x \in Addr \X Slot : m.slot[x[1]][x[2]] # None}}
<1>1. Encoded(m) = A \cup S
  BY DEF Encoded, AccountRec, SlotRec
<1>2. e \in A <=> \E a \in Addr : m.acct[a] # None /\ e = AccountRec(m, a)
  OBVIOUS
<1>3. e \in S <=> \E k \in Addr \X Slot : m.slot[k[1]][k[2]] # None /\ e = SlotRec(m, k[1], k[2])
  OBVIOUS
<1>4. (\E k \in Addr \X Slot : m.slot[k[1]][k[2]] # None /\ e = SlotRec(m, k[1], k[2]))
        <=> \E a \in Addr, s \in Slot : m.slot[a][s] # None /\ e = SlotRec(m, a, s)
  <2>1. ASSUME NEW k \in Addr \X Slot, m.slot[k[1]][k[2]] # None, e = SlotRec(m, k[1], k[2])
        PROVE  \E a \in Addr, s \in Slot : m.slot[a][s] # None /\ e = SlotRec(m, a, s)
    <3>1. k[1] \in Addr /\ k[2] \in Slot
      OBVIOUS
    <3> QED BY <2>1, <3>1
  <2>2. ASSUME NEW a \in Addr, NEW s \in Slot, m.slot[a][s] # None, e = SlotRec(m, a, s)
        PROVE  \E k \in Addr \X Slot : m.slot[k[1]][k[2]] # None /\ e = SlotRec(m, k[1], k[2])
    <3>1. PICK k : k = <<a, s>>
      OBVIOUS
    <3>2. k \in Addr \X Slot /\ k[1] = a /\ k[2] = s
      BY <3>1
    <3> QED BY <2>2, <3>2
  <2> QED BY <2>1, <2>2
<1> QED BY <1>1, <1>2, <1>3, <1>4

LEMMA RecordFields ==
  ASSUME NEW m \in Map, NEW a \in Addr
  PROVE  /\ AccountRec(m, a).tag = "account" /\ AccountRec(m, a).a = a
         /\ AccountRec(m, a).exists <=> m.acct[a] # NoAcct
         /\ AccountRec(m, a).acct = IF m.acct[a] = NoAcct THEN None ELSE m.acct[a]
         /\ \A s \in Slot : /\ SlotRec(m, a, s).tag = "slot" /\ SlotRec(m, a, s).a = a
                            /\ SlotRec(m, a, s).s = s /\ SlotRec(m, a, s).v = m.slot[a][s]
  BY DEF AccountRec, SlotRec

LEMMA DecodedEncoded ==
  ASSUME NEW m \in Map
  PROVE  Decoded(Encoded(m)) = m
<1>1. PICK recs : recs = Encoded(m)
  OBVIOUS
<1>2. \A e : e \in recs <=>
         \/ \E a \in Addr : m.acct[a] # None /\ e = AccountRec(m, a)
         \/ \E a \in Addr, s \in Slot : m.slot[a][s] # None /\ e = SlotRec(m, a, s)
  BY <1>1, RecordsAre
<1>3. ASSUME NEW a \in Addr
      PROVE  Decoded(recs).acct[a] = m.acct[a]
  <2>1. PICK r : r = {e \in recs : e.tag = "account" /\ e.a = a}
    OBVIOUS
  <2>2. Decoded(recs).acct[a] =
          IF r = {} THEN None
          ELSE LET e == CHOOSE e \in r : TRUE IN IF e.exists THEN e.acct ELSE NoAcct
    BY <2>1, SMTT(60) DEF Decoded
  <2>3. \A e : e \in r <=> m.acct[a] # None /\ e = AccountRec(m, a)
    BY <1>2, <2>1, RecordFields, SMTT(60)
  <2>4. CASE m.acct[a] = None
    <3>1. r = {}
      BY <2>3, <2>4
    <3> QED BY <2>2, <2>4, <3>1
  <2>5. CASE m.acct[a] # None
    <3>1. r # {} /\ (CHOOSE e \in r : TRUE) = AccountRec(m, a)
      BY <2>3, <2>5
    <3>2. Decoded(recs).acct[a] =
            IF AccountRec(m, a).exists THEN AccountRec(m, a).acct ELSE NoAcct
      BY <2>2, <3>1
    <3> QED BY <3>2, RecordFields, SMTT(60)
  <2> QED BY <2>4, <2>5
<1>4. ASSUME NEW a \in Addr, NEW s \in Slot
      PROVE  Decoded(recs).slot[a][s] = m.slot[a][s]
  <2>1. PICK r : r = {e \in recs : e.tag = "slot" /\ e.a = a /\ e.s = s}
    OBVIOUS
  <2>2. Decoded(recs).slot[a][s] = IF r = {} THEN None ELSE (CHOOSE e \in r : TRUE).v
    BY <2>1, SMTT(60) DEF Decoded
  <2>3. \A e : e \in r <=> m.slot[a][s] # None /\ e = SlotRec(m, a, s)
    BY <1>2, <2>1, RecordFields, SMTT(60)
  <2>4. CASE m.slot[a][s] = None
    <3>1. r = {}
      BY <2>3, <2>4
    <3> QED BY <2>2, <2>4, <3>1
  <2>5. CASE m.slot[a][s] # None
    <3>1. r # {} /\ (CHOOSE e \in r : TRUE) = SlotRec(m, a, s)
      BY <2>3, <2>5
    <3>2. Decoded(recs).slot[a][s] = SlotRec(m, a, s).v
      BY <2>2, <3>1
    <3> QED BY <3>2, RecordFields, SMTT(60)
  <2> QED BY <2>4, <2>5
<1>5. PICK d : d = Decoded(recs)
  OBVIOUS
<1>6. /\ d = [acct |-> d.acct, slot |-> d.slot]
      /\ d.acct = [a \in Addr |-> d.acct[a]]
      /\ d.slot = [a \in Addr |-> [s \in Slot |-> d.slot[a][s]]]
  BY <1>5, SMTT(60) DEF Decoded
<1>7. /\ m = [acct |-> m.acct, slot |-> m.slot]
      /\ m.acct = [a \in Addr |-> m.acct[a]]
      /\ m.slot = [a \in Addr |-> [s \in Slot |-> m.slot[a][s]]]
  BY DEF Map
<1>8. d.acct = m.acct
  BY <1>3, <1>5, <1>6, <1>7
<1>9. d.slot = m.slot
  <2>1. \A a \in Addr : \A s \in Slot : d.slot[a][s] = m.slot[a][s]
    BY <1>4, <1>5
  <2> QED BY <1>6, <1>7, <2>1, SMTT(60)
<1> QED BY <1>1, <1>5, <1>6, <1>7, <1>8, <1>9

LEMMA EmptyMapFacts ==
  EmptyMap \in Map /\ Decoded({}) = EmptyMap /\ \A w \in World : Agrees(EmptyMap, w)
<1>1. EmptyMap \in Map
  BY DEF EmptyMap, Map
<1>2. Decoded({}) = EmptyMap
  BY DEF Decoded, EmptyMap
<1>3. \A w \in World : Agrees(EmptyMap, w)
  BY DEF Agrees, EmptyMap
<1> QED BY <1>1, <1>2, <1>3
-----------------------------------------------------------------------------
(***************************************************************************)
(* Pinning a key from the state a map agrees with, and applying the diff   *)
(* that the state takes, keep the agreement.                               *)
(***************************************************************************)
LEMMA PinnedAccountAgrees ==
  ASSUME NEW m \in Map, NEW w \in World, NEW a \in Addr
  PROVE  /\ PinnedAccount(m, a, w) \in Map
         /\ Agrees(m, w) => Agrees(PinnedAccount(m, a, w), w)
<1>1. PICK p : p = PinnedAccount(m, a, w)
  OBVIOUS
<1>2. /\ p = [acct |-> [m.acct EXCEPT ![a] = Else(@, w.acct[a])], slot |-> m.slot]
      /\ p.slot = m.slot
      /\ p.acct = [m.acct EXCEPT ![a] = Else(@, w.acct[a])]
  BY <1>1 DEF PinnedAccount, Map
<1>3. \A x \in Addr : p.acct[x] = IF x = a THEN Else(m.acct[a], w.acct[a]) ELSE m.acct[x]
  BY <1>2 DEF Map
<1>4. p \in Map
  <2>1. m.acct \in [Addr -> Acct \cup {NoAcct, None}] /\ m.slot \in [Addr -> [Slot -> Val \cup {None}]]
    BY DEF Map
  <2>2. Else(m.acct[a], w.acct[a]) \in Acct \cup {NoAcct, None}
    BY <2>1 DEF Else, World
  <2>3. p.acct \in [Addr -> Acct \cup {NoAcct, None}]
    BY <1>2, <2>1, <2>2
  <2> QED BY <1>2, <2>1, <2>3 DEF Map
<1>5. ASSUME Agrees(m, w) PROVE Agrees(p, w)
  <2>1. \A x \in Addr : m.acct[x] \in {None, w.acct[x]}
    BY <1>5 DEF Agrees
  <2>2. \A x \in Addr : p.acct[x] \in {None, w.acct[x]}
    BY <1>3, <2>1 DEF Else
  <2>3. \A x \in Addr, s \in Slot : p.slot[x][s] \in {None, w.slot[x][s]}
    BY <1>2, <1>5 DEF Agrees
  <2> QED BY <2>2, <2>3 DEF Agrees
<1> QED BY <1>1, <1>4, <1>5

LEMMA PinnedSlotAgrees ==
  ASSUME NEW m \in Map, NEW w \in World, NEW a \in Addr, NEW s \in Slot
  PROVE  /\ PinnedSlot(m, a, s, w) \in Map
         /\ Agrees(m, w) => Agrees(PinnedSlot(m, a, s, w), w)
<1>1. PICK p : p = PinnedSlot(m, a, s, w)
  OBVIOUS
<1>2. PICK v : v = Else(m.slot[a][s], w.slot[a][s])
  OBVIOUS
<1>3. /\ m.acct \in [Addr -> Acct \cup {NoAcct, None}]
      /\ m.slot \in [Addr -> [Slot -> Val \cup {None}]]
      /\ v \in Val \cup {None}
  BY <1>2, SMTT(60) DEF Map, Else, World
<1>4. /\ p = [acct |-> m.acct, slot |-> [m.slot EXCEPT ![a] = [@ EXCEPT ![s] = v]]]
      /\ p.acct = m.acct
      /\ p.slot = [m.slot EXCEPT ![a] = [@ EXCEPT ![s] = v]]
  BY <1>1, <1>2 DEF PinnedSlot, Map
<1>5. p.slot \in [Addr -> [Slot -> Val \cup {None}]]
  BY <1>3, <1>4
<1>6. p \in Map
  BY <1>3, <1>4, <1>5 DEF Map
<1>7. \A x \in Addr, y \in Slot : p.slot[x][y] = IF x = a /\ y = s THEN v ELSE m.slot[x][y]
  BY <1>3, <1>4
<1>8. ASSUME Agrees(m, w) PROVE Agrees(p, w)
  <2>1. \A x \in Addr, y \in Slot : m.slot[x][y] \in {None, w.slot[x][y]}
    BY <1>8 DEF Agrees
  <2>2. \A x \in Addr, y \in Slot : p.slot[x][y] \in {None, w.slot[x][y]}
    BY <1>2, <1>7, <2>1, SMTT(60) DEF Else
  <2>3. \A x \in Addr : p.acct[x] \in {None, w.acct[x]}
    BY <1>4, <1>8 DEF Agrees
  <2> QED BY <2>2, <2>3 DEF Agrees
<1> QED BY <1>1, <1>6, <1>8

LEMMA ApplyAgrees ==
  ASSUME NEW m \in Map, NEW w \in World, NEW b \in Batch
  PROVE  /\ Apply(m, b) \in Map
         /\ Agrees(m, w) => Agrees(Apply(m, b), After(w, b))
<1>1. PICK p : p = Apply(m, b)
  OBVIOUS
<1>2. /\ p = [acct |-> p.acct, slot |-> p.slot]
      /\ p.acct = [a \in Addr |-> IF m.acct[a] = None THEN None ELSE AcctAfter(m.acct[a], b, a)]
      /\ p.slot = [a \in Addr |-> [s \in Slot |->
           IF m.slot[a][s] = None THEN None ELSE SlotAfter(m.slot[a][s], b, a, s)]]
  BY <1>1 DEF Apply
<1>3. p.acct \in [Addr -> Acct \cup {NoAcct, None}]
  <2>1. \A a \in Addr : m.acct[a] \in Acct \cup {NoAcct, None} /\ b.acct[a] \in Acct \cup {None}
    BY DEF Map, Batch
  <2>2. \A a \in Addr : AcctAfter(m.acct[a], b, a) \in Acct \cup {NoAcct, None}
    BY <2>1 DEF AcctAfter
  <2> QED BY <1>2, <2>2
<1>4. p.slot \in [Addr -> [Slot -> Val \cup {None}]]
  <2>1. \A a \in Addr, s \in Slot : m.slot[a][s] \in Val \cup {None} /\ b.slot[a][s] \in Val \cup {None}
    BY SMTT(60) DEF Map, Batch
  <2>2. \A a \in Addr, s \in Slot : SlotAfter(m.slot[a][s], b, a, s) \in Val \cup {None}
    BY <2>1, DataAssumption DEF SlotAfter
  <2> QED BY <1>2, <2>2, SMTT(60)
<1>5. p \in Map
  BY <1>2, <1>3, <1>4 DEF Map
<1>6. ASSUME Agrees(m, w) PROVE Agrees(p, After(w, b))
  <2>1. PICK x : x = After(w, b)
    OBVIOUS
  <2>2. /\ \A a \in Addr : x.acct[a] = AcctAfter(w.acct[a], b, a)
        /\ \A a \in Addr, s \in Slot : x.slot[a][s] = SlotAfter(w.slot[a][s], b, a, s)
    BY <2>1 DEF After
  <2>3. /\ \A a \in Addr : m.acct[a] \in {None, w.acct[a]}
        /\ \A a \in Addr, s \in Slot : m.slot[a][s] \in {None, w.slot[a][s]}
    BY <1>6 DEF Agrees
  <2>4. ASSUME NEW a \in Addr PROVE p.acct[a] \in {None, x.acct[a]}
    <3>1. p.acct[a] = IF m.acct[a] = None THEN None ELSE AcctAfter(m.acct[a], b, a)
      BY <1>2
    <3>2. CASE m.acct[a] = None
      BY <3>1, <3>2
    <3>3. CASE m.acct[a] = w.acct[a]
      BY <2>2, <3>1, <3>3
    <3> QED BY <2>3, <3>2, <3>3
  <2>5. \A a \in Addr, s \in Slot : p.slot[a][s] \in {None, x.slot[a][s]}
    BY <1>2, <2>2, <2>3, SMTT(60)
  <2> QED BY <2>1, <2>4, <2>5 DEF Agrees
<1> QED BY <1>1, <1>5, <1>6

-----------------------------------------------------------------------------
(***************************************************************************)
(* A map is final for a block if it agrees with the state at the block and *)
(* that state can change no more: a block that is not written yet answers  *)
(* with the newest state, which the next diff changes.                     *)
(***************************************************************************)
Final(diffs, m, h) ==
    /\ h <= Genesis + Len(diffs) \/ m = EmptyMap
    /\ Agrees(m, StateOf(diffs, h))

(***************************************************************************)
(* The inductive invariant.  CacheExact needs the file: a map that is      *)
(* loaded is as good as the records that were saved.                       *)
(***************************************************************************)
HistoryTypes ==
    /\ written \in Seq(Batches)
    /\ session \in [open : BOOLEAN, block : Nat, map : Map] /\ session.block >= Genesis
    /\ cache \in [open : BOOLEAN, db : BOOLEAN, dirty : BOOLEAN, map : Map]
    /\ Decoded(file.recs) \in Map

SessionFresh ==
    session.open /\ "session" \notin early => Final(written, session.map, session.block)

CacheFresh ==
    "cache" \notin early =>
      Final(written, cache.map, SuiteBlock) /\ Final(written, Decoded(file.recs), SuiteBlock)

HistoryInv == HistoryTypes /\ SessionFresh /\ CacheFresh

LEMMA FinalStays ==
  ASSUME NEW diffs \in Seq(Batches), NEW b \in Batches, NEW m, NEW h \in Nat, h >= Genesis,
         Final(diffs, m, h)
  PROVE  Final(Append(diffs, b), m, h)
<1>1. PICK more : more = Append(diffs, b)
  OBVIOUS
<1>2. more \in Seq(Batches) /\ Len(more) = Len(diffs) + 1 /\ Len(diffs) \in Nat
  BY <1>1, SMTT(60)
<1>3. CASE h <= Genesis + Len(diffs)
  <2>1. h <= Genesis + Len(more)
    BY <1>2, <1>3, HistoryAssumption, SMTT(60)
  <2>2. StateOf(more, h) = StateOf(diffs, h)
    BY <1>1, <1>3, StateIsFinal
  <2> QED BY <1>1, <2>1, <2>2 DEF Final
<1>4. CASE m = EmptyMap
  <2>1. StateOf(more, h) \in World
    BY <1>2, StateOfIsWorld
  <2> QED BY <1>1, <1>4, <2>1, EmptyMapFacts DEF Final
<1> QED BY <1>3, <1>4 DEF Final

LEMMA EmptyIsFinal ==
  ASSUME NEW diffs \in Seq(Batches), NEW h \in Nat, h >= Genesis
  PROVE  Final(diffs, EmptyMap, h)
  BY StateOfIsWorld, EmptyMapFacts DEF Final

LEMMA HistoryInit0 == HistoryInit => HistoryInv
<1> SUFFICES ASSUME HistoryInit PROVE HistoryInv
  OBVIOUS
<1>1. /\ written = <<>> /\ session = Closed /\ cache = ClosedCache /\ file.recs = {}
  BY DEF HistoryInit, NoFile
<1>2. written \in Seq(Batches)
  BY <1>1, SMTT(60)
<1>3. HistoryTypes
  BY <1>1, <1>2, EmptyMapFacts, HistoryAssumption, SMTT(60) DEF HistoryTypes, Closed, ClosedCache
<1>4. SessionFresh
  BY <1>1 DEF SessionFresh, Closed
<1>5. CacheFresh
  <2>1. cache.map = EmptyMap /\ Decoded(file.recs) = EmptyMap
    BY <1>1, EmptyMapFacts DEF ClosedCache
  <2>2. Final(written, EmptyMap, SuiteBlock)
    BY <1>2, EmptyIsFinal, HistoryAssumption
  <2> QED BY <2>1, <2>2 DEF CacheFresh
<1> QED BY <1>3, <1>4, <1>5 DEF HistoryInv

(* What the session does leaves the cache alone, and the other way round. *)
LEMMA CacheAside ==
  ASSUME HistoryInv, UNCHANGED <<written, cache, file>>, early \ {"session"} \subseteq early'
  PROVE  CacheFresh'
<1>1. "cache" \notin early' => "cache" \notin early
  OBVIOUS
<1> QED BY <1>1 DEF HistoryInv, CacheFresh

LEMMA SessionAside ==
  ASSUME HistoryInv, UNCHANGED <<written, session>>, early \subseteq early'
  PROVE  SessionFresh'
<1>1. "session" \notin early' => "session" \notin early
  OBVIOUS
<1> QED BY <1>1 DEF HistoryInv, SessionFresh

LEMMA WriteDiffKeeps ==
  ASSUME HistoryInv, NEW b \in Batches, WriteDiff(b)
  PROVE  HistoryInv'
<1>1. written' = Append(written, b) /\ UNCHANGED <<session, cache, file, early>>
  BY DEF WriteDiff
<1>2. HistoryTypes /\ SessionFresh /\ CacheFresh /\ written \in Seq(Batches)
  BY DEF HistoryInv, HistoryTypes
<1>3. HistoryTypes'
  BY <1>1, <1>2, SMTT(60) DEF HistoryTypes
<1>4. SessionFresh'
  <2>1. session.block \in Nat /\ session.block >= Genesis
    BY <1>2 DEF HistoryTypes
  <2> QED BY <1>1, <1>2, <2>1, FinalStays DEF SessionFresh
<1>5. CacheFresh'
  BY <1>1, <1>2, FinalStays, HistoryAssumption DEF CacheFresh
<1> QED BY <1>3, <1>4, <1>5 DEF HistoryInv

LEMMA OpenSessionKeeps ==
  ASSUME HistoryInv, NEW h \in Nat, h >= Genesis, OpenSession(h)
  PROVE  HistoryInv'
<1>1. /\ session' = [open |-> TRUE, block |-> h, map |-> EmptyMap]
      /\ early' = early \ {"session"} /\ UNCHANGED <<written, cache, file>>
  BY DEF OpenSession
<1>2. HistoryTypes /\ written \in Seq(Batches)
  BY DEF HistoryInv, HistoryTypes
<1>3. HistoryTypes'
  BY <1>1, <1>2, EmptyMapFacts DEF HistoryTypes
<1>4. SessionFresh'
  BY <1>1, <1>2, EmptyIsFinal DEF SessionFresh
<1>5. CacheFresh'
  BY <1>1, CacheAside
<1> QED BY <1>3, <1>4, <1>5 DEF HistoryInv

LEMMA NextDiffKeeps ==
  ASSUME HistoryInv, NextDiff
  PROVE  HistoryInv'
<1>1. PICK m, h : m = session.map /\ h = session.block
  OBVIOUS
<1>2. HistoryTypes /\ written \in Seq(Batches) /\ Len(written) \in Nat
  BY SMTT(60) DEF HistoryInv, HistoryTypes
<1>3. m \in Map /\ h \in Nat /\ h >= Genesis /\ session.open \in BOOLEAN
  BY <1>1, <1>2 DEF HistoryTypes
<1>4. session.open /\ h < Genesis + Len(written) /\ UNCHANGED <<written, cache, file, early>>
  BY <1>1 DEF NextDiff, Newest
<1>5. PICK b : b = written[h + 1 - Genesis]
  OBVIOUS
<1>6. h + 1 - Genesis \in 1..Len(written)
  BY <1>2, <1>3, <1>4, StateSteps
<1>7. b \in Batch
  BY <1>2, <1>5, <1>6, HistoryAssumption, SMTT(60)
<1>8. session' = [open |-> session.open, block |-> h + 1, map |-> Apply(m, b)]
  BY <1>1, <1>2, <1>5 DEF NextDiff, HistoryTypes
<1>9. PICK w : w = StateOf(written, h)
  OBVIOUS
<1>10. w \in World /\ StateOf(written, h + 1) = After(w, b)
  BY <1>2, <1>3, <1>4, <1>5, <1>9, StateSteps, StateOfIsWorld
<1>11. HistoryTypes'
  <2>1. Apply(m, b) \in Map
    BY <1>3, <1>7, <1>10, ApplyAgrees
  <2>2. session' \in [open : BOOLEAN, block : Nat, map : Map] /\ session'.block >= Genesis
    BY <1>3, <1>8, <2>1, HistoryAssumption, SMTT(60)
  <2> QED BY <1>2, <1>4, <2>2 DEF HistoryTypes
<1>12. SessionFresh'
  <2> SUFFICES ASSUME "session" \notin early PROVE Final(written, Apply(m, b), h + 1)
    BY <1>4, <1>8 DEF SessionFresh
  <2>1. Agrees(m, w)
    BY <1>1, <1>4, <1>9 DEF HistoryInv, SessionFresh, Final
  <2>2. Agrees(Apply(m, b), After(w, b))
    BY <1>3, <1>7, <1>10, <2>1, ApplyAgrees
  <2>3. h + 1 <= Genesis + Len(written)
    BY <1>2, <1>3, <1>4, HistoryAssumption, SMTT(60)
  <2> QED BY <1>10, <2>2, <2>3 DEF Final
<1>13. CacheFresh'
  BY <1>4, CacheAside
<1> QED BY <1>11, <1>12, <1>13 DEF HistoryInv

(***************************************************************************)
(* A session that pins what it read at its block.                          *)
(***************************************************************************)
LEMMA SessionPinKeeps ==
  ASSUME HistoryInv, session.open, NEW w, w = StateOf(written, session.block),
         NEW m \in Map, Agrees(session.map, w) => Agrees(m, w),
         session' = [session EXCEPT !.map = m],
         early' = IF session.block > Newest THEN early \cup {"session"} ELSE early,
         UNCHANGED <<written, cache, file>>
  PROVE  HistoryInv'
<1>1. HistoryTypes /\ written \in Seq(Batches) /\ Len(written) \in Nat
  BY SMTT(60) DEF HistoryInv, HistoryTypes
<1>2. PICK h : h = session.block
  OBVIOUS
<1>3. h \in Nat /\ h >= Genesis
  BY <1>1, <1>2 DEF HistoryTypes
<1>4. session' = [open |-> session.open, block |-> h, map |-> m]
  BY <1>1, <1>2 DEF HistoryTypes
<1>5. HistoryTypes'
  BY <1>1, <1>3, <1>4 DEF HistoryTypes
<1>6. SessionFresh'
  <2> SUFFICES ASSUME "session" \notin early' PROVE Final(written, m, h)
    BY <1>4, SMTT(60) DEF SessionFresh
  <2>1. ~ (h > Newest) /\ "session" \notin early
    BY <1>2
  <2>2. h <= Genesis + Len(written)
    BY <1>1, <1>3, <2>1, HistoryAssumption, SMTT(60) DEF Newest
  <2>3. Agrees(session.map, w)
    BY <1>2, <2>1 DEF HistoryInv, SessionFresh, Final
  <2> QED BY <1>2, <2>2, <2>3 DEF Final
<1>7. CacheFresh'
  <2>1. early \ {"session"} \subseteq early'
    OBVIOUS
  <2> QED BY <2>1, CacheAside
<1> QED BY <1>5, <1>6, <1>7 DEF HistoryInv

LEMMA SessionReads ==
  ASSUME HistoryInv
  PROVE  SessionRead = StateOf(written, session.block) /\ SessionRead \in World
<1>1. written \in Seq(Batches) /\ session.block \in Nat /\ session.block >= Genesis
  BY DEF HistoryInv, HistoryTypes
<1> QED BY <1>1, StateAtIs, StateOfIsWorld DEF SessionRead

LEMMA SessionAccountKeeps ==
  ASSUME HistoryInv, NEW a \in Addr, SessionAccount(a)
  PROVE  HistoryInv'
<1>1. PICK w : w = SessionRead
  OBVIOUS
<1>2. w = StateOf(written, session.block) /\ w \in World /\ session.map \in Map
  BY <1>1, SessionReads DEF HistoryInv, HistoryTypes
<1>3. PICK m : m = PinnedAccount(session.map, a, w)
  OBVIOUS
<1>4. m \in Map /\ (Agrees(session.map, w) => Agrees(m, w))
  BY <1>2, <1>3, PinnedAccountAgrees
<1>5. /\ session.open /\ session' = [session EXCEPT !.map = m]
      /\ early' = IF session.block > Newest THEN early \cup {"session"} ELSE early
      /\ UNCHANGED <<written, cache, file>>
  BY <1>1, <1>3 DEF SessionAccount, ReadAt
<1> QED BY <1>2, <1>4, <1>5, SessionPinKeeps

LEMMA SessionSlotKeeps ==
  ASSUME HistoryInv, NEW a \in Addr, NEW s \in Slot, SessionSlot(a, s)
  PROVE  HistoryInv'
<1>1. PICK w : w = SessionRead
  OBVIOUS
<1>2. w = StateOf(written, session.block) /\ w \in World /\ session.map \in Map
  BY <1>1, SessionReads DEF HistoryInv, HistoryTypes
<1>3. PICK k : k = PinnedAccount(session.map, a, w)
  OBVIOUS
<1>4. PICK m : m = PinnedSlot(k, a, s, w)
  OBVIOUS
<1>5. k \in Map /\ (Agrees(session.map, w) => Agrees(k, w))
  BY <1>2, <1>3, PinnedAccountAgrees
<1>6. m \in Map /\ (Agrees(k, w) => Agrees(m, w))
  BY <1>2, <1>4, <1>5, PinnedSlotAgrees
<1>7. /\ session.open /\ session' = [session EXCEPT !.map = m]
      /\ early' = IF session.block > Newest THEN early \cup {"session"} ELSE early
      /\ UNCHANGED <<written, cache, file>>
  BY <1>1, <1>3, <1>4 DEF SessionSlot, ReadAt
<1> QED BY <1>2, <1>5, <1>6, <1>7, SessionPinKeeps

-----------------------------------------------------------------------------
(***************************************************************************)
(* The same for the cache, which reads at SuiteBlock.                      *)
(***************************************************************************)
LEMMA CachePinKeeps ==
  ASSUME HistoryInv, NEW w, w = StateOf(written, SuiteBlock),
         NEW m \in Map, Agrees(cache.map, w) => Agrees(m, w),
         cache' = [cache EXCEPT !.map = m, !.dirty = TRUE],
         early' = IF SuiteBlock > Newest THEN early \cup {"cache"} ELSE early,
         UNCHANGED <<written, session, file>>
  PROVE  HistoryInv'
<1>1. HistoryTypes /\ written \in Seq(Batches) /\ Len(written) \in Nat
  BY SMTT(60) DEF HistoryInv, HistoryTypes
<1>2. cache' = [open |-> cache.open, db |-> cache.db, dirty |-> TRUE, map |-> m]
  BY <1>1 DEF HistoryTypes
<1>3. HistoryTypes'
  BY <1>1, <1>2 DEF HistoryTypes
<1>4. SessionFresh'
  <2>1. early \subseteq early'
    OBVIOUS
  <2> QED BY <2>1, SessionAside
<1>5. CacheFresh'
  <2> SUFFICES ASSUME "cache" \notin early'
               PROVE  Final(written, m, SuiteBlock) /\ Final(written, Decoded(file.recs), SuiteBlock)
    BY <1>2 DEF CacheFresh
  <2>1. ~ (SuiteBlock > Newest) /\ "cache" \notin early
    OBVIOUS
  <2>2. SuiteBlock <= Genesis + Len(written)
    BY <1>1, <2>1, HistoryAssumption, SMTT(60) DEF Newest
  <2>3. Final(written, cache.map, SuiteBlock) /\ Final(written, Decoded(file.recs), SuiteBlock)
    BY <2>1 DEF HistoryInv, CacheFresh
  <2>4. Agrees(m, w)
    BY <2>3 DEF Final
  <2> QED BY <2>2, <2>3, <2>4 DEF Final
<1> QED BY <1>3, <1>4, <1>5 DEF HistoryInv

LEMMA CacheReads ==
  ASSUME HistoryInv
  PROVE  CacheRead = StateOf(written, SuiteBlock) /\ CacheRead \in World
<1>1. written \in Seq(Batches)
  BY DEF HistoryInv, HistoryTypes
<1> QED BY <1>1, StateAtIs, StateOfIsWorld, HistoryAssumption DEF CacheRead

LEMMA CacheAccountKeeps ==
  ASSUME HistoryInv, NEW a \in Addr, CacheAccount(a)
  PROVE  HistoryInv'
<1>1. PICK w : w = CacheRead
  OBVIOUS
<1>2. w = StateOf(written, SuiteBlock) /\ w \in World /\ cache.map \in Map
  BY <1>1, CacheReads DEF HistoryInv, HistoryTypes
<1>3. PICK m : m = PinnedAccount(cache.map, a, w)
  OBVIOUS
<1>4. m \in Map /\ (Agrees(cache.map, w) => Agrees(m, w))
  BY <1>2, <1>3, PinnedAccountAgrees
<1>5. /\ cache' = [cache EXCEPT !.map = m, !.dirty = TRUE]
      /\ early' = IF SuiteBlock > Newest THEN early \cup {"cache"} ELSE early
      /\ UNCHANGED <<written, session, file>>
  BY <1>1, <1>3 DEF CacheAccount, ReadAt
<1> QED BY <1>2, <1>4, <1>5, CachePinKeeps

LEMMA CacheSlotKeeps ==
  ASSUME HistoryInv, NEW a \in Addr, NEW s \in Slot, CacheSlot(a, s)
  PROVE  HistoryInv'
<1>1. PICK w : w = CacheRead
  OBVIOUS
<1>2. w = StateOf(written, SuiteBlock) /\ w \in World /\ cache.map \in Map
  BY <1>1, CacheReads DEF HistoryInv, HistoryTypes
<1>3. PICK m : m = PinnedSlot(cache.map, a, s, w)
  OBVIOUS
<1>4. m \in Map /\ (Agrees(cache.map, w) => Agrees(m, w))
  BY <1>2, <1>3, PinnedSlotAgrees
<1>5. /\ cache' = [cache EXCEPT !.map = m, !.dirty = TRUE]
      /\ early' = IF SuiteBlock > Newest THEN early \cup {"cache"} ELSE early
      /\ UNCHANGED <<written, session, file>>
  BY <1>1, <1>3 DEF CacheSlot, ReadAt
<1> QED BY <1>2, <1>4, <1>5, CachePinKeeps

LEMMA OpenCacheKeeps ==
  ASSUME HistoryInv, NEW d \in BOOLEAN, OpenCache(d)
  PROVE  HistoryInv'
<1>1. /\ cache' = [open |-> TRUE, db |-> d, dirty |-> FALSE, map |-> Decoded(file.recs)]
      /\ UNCHANGED <<written, session, file, early>>
  BY DEF OpenCache
<1>2. HistoryTypes'
  BY <1>1 DEF HistoryInv, HistoryTypes
<1>3. SessionFresh'
  BY <1>1, SessionAside
<1>4. CacheFresh'
  BY <1>1 DEF HistoryInv, CacheFresh
<1> QED BY <1>2, <1>3, <1>4 DEF HistoryInv

LEMMA CloseCacheKeeps ==
  ASSUME HistoryInv, CloseCache
  PROVE  HistoryInv'
<1>1. cache' = ClosedCache /\ UNCHANGED <<written, session, early>>
  BY DEF CloseCache
<1>2. HistoryTypes /\ written \in Seq(Batches) /\ cache.map \in Map
  BY DEF HistoryInv, HistoryTypes
<1>3. Decoded(file'.recs) = IF cache.dirty THEN cache.map ELSE Decoded(file.recs)
  <2>1. CASE cache.dirty
    <3>1. file'.recs = Encoded(cache.map)
      BY <2>1 DEF CloseCache
    <3> QED BY <1>2, <2>1, <3>1, DecodedEncoded
  <2>2. CASE ~cache.dirty
    BY <2>2 DEF CloseCache
  <2> QED BY <2>1, <2>2
<1>4. ClosedCache \in [open : BOOLEAN, db : BOOLEAN, dirty : BOOLEAN, map : Map]
  BY EmptyMapFacts DEF ClosedCache
<1>5. Decoded(file'.recs) \in Map
  BY <1>2, <1>3 DEF HistoryTypes
<1>6. HistoryTypes'
  BY <1>1, <1>2, <1>4, <1>5 DEF HistoryTypes
<1>7. SessionFresh'
  BY <1>1, SessionAside
<1>8. CacheFresh'
  <2> SUFFICES ASSUME "cache" \notin early
               PROVE  /\ Final(written, EmptyMap, SuiteBlock)
                      /\ Final(written, Decoded(file'.recs), SuiteBlock)
    BY <1>1 DEF CacheFresh, ClosedCache
  <2>1. Final(written, cache.map, SuiteBlock) /\ Final(written, Decoded(file.recs), SuiteBlock)
    BY DEF HistoryInv, CacheFresh
  <2>2. Final(written, EmptyMap, SuiteBlock)
    BY <1>2, EmptyIsFinal, HistoryAssumption
  <2> QED BY <1>3, <2>1, <2>2
<1> QED BY <1>6, <1>7, <1>8 DEF HistoryInv

LEMMA ReaderDiesKeeps ==
  ASSUME HistoryInv, ReaderDies
  PROVE  HistoryInv'
<1>1. cache' = ClosedCache /\ session' = Closed /\ UNCHANGED <<written, file, early>>
  BY DEF ReaderDies
<1>2. HistoryTypes /\ written \in Seq(Batches)
  BY DEF HistoryInv, HistoryTypes
<1>3. HistoryTypes'
  BY <1>1, <1>2, EmptyMapFacts, HistoryAssumption, SMTT(60) DEF HistoryTypes, Closed, ClosedCache
<1>4. SessionFresh'
  BY <1>1 DEF SessionFresh, Closed
<1>5. CacheFresh'
  <2>1. Final(written, EmptyMap, SuiteBlock)
    BY <1>2, EmptyIsFinal, HistoryAssumption
  <2> QED BY <1>1, <2>1 DEF HistoryInv, CacheFresh, ClosedCache
<1> QED BY <1>3, <1>4, <1>5 DEF HistoryInv

LEMMA HistoryStep == HistoryInv /\ [HistoryNext]_historyVars => HistoryInv'
<1> SUFFICES ASSUME HistoryInv, [HistoryNext]_historyVars PROVE HistoryInv'
  OBVIOUS
<1>1. CASE \E b \in Batches : WriteDiff(b)
  BY <1>1, WriteDiffKeeps
<1>2. CASE \E h \in Genesis..(Genesis + MaxBlocks) : OpenSession(h)
  <2>1. PICK h \in Genesis..(Genesis + MaxBlocks) : OpenSession(h)
    BY <1>2
  <2>2. h \in Nat /\ h >= Genesis
    BY HistoryAssumption, SMTT(60)
  <2> QED BY <2>1, <2>2, OpenSessionKeeps
<1>3. CASE NextDiff
  BY <1>3, NextDiffKeeps
<1>4. CASE \E a \in Addr : SessionAccount(a) \/ CacheAccount(a)
  BY <1>4, SessionAccountKeeps, CacheAccountKeeps
<1>5. CASE \E a \in Addr, s \in Slot : SessionSlot(a, s) \/ CacheSlot(a, s)
  BY <1>5, SessionSlotKeeps, CacheSlotKeeps
<1>6. CASE \E d \in BOOLEAN : OpenCache(d)
  BY <1>6, OpenCacheKeeps
<1>7. CASE CloseCache
  BY <1>7, CloseCacheKeeps
<1>8. CASE ReaderDies
  BY <1>8, ReaderDiesKeeps
<1>9. CASE UNCHANGED historyVars
  BY <1>9 DEF historyVars, HistoryInv, HistoryTypes, SessionFresh, CacheFresh
<1> QED BY <1>1, <1>2, <1>3, <1>4, <1>5, <1>6, <1>7, <1>8, <1>9 DEF HistoryNext

(***************************************************************************)
(* Every reachable state satisfies the inductive invariant.                *)
(***************************************************************************)
THEOREM HistoryInvariant == HistorySpec => []HistoryInv
BY HistoryInit0, HistoryStep, PTL DEF HistorySpec

(***************************************************************************)
(* What a replay.Session keeps is the state at its block, for any captures *)
(* and any interleaving of its reads and diffs with the live writer, if    *)
(* its block was written when it read.                                     *)
(***************************************************************************)
THEOREM SessionIsExact == HistorySpec => []SessionExact
<1>1. HistoryInv => SessionExact
  <2> SUFFICES ASSUME HistoryInv, session.open, "session" \notin early
               PROVE  Agrees(session.map, StateAt(session.block))
    BY DEF SessionExact
  <2>1. Final(written, session.map, session.block)
    BY DEF HistoryInv, SessionFresh
  <2>2. written \in Seq(Batches) /\ session.block \in Nat /\ session.block >= Genesis
    BY DEF HistoryInv, HistoryTypes
  <2>3. StateAt(session.block) = StateOf(written, session.block)
    BY <2>2, StateAtIs
  <2> QED BY <2>1, <2>3 DEF Final
<1> QED BY <1>1, HistoryInvariant, PTL

(***************************************************************************)
(* What a suitecache.Cache holds is the state at its block, through any    *)
(* number of runs, files and deaths of its process, if that block was      *)
(* written whenever the cache read.                                        *)
(***************************************************************************)
THEOREM CacheIsExact == HistorySpec => []CacheExact
<1>1. HistoryInv => CacheExact
  <2> SUFFICES ASSUME HistoryInv, "cache" \notin early
               PROVE  Agrees(cache.map, StateAt(SuiteBlock))
    BY DEF CacheExact
  <2>1. Final(written, cache.map, SuiteBlock)
    BY DEF HistoryInv, CacheFresh
  <2>2. written \in Seq(Batches)
    BY DEF HistoryInv, HistoryTypes
  <2>3. StateAt(SuiteBlock) = StateOf(written, SuiteBlock)
    BY <2>2, StateAtIs, HistoryAssumption
  <2> QED BY <2>1, <2>3 DEF Final
<1> QED BY <1>1, HistoryInvariant, PTL

-----------------------------------------------------------------------------
(***************************************************************************)
(* Proof that the journal of sim's stateDB implements copies.              *)
(*                                                                         *)
(* RevertToSnapshot undoes entry after entry, and an entry alone does not  *)
(* say what the state was: jCode deletes, jALAddr deletes an address with  *)
(* all of its slots, jLog drops the last log.  The inductive invariant     *)
(* relates every entry to the state before and after it (hist), and keeps  *)
(* the one fact about the overlay that undoing jALAddr needs.              *)
(***************************************************************************)
(* A slot is warm only while its address is. *)
WarmClosed(w) ==
    \A x \in Addr, s \in Slot : WarmSlot(x, s) \in w.marks => Warm(x) \in w.marks

GoodHistory(j, h) ==
    /\ j \in Seq(Entry) /\ h \in Seq(Written)
    /\ Len(h) = Len(j) + 1
    /\ \A n \in 1..Len(j) : Undo(h[n + 1], j[n]) = h[n]
    /\ \A n \in 1..Len(h) : WarmClosed(h[n])

(* The snapshots of nested frames, none of them longer than n. *)
Nested(f, n) ==
    /\ f \in Seq(Nat)
    /\ \A i \in 1..Len(f) : f[i] <= n
    /\ \A i, k \in 1..Len(f) : i < k => f[i] <= f[k]

SimInv ==
    /\ GoodHistory(journal, hist)
    /\ hist[Len(hist)] = db
    /\ undoTo \in Nat \cup {None}
    /\ undoTo # None => undoTo <= Len(journal)
    /\ Nested(frames, IF undoTo = None THEN Len(journal) ELSE undoTo)
    /\ stage \in {"idle", "prepare", "run"}
    /\ stage # "run" => frames = <<>> /\ undoTo = None
-----------------------------------------------------------------------------
(* What is left of a sequence without its last element. *)
LEMMA FrontFacts ==
    ASSUME NEW S, NEW q \in Seq(S), Len(q) > 0
    PROVE  LET p == SubSeq(q, 1, Len(q) - 1)
           IN  /\ p \in Seq(S)
               /\ Len(p) = Len(q) - 1
               /\ \A i \in 1..(Len(q) - 1) : p[i] = q[i]
<1>1. PICK n \in Nat : n = Len(q) - 1
  BY SMTT(60)
<1>2. \A i \in 1..n : q[i] \in S
  BY <1>1, SMTT(60)
<1>3. /\ SubSeq(q, 1, n) \in Seq(S)
      /\ Len(SubSeq(q, 1, n)) = IF 1 <= n THEN n - 1 + 1 ELSE 0
      /\ \A i \in 1..(n - 1 + 1) : SubSeq(q, 1, n)[i] = q[1 + i - 1]
  BY <1>2, SubSeqProperties, SMTT(60)
<1>4. PICK p : p = SubSeq(q, 1, n)
  OBVIOUS
<1>5. Len(p) = IF 1 <= n THEN n - 1 + 1 ELSE 0
  BY <1>3, <1>4
<1>6. Len(p) = n
  BY <1>5, SMTT(60)
<1>7. ASSUME NEW i \in 1..n PROVE p[i] = q[i]
  <2>1. i \in 1..(n - 1 + 1) /\ 1 + i - 1 = i
    BY SMTT(60)
  <2> QED
    BY <1>3, <1>4, <2>1
<1> QED
  BY <1>1, <1>3, <1>4, <1>6, <1>7

(* A method that journals one entry extends a good history. *)
LEMMA GrowHistory ==
    ASSUME NEW j, NEW h, NEW e \in Entry, NEW w \in Written,
           GoodHistory(j, h), WarmClosed(w), Undo(w, e) = h[Len(h)]
    PROVE  /\ GoodHistory(Append(j, e), Append(h, w))
           /\ Append(h, w)[Len(Append(h, w))] = w
           /\ Len(Append(j, e)) = Len(j) + 1
           /\ \A n \in 1..Len(h) : Append(h, w)[n] = h[n]
<1> DEFINE j2 == Append(j, e)
           h2 == Append(h, w)
<1>1. j \in Seq(Entry) /\ h \in Seq(Written) /\ Len(h) = Len(j) + 1 /\ Len(j) \in Nat
  BY SMTT(60) DEF GoodHistory
<1>2. /\ j2 \in Seq(Entry) /\ Len(j2) = Len(j) + 1
      /\ \A n \in 1..Len(j) : j2[n] = j[n]
      /\ j2[Len(j) + 1] = e
  BY <1>1, SMTT(60)
<1>3. /\ h2 \in Seq(Written) /\ Len(h2) = Len(h) + 1
      /\ \A n \in 1..Len(h) : h2[n] = h[n]
      /\ h2[Len(h) + 1] = w
  BY <1>1, SMTT(60)
<1> HIDE DEF j2, h2
<1>4. \A n \in 1..Len(j2) : Undo(h2[n + 1], j2[n]) = h2[n]
  <2> TAKE n \in 1..Len(j2)
  <2>1. CASE n \in 1..Len(j)
    BY <1>1, <1>2, <1>3, <2>1, SMTT(60) DEF GoodHistory
  <2>2. CASE n = Len(j) + 1
    BY <1>1, <1>2, <1>3, <2>2
  <2> QED
    BY <1>1, <1>2, <2>1, <2>2, SMTT(60)
<1>5. \A n \in 1..Len(h2) : WarmClosed(h2[n])
  <2> TAKE n \in 1..Len(h2)
  <2>1. CASE n \in 1..Len(h)
    BY <1>3, <2>1 DEF GoodHistory
  <2>2. CASE n = Len(h) + 1
    BY <1>3, <2>2
  <2> QED
    BY <1>1, <1>3, <2>1, <2>2, SMTT(60)
<1>6. GoodHistory(j2, h2)
  BY <1>1, <1>2, <1>3, <1>4, <1>5 DEF GoodHistory
<1> QED
  BY <1>2, <1>3, <1>6 DEF j2, h2

(* Undoing the last entry leaves a good history, and the state before it. *)
LEMMA ShrinkHistory ==
    ASSUME NEW j, NEW h, GoodHistory(j, h), Len(j) > 0
    PROVE  LET j2 == SubSeq(j, 1, Len(j) - 1)
               h2 == SubSeq(h, 1, Len(h) - 1)
           IN  /\ GoodHistory(j2, h2)
               /\ Len(j2) = Len(j) - 1
               /\ h2[Len(h2)] = Undo(h[Len(h)], j[Len(j)])
               /\ \A n \in 1..Len(j) : h2[n] = h[n]
<1> DEFINE j2 == SubSeq(j, 1, Len(j) - 1)
           h2 == SubSeq(h, 1, Len(h) - 1)
<1>1. j \in Seq(Entry) /\ h \in Seq(Written) /\ Len(h) = Len(j) + 1 /\ Len(j) \in Nat \ {0}
  BY SMTT(60) DEF GoodHistory
<1>2. /\ j2 \in Seq(Entry) /\ Len(j2) = Len(j) - 1
      /\ \A n \in 1..(Len(j) - 1) : j2[n] = j[n]
  BY <1>1, FrontFacts
<1>3. /\ h2 \in Seq(Written) /\ Len(h2) = Len(j)
      /\ \A n \in 1..Len(j) : h2[n] = h[n]
  BY <1>1, FrontFacts, SMTT(60)
<1> HIDE DEF j2, h2
<1>4. \A n \in 1..Len(j2) : Undo(h2[n + 1], j2[n]) = h2[n]
  <2> TAKE n \in 1..Len(j2)
  <2>1. n \in 1..Len(j) /\ n + 1 \in 1..Len(j) /\ j2[n] = j[n]
    BY <1>1, <1>2, SMTT(60)
  <2>2. Undo(h[n + 1], j[n]) = h[n]
    BY <2>1 DEF GoodHistory
  <2> QED
    BY <1>3, <2>1, <2>2
<1>5. \A n \in 1..Len(h2) : WarmClosed(h2[n])
  <2> TAKE n \in 1..Len(h2)
  <2>1. n \in 1..Len(h) /\ h2[n] = h[n]
    BY <1>1, <1>3, SMTT(60)
  <2> QED
    BY <2>1 DEF GoodHistory
<1>6. GoodHistory(j2, h2)
  BY <1>1, <1>2, <1>3, <1>4, <1>5, SMTT(60) DEF GoodHistory
<1>7. h2[Len(h2)] = Undo(h[Len(h)], j[Len(j)])
  BY <1>1, <1>3, SMTT(60) DEF GoodHistory
<1> QED
  BY <1>1, <1>2, <1>3, <1>6, <1>7 DEF j2, h2
-----------------------------------------------------------------------------
(***************************************************************************)
(* Undo inverts each method: on what the method has written, with the      *)
(* entry it has journalled, it gives what the method has found.            *)
(***************************************************************************)
LEMMA UndoCell ==
    ASSUME NEW w \in Written, NEW k \in Cell, NEW v \in Val
    PROVE  LET e == [kind |-> "value", at |-> k, prev |-> w.over[k]]
           IN  /\ e \in Entry /\ WithCell(w, k, v) \in Written
               /\ WithCell(w, k, v).marks = w.marks
               /\ Undo(WithCell(w, k, v), e) = w
<1> DEFINE e == [kind |-> "value", at |-> k, prev |-> w.over[k]]
           x == WithCell(w, k, v)
<1>1. w.over \in [Cell -> Val \cup {None}]
  BY DEF Written
<1>2. e \in Entry
  BY <1>1 DEF Entry
<1>3. x \in Written /\ x.marks = w.marks
  BY <1>1 DEF Written, WithCell
<1>4. Undo(x, e) = WithCell(x, k, w.over[k])
  BY DEF Undo
<1>5. [[w.over EXCEPT ![k] = v] EXCEPT ![k] = w.over[k]] = w.over
  BY <1>1
<1>6. WithCell(x, k, w.over[k]) = w
  BY <1>1, <1>5 DEF Written, WithCell
<1> QED
  BY <1>2, <1>3, <1>4, <1>6

LEMMA UndoCode ==
    ASSUME NEW w \in Written, NEW a \in Addr, NEW v \in Val, w.codes[a] = None
    PROVE  LET e == [kind |-> "code", at |-> a]
           IN  /\ e \in Entry /\ WithCode(w, a, v) \in Written
               /\ WithCode(w, a, v).marks = w.marks
               /\ Undo(WithCode(w, a, v), e) = w
<1> DEFINE e == [kind |-> "code", at |-> a]
           x == WithCode(w, a, v)
<1>1. w.codes \in [Addr -> Val \cup {None}]
  BY DEF Written
<1>2. e \in Entry
  BY DEF Entry
<1>3. x \in Written /\ x.marks = w.marks
  BY <1>1 DEF Written, WithCode
<1>4. Undo(x, e) = WithCode(x, a, None)
  BY DEF Undo
<1>5. [[w.codes EXCEPT ![a] = v] EXCEPT ![a] = None] = w.codes
  BY <1>1
<1>6. WithCode(x, a, None) = w
  BY <1>1, <1>5 DEF Written, WithCode
<1> QED
  BY <1>2, <1>3, <1>4, <1>6

LEMMA UndoMark ==
    ASSUME NEW w \in Written, NEW mark \in Mark, mark \notin w.marks
    PROVE  LET e == Marked(mark)
           IN  /\ e \in Entry /\ WithMarks(w, {mark}) \in Written
               /\ WithMarks(w, {mark}).marks = w.marks \cup {mark}
               /\ Undo(WithMarks(w, {mark}), e) = w
<1> DEFINE e == Marked(mark)
           x == WithMarks(w, {mark})
<1>1. w.marks \in SUBSET Mark
  BY DEF Written
<1>2. e \in Entry
  BY DEF Entry, Marked
<1>3. x \in Written /\ x.marks = w.marks \cup {mark}
  BY <1>1 DEF Written, WithMarks
<1>4. Undo(x, e) = [x EXCEPT !.marks = @ \ {mark}]
  BY DEF Undo, Marked
<1>5. (w.marks \cup {mark}) \ {mark} = w.marks
  OBVIOUS
<1>6. [x EXCEPT !.marks = @ \ {mark}] = w
  BY <1>5 DEF Written, WithMarks
<1> QED
  BY <1>2, <1>3, <1>4, <1>6

(* The address was not warm, so none of its slots was. *)
LEMMA UndoWarm ==
    ASSUME NEW w \in Written, NEW a \in Addr, Warm(a) \notin w.marks, WarmClosed(w)
    PROVE  LET e == Warmed(a)
           IN  /\ e \in Entry /\ WithMarks(w, {Warm(a)}) \in Written
               /\ WithMarks(w, {Warm(a)}).marks = w.marks \cup {Warm(a)}
               /\ Undo(WithMarks(w, {Warm(a)}), e) = w
<1> DEFINE e == Warmed(a)
           x == WithMarks(w, {Warm(a)})
           gone == {Warm(a)} \cup {WarmSlot(a, s) : s \in Slot}
<1>1. w.marks \in SUBSET Mark /\ Warm(a) \in Mark
  BY SMTT(60) DEF Written, Mark
<1>2. e \in Entry
  BY DEF Entry, Warmed
<1>3. x \in Written /\ x.marks = w.marks \cup {Warm(a)}
  BY <1>1 DEF Written, WithMarks
<1>4. Undo(x, e) = [x EXCEPT !.marks = @ \ gone]
  BY DEF Undo, Warmed
<1>5. (w.marks \cup {Warm(a)}) \ gone = w.marks
  BY DEF WarmClosed
<1>6. [x EXCEPT !.marks = @ \ gone] = w
  BY <1>5 DEF Written, WithMarks
<1> QED
  BY <1>2, <1>3, <1>4, <1>6

LEMMA UndoRefund ==
    ASSUME NEW w \in Written, NEW g \in 0..MaxRefund
    PROVE  LET e == [kind |-> "refund", prev |-> w.refund]
           IN  /\ e \in Entry /\ WithRefund(w, g) \in Written
               /\ WithRefund(w, g).marks = w.marks
               /\ Undo(WithRefund(w, g), e) = w
<1> DEFINE e == [kind |-> "refund", prev |-> w.refund]
           x == WithRefund(w, g)
<1>1. e \in Entry
  BY SMTT(60) DEF Entry, Written
<1>2. x \in Written /\ x.marks = w.marks
  BY DEF Written, WithRefund
<1>3. Undo(x, e) = WithRefund(x, w.refund)
  BY DEF Undo
<1>4. WithRefund(x, w.refund) = w
  BY DEF Written, WithRefund
<1> QED
  BY <1>1, <1>2, <1>3, <1>4

LEMMA UndoLog ==
    ASSUME NEW w \in Written, NEW l \in Log
    PROVE  LET e == [kind |-> "log"]
           IN  /\ e \in Entry /\ WithLog(w, l) \in Written
               /\ WithLog(w, l).marks = w.marks
               /\ Undo(WithLog(w, l), e) = w
<1> DEFINE e == [kind |-> "log"]
           x == WithLog(w, l)
           q == Append(w.logs, l)
           p == SubSeq(q, 1, Len(q) - 1)
<1>1. w.logs \in Seq(Log)
  BY DEF Written
<1>2. e \in Entry
  BY DEF Entry
<1>3. q \in Seq(Log) /\ Len(q) = Len(w.logs) + 1 /\ \A i \in 1..Len(w.logs) : q[i] = w.logs[i]
  BY <1>1, SMTT(60)
<1>4. x \in Written /\ x.marks = w.marks
  BY <1>3 DEF Written, WithLog
<1>5. Undo(x, e) = [x EXCEPT !.logs = SubSeq(@, 1, Len(@) - 1)]
  BY DEF Undo
<1>6. p \in Seq(Log) /\ Len(p) = Len(w.logs) /\ \A i \in 1..Len(w.logs) : p[i] = w.logs[i]
  <2> HIDE DEF q
  <2>1. Len(q) > 0 /\ Len(q) - 1 = Len(w.logs)
    BY <1>1, <1>3, SMTT(60)
  <2> QED
    BY <1>3, <2>1, FrontFacts, SMTT(60)
<1>7. p = w.logs
  <2> HIDE DEF p
  <2> QED
    BY <1>1, <1>6, SMTT(60)
<1>8. [x EXCEPT !.logs = SubSeq(@, 1, Len(@) - 1)] = w
  BY <1>7 DEF Written, WithLog
<1> QED
  BY <1>2, <1>4, <1>5, <1>8
-----------------------------------------------------------------------------
(* A method that journals one entry, or two, keeps the history good and *)
(* what the open frames had found.                                      *)
LEMMA OneEntry ==
    ASSUME SimInv, undoTo = None, NEW e \in Entry, NEW w \in Written,
           Journalled(e, w), WarmClosed(w), Undo(w, e) = db,
           UNCHANGED <<frames, undoTo, stage>>
    PROVE  SimInv' /\ Found' = Found
<1>1. /\ GoodHistory(journal', hist')
      /\ hist'[Len(hist')] = db'
      /\ Len(journal') = Len(journal) + 1
      /\ \A n \in 1..Len(hist) : hist'[n] = hist[n]
  BY GrowHistory, SMTT(60) DEF SimInv, Journalled
<1>2. Len(journal) \in Nat /\ Len(hist) = Len(journal) + 1
  BY SMTT(60) DEF SimInv, GoodHistory
<1>3. Nested(frames, Len(journal)) /\ frames' = frames /\ undoTo' = undoTo /\ stage' = stage
  BY DEF SimInv
<1>4. Nested(frames', Len(journal'))
  BY <1>1, <1>2, <1>3, SMTT(60) DEF Nested
<1>5. SimInv'
  BY <1>1, <1>3, <1>4 DEF SimInv
<1>6. Found' = Found
  <2>1. ASSUME NEW i \in DOMAIN frames PROVE hist'[frames[i] + 1] = hist[frames[i] + 1]
    <3>1. frames[i] + 1 \in 1..Len(hist)
      BY <1>2, <1>3, SMTT(60) DEF Nested
    <3> QED
      BY <1>1, <3>1
  <2> QED
    BY <1>3, <2>1 DEF Found
<1> QED
  BY <1>5, <1>6

LEMMA TwoEntries ==
    ASSUME SimInv, undoTo = None,
           NEW e1 \in Entry, NEW w1 \in Written, WarmClosed(w1), Undo(w1, e1) = db,
           NEW e2 \in Entry, NEW w2 \in Written, WarmClosed(w2), Undo(w2, e2) = w1,
           Journalled2(e1, w1, e2, w2),
           UNCHANGED <<frames, undoTo, stage>>
    PROVE  SimInv' /\ Found' = Found
<1> DEFINE j1 == Append(journal, e1)
           h1 == Append(hist, w1)
<1>1. /\ GoodHistory(j1, h1)
      /\ h1[Len(h1)] = w1
      /\ Len(j1) = Len(journal) + 1
      /\ \A n \in 1..Len(hist) : h1[n] = hist[n]
  BY GrowHistory, SMTT(60) DEF SimInv
<1>2. Len(journal) \in Nat /\ Len(hist) = Len(journal) + 1 /\ Len(h1) = Len(j1) + 1
  BY <1>1, SMTT(60) DEF SimInv, GoodHistory
<1>3. /\ journal' = Append(j1, e2) /\ hist' = Append(h1, w2) /\ db' = w2
      /\ frames' = frames /\ undoTo' = undoTo /\ stage' = stage
  BY DEF Journalled2
<1> HIDE DEF j1, h1
<1>4. /\ GoodHistory(journal', hist')
      /\ hist'[Len(hist')] = db'
      /\ Len(journal') = Len(j1) + 1
      /\ \A n \in 1..Len(h1) : hist'[n] = h1[n]
  BY <1>1, <1>3, GrowHistory, SMTT(60)
<1>5. Nested(frames, Len(journal))
  BY DEF SimInv
<1>6. Nested(frames', Len(journal'))
  BY <1>1, <1>2, <1>3, <1>4, <1>5, SMTT(60) DEF Nested
<1>7. SimInv'
  BY <1>3, <1>4, <1>6 DEF SimInv
<1>8. Found' = Found
  <2>1. ASSUME NEW i \in DOMAIN frames PROVE hist'[frames[i] + 1] = hist[frames[i] + 1]
    <3>1. frames[i] \in Nat /\ frames[i] <= Len(journal)
      BY <1>5, SMTT(60) DEF Nested
    <3>2. frames[i] + 1 \in 1..Len(hist) /\ frames[i] + 1 \in 1..Len(h1)
      BY <1>1, <1>2, <3>1, SMTT(60)
    <3> QED
      BY <1>1, <1>4, <3>2
  <2> QED
    BY <1>3, <2>1 DEF Found
<1> QED
  BY <1>7, <1>8
-----------------------------------------------------------------------------
(***************************************************************************)
(* What each method writes is an effect that CallState allows.             *)
(***************************************************************************)
LEMMA SameOverlay ==
    /\ Abstract!Cell = Cell /\ Abstract!Mark = Mark
    /\ \A x : Abstract!Balance(x) = Balance(x)
    /\ \A x : Abstract!Destructed(x) = Destructed(x) /\ Abstract!Warm(x) = Warm(x)
    /\ \A x, s : Abstract!WarmSlot(x, s) = WarmSlot(x, s)
    /\ \A w, k, v : Abstract!WithCell(w, k, v) = WithCell(w, k, v)
    /\ \A w, k, v : Abstract!WithCode(w, k, v) = WithCode(w, k, v)
    /\ \A w, ms : Abstract!WithMarks(w, ms) = WithMarks(w, ms)
    /\ \A w, g : Abstract!WithRefund(w, g) = WithRefund(w, g)
    /\ \A w, l : Abstract!WithLog(w, l) = WithLog(w, l)
    /\ \A o : Abstract!Fresh(o) = Fresh(o)
<1>1. Abstract!Cell = Cell
  BY SMTT(60) DEF Abstract!Cell, Cell, Abstract!Balance, Balance, Abstract!Nonce, Nonce,
       Abstract!Storage, Storage, Abstract!Transient, Transient
<1>2. Abstract!Mark = Mark
  BY SMTT(60) DEF Abstract!Mark, Mark, Abstract!Created, Created, Abstract!Destructed, Destructed,
       Abstract!Warm, Warm, Abstract!WarmSlot, WarmSlot
<1> QED
  BY <1>1, <1>2 DEF Abstract!Balance, Balance, Abstract!Destructed, Destructed,
       Abstract!Warm, Warm, Abstract!WarmSlot, WarmSlot, Abstract!WithCell, WithCell,
       Abstract!WithCode, WithCode, Abstract!WithMarks, WithMarks,
       Abstract!WithRefund, WithRefund, Abstract!WithLog, WithLog, Abstract!Fresh, Fresh

LEMMA EffectsAre ==
    ASSUME NEW w
    PROVE  /\ \A k \in Cell, v \in Val : Abstract!Effect(w, WithCell(w, k, v))
           /\ \A x \in Addr, v \in Val :
                w.codes[x] = None => Abstract!Effect(w, WithCode(w, x, v))
           /\ \A mark \in Mark : Abstract!Effect(w, WithMarks(w, {mark}))
           /\ \A x \in Addr, s \in Slot :
                Abstract!Effect(w, WithMarks(WithMarks(w, {Warm(x)}), {WarmSlot(x, s)}))
           /\ \A x \in Addr :
                Abstract!Effect(w, WithCell(WithMarks(w, {Destructed(x)}), Balance(x), Zero))
           /\ \A g \in 0..MaxRefund : Abstract!Effect(w, WithRefund(w, g))
           /\ \A l \in Log : Abstract!Effect(w, WithLog(w, l))
BY SameOverlay DEF Abstract!Effect

(* A method is a step Do of CallState. *)
LEMMA MethodIsDo ==
    ASSUME undoTo = None, undoTo' = undoTo, Found' = Found, Abstract!Effect(db, db')
    PROVE  Abstract!Next
<1>1. Seen = db /\ Seen' = db'
  BY DEF Seen
<1> QED
  BY <1>1 DEF Abstract!Next, Abstract!Do

(* What has to be shown of every step. *)
Keeps == SimInv' /\ (Abstract!Next \/ (Seen' = Seen /\ Found' = Found))

LEMMA StateFacts ==
    ASSUME SimInv
    PROVE  /\ db \in Written /\ WarmClosed(db)
           /\ Len(journal) \in Nat /\ Len(hist) = Len(journal) + 1
           /\ hist \in Seq(Written) /\ journal \in Seq(Entry)
<1>1. Len(hist) \in 1..Len(hist) /\ Len(journal) \in Nat /\ Len(hist) = Len(journal) + 1
  BY SMTT(60) DEF SimInv, GoodHistory
<1> QED
  BY <1>1, SMTT(60) DEF SimInv, GoodHistory

(* Of a method that journals one entry. *)
LEMMA OneEntryKeeps ==
    ASSUME SimInv, undoTo = None, NEW e \in Entry, NEW w \in Written,
           Journalled(e, w), WarmClosed(w), Undo(w, e) = db, Abstract!Effect(db, w),
           UNCHANGED <<frames, undoTo, stage>>
    PROVE  Keeps
BY OneEntry, MethodIsDo DEF Keeps, Journalled

LEMMA TwoEntriesKeep ==
    ASSUME SimInv, undoTo = None,
           NEW e1 \in Entry, NEW w1 \in Written, WarmClosed(w1), Undo(w1, e1) = db,
           NEW e2 \in Entry, NEW w2 \in Written, WarmClosed(w2), Undo(w2, e2) = w1,
           Journalled2(e1, w1, e2, w2), Abstract!Effect(db, w2),
           UNCHANGED <<frames, undoTo, stage>>
    PROVE  Keeps
BY TwoEntries, MethodIsDo DEF Keeps, Journalled2

LEMMA RunningFacts ==
    ASSUME SimInv, Preparing
    PROVE  undoTo = None
BY DEF SimInv, Preparing, Running

LEMMA SetKeeps ==
    ASSUME SimInv, NEW k \in Cell, NEW v \in Val, Set(k, v)
    PROVE  Keeps
<1>1. /\ undoTo = None /\ Journalled(Value(k), WithCell(db, k, v))
      /\ UNCHANGED <<frames, undoTo, stage>>
  BY DEF Set, Running, Method, execVars
<1>2. /\ Value(k) \in Entry /\ WithCell(db, k, v) \in Written
      /\ WithCell(db, k, v).marks = db.marks /\ Undo(WithCell(db, k, v), Value(k)) = db
  BY StateFacts, UndoCell DEF Value
<1>3. WarmClosed(WithCell(db, k, v))
  BY <1>2, StateFacts DEF WarmClosed
<1> QED
  BY <1>1, <1>2, <1>3, EffectsAre, OneEntryKeeps

LEMMA SetCodeKeeps ==
    ASSUME SimInv, NEW x \in Addr, NEW v \in Val, SetCode(x, v)
    PROVE  Keeps
<1> DEFINE e == [kind |-> "code", at |-> x]
           w == WithCode(db, x, v)
<1>1. /\ undoTo = None /\ Journalled(e, w) /\ db.codes[x] = None
      /\ UNCHANGED <<frames, undoTo, stage>>
  BY DEF SetCode, Running, Method, execVars
<1>2. e \in Entry /\ w \in Written /\ w.marks = db.marks /\ Undo(w, e) = db
  BY <1>1, StateFacts, UndoCode
<1>3. Abstract!Effect(db, w)
  BY <1>1, EffectsAre
<1> HIDE DEF e, w
<1>4. WarmClosed(w)
  BY <1>2, StateFacts DEF WarmClosed
<1> QED
  BY <1>1, <1>2, <1>3, <1>4, OneEntryKeeps

LEMMA CreateAccountKeeps ==
    ASSUME SimInv, NEW x \in Addr, CreateAccount(x)
    PROVE  Keeps
<1> DEFINE e == Marked(Created(x))
           w == WithMarks(db, {Created(x)})
<1>1. /\ undoTo = None /\ Journalled(e, w) /\ Created(x) \notin db.marks
      /\ UNCHANGED <<frames, undoTo, stage>>
  BY DEF CreateAccount, Running, Method, execVars
<1>2. Created(x) \in Mark
  BY SMTT(60) DEF Mark
<1>3. e \in Entry /\ w \in Written /\ w.marks = db.marks \cup {Created(x)} /\ Undo(w, e) = db
  BY <1>1, <1>2, StateFacts, UndoMark
<1>4. Abstract!Effect(db, w)
  BY <1>2, EffectsAre
<1>5. WarmClosed(w)
  <2> HIDE DEF w
  <2>1. ASSUME NEW y \in Addr, NEW s \in Slot, WarmSlot(y, s) \in w.marks
        PROVE  Warm(y) \in w.marks
    <3>1. WarmSlot(y, s) # Created(x)
      BY DEF WarmSlot, Created
    <3> QED
      BY <1>3, <2>1, <3>1, StateFacts DEF WarmClosed
  <2> QED
    BY <2>1 DEF WarmClosed
<1> HIDE DEF e, w
<1> QED
  BY <1>1, <1>3, <1>4, <1>5, OneEntryKeeps

LEMMA AddAddressKeeps ==
    ASSUME SimInv, NEW x \in Addr, AddAddressToAccessList(x)
    PROVE  Keeps
<1> DEFINE e == Warmed(x)
           w == WithMarks(db, {Warm(x)})
<1>1. /\ undoTo = None /\ Journalled(e, w) /\ Warm(x) \notin db.marks
      /\ UNCHANGED <<frames, undoTo, stage>>
  BY RunningFacts DEF AddAddressToAccessList, Method, execVars
<1>2. e \in Entry /\ w \in Written /\ w.marks = db.marks \cup {Warm(x)} /\ Undo(w, e) = db
  BY <1>1, StateFacts, UndoWarm
<1>3. Abstract!Effect(db, w)
  <2>1. Warm(x) \in Mark
    BY SMTT(60) DEF Mark
  <2> QED
    BY <2>1, EffectsAre
<1>4. WarmClosed(w)
  <2> HIDE DEF w
  <2>1. ASSUME NEW y \in Addr, NEW s \in Slot, WarmSlot(y, s) \in w.marks
        PROVE  Warm(y) \in w.marks
    <3>1. WarmSlot(y, s) # Warm(x)
      BY DEF WarmSlot, Warm
    <3> QED
      BY <1>2, <2>1, <3>1, StateFacts DEF WarmClosed
  <2> QED
    BY <2>1 DEF WarmClosed
<1> HIDE DEF e, w
<1> QED
  BY <1>1, <1>2, <1>3, <1>4, OneEntryKeeps

LEMMA RefundKeeps ==
    ASSUME SimInv, NEW g \in 0..MaxRefund, undoTo = None,
           Journalled(Refund, WithRefund(db, g)), UNCHANGED <<frames, undoTo, stage>>
    PROVE  Keeps
<1> DEFINE w == WithRefund(db, g)
<1>1. Refund \in Entry /\ w \in Written /\ w.marks = db.marks /\ Undo(w, Refund) = db
  BY StateFacts, UndoRefund DEF Refund
<1>2. Abstract!Effect(db, w)
  BY EffectsAre
<1> HIDE DEF w
<1>3. WarmClosed(w)
  BY <1>1, StateFacts DEF WarmClosed
<1> QED
  BY <1>1, <1>2, <1>3, OneEntryKeeps DEF w

LEMMA AddLogKeeps ==
    ASSUME SimInv, NEW l \in Log, AddLog(l)
    PROVE  Keeps
<1> DEFINE e == [kind |-> "log"]
           w == WithLog(db, l)
<1>1. undoTo = None /\ Journalled(e, w) /\ UNCHANGED <<frames, undoTo, stage>>
  BY DEF AddLog, Running, Method, execVars
<1>2. e \in Entry /\ w \in Written /\ w.marks = db.marks /\ Undo(w, e) = db
  BY StateFacts, UndoLog
<1>3. Abstract!Effect(db, w)
  BY EffectsAre
<1> HIDE DEF e, w
<1>4. WarmClosed(w)
  BY <1>2, StateFacts DEF WarmClosed
<1> QED
  BY <1>1, <1>2, <1>3, <1>4, OneEntryKeeps

LEMMA SelfDestructKeeps ==
    ASSUME SimInv, NEW x \in Addr, SelfDestruct(x)
    PROVE  Keeps
<1> DEFINE w == WithMarks(db, {Destructed(x)})
           k == Balance(x)
<1>1. undoTo = None /\ UNCHANGED <<frames, undoTo, stage>>
  BY DEF SelfDestruct, Running, Method, execVars
<1>2. k \in Cell /\ Destructed(x) \in Mark /\ Zero \in Val
  BY OverlayAssumption, SMTT(60) DEF Cell, Mark
<1>3. CASE Destructed(x) \in db.marks
  <2> DEFINE z == WithCell(db, k, Zero)
  <2>1. Journalled(Value(k), z)
    BY <1>3 DEF SelfDestruct
  <2>2. Value(k) \in Entry /\ z \in Written /\ z.marks = db.marks /\ Undo(z, Value(k)) = db
    BY <1>2, StateFacts, UndoCell DEF Value
  <2>3. Abstract!Effect(db, z)
    BY <1>2, EffectsAre
  <2> HIDE DEF z
  <2>4. WarmClosed(z)
    BY <2>2, StateFacts DEF WarmClosed
  <2> QED
    BY <1>1, <2>1, <2>2, <2>3, <2>4, OneEntryKeeps
<1>4. CASE Destructed(x) \notin db.marks
  <2> DEFINE z == WithCell(w, k, Zero)
  <2>1. Journalled2(Marked(Destructed(x)), w, Value(k), z)
    BY <1>4 DEF SelfDestruct
  <2>2. /\ Marked(Destructed(x)) \in Entry /\ w \in Written
        /\ w.marks = db.marks \cup {Destructed(x)}
        /\ Undo(w, Marked(Destructed(x))) = db
    BY <1>2, <1>4, StateFacts, UndoMark
  <2>3. Value(k) = [kind |-> "value", at |-> k, prev |-> w.over[k]]
    <3>1. w.over = db.over
      BY StateFacts DEF WithMarks, Written
    <3> QED
      BY <3>1 DEF Value
  <2>4. Abstract!Effect(db, z)
    BY EffectsAre
  <2> HIDE DEF w
  <2>5. Value(k) \in Entry /\ z \in Written /\ z.marks = w.marks /\ Undo(z, Value(k)) = w
    BY <1>2, <2>2, <2>3, UndoCell, SMTT(60)
  <2> HIDE DEF z
  <2>6. WarmClosed(w)
    <3>1. ASSUME NEW y \in Addr, NEW s \in Slot, WarmSlot(y, s) \in w.marks
          PROVE  Warm(y) \in w.marks
      <4>1. WarmSlot(y, s) # Destructed(x)
        BY DEF WarmSlot, Destructed
      <4> QED
        BY <2>2, <3>1, <4>1, StateFacts DEF WarmClosed
    <3> QED
      BY <3>1 DEF WarmClosed
  <2>7. WarmClosed(z)
    BY <2>5, <2>6 DEF WarmClosed
  <2> QED
    BY <1>1, <2>1, <2>2, <2>4, <2>5, <2>6, <2>7, TwoEntriesKeep
<1> QED
  BY <1>3, <1>4

LEMMA AddSlotKeeps ==
    ASSUME SimInv, NEW x \in Addr, NEW s \in Slot, AddSlotToAccessList(x, s)
    PROVE  Keeps
<1> DEFINE w == WithMarks(db, {Warm(x)})
           t == WarmSlot(x, s)
<1>1. undoTo = None /\ UNCHANGED <<frames, undoTo, stage>> /\ t \notin db.marks
  BY RunningFacts DEF AddSlotToAccessList, Method, execVars
<1>2. t \in Mark /\ t # Warm(x)
  BY SMTT(60) DEF Mark, WarmSlot, Warm
<1>3. \A y \in Addr, r \in Slot : WarmSlot(y, r) = t => Warm(y) = Warm(x)
  BY DEF WarmSlot
<1>4. CASE Warm(x) \in db.marks
  <2> DEFINE z == WithMarks(db, {t})
  <2>1. Journalled(Marked(t), z)
    BY <1>4 DEF AddSlotToAccessList
  <2>2. Marked(t) \in Entry /\ z \in Written /\ z.marks = db.marks \cup {t} /\ Undo(z, Marked(t)) = db
    BY <1>1, <1>2, StateFacts, UndoMark
  <2>3. Abstract!Effect(db, z)
    BY <1>2, EffectsAre
  <2> HIDE DEF z, t
  <2>4. WarmClosed(z)
    BY <1>3, <1>4, <2>2, StateFacts DEF WarmClosed
  <2> QED
    BY <1>1, <2>1, <2>2, <2>3, <2>4, OneEntryKeeps
<1>5. CASE Warm(x) \notin db.marks
  <2> DEFINE z == WithMarks(w, {t})
  <2>1. Journalled2(Warmed(x), w, Marked(t), z)
    BY <1>5 DEF AddSlotToAccessList
  <2>2. /\ Warmed(x) \in Entry /\ w \in Written
        /\ w.marks = db.marks \cup {Warm(x)} /\ Undo(w, Warmed(x)) = db
    BY <1>5, StateFacts, UndoWarm
  <2>3. Abstract!Effect(db, z)
    BY EffectsAre
  <2> HIDE DEF w, t
  <2>4. t \notin w.marks
    BY <1>1, <1>2, <2>2
  <2>5. Marked(t) \in Entry /\ z \in Written /\ z.marks = w.marks \cup {t} /\ Undo(z, Marked(t)) = w
    BY <1>2, <2>2, <2>4, UndoMark
  <2> HIDE DEF z
  <2>6. WarmClosed(w)
    <3>1. ASSUME NEW y \in Addr, NEW r \in Slot, WarmSlot(y, r) \in w.marks
          PROVE  Warm(y) \in w.marks
      <4>1. WarmSlot(y, r) # Warm(x)
        BY DEF WarmSlot, Warm
      <4> QED
        BY <2>2, <3>1, <4>1, StateFacts DEF WarmClosed
    <3> QED
      BY <3>1 DEF WarmClosed
  <2>7. WarmClosed(z)
    BY <1>3, <2>2, <2>5, <2>6 DEF WarmClosed
  <2> QED
    BY <1>1, <2>1, <2>2, <2>3, <2>5, <2>6, <2>7, TwoEntriesKeep
<1> QED
  BY <1>4, <1>5

LEMMA SubRefundKeeps ==
    ASSUME SimInv, NEW g \in 1..MaxRefund, SubRefund(g)
    PROVE  Keeps
<1>1. undoTo = None /\ UNCHANGED <<frames, undoTo, stage>>
  BY DEF SubRefund, Running
<1>2. db.refund \in 0..MaxRefund
  BY StateFacts DEF Written
<1>3. CASE g <= db.refund
  <2>1. Journalled(Refund, WithRefund(db, db.refund - g))
    BY <1>2, <1>3, OverlayAssumption, SMTT(60) DEF SubRefund
  <2>2. db.refund - g \in 0..MaxRefund
    BY <1>2, <1>3, OverlayAssumption, SMTT(60)
  <2> QED
    BY <1>1, <2>1, <2>2, RefundKeeps
<1>4. CASE g > db.refund
  <2>1. Journalled(Refund, db)
    BY <1>2, <1>4, OverlayAssumption, SMTT(60) DEF SubRefund
  <2>2. WithRefund(db, db.refund) = db
    BY StateFacts DEF Written, WithRefund
  <2> QED
    BY <1>1, <1>2, <2>1, <2>2, RefundKeeps, OverlayAssumption
<1> QED
  BY <1>2, <1>3, <1>4, OverlayAssumption, SMTT(60)

(* Frames pick states of a history. *)
LEMMA Picks ==
    ASSUME NEW h \in Seq(Written), NEW f \in Seq(Nat), NEW p,
           \A i \in 1..Len(f) : f[i] + 1 <= Len(h),
           p = [i \in DOMAIN f |-> h[f[i] + 1]]
    PROVE  /\ p \in Seq(Written) /\ Len(p) = Len(f) /\ Len(f) \in Nat
           /\ \A i \in 1..Len(f) : p[i] = h[f[i] + 1]
<1>1. DOMAIN f = 1..Len(f) /\ Len(f) \in Nat
  BY SMTT(60)
<1>2. ASSUME NEW i \in 1..Len(f) PROVE h[f[i] + 1] \in Written
  <2>1. f[i] + 1 \in 1..Len(h)
    BY SMTT(60)
  <2> QED
    BY <2>1, SMTT(60)
<1>3. p \in [1..Len(f) -> Written]
  BY <1>1, <1>2
<1>4. p \in Seq(Written)
  BY <1>1, <1>3, SMTT(60)
<1> QED
  BY <1>1, <1>3, <1>4, SMTT(60)

LEMMA FoundFacts ==
    ASSUME SimInv
    PROVE  /\ Found \in Seq(Written) /\ Len(Found) = Len(frames)
           /\ frames \in Seq(Nat) /\ Len(frames) \in Nat
           /\ \A i \in 1..Len(frames) : Found[i] = hist[frames[i] + 1]
<1>1. frames \in Seq(Nat)
  BY DEF SimInv, Nested
<1>2. \A i \in 1..Len(frames) : frames[i] + 1 <= Len(hist)
  <2> TAKE i \in 1..Len(frames)
  <2>1. frames[i] \in Nat /\ frames[i] <= (IF undoTo = None THEN Len(journal) ELSE undoTo)
    BY <1>1, SMTT(60) DEF SimInv, Nested
  <2> QED
    BY <2>1, StateFacts, SMTT(60) DEF SimInv
<1>3. Found = [i \in DOMAIN frames |-> hist[frames[i] + 1]]
  BY DEF Found
<1>4. hist \in Seq(Written)
  BY StateFacts
<1> QED
  BY <1>1, <1>2, <1>3, <1>4, Picks, SMTT(60)

LEMMA SnapshotKeeps ==
    ASSUME SimInv, Snapshot
    PROVE  Keeps
<1>1. /\ undoTo = None /\ undoTo' = undoTo /\ stage' = "run"
      /\ frames' = Append(frames, Len(journal))
      /\ db' = db /\ journal' = journal /\ hist' = hist
  BY DEF Snapshot, SimInv, Running, dbVars
<1>2. Nested(frames, Len(journal)) /\ frames \in Seq(Nat) /\ Len(frames) \in Nat
  BY <1>1, SMTT(60) DEF SimInv, Nested
<1>3. Len(journal) \in Nat /\ Len(hist) = Len(journal) + 1 /\ hist[Len(journal) + 1] = db
  BY StateFacts DEF SimInv
<1>4. /\ frames' \in Seq(Nat) /\ Len(frames') = Len(frames) + 1
      /\ \A i \in 1..Len(frames) : frames'[i] = frames[i]
      /\ frames'[Len(frames) + 1] = Len(journal)
  BY <1>1, <1>2, <1>3, SMTT(60)
<1>5. Nested(frames', Len(journal'))
  <2>1. \A i \in 1..Len(frames') : frames'[i] <= Len(journal)
    <3> TAKE i \in 1..Len(frames')
    <3>1. CASE i = Len(frames) + 1
      BY <1>3, <1>4, <3>1, SMTT(60)
    <3>2. CASE i \in 1..Len(frames)
      BY <1>2, <1>4, <3>2 DEF Nested
    <3> QED
      BY <1>2, <1>4, <3>1, <3>2, SMTT(60)
  <2>2. ASSUME NEW i \in 1..Len(frames'), NEW k \in 1..Len(frames'), i < k
        PROVE  frames'[i] <= frames'[k]
    <3>1. CASE k = Len(frames) + 1
      BY <1>4, <2>1, <3>1
    <3>2. CASE k \in 1..Len(frames)
      <4>1. i \in 1..Len(frames)
        BY <1>2, <2>2, <3>2, SMTT(60)
      <4> QED
        BY <1>2, <1>4, <2>2, <3>2, <4>1 DEF Nested
    <3> QED
      BY <1>2, <1>4, <3>1, <3>2, SMTT(60)
  <2> QED
    BY <1>1, <1>4, <2>1, <2>2 DEF Nested
<1>6. SimInv'
  BY <1>1, <1>5 DEF SimInv
<1>7. Found' = Append(Found, Seen)
  <2>1. Seen = db /\ db \in Written
    BY <1>1, StateFacts DEF Seen
  <2>2. /\ Append(Found, Seen) \in Seq(Written)
        /\ Len(Append(Found, Seen)) = Len(frames) + 1
        /\ \A i \in 1..Len(frames) : Append(Found, Seen)[i] = hist[frames[i] + 1]
        /\ Append(Found, Seen)[Len(frames) + 1] = db
    BY <2>1, FoundFacts, AppendProperties, SMTT(60)
  <2>3. \A i \in 1..Len(frames') : frames'[i] + 1 <= Len(hist')
    BY <1>1, <1>3, <1>4, <1>5, SMTT(60) DEF Nested
  <2>4. /\ Found' \in Seq(Written) /\ Len(Found') = Len(frames')
        /\ \A i \in 1..Len(frames') : Found'[i] = hist[frames'[i] + 1]
    <3>1. Found' = [i \in DOMAIN frames' |-> hist'[frames'[i] + 1]]
      BY DEF Found
    <3> QED
      BY <1>1, <1>4, <2>3, <3>1, StateFacts, Picks, SMTT(60)
  <2>5. ASSUME NEW i \in 1..Len(Found')
        PROVE  Found'[i] = Append(Found, Seen)[i]
    <3>1. CASE i \in 1..Len(frames)
      BY <1>4, <2>2, <2>4, <3>1
    <3>2. CASE i = Len(frames) + 1
      BY <1>3, <1>4, <2>2, <2>4, <3>2
    <3>3. i \in 1..(Len(frames) + 1)
      BY <1>4, <2>4
    <3>4. i \in 1..Len(frames) \/ i = Len(frames) + 1
      BY <1>2, <3>3, SMTT(60)
    <3> QED
      BY <3>1, <3>2, <3>4
  <2> QED
    BY <1>4, <2>2, <2>4, <2>5, SeqEqual
<1>8. Seen' = Seen
  BY <1>1 DEF Seen
<1> QED
  BY <1>6, <1>7, <1>8 DEF Keeps, Abstract!Next, Abstract!Enter

(* A frame that ends, with success or not, is the last one. *)
LEMMA FrameEnds ==
    ASSUME SimInv, Running, frames' = SubSeq(frames, 1, Len(frames) - 1), UNCHANGED dbVars
    PROVE  /\ Nested(frames', frames[Len(frames)]) /\ frames[Len(frames)] \in Nat
           /\ frames[Len(frames)] <= Len(journal)
           /\ Found # <<>> /\ Found' = SubSeq(Found, 1, Len(Found) - 1)
           /\ Found[Len(Found)] = hist[frames[Len(frames)] + 1]
<1> DEFINE last == frames[Len(frames)]
<1>1. /\ frames # <<>> /\ undoTo = None /\ Nested(frames, Len(journal))
      /\ journal' = journal /\ hist' = hist
  BY DEF SimInv, Running, dbVars
<1>2. frames \in Seq(Nat) /\ Len(frames) \in Nat \ {0} /\ last \in Nat /\ last <= Len(journal)
  BY <1>1, SMTT(60) DEF Nested
<1>3. /\ frames' \in Seq(Nat) /\ Len(frames') = Len(frames) - 1
      /\ \A i \in 1..(Len(frames) - 1) : frames'[i] = frames[i]
  BY <1>2, FrontFacts, SMTT(60)
<1>4. Nested(frames', last)
  <2>1. \A i \in 1..Len(frames') : frames'[i] <= last
    <3> TAKE i \in 1..Len(frames')
    <3>1. i \in 1..Len(frames) /\ i < Len(frames) /\ frames'[i] = frames[i]
      BY <1>2, <1>3, SMTT(60)
    <3> QED
      BY <1>1, <1>2, <3>1, SMTT(60) DEF Nested
  <2>2. \A i, k \in 1..Len(frames') : i < k => frames'[i] <= frames'[k]
    <3> TAKE i, k \in 1..Len(frames')
    <3>1. i \in 1..Len(frames) /\ frames'[i] = frames[i]
      BY <1>2, <1>3, SMTT(60)
    <3>2. k \in 1..Len(frames) /\ frames'[k] = frames[k]
      BY <1>2, <1>3, SMTT(60)
    <3> QED
      BY <1>1, <3>1, <3>2 DEF Nested
  <2> QED
    BY <1>3, <2>1, <2>2 DEF Nested
<1>5. Len(Found) = Len(frames) /\ Found \in Seq(Written) /\ Found[Len(Found)] = hist[last + 1]
  BY <1>2, FoundFacts, SMTT(60)
<1>6. Found' = SubSeq(Found, 1, Len(Found) - 1)
  <2> DEFINE p == SubSeq(Found, 1, Len(Found) - 1)
  <2>1. /\ p \in Seq(Written) /\ Len(p) = Len(frames) - 1
        /\ \A i \in 1..(Len(frames) - 1) : p[i] = Found[i]
    BY <1>2, <1>5, FrontFacts, SMTT(60)
  <2> HIDE DEF p
  <2>2. ASSUME NEW i \in 1..(Len(frames) - 1) PROVE p[i] = hist[frames'[i] + 1]
    <3>1. Len(frames) \in Nat /\ \A k \in 1..Len(frames) : Found[k] = hist[frames[k] + 1]
      BY <1>1, FoundFacts
    <3>2. PICK n : n = Len(frames)
      OBVIOUS
    <3>3. i \in 1..n
      BY <3>1, <3>2, SMTT(60)
    <3>4. p[i] = Found[i] /\ frames'[i] = frames[i]
      BY <1>3, <2>1
    <3> QED
      BY <3>1, <3>2, <3>3, <3>4
  <2>3. \A i \in 1..Len(frames') : frames'[i] + 1 <= Len(hist')
    <3> TAKE i \in 1..Len(frames')
    <3>1. frames'[i] \in Nat /\ frames'[i] <= last
      BY <1>3, <1>4, SMTT(60) DEF Nested
    <3>2. Len(journal) \in Nat /\ Len(hist) = Len(journal) + 1 /\ Len(hist') = Len(hist)
      BY <1>1, StateFacts
    <3>3. last \in Nat /\ last <= Len(journal)
      BY <1>2
    <3> HIDE DEF last
    <3> QED
      BY <3>1, <3>2, <3>3, SMTT(60)
  <2>4. /\ Found' \in Seq(Written) /\ Len(Found') = Len(frames) - 1
        /\ \A i \in 1..(Len(frames) - 1) : Found'[i] = hist[frames'[i] + 1]
    <3>1. Found' = [i \in DOMAIN frames' |-> hist'[frames'[i] + 1]]
      BY DEF Found
    <3>2. hist' \in Seq(Written)
      BY <1>1, StateFacts
    <3>3. /\ Found' \in Seq(Written) /\ Len(Found') = Len(frames')
          /\ \A i \in 1..Len(frames') : Found'[i] = hist'[frames'[i] + 1]
      <4>1. PICK f \in Seq(Nat) : f = frames'
        BY <1>3
      <4>2. PICK h \in Seq(Written) : h = hist'
        BY <3>2
      <4>3. /\ \A i \in 1..Len(f) : f[i] + 1 <= Len(h)
            /\ Found' = [i \in DOMAIN f |-> h[f[i] + 1]]
        BY <2>3, <3>1, <4>1, <4>2
      <4>4. PICK q : q = Found'
        OBVIOUS
      <4>5. /\ q \in Seq(Written) /\ Len(q) = Len(f)
            /\ \A i \in 1..Len(f) : q[i] = h[f[i] + 1]
        BY <4>3, <4>4, Picks
      <4> QED
        BY <4>1, <4>2, <4>4, <4>5
    <3> QED
      BY <1>1, <1>3, <3>3
  <2> QED
    BY <2>1, <2>2, <2>4, SeqEqual DEF p
<1> QED
  BY <1>2, <1>4, <1>5, <1>6

LEMMA FrameSucceedsKeeps ==
    ASSUME SimInv, FrameSucceeds
    PROVE  Keeps
<1>1. /\ Running /\ frames' = SubSeq(frames, 1, Len(frames) - 1) /\ UNCHANGED dbVars
      /\ undoTo = None /\ undoTo' = None /\ stage' = stage /\ stage = "run"
      /\ db' = db /\ journal' = journal /\ hist' = hist
  BY DEF FrameSucceeds, Running, execVars, dbVars
<1>2. /\ Nested(frames', frames[Len(frames)]) /\ frames[Len(frames)] \in Nat
      /\ frames[Len(frames)] <= Len(journal)
      /\ Found # <<>> /\ Found' = SubSeq(Found, 1, Len(Found) - 1)
  BY <1>1, FrameEnds
<1>3. Nested(frames', Len(journal'))
  <2>1. Len(journal) \in Nat
    BY StateFacts
  <2>2. \A i \in 1..Len(frames') : frames'[i] \in Nat
    BY <1>2, SMTT(60) DEF Nested
  <2> QED
    BY <1>1, <1>2, <2>1, <2>2, SMTT(60) DEF Nested
<1>4. SimInv'
  BY <1>1, <1>3 DEF SimInv
<1>5. Seen' = Seen
  BY <1>1 DEF Seen
<1> QED
  BY <1>2, <1>4, <1>5 DEF Keeps, Abstract!Next, Abstract!Leave

LEMMA FrameFailsKeeps ==
    ASSUME SimInv, FrameFails
    PROVE  Keeps
<1> DEFINE last == frames[Len(frames)]
<1>1. /\ Running /\ frames' = SubSeq(frames, 1, Len(frames) - 1) /\ UNCHANGED dbVars
      /\ undoTo = None /\ undoTo' = last /\ stage' = stage /\ stage = "run"
      /\ db' = db /\ journal' = journal /\ hist' = hist
  BY DEF FrameFails, Running, execVars, dbVars
<1>2. /\ Nested(frames', last) /\ last \in Nat
      /\ last <= Len(journal)
      /\ Found # <<>> /\ Found' = SubSeq(Found, 1, Len(Found) - 1)
      /\ Found[Len(Found)] = hist[last + 1]
  BY <1>1, FrameEnds
<1>3. undoTo' # None
  BY <1>1, <1>2, SimAssumption
<1>4. Nested(frames', undoTo')
  BY <1>1, <1>2 DEF Nested
<1>5. SimInv'
  BY <1>1, <1>2, <1>3, <1>4 DEF SimInv
<1>6. Seen' = Found[Len(Found)]
  BY <1>1, <1>2, <1>3 DEF Seen
<1> QED
  BY <1>2, <1>5, <1>6 DEF Keeps, Abstract!Next, Abstract!Fail

LEMMA RevertOneKeeps ==
    ASSUME SimInv, RevertOne
    PROVE  Keeps
<1>1. /\ undoTo # None /\ undoTo \in Nat /\ Len(journal) > undoTo
      /\ frames' = frames /\ undoTo' = undoTo /\ stage' = stage
      /\ Nested(frames, undoTo) /\ stage = "run"
  BY DEF RevertOne, SimInv, execVars
<1>2. Len(journal) \in Nat /\ Len(hist) = Len(journal) + 1 /\ Len(journal) > 0
  BY <1>1, StateFacts, SMTT(60)
<1>3. /\ GoodHistory(journal', hist')
      /\ Len(journal') = Len(journal) - 1
      /\ hist'[Len(hist')] = db'
      /\ \A n \in 1..Len(journal) : hist'[n] = hist[n]
  BY <1>2, ShrinkHistory DEF RevertOne, SimInv
<1>4. undoTo <= Len(journal')
  BY <1>1, <1>2, <1>3, SMTT(60)
<1>5. SimInv'
  BY <1>1, <1>3, <1>4 DEF SimInv
<1>6. Seen' = Seen
  BY <1>1, <1>2, <1>3, SMTT(60) DEF Seen
<1>7. Found' = Found
  <2>1. ASSUME NEW i \in DOMAIN frames PROVE hist'[frames[i] + 1] = hist[frames[i] + 1]
    <3>1. frames[i] \in Nat /\ frames[i] <= undoTo
      BY <1>1, SMTT(60) DEF Nested
    <3>2. frames[i] + 1 \in 1..Len(journal)
      BY <1>1, <1>2, <3>1, SMTT(60)
    <3> QED
      BY <1>3, <3>2
  <2> QED
    BY <1>1, <2>1 DEF Found
<1> QED
  BY <1>5, <1>6, <1>7 DEF Keeps

LEMMA RevertDoneKeeps ==
    ASSUME SimInv, RevertDone
    PROVE  Keeps
<1>1. /\ undoTo # None /\ undoTo \in Nat /\ undoTo' = None
      /\ frames' = frames /\ stage' = stage /\ stage = "run"
      /\ db' = db /\ journal' = journal /\ hist' = hist
      /\ Nested(frames, undoTo) /\ hist[Len(hist)] = db
  BY DEF RevertDone, SimInv, execVars, dbVars
<1>2. Len(journal) = undoTo /\ Len(hist) = undoTo + 1
  BY <1>1, StateFacts, SMTT(60) DEF RevertDone, SimInv
<1>3. SimInv'
  BY <1>1, <1>2 DEF SimInv
<1>4. Seen' = Seen
  BY <1>1, <1>2 DEF Seen
<1>5. Found' = Found
  BY <1>1 DEF Found
<1> QED
  BY <1>3, <1>4, <1>5 DEF Keeps

LEMMA ExecuteKeeps ==
    ASSUME SimInv, NEW overrides \in Overrides, NEW t \in Tip, Execute(overrides, t)
    PROVE  Keeps
<1> DEFINE w == Fresh(overrides)
<1>1. /\ frames = <<>> /\ undoTo = None /\ frames' = frames /\ undoTo' = undoTo
      /\ stage' = "prepare" /\ db' = w /\ journal' = <<>> /\ hist' = <<w>>
  BY DEF Execute, SimInv
<1>2. w \in Written
  BY SimAssumption, OverlayAssumption, SMTT(60) DEF Fresh, Written
<1>3. WarmClosed(w)
  BY DEF Fresh, WarmClosed
<1>4. Abstract!Fresh(overrides) = w
  BY SameOverlay
<1> HIDE DEF w
<1>5. GoodHistory(journal', hist')
  BY <1>1, <1>2, <1>3, SMTT(60) DEF GoodHistory
<1>6. SimInv'
  BY <1>1, <1>5, SMTT(60) DEF SimInv, Nested
<1>7. Found = <<>> /\ Found' = <<>>
  BY <1>1, SMTT(60) DEF Found
<1>8. Seen' = w
  BY <1>1 DEF Seen
<1> QED
  BY <1>4, <1>6, <1>7, <1>8 DEF Keeps, Abstract!Next, Abstract!NewCall

(* A step that leaves the overlay, the journal and the frames alone. *)
LEMMA OtherKeeps ==
    ASSUME SimInv, UNCHANGED <<dbVars, frames, undoTo>>,
           stage' = stage \/ (stage' = "idle" /\ frames = <<>> /\ undoTo = None)
    PROVE  Keeps
<1>1. db' = db /\ journal' = journal /\ hist' = hist /\ frames' = frames /\ undoTo' = undoTo
  BY DEF dbVars
<1> QED
  BY <1>1 DEF SimInv, Keeps, Seen, Found
-----------------------------------------------------------------------------
(***************************************************************************)
(* Every step of sim keeps the invariant and is a step, or a stutter, of   *)
(* the specification with copies.                                          *)
(***************************************************************************)
LEMMA StepKeeps ==
    ASSUME SimInv, [SimNext]_simVars
    PROVE  Keeps
<1>1. CASE UNCHANGED simVars
  BY <1>1, OtherKeeps DEF simVars, dbVars, execVars
<1>2. ASSUME NEW overrides \in Overrides, NEW t \in Tip, Execute(overrides, t) PROVE Keeps
  BY <1>2, ExecuteKeeps
<1>3. CASE Call
  <2>1. ASSUME NEW g \in 1..MaxRefund, AddRefund(g) PROVE Keeps
    <3>1. db.refund \in 0..MaxRefund /\ db.refund + g <= MaxRefund
      BY <2>1, StateFacts DEF Written, AddRefund
    <3>2. db.refund + g \in 0..MaxRefund
      BY <3>1, OverlayAssumption, SMTT(60)
    <3> QED
      BY <2>1, <3>2, RefundKeeps DEF AddRefund, Running, Method, execVars
  <2>2. CASE ReadFails
    BY <2>2, OtherKeeps DEF ReadFails
  <2> QED
    BY <1>3, <2>1, <2>2, SetKeeps, SetCodeKeeps, CreateAccountKeeps, SelfDestructKeeps,
       AddAddressKeeps, AddSlotKeeps, SubRefundKeeps, AddLogKeeps DEF Call
<1>4. CASE Return
  BY <1>4, OtherKeeps DEF Return
<1> QED
  BY <1>1, <1>2, <1>3, <1>4, SnapshotKeeps, FrameSucceedsKeeps, FrameFailsKeeps,
     RevertOneKeeps, RevertDoneKeeps DEF SimNext

(***************************************************************************)
(* For all addresses, slots, values, programs and nestings of frames, the  *)
(* journal of sim's stateDB implements the specification in which every    *)
(* frame keeps a copy of the overlay: a failed frame leaves no trace.      *)
(***************************************************************************)
THEOREM JournalCorrect == SimSpec => JournalImplementsCopies
<1>1. SimInit => SimInv /\ Abstract!Init
  <2> SUFFICES ASSUME SimInit PROVE SimInv /\ Abstract!Init
    OBVIOUS
  <2> DEFINE o == [k \in Cell |-> None]
             w == Fresh(o)
  <2>1. /\ db = w /\ journal = <<>> /\ hist = <<w>> /\ frames = <<>> /\ undoTo = None
        /\ stage = "idle"
    BY DEF SimInit
  <2>2. w \in Written
    BY OverlayAssumption, SMTT(60) DEF Fresh, Written
  <2>3. WarmClosed(w)
    BY DEF Fresh, WarmClosed
  <2>4. w = Abstract!Fresh([k \in Abstract!Cell |-> None])
    BY SameOverlay
  <2> HIDE DEF w
  <2>5. GoodHistory(journal, hist)
    BY <2>1, <2>2, <2>3, SMTT(60) DEF GoodHistory
  <2>6. SimInv
    BY <2>1, <2>5, SMTT(60) DEF SimInv, Nested
  <2>7. Found = <<>> /\ Seen = w
    BY <2>1, SMTT(60) DEF Found, Seen
  <2> QED
    BY <2>4, <2>6, <2>7 DEF Abstract!Init
<1>2. SimInv /\ [SimNext]_simVars => SimInv' /\ [Abstract!Next]_<<Seen, Found>>
  BY StepKeeps DEF Keeps
<1> QED
  BY <1>1, <1>2, PTL DEF SimSpec, JournalImplementsCopies, Abstract!Spec
-----------------------------------------------------------------------------
(***************************************************************************)
(* The EVM an executor keeps.  While a call runs it is the one EnvFor      *)
(* chose for the call's tip, cancelled only together with readErr; between *)
(* calls it is kept only if it was never cancelled, which is what makes    *)
(* EnvFor's reuse of it safe.                                              *)
(***************************************************************************)
EvmInv ==
    /\ stage # "idle" =>
         /\ evm \in [tip : Tip, cancelled : BOOLEAN]
         /\ evm.tip = tip /\ (evm.cancelled = TRUE => readErr = TRUE)
    /\ stage = "idle" /\ evm # None =>
         evm \in [tip : Tip, cancelled : {FALSE}]
    /\ readErr \in BOOLEAN

(* No method of vm.StateDB leaves the EVM of the call with another tip, and *)
(* those that cancel it record the error the call returns.                  *)
LEMMA MethodKeepsEvm == EvmInv /\ Call => EvmInv'
<1> SUFFICES ASSUME EvmInv, Call PROVE EvmInv'
  OBVIOUS
<1>1. CASE UNCHANGED execVars
  BY <1>1 DEF EvmInv, execVars
<1>2. CASE /\ stage # "idle" /\ readErr' = TRUE
           /\ evm' = [evm EXCEPT !.cancelled = TRUE] /\ UNCHANGED <<stage, tip>>
  BY <1>2 DEF EvmInv
<1>3. ASSUME NEW g \in 1..MaxRefund, SubRefund(g) PROVE EvmInv'
  <2>1. stage = "run" /\ UNCHANGED <<stage, tip>>
    BY <1>3 DEF SubRefund, Running
  <2>2. \/ UNCHANGED <<evm, readErr>>
        \/ readErr' = TRUE /\ evm' = [evm EXCEPT !.cancelled = TRUE]
    BY <1>3 DEF SubRefund
  <2> QED BY <2>1, <2>2, <1>1, <1>2 DEF execVars
<1>4. CASE ReadFails
  BY <1>4, <1>2 DEF ReadFails, Running
<1> QED
  BY <1>1, <1>3, <1>4 DEF Call, Method, Set, SetCode, CreateAccount, SelfDestruct,
     AddAddressToAccessList, AddSlotToAccessList, AddRefund, AddLog

(***************************************************************************)
(* Every call runs on an EVM built for the tip of its view, and a          *)
(* cancelled EVM never serves a call that would not return the error.      *)
(***************************************************************************)
THEOREM EvmCurrent == SimSpec => []EvmIsCurrent
<1>1. SimInit => EvmInv
  BY DEF SimInit, EvmInv
<1>2. ASSUME EvmInv, [SimNext]_simVars PROVE EvmInv'
  <2>1. ASSUME NEW o \in Overrides, NEW t \in Tip, Execute(o, t) PROVE EvmInv'
    <3>1. /\ stage = "idle" /\ stage' = "prepare" /\ tip' = t /\ readErr' = FALSE
          /\ evm' = IF evm = None \/ evm.tip # t THEN [tip |-> t, cancelled |-> FALSE] ELSE evm
      BY <2>1 DEF Execute, EnvFor
    <3>2. evm' \in [tip : Tip, cancelled : {FALSE}] /\ evm'.tip = t
      BY <3>1, <1>2 DEF EvmInv
    <3> QED BY <3>1, <3>2 DEF EvmInv
  <2>2. CASE Call
    BY <2>2, <1>2, MethodKeepsEvm
  <2>3. CASE Snapshot
    BY <2>3, <1>2 DEF Snapshot, Running, EvmInv
  <2>4. CASE Return
    BY <2>4, <1>2 DEF Return, EvmInv
  <2>5. CASE UNCHANGED execVars
    BY <2>5, <1>2 DEF execVars, EvmInv
  <2> QED
    BY <1>2, <2>1, <2>2, <2>3, <2>4, <2>5
    DEF SimNext, simVars, FrameSucceeds, FrameFails, RevertOne, RevertDone
<1>3. EvmInv => EvmIsCurrent
  BY DEF EvmInv, EvmIsCurrent
<1> QED
  BY <1>1, <1>2, <1>3, PTL DEF SimSpec
=============================================================================
