---------------------------- MODULE StoreProofs ----------------------------
(***************************************************************************)
(* Store's reads are exact for every history, every baseline and every     *)
(* interleaving of the loader, its crashes and the block writer.           *)
(***************************************************************************)
EXTENDS Store, TLAPS, WellFoundedInduction

\* A minute for each leaf: the default of five seconds is short for a large module.
USE ZenonT(60)

(***************************************************************************)
(* The inductive invariant.  HistorySound is the reason the reads are      *)
(* right: at every height the history rows, where they say anything, give  *)
(* the true value, and where they say nothing the key still has its value  *)
(* at genesis.  The rest is about the loader: what is committed is the     *)
(* snapshot, and an account is never committed ahead of the promise to     *)
(* fetch its storage.                                                      *)
(***************************************************************************)
HistorySound ==
    \A a \in Addr, at \in Genesis..top :
      /\ truth[at].acct[a] = Either(AcctHistory(env, a, at), Base.acct[a])
      /\ \A s \in Slot :
           truth[at].slot[a][s] = Either(SlotHistory(env, a, s, at), Base.slot[a][s])

BaseSound ==
    \A a \in Addr :
      /\ env.baseAcct[a] \in {None, Base.acct[a]}
      /\ \A s \in Slot : env.baseSlot[a][s] \in {None, Base.slot[a][s]}

Queued(a) ==
    \/ a \in env.queue
    \/ Op("queue", a, None) \in buf
    \/ AllSlots(env, buf, a)

BufSound ==
    \A a \in Addr :
      /\ Op("acct", a, None) \in buf /\ HasStorage(a) => Queued(a)
      /\ Op("dequeue", a, None) \in buf => AllSlots(env, buf, a)

TodoSound ==
    \/ todo = <<>>
    \/ \E a \in Addr : todo = <<Op("queue", a, None), Op("acct", a, None)>>
    \/ \E a \in Addr : /\ todo = <<Op("acct", a, None)>>
                       /\ HasStorage(a) => Queued(a)
    \/ \E a \in Addr, s \in Slot : todo = <<Op("slot", a, s)>>
    \/ \E a \in Addr : /\ todo = <<Op("dequeue", a, None)>>
                       /\ AllSlots(env, buf, a)

LoaderInv ==
    /\ BaseSound
    /\ BufSound
    /\ TodoSound
    /\ StorageNeverForgotten
    /\ CompleteIsFull
    /\ env.complete => buf = {} /\ todo = <<>>

(* A read that began complete holds the answer of its snapshot. *)
ReadSound ==
    /\ ReadAfterCompleteExact
    /\ rd.pc = "miss" /\ rd.begunComplete => env.complete /\ rd.absent = rd.want

IInv == TypeOK /\ HistorySound /\ LoaderInv /\ ReadSound
-----------------------------------------------------------------------------
(***************************************************************************)
(* seekLE.                                                                 *)
(***************************************************************************)

(* The order of the naturals as a relation, for the well-founded minimum. *)
LEMMA LessRelation ==
    OpToRel(<, Nat) = {p \in Nat \X Nat : p[1] < p[2]}
BY DEF OpToRel

(* A nonempty set of naturals has a least element. *)
LEMMA NatMin ==
    ASSUME NEW T \in SUBSET Nat, T # {}
    PROVE  \E x \in T : \A y \in T : x <= y
<1>1. PICK x \in T : \A y \in T : ~ (<<y, x>> \in OpToRel(<, Nat))
  BY NatLessThanWellFounded, WFMin
<1>2. \A y \in T : y \in Nat /\ x \in Nat
  OBVIOUS
<1>3. \A y \in T : ~ (y < x)
  <2> TAKE y \in T
  <2>1. ~ (<<y, x>> \in {p \in Nat \X Nat : p[1] < p[2]})
    BY <1>1, LessRelation
  <2> QED
    BY <1>2, <2>1
<1>4. \A y \in T : x <= y
  BY <1>2, <1>3, SMTT(60)
<1> QED
  BY <1>4

(* A nonempty bounded set of heights has a greatest element, and Max is it. *)
LEMMA MaxBounded ==
    ASSUME NEW m \in Int, NEW n \in Int, NEW H \in SUBSET (m..n), H # {}
    PROVE  Max(H) \in H /\ \A y \in H : y <= Max(H)
<1> DEFINE T == {k \in Nat : n - k \in H}
<1>1. T # {}
  <2>1. PICK y \in H : TRUE
    OBVIOUS
  <2>2. n - y \in Nat /\ n - (n - y) = y
    BY <2>1, SMTT(60)
  <2> QED
    BY <2>1, <2>2
<1>2. T \in SUBSET Nat
  OBVIOUS
<1>3. PICK k \in T : \A j \in T : k <= j
  <2> HIDE DEF T
  <2> QED
    BY <1>1, <1>2, NatMin
<1>4. \A y \in H : y <= n - k
  <2> TAKE y \in H
  <2>1. n - y \in Nat
    BY SMTT(60)
  <2>2. n - (n - y) = y
    BY SMTT(60)
  <2>3. n - y \in T
    BY <2>1, <2>2
  <2>4. k \in Nat /\ k <= n - y
    BY <1>3, <2>3
  <2> QED
    BY <2>4, SMTT(60)
<1>5. \E x \in H : \A y \in H : x >= y
  BY <1>4
<1> QED
  BY <1>5 DEF Max

(* seekLE returns the greatest row height at or below at, if there is one. *)
LEMMA SeekLEFound ==
    ASSUME NEW n \in Int, NEW H \in SUBSET (Genesis + 1 .. n), NEW at \in Int
    PROVE  \/ /\ SeekLE(H, at) = NotFound
              /\ \A h \in H : h > at
           \/ /\ SeekLE(H, at) \in H
              /\ SeekLE(H, at) <= at
              /\ \A h \in H : h <= at => h <= SeekLE(H, at)
<1> DEFINE G == {h \in H : h <= at}
<1>0. Genesis \in Int
  BY StoreAssumption, SMTT(60)
<1>1. CASE G = {}
  BY <1>0, <1>1, SMTT(60) DEF SeekLE
<1>2. CASE G # {}
  <2>1. Max(G) \in G /\ \A y \in G : y <= Max(G)
    <3>1. G \in SUBSET (Genesis + 1 .. n)
      BY <1>0
    <3>2. Genesis + 1 \in Int
      BY <1>0, SMTT(60)
    <3> HIDE DEF G
    <3> QED
      BY <1>2, <3>1, <3>2, MaxBounded
  <2>2. SeekLE(H, at) = Max(G)
    BY <1>2 DEF SeekLE
  <2> QED
    BY <2>1, <2>2
<1> QED
  BY <1>1, <1>2

(* A row above at does not change what seekLE finds at at. *)
LEMMA SeekLEOld ==
    ASSUME NEW n \in Int, NEW H \in SUBSET (Genesis + 1 .. n), NEW at \in Int, at <= n
    PROVE  SeekLE(H \cup {n + 1}, at) = SeekLE(H, at)
<1>0. Genesis \in Int
  BY StoreAssumption, SMTT(60)
<1>1. {h \in H \cup {n + 1} : h <= at} = {h \in H : h <= at}
  BY <1>0, SMTT(60)
<1> QED
  BY <1>1 DEF SeekLE

(* A row at the height asked for is the one seekLE finds. *)
LEMMA SeekLENew ==
    ASSUME NEW n \in Int, NEW H \in SUBSET (Genesis + 1 .. n), Genesis <= n
    PROVE  SeekLE(H \cup {n + 1}, n + 1) = n + 1
<1>0. Genesis \in Int
  BY StoreAssumption, SMTT(60)
<1> DEFINE K == H \cup {n + 1}
<1>1. K \in SUBSET (Genesis + 1 .. n + 1)
  BY <1>0, SMTT(60)
<1>2. n + 1 \in Int
  BY SMTT(60)
<1>3. n + 1 \in K
  OBVIOUS
<1>4. \A h \in K : h \in Int
  BY <1>1, SMTT(60)
<1> HIDE DEF K
<1>5. \/ /\ SeekLE(K, n + 1) = NotFound
         /\ \A h \in K : h > n + 1
      \/ /\ SeekLE(K, n + 1) \in K
         /\ SeekLE(K, n + 1) <= n + 1
         /\ \A h \in K : h <= n + 1 => h <= SeekLE(K, n + 1)
  BY <1>1, <1>2, SeekLEFound
<1>6. SeekLE(K, n + 1) = n + 1
  BY <1>2, <1>3, <1>4, <1>5, SMTT(60)
<1> QED
  BY <1>6 DEF K

(* Above the newest row seekLE finds what it finds at the newest height. *)
LEMMA SeekLEAbove ==
    ASSUME NEW n \in Int, NEW H \in SUBSET (Genesis + 1 .. n), NEW at \in Int, n <= at
    PROVE  SeekLE(H, at) = SeekLE(H, n)
<1>0. Genesis \in Int
  BY StoreAssumption, SMTT(60)
<1>1. \A h \in H : h \in Int /\ h <= n /\ h <= at
  BY <1>0, SMTT(60)
<1>2. {h \in H : h <= at} = {h \in H : h <= n}
  BY <1>1
<1> QED
  BY <1>2 DEF SeekLE
-----------------------------------------------------------------------------
(***************************************************************************)
(* What WriteBlock's rows do to the reads.                                 *)
(***************************************************************************)

(* The components of a well-typed environment. *)
LEMMA EnvTypes ==
    ASSUME TypeOK, NEW a \in Addr
    PROVE  /\ top \in Int /\ Genesis \in Int /\ Genesis <= top
           /\ DOMAIN env.acct[a] \in SUBSET (Genesis + 1 .. top)
           /\ \A h \in DOMAIN env.acct[a] : env.acct[a][h] \in Acct
           /\ env.dest[a] \in SUBSET (Genesis + 1 .. top)
           /\ \A s \in Slot :
                /\ DOMAIN env.slot[a][s] \in SUBSET (Genesis + 1 .. top)
                /\ \A h \in DOMAIN env.slot[a][s] : env.slot[a][s][h] \in Val
<1>1. top \in Int /\ Genesis \in Int /\ Genesis <= top
  BY StoreAssumption, SMTT(60) DEF TypeOK
<1>2. env.acct[a] \in RowsOf(Acct)
  BY DEF TypeOK
<1>3. \A s \in Slot : env.slot[a][s] \in RowsOf(Val)
  BY SMTT(60) DEF TypeOK
<1>4. env.dest[a] \in SUBSET (Genesis + 1 .. top)
  BY DEF TypeOK
<1>5. \A V : \A f \in RowsOf(V) : /\ DOMAIN f \in SUBSET (Genesis + 1 .. top)
                                  /\ \A h \in DOMAIN f : f[h] \in V
  BY DEF RowsOf
<1> QED
  BY <1>1, <1>2, <1>3, <1>4, <1>5

(* Rows at top + 1 leave every read at or below top as it was. *)
LEMMA HistoryOld ==
    ASSUME TypeOK, NEW b \in Batches, NEW a \in Addr, NEW at \in Genesis..top,
           NEW e, e = Rows(env, top + 1, b)
    PROVE  /\ AcctHistory(e, a, at) = AcctHistory(env, a, at)
           /\ \A s \in Slot : SlotHistory(e, a, s, at) = SlotHistory(env, a, s, at)
<1>0. /\ top \in Int /\ Genesis \in Int /\ Genesis <= top
      /\ DOMAIN env.acct[a] \in SUBSET (Genesis + 1 .. top)
      /\ env.dest[a] \in SUBSET (Genesis + 1 .. top)
      /\ \A s \in Slot : DOMAIN env.slot[a][s] \in SUBSET (Genesis + 1 .. top)
  BY EnvTypes
<1>1. /\ e.acct[a] = Put(env.acct[a], top + 1, b.acct[a])
      /\ e.dest[a] = IF a \in b.dest THEN env.dest[a] \cup {top + 1} ELSE env.dest[a]
      /\ \A s \in Slot :
           e.slot[a][s] = Put(env.slot[a][s], top + 1, b.slot[a][s])
  BY DEF TypeOK, Rows
<1>2. \A x \in Int : x <= top =>
         SeekLE(DOMAIN e.acct[a], x) = SeekLE(DOMAIN env.acct[a], x)
  <2>1. \/ e.acct[a] = env.acct[a]
        \/ DOMAIN e.acct[a] = DOMAIN env.acct[a] \cup {top + 1}
    BY <1>1 DEF Put
  <2> QED
    BY <1>0, <2>1, SeekLEOld, SMTT(60)
<1>3. \A x \in Int : x <= top => SeekLE(e.dest[a], x) = SeekLE(env.dest[a], x)
  BY <1>0, <1>1, SeekLEOld, SMTT(60)
<1>4. \A h \in DOMAIN env.acct[a] : e.acct[a][h] = env.acct[a][h]
  BY <1>0, <1>1, SMTT(60) DEF Put
<1>5. ASSUME NEW s \in Slot
      PROVE  /\ \A x \in Int : x <= top =>
                  SeekLE(DOMAIN e.slot[a][s], x) = SeekLE(DOMAIN env.slot[a][s], x)
             /\ \A h \in DOMAIN env.slot[a][s] : e.slot[a][s][h] = env.slot[a][s][h]
  <2>1. DOMAIN env.slot[a][s] \in SUBSET (Genesis + 1 .. top)
    BY <1>0
  <2>2. e.slot[a][s] = Put(env.slot[a][s], top + 1, b.slot[a][s])
    BY <1>1
  <2>3. \/ e.slot[a][s] = env.slot[a][s]
        \/ DOMAIN e.slot[a][s] = DOMAIN env.slot[a][s] \cup {top + 1}
    BY <2>2 DEF Put
  <2>4. \A x \in Int : x <= top =>
          SeekLE(DOMAIN e.slot[a][s], x) = SeekLE(DOMAIN env.slot[a][s], x)
    BY <1>0, <2>1, <2>3, SeekLEOld, SMTT(60)
  <2>5. \A h \in DOMAIN env.slot[a][s] : e.slot[a][s][h] = env.slot[a][s][h]
    BY <1>0, <2>1, <2>2, SMTT(60) DEF Put
  <2> QED
    BY <2>4, <2>5
<1>6. at \in Int /\ at <= top
  BY <1>0, SMTT(60)
<1>7. AcctHistory(e, a, at) = AcctHistory(env, a, at)
  <2>1. \/ SeekLE(DOMAIN env.acct[a], at) = NotFound
        \/ SeekLE(DOMAIN env.acct[a], at) \in DOMAIN env.acct[a]
    BY <1>0, <1>6, SeekLEFound
  <2> QED
    BY <1>2, <1>3, <1>4, <1>6, <2>1 DEF AcctHistory
<1>8. ASSUME NEW s \in Slot
      PROVE  SlotHistory(e, a, s, at) = SlotHistory(env, a, s, at)
  <2>1. \/ SeekLE(DOMAIN env.slot[a][s], at) = NotFound
        \/ SeekLE(DOMAIN env.slot[a][s], at) \in DOMAIN env.slot[a][s]
    BY <1>0, <1>6, SeekLEFound
  <2>2. SeekLE(env.dest[a], at) \in Int /\ SeekLE(env.dest[a], at) <= top
    <3>1. \/ SeekLE(env.dest[a], at) = NotFound
          \/ SeekLE(env.dest[a], at) \in env.dest[a]
      BY <1>0, <1>6, SeekLEFound
    <3> QED
      BY <1>0, <3>1, StoreAssumption, SMTT(60) DEF NotFound
  <2>3. SeekLE(DOMAIN e.acct[a], SeekLE(env.dest[a], at))
          = SeekLE(DOMAIN env.acct[a], SeekLE(env.dest[a], at))
    BY <1>2, <2>2
  <2> QED
    BY <1>3, <1>5, <1>6, <2>1, <2>3, SMTT(60) DEF SlotHistory
<1> QED
  BY <1>7, <1>8

(* At top + 1 a read sees what the block did to the answer at top. *)
LEMMA HistoryNew ==
    ASSUME TypeOK, NEW b \in Batches, NEW a \in Addr,
           NEW e, e = Rows(env, top + 1, b)
    PROVE  /\ AcctHistory(e, a, top + 1) = AcctAfter(AcctHistory(env, a, top), b, a)
           /\ \A s \in Slot : SlotHistory(e, a, s, top + 1)
                                = SlotAfter(SlotHistory(env, a, s, top), b, a, s)
<1>0. /\ top \in Int /\ Genesis \in Int /\ Genesis <= top /\ Genesis \in Nat
      /\ DOMAIN env.acct[a] \in SUBSET (Genesis + 1 .. top)
      /\ env.dest[a] \in SUBSET (Genesis + 1 .. top)
      /\ \A s \in Slot : DOMAIN env.slot[a][s] \in SUBSET (Genesis + 1 .. top)
  BY EnvTypes, StoreAssumption
<1>1. /\ e.acct[a] = Put(env.acct[a], top + 1, b.acct[a])
      /\ e.dest[a] = IF a \in b.dest THEN env.dest[a] \cup {top + 1} ELSE env.dest[a]
      /\ \A s \in Slot :
           e.slot[a][s] = Put(env.slot[a][s], top + 1, b.slot[a][s])
  BY DEF TypeOK, Rows
<1>2. \A s \in Slot : a \in b.dest /\ b.slot[a][s] # None => b.acct[a] # None
  BY StoreAssumption DEF Contract
<1> DEFINE New(H, written) ==
             SeekLE(H, top + 1) = IF written THEN top + 1 ELSE SeekLE(H, top)
<1>3. New(DOMAIN e.acct[a], b.acct[a] # None)
  <2>1. CASE b.acct[a] # None
    <3>1. DOMAIN e.acct[a] = DOMAIN env.acct[a] \cup {top + 1}
      BY <1>1, <2>1 DEF Put
    <3> QED
      BY <1>0, <2>1, <3>1, SeekLENew
  <2>2. CASE b.acct[a] = None
    <3>1. e.acct[a] = env.acct[a]
      BY <1>1, <2>2 DEF Put
    <3> QED
      BY <1>0, <2>2, <3>1, SeekLEAbove, SMTT(60)
  <2> QED
    BY <2>1, <2>2
<1>4. New(e.dest[a], a \in b.dest)
  <2>1. CASE a \in b.dest
    BY <1>0, <1>1, <2>1, SeekLENew
  <2>2. CASE a \notin b.dest
    BY <1>0, <1>1, <2>2, SeekLEAbove, SMTT(60)
  <2> QED
    BY <2>1, <2>2
<1>5. /\ SeekLE(DOMAIN env.acct[a], top) \in {NotFound} \cup (Genesis + 1 .. top)
      /\ SeekLE(env.dest[a], top) \in {NotFound} \cup (Genesis + 1 .. top)
      /\ \A s \in Slot :
           SeekLE(DOMAIN env.slot[a][s], top) \in {NotFound} \cup (Genesis + 1 .. top)
  BY <1>0, SeekLEFound
<1>6. AcctHistory(e, a, top + 1) = AcctAfter(AcctHistory(env, a, top), b, a)
  <2>1. CASE b.acct[a] # None
    <3>1. e.acct[a][top + 1] = b.acct[a]
      BY <1>1, <2>1 DEF Put
    <3>2. SeekLE(DOMAIN e.acct[a], top + 1) = top + 1
      BY <1>3, <2>1
    <3>3. SeekLE(e.dest[a], top + 1) <= top + 1
      BY <1>0, <1>4, <1>5, <1>1, SMTT(60) DEF NotFound
    <3> QED
      BY <1>0, <2>1, <3>1, <3>2, <3>3, SMTT(60) DEF AcctHistory, AcctAfter, NotFound
  <2>2. CASE b.acct[a] = None /\ a \in b.dest
    <3>1. e.acct[a] = env.acct[a]
      BY <1>1, <2>2 DEF Put
    <3> QED
      BY <1>0, <1>3, <1>4, <1>5, <2>2, <3>1, SMTT(60) DEF AcctHistory, AcctAfter, NotFound
  <2>3. CASE b.acct[a] = None /\ a \notin b.dest
    <3>1. e.acct[a] = env.acct[a] /\ e.dest[a] = env.dest[a]
      BY <1>1, <2>3 DEF Put
    <3> QED
      BY <1>3, <1>4, <2>3, <3>1 DEF AcctHistory, AcctAfter
  <2> QED
    BY <2>1, <2>2, <2>3
<1>7. ASSUME NEW s \in Slot
      PROVE  SlotHistory(e, a, s, top + 1)
               = SlotAfter(SlotHistory(env, a, s, top), b, a, s)
  <2>0. e.slot[a][s] = Put(env.slot[a][s], top + 1, b.slot[a][s])
    BY <1>1
  <2>1. CASE b.slot[a][s] # None
    <3>1. /\ DOMAIN e.slot[a][s] = DOMAIN env.slot[a][s] \cup {top + 1}
          /\ e.slot[a][s][top + 1] = b.slot[a][s]
      BY <2>0, <2>1 DEF Put
    <3>2. SeekLE(DOMAIN e.slot[a][s], top + 1) = top + 1
      BY <1>0, <3>1, SeekLENew
    <3>3. SeekLE(e.dest[a], top + 1) <= top + 1
      BY <1>0, <1>4, <1>5, <1>1, SMTT(60) DEF NotFound
    <3>4. SeekLE(e.dest[a], top + 1) = top + 1 =>
            SeekLE(DOMAIN e.acct[a], top + 1) = top + 1
      <4>1. SeekLE(e.dest[a], top + 1) = top + 1 => a \in b.dest
        BY <1>0, <1>4, <1>5, <1>1, SMTT(60) DEF NotFound
      <4> QED
        BY <1>2, <1>3, <2>1, <4>1
    <3>5. SeekLE(e.dest[a], top + 1) \in Int
      BY <1>0, <1>4, <1>5, <1>1, SMTT(60) DEF NotFound
    <3> QED
      BY <1>0, <2>1, <3>1, <3>2, <3>3, <3>4, <3>5, SMTT(60) DEF SlotHistory, SlotAfter, NotFound
  <2>2. CASE b.slot[a][s] = None
    <3>1. e.slot[a][s] = env.slot[a][s]
      BY <2>0, <2>2 DEF Put
    <3>2. SeekLE(DOMAIN e.slot[a][s], top + 1) = SeekLE(DOMAIN env.slot[a][s], top)
      BY <1>0, <3>1, SeekLEAbove, SMTT(60)
    <3>3. CASE a \in b.dest
      BY <1>0, <1>4, <1>5, <2>2, <3>2, <3>3, SMTT(60) DEF SlotHistory, SlotAfter, NotFound
    <3>4. CASE a \notin b.dest
      <4>1. SeekLE(e.dest[a], top + 1) = SeekLE(env.dest[a], top)
        BY <1>1, <1>4, <3>4
      <4>2. SeekLE(env.dest[a], top) \in Int /\ SeekLE(env.dest[a], top) <= top
        BY <1>0, <1>5, SMTT(60) DEF NotFound
      <4>3. SeekLE(DOMAIN e.acct[a], SeekLE(env.dest[a], top))
              = SeekLE(DOMAIN env.acct[a], SeekLE(env.dest[a], top))
        <5>1. \/ e.acct[a] = env.acct[a]
              \/ DOMAIN e.acct[a] = DOMAIN env.acct[a] \cup {top + 1}
          BY <1>1 DEF Put
        <5> QED
          BY <1>0, <4>2, <5>1, SeekLEOld, SMTT(60)
      <4> QED
        BY <2>2, <3>1, <3>2, <3>4, <4>1, <4>3 DEF SlotHistory, SlotAfter
    <3> QED
      BY <3>3, <3>4
  <2> QED
    BY <2>1, <2>2
<1> QED
  BY <1>6, <1>7
-----------------------------------------------------------------------------
(***************************************************************************)
(* Type correctness.                                                       *)
(***************************************************************************)

(* A block maps a world to a world. *)
LEMMA AfterType ==
    ASSUME NEW w \in World, NEW b \in Batch
    PROVE  After(w, b) \in World
BY DataAssumption, SMTT(60) DEF After, AcctAfter, SlotAfter, World, Batch

EnvType ==
    [genesis : BOOLEAN, complete : BOOLEAN,
     acct : [Addr -> RowsOf(Acct)],
     slot : [Addr -> [Slot -> RowsOf(Val)]],
     dest : [Addr -> SUBSET (Genesis + 1 .. top)],
     baseAcct : [Addr -> Acct \cup {NoAcct, None}],
     baseSlot : [Addr -> [Slot -> Val \cup {None}]],
     queue : SUBSET Addr]

(* What committing loader ops changes, and that it keeps the types. *)
LEMMA CommitFields ==
    ASSUME TypeOK, NEW ops, NEW e, e = Commit(env, ops)
    PROVE  /\ e \in EnvType
           /\ e.genesis = env.genesis /\ e.complete = env.complete
           /\ e.acct = env.acct /\ e.slot = env.slot /\ e.dest = env.dest
           /\ \A a \in Addr :
                /\ e.baseAcct[a] = IF Op("acct", a, None) \in ops
                                   THEN Base.acct[a] ELSE env.baseAcct[a]
                /\ \A s \in Slot :
                     e.baseSlot[a][s] = IF Op("slot", a, s) \in ops
                                        THEN Base.slot[a][s] ELSE env.baseSlot[a][s]
                /\ a \in e.queue <=>
                     /\ a \in env.queue \/ Op("queue", a, None) \in ops
                     /\ Op("dequeue", a, None) \notin ops
<1> DEFINE ba == [a \in Addr |-> IF Op("acct", a, None) \in ops
                                 THEN Base.acct[a] ELSE env.baseAcct[a]]
           bs == [a \in Addr |-> [s \in Slot |-> IF Op("slot", a, s) \in ops
                                    THEN Base.slot[a][s] ELSE env.baseSlot[a][s]]]
           qu == {a \in Addr : /\ a \in env.queue \/ Op("queue", a, None) \in ops
                               /\ Op("dequeue", a, None) \notin ops}
<1>1. e = [env EXCEPT !.baseAcct = ba, !.baseSlot = bs, !.queue = qu]
  BY DEF Commit
<1>2. ba \in [Addr -> Acct \cup {NoAcct, None}]
  BY StoreAssumption DEF TypeOK, World
<1>3. bs \in [Addr -> [Slot -> Val \cup {None}]]
  BY StoreAssumption, SMTT(60) DEF TypeOK, World
<1>4. qu \in SUBSET Addr
  OBVIOUS
<1>5. env \in EnvType
  BY DEF TypeOK, EnvType
<1>6. \A a \in Addr :
        /\ ba[a] = IF Op("acct", a, None) \in ops THEN Base.acct[a] ELSE env.baseAcct[a]
        /\ \A s \in Slot : bs[a][s] = IF Op("slot", a, s) \in ops
                                       THEN Base.slot[a][s] ELSE env.baseSlot[a][s]
        /\ a \in qu <=> /\ a \in env.queue \/ Op("queue", a, None) \in ops
                        /\ Op("dequeue", a, None) \notin ops
  OBVIOUS
<1> HIDE DEF ba, bs, qu
<1>7. e \in EnvType
  BY <1>1, <1>2, <1>3, <1>4, <1>5 DEF EnvType
<1>8. /\ e.genesis = env.genesis /\ e.complete = env.complete
      /\ e.acct = env.acct /\ e.slot = env.slot /\ e.dest = env.dest
      /\ e.baseAcct = ba /\ e.baseSlot = bs /\ e.queue = qu
  BY <1>1, <1>5 DEF EnvType
<1> QED
  BY <1>6, <1>7, <1>8

(* A block's rows have heights up to the new top. *)
LEMMA WriteBlockType ==
    ASSUME TypeOK, WriteBlock
    PROVE  TypeOK'
<1>1. PICK b \in Batches :
        /\ env' = Rows(env, top + 1, b)
        /\ truth' = [h \in Genesis..(top + 1) |->
                       IF h <= top THEN truth[h] ELSE After(truth[top], b)]
  BY DEF WriteBlock
<1>2. top' = top + 1 /\ top' \in Genesis..MaxHeight /\ top \in Int /\ Genesis \in Int
  BY StoreAssumption, SMTT(60) DEF WriteBlock, TypeOK
<1>3. b \in Batch
  BY StoreAssumption
<1>4. truth' \in [Genesis..top' -> World]
  <2>1. After(truth[top], b) \in World
    BY <1>2, <1>3, AfterType, SMTT(60) DEF TypeOK
  <2> QED
    BY <1>1, <1>2, <2>1, SMTT(60) DEF TypeOK
<1>5. \A V : \A f \in RowsOf(V), v \in V \cup {None} : Put(f, top + 1, v) \in RowsOf(V)'
  <2> TAKE V
  <2> TAKE f \in RowsOf(V), v \in V \cup {None}
  <2>1. PICK D \in SUBSET (Genesis + 1 .. top) : f \in [D -> V]
    BY DEF RowsOf
  <2>2. D \in SUBSET (Genesis + 1 .. top + 1)
    BY <1>2, <2>1, SMTT(60)
  <2>3. CASE v = None
    BY <1>2, <2>1, <2>2, <2>3 DEF RowsOf, Put
  <2>4. CASE v # None
    <3>1. D \cup {top + 1} \in SUBSET (Genesis + 1 .. top + 1)
      BY <1>2, <2>2, StoreAssumption, SMTT(60) DEF TypeOK
    <3>2. Put(f, top + 1, v) \in [D \cup {top + 1} -> V]
      BY <2>1, <2>4 DEF Put
    <3> QED
      BY <1>2, <3>1, <3>2 DEF RowsOf
  <2> QED
    BY <2>3, <2>4
<1>6. env'.acct \in [Addr -> RowsOf(Acct)']
  <2>1. \A a \in Addr : env.acct[a] \in RowsOf(Acct) /\ b.acct[a] \in Acct \cup {None}
    BY <1>3 DEF TypeOK, Batch
  <2>2. \A a \in Addr : Put(env.acct[a], top + 1, b.acct[a]) \in RowsOf(Acct)'
    BY <1>5, <2>1
  <2>3. env'.acct = [a \in Addr |-> Put(env.acct[a], top + 1, b.acct[a])]
    BY <1>1 DEF Rows, TypeOK
  <2> QED
    BY <2>2, <2>3
<1>7. env'.slot \in [Addr -> [Slot -> RowsOf(Val)']]
  <2>1. \A a \in Addr, s \in Slot :
          env.slot[a][s] \in RowsOf(Val) /\ b.slot[a][s] \in Val \cup {None}
    BY <1>3, SMTT(60) DEF TypeOK, Batch
  <2>2. \A a \in Addr, s \in Slot :
          Put(env.slot[a][s], top + 1, b.slot[a][s]) \in RowsOf(Val)'
    BY <1>5, <2>1
  <2>3. env'.slot = [a \in Addr |->
                       [s \in Slot |-> Put(env.slot[a][s], top + 1, b.slot[a][s])]]
    BY <1>1 DEF Rows, TypeOK
  <2> QED
    BY <2>2, <2>3, SMTT(60)
<1>8. env'.dest \in [Addr -> SUBSET (Genesis + 1 .. top')]
  <2>1. \A a \in Addr : env.dest[a] \in SUBSET (Genesis + 1 .. top)
    BY DEF TypeOK
  <2>2. env'.dest = [a \in Addr |-> IF a \in b.dest THEN env.dest[a] \cup {top + 1}
                                     ELSE env.dest[a]]
    BY <1>1 DEF Rows, TypeOK
  <2>3. Genesis <= top
    BY <1>2, SMTT(60) DEF TypeOK
  <2> QED
    BY <1>2, <2>1, <2>2, <2>3, SMTT(60)
<1>9. env' = [env EXCEPT !.acct = env'.acct, !.slot = env'.slot, !.dest = env'.dest]
  BY <1>1 DEF Rows, TypeOK
<1>10. buf' = buf /\ todo' = todo /\ rd' = rd
  BY DEF WriteBlock
<1> QED
  BY <1>2, <1>4, <1>6, <1>7, <1>8, <1>9, <1>10 DEF TypeOK, LoaderOps, Idle

(* What a read finds has the type of an answer. *)
LEMMA ReadTypes ==
    ASSUME TypeOK, NEW a \in Addr, NEW at \in Int
    PROVE  /\ AcctHistory(env, a, at) \in Acct \cup {NoAcct, None}
           /\ AccountRow(env, a, at) \in Acct \cup {NoAcct, None}
           /\ \A s \in Slot :
                /\ SlotHistory(env, a, s, at) \in Val \cup {None} \cup Errors
                /\ SlotRow(env, a, s, at) \in Val \cup {None} \cup Errors
<1>0. /\ top \in Int /\ Genesis \in Int /\ Genesis <= top
      /\ DOMAIN env.acct[a] \in SUBSET (Genesis + 1 .. top)
      /\ \A h \in DOMAIN env.acct[a] : env.acct[a][h] \in Acct
      /\ \A s \in Slot :
           /\ DOMAIN env.slot[a][s] \in SUBSET (Genesis + 1 .. top)
           /\ \A h \in DOMAIN env.slot[a][s] : env.slot[a][s][h] \in Val
  BY EnvTypes
<1>1. AcctHistory(env, a, at) \in Acct \cup {NoAcct, None}
  <2>1. \/ SeekLE(DOMAIN env.acct[a], at) = NotFound
        \/ SeekLE(DOMAIN env.acct[a], at) \in DOMAIN env.acct[a]
    BY <1>0, SeekLEFound
  <2> QED
    BY <1>0, <2>1 DEF AcctHistory
<1>2. env.baseAcct[a] \in Acct \cup {NoAcct, None}
  BY DEF TypeOK
<1>3. ASSUME NEW s \in Slot
      PROVE  /\ SlotHistory(env, a, s, at) \in Val \cup {None} \cup Errors
             /\ env.baseSlot[a][s] \in Val \cup {None}
  <2>1. \/ SeekLE(DOMAIN env.slot[a][s], at) = NotFound
        \/ SeekLE(DOMAIN env.slot[a][s], at) \in DOMAIN env.slot[a][s]
    BY <1>0, SeekLEFound
  <2>2. "ErrDestructEdge" \in Errors /\ Zero \in Val
    BY DataAssumption DEF Errors
  <2>3. SlotHistory(env, a, s, at) \in Val \cup {None} \cup Errors
    BY <1>0, <2>1, <2>2 DEF SlotHistory
  <2> QED
    BY <2>3, SMTT(60) DEF TypeOK
<1> QED
  BY <1>1, <1>2, <1>3 DEF AccountRow, SlotRow, Either

(* The ghost world of a height, latest included, is a world. *)
LEMMA TruthType ==
    ASSUME TypeOK, NEW a \in Addr, NEW at \in Int, Genesis <= at
    PROVE  /\ Truth(at).acct[a] \in Acct \cup {NoAcct}
           /\ \A s \in Slot : Truth(at).slot[a][s] \in Val
<1>1. Truth(at) \in World
  BY StoreAssumption, SMTT(60) DEF TypeOK, Truth
<1> QED
  BY <1>1 DEF World

ReadType ==
    {Idle} \cup
    [pc : {"miss", "done"}, want : Acct \cup Val \cup {NoAcct, None},
     got : Acct \cup Val \cup {NoAcct, None} \cup Errors,
     absent : {NoAcct, Zero, None}, begunComplete : BOOLEAN]

(* A read answers with a value, with one of the store's errors, or misses. *)
LEMMA BeginReadType ==
    ASSUME TypeOK, BeginRead
    PROVE  rd' \in ReadType
<1>0. env.complete \in BOOLEAN
  BY DEF TypeOK
<1>1. PICK a \in Addr, at \in (Genesis - 1)..(MaxHeight + 1) :
         \/ /\ CheckAt(env, at) # None
            /\ rd' = Answer("done", None, CheckAt(env, at), None)
         \/ /\ CheckAt(env, at) = None
            /\ \/ rd' = BeginAccount(a, at)
               \/ \E s \in Slot : rd' = BeginSlot(a, s, at)
  BY DEF BeginRead
<1>2. CASE /\ CheckAt(env, at) # None
           /\ rd' = Answer("done", None, CheckAt(env, at), None)
  <2>1. CheckAt(env, at) \in Errors
    BY <1>2 DEF CheckAt, Errors
  <2> QED
    BY <1>0, <1>2, <2>1 DEF Answer, ReadType
<1>3. CASE CheckAt(env, at) = None
  <2>1. at \in Int /\ Genesis <= at
    <3>1. "ErrNoGenesis" # None /\ "ErrBelowGenesis" # None
      BY DataAssumption DEF Errors
    <3>2. ~ (at < Genesis)
      BY <1>3, <3>1 DEF CheckAt
    <3>3. at \in Int /\ Genesis \in Int
      BY StoreAssumption, SMTT(60)
    <3> QED
      BY <3>2, <3>3, SMTT(60)
  <2>2. CASE rd' = BeginAccount(a, at)
    <3>1. AccountRow(env, a, at) \in Acct \cup {NoAcct, None}
      BY <2>1, ReadTypes
    <3>2. Truth(at).acct[a] \in Acct \cup {NoAcct}
      BY <2>1, TruthType
    <3> QED
      BY <1>0, <2>2, <3>1, <3>2 DEF BeginAccount, Answer, ReadType
  <2>3. ASSUME NEW s \in Slot, rd' = BeginSlot(a, s, at)
        PROVE  rd' \in ReadType
    <3>1. SlotRow(env, a, s, at) \in Val \cup {None} \cup Errors
      BY <2>1, ReadTypes
    <3>2. Truth(at).slot[a][s] \in Val
      BY <2>1, TruthType
    <3> QED
      BY <1>0, <2>3, <3>1, <3>2 DEF BeginSlot, Answer, ReadType
  <2> QED
    BY <1>1, <1>3, <2>2, <2>3
<1> QED
  BY <1>1, <1>2, <1>3

(* Every bundle of the loader is a sequence of loader ops. *)
LEMMA OpType ==
    /\ \A a \in Addr, put \in {"acct", "queue", "dequeue"} : Op(put, a, None) \in LoaderOps
    /\ \A a \in Addr, s \in Slot : Op("slot", a, s) \in LoaderOps
BY DEF Op, LoaderOps

(* TypeOK is inductive: no step of Store leaves the types. *)
LEMMA TypeInit == Init => TypeOK
<1> SUFFICES ASSUME Init PROVE TypeOK
  OBVIOUS
<1>1. \A V : <<>> \in RowsOf(V)
  <2>1. \A V : <<>> \in [{} -> V]
    BY SMTT(60)
  <2> QED
    BY <2>1 DEF RowsOf
<1>2. top \in Genesis..MaxHeight /\ truth \in [Genesis..top -> World]
  BY StoreAssumption, SMTT(60) DEF Init
<1>3. env \in EnvType
  BY <1>1 DEF Init, EnvType
<1> QED
  BY <1>2, <1>3, SMTT(60) DEF Init, TypeOK, EnvType

(* Every step of the writer, the loader and the reader keeps the types. *)
LEMMA TypeStep == TypeOK /\ [Next]_vars => TypeOK'
<1> SUFFICES ASSUME TypeOK, [Next]_vars PROVE TypeOK'
  OBVIOUS
<1>0. /\ env \in EnvType /\ buf \in SUBSET LoaderOps
      /\ todo \in Seq(LoaderOps) /\ rd \in ReadType
  BY DEF TypeOK, EnvType, ReadType
<1>f. ASSUME UNCHANGED <<top, truth>>, env' \in EnvType, buf' \in SUBSET LoaderOps,
             todo' \in Seq(LoaderOps), rd' \in ReadType
      PROVE  TypeOK'
  <2>1. EnvType' = EnvType /\ ReadType' = ReadType /\ LoaderOps' = LoaderOps
    BY <1>f DEF EnvType, ReadType, RowsOf, LoaderOps
  <2>2. env' \in EnvType'
    BY <1>f, <2>1
  <2>3. top' \in Genesis..MaxHeight /\ truth' \in [Genesis..top' -> World]
    BY <1>f DEF TypeOK
  <2>4. rd' \in ReadType'
    BY <1>f, <2>1
  <2>5. buf' \in SUBSET LoaderOps' /\ todo' \in Seq(LoaderOps')
    BY <1>f, <2>1
  <2> QED BY <2>2, <2>3, <2>4, <2>5 DEF TypeOK, EnvType, ReadType
<1>1. CASE WriteBlock
  BY <1>1, WriteBlockType
<1>2. CASE NewBaseline
  <2>1. env' \in EnvType
    BY <1>0, <1>2 DEF NewBaseline, EnvType
  <2> QED
    BY <1>0, <1>2, <1>f, <2>1 DEF NewBaseline
<1>3. CASE Add
  <2>1. Head(todo) \in LoaderOps /\ Tail(todo) \in Seq(LoaderOps)
    BY <1>0, <1>3, SMTT(60) DEF Add
  <2>2. \A ops : Commit(env, ops) \in EnvType
    BY CommitFields
  <2> QED
    BY <1>0, <1>3, <1>f, <2>1, <2>2 DEF Add
<1>4. CASE Flush
  <2>1. \A ops : Commit(env, ops) \in EnvType
    BY CommitFields
  <2> QED
    BY <1>0, <1>4, <1>f, <2>1 DEF Flush
<1>5. CASE Finish
  <2>1. Commit(env, buf) \in EnvType
    BY CommitFields
  <2>2. env' \in EnvType
    BY <1>5, <2>1 DEF Finish, EnvType
  <2> QED
    BY <1>0, <1>5, <1>f, <2>2 DEF Finish
<1>6. CASE LoaderCrash
  BY <1>0, <1>6, <1>f, SMTT(60) DEF LoaderCrash
<1>7. ASSUME NEW a \in Addr, LoadAccount(a) \/ Dequeue(a)
      PROVE  TypeOK'
  <2>1. AccountBundle(a) \in Seq(LoaderOps) /\ <<Op("dequeue", a, None)>> \in Seq(LoaderOps)
    BY OpType, SMTT(60) DEF AccountBundle
  <2> QED
    BY <1>0, <1>7, <1>f, <2>1 DEF LoadAccount, Dequeue
<1>8. ASSUME NEW a \in Addr, NEW s \in Slot, LoadSlot(a, s)
      PROVE  TypeOK'
  <2>1. <<Op("slot", a, s)>> \in Seq(LoaderOps)
    BY OpType, SMTT(60)
  <2> QED
    BY <1>0, <1>8, <1>f, <2>1 DEF LoadSlot
<1>9. CASE BeginRead
  <2>1. rd' \in ReadType
    BY <1>9, BeginReadType
  <2> QED
    BY <1>0, <1>9, <1>f, <2>1 DEF BeginRead
<1>10. CASE ResolveMiss
  <2>1. rd' \in ReadType
    <3>1. rd # Idle
      BY <1>10, SMTT(60) DEF ResolveMiss, Idle
    <3>2. OnMiss(env.complete, rd.absent) \in Acct \cup Val \cup {NoAcct, None} \cup Errors
      BY <1>0, <3>1, DataAssumption DEF OnMiss, ReadType, Errors
    <3> QED
      BY <1>0, <1>10, <3>1, <3>2 DEF ResolveMiss, ReadType
  <2> QED
    BY <1>0, <1>10, <1>f, <2>1 DEF ResolveMiss
<1>11. CASE UNCHANGED vars
  BY <1>0, <1>11, <1>f DEF vars
<1> QED
  BY <1>1, <1>2, <1>3, <1>4, <1>5, <1>6, <1>7, <1>8, <1>9, <1>10, <1>11 DEF Next
-----------------------------------------------------------------------------
(***************************************************************************)
(* HistorySound is preserved.  Only WriteBlock adds history rows, and the  *)
(* loader adds none: reads at old heights do not move, and the read at the *)
(* new height is the block's effect on the read at top.                    *)
(***************************************************************************)

(* What the rows do to a value commutes with falling back to the baseline. *)
LEMMA AfterEither ==
    ASSUME NEW b \in Batch, NEW a \in Addr, NEW old, NEW base
    PROVE  /\ AcctAfter(Either(old, base), b, a) = Either(AcctAfter(old, b, a), base)
           /\ \A s \in Slot : SlotAfter(Either(old, base), b, a, s)
                                = Either(SlotAfter(old, b, a, s), base)
<1>1. NoAcct # None /\ Zero # None
  BY DataAssumption
<1> QED
  BY <1>1 DEF AcctAfter, SlotAfter, Either

(* Without history rows every key has its value at genesis. *)
LEMMA HistoryInit == Init => HistorySound
<1> SUFFICES ASSUME Init, NEW a \in Addr, NEW at \in Genesis..top
             PROVE  /\ truth[at].acct[a] = Either(AcctHistory(env, a, at), Base.acct[a])
                    /\ \A s \in Slot : truth[at].slot[a][s]
                           = Either(SlotHistory(env, a, s, at), Base.slot[a][s])
  BY DEF HistorySound
<1>1. at = Genesis /\ truth[at] = Base
  BY StoreAssumption, SMTT(60) DEF Init
<1>2. DOMAIN env.acct[a] = {} /\ env.dest[a] = {}
  BY SMTT(60) DEF Init
<1>3. \A s \in Slot : DOMAIN env.slot[a][s] = {}
  BY SMTT(60) DEF Init
<1>4. SeekLE({}, at) = NotFound
  BY DEF SeekLE
<1>5. AcctHistory(env, a, at) = None
  BY <1>2, <1>4 DEF AcctHistory
<1>6. \A s \in Slot : SlotHistory(env, a, s, at) = None
  BY <1>2, <1>3, <1>4 DEF SlotHistory
<1> QED
  BY <1>1, <1>5, <1>6 DEF Either

(* The rows of WriteBlock give the new height its values and keep the old. *)
LEMMA HistoryWrite ==
    ASSUME TypeOK, HistorySound, WriteBlock
    PROVE  HistorySound'
<1>1. PICK b \in Batches :
        /\ env' = Rows(env, top + 1, b)
        /\ truth' = [h \in Genesis..(top + 1) |->
                       IF h <= top THEN truth[h] ELSE After(truth[top], b)]
  BY DEF WriteBlock
<1>2. top' = top + 1 /\ top \in Int /\ Genesis \in Int /\ Genesis <= top
  BY StoreAssumption, SMTT(60) DEF WriteBlock, TypeOK
<1>3. b \in Batch
  BY StoreAssumption
<1> SUFFICES ASSUME NEW a \in Addr, NEW at \in Genesis..top'
             PROVE  /\ truth'[at].acct[a] = Either(AcctHistory(env', a, at), Base.acct[a])
                    /\ \A s \in Slot : truth'[at].slot[a][s]
                           = Either(SlotHistory(env', a, s, at), Base.slot[a][s])
  BY DEF HistorySound
<1>4. CASE at <= top
  <2>1. at \in Genesis..top
    BY <1>2, <1>4, SMTT(60)
  <2>2. truth'[at] = truth[at]
    BY <1>1, <1>2, <2>1, SMTT(60)
  <2>3. /\ AcctHistory(env', a, at) = AcctHistory(env, a, at)
        /\ \A s \in Slot : SlotHistory(env', a, s, at) = SlotHistory(env, a, s, at)
    BY <1>1, <2>1, HistoryOld
  <2> QED
    BY <2>1, <2>2, <2>3, SMTT(60) DEF HistorySound
<1>5. CASE at = top + 1
  <2>1. truth'[at] = After(truth[top], b)
    BY <1>1, <1>2, <1>5, SMTT(60)
  <2>2. /\ AcctHistory(env', a, at) = AcctAfter(AcctHistory(env, a, top), b, a)
        /\ \A s \in Slot : SlotHistory(env', a, s, at)
                             = SlotAfter(SlotHistory(env, a, s, top), b, a, s)
    BY <1>1, <1>5, HistoryNew
  <2>3. /\ truth[top].acct[a] = Either(AcctHistory(env, a, top), Base.acct[a])
        /\ \A s \in Slot : truth[top].slot[a][s]
                             = Either(SlotHistory(env, a, s, top), Base.slot[a][s])
    BY <1>2, SMTT(60) DEF HistorySound
  <2>4. /\ truth'[at].acct[a] = AcctAfter(truth[top].acct[a], b, a)
        /\ \A s \in Slot : truth'[at].slot[a][s] = SlotAfter(truth[top].slot[a][s], b, a, s)
    BY <2>1, SMTT(60) DEF After
  <2>5. truth'[at].acct[a] = Either(AcctHistory(env', a, at), Base.acct[a])
    BY <1>3, <2>2, <2>3, <2>4, AfterEither, SMTT(60)
  <2>6. ASSUME NEW s \in Slot
        PROVE  truth'[at].slot[a][s] = Either(SlotHistory(env', a, s, at), Base.slot[a][s])
    <3>1. SlotAfter(Either(SlotHistory(env, a, s, top), Base.slot[a][s]), b, a, s)
            = Either(SlotAfter(SlotHistory(env, a, s, top), b, a, s), Base.slot[a][s])
      BY DataAssumption DEF SlotAfter, Either
    <3> QED
      BY <2>2, <2>3, <2>4, <3>1
  <2> QED
    BY <2>5, <2>6
<1> QED
  BY <1>2, <1>4, <1>5, SMTT(60)

(* Only the history rows and the ghosts matter to HistorySound. *)
LEMMA HistoryFrame ==
    ASSUME HistorySound, UNCHANGED <<top, truth>>,
           env'.acct = env.acct, env'.slot = env.slot, env'.dest = env.dest
    PROVE  HistorySound'
<1>1. \A a \in Addr : \A at : AcctHistory(env', a, at) = AcctHistory(env, a, at)
  BY DEF AcctHistory
<1>2. \A a \in Addr, s \in Slot : \A at : SlotHistory(env', a, s, at) = SlotHistory(env, a, s, at)
  BY SMTT(60) DEF SlotHistory
<1> QED BY <1>1, <1>2, SMTT(60) DEF HistorySound

(* Every step keeps the history rows right at every height. *)
LEMMA HistoryStep == TypeOK /\ HistorySound /\ [Next]_vars => HistorySound'
<1> SUFFICES ASSUME TypeOK, HistorySound, [Next]_vars PROVE HistorySound'
  OBVIOUS
<1>1. CASE WriteBlock
  BY <1>1, HistoryWrite
<1>2. CASE ~WriteBlock
  <2>1. \A ops : /\ Commit(env, ops).acct = env.acct
                 /\ Commit(env, ops).slot = env.slot
                 /\ Commit(env, ops).dest = env.dest
                 /\ Commit(env, ops) \in EnvType
    BY CommitFields
  <2>2. env \in EnvType
    BY DEF TypeOK, EnvType
  <2>3. CASE NewBaseline
    BY <2>2, <2>3, HistoryFrame DEF NewBaseline, EnvType
  <2>4. CASE Add \/ Flush
    BY <2>1, <2>4, HistoryFrame DEF Add, Flush
  <2>5. CASE Finish
    BY <2>1, <2>5, HistoryFrame DEF Finish, EnvType
  <2>6. CASE UNCHANGED <<env, top, truth>>
    BY <2>6, HistoryFrame
  <2> QED
    BY <1>2, <2>3, <2>4, <2>5, <2>6
       DEF Next, vars, LoaderCrash, LoadAccount, Dequeue, LoadSlot, BeginRead, ResolveMiss
<1> QED
  BY <1>1, <1>2
-----------------------------------------------------------------------------
(***************************************************************************)
(* LoaderInv is preserved.                                                 *)
(***************************************************************************)

(* A commit turns what was buffered into rows and forgets no queued account *)
(* whose slots are not all there.                                           *)
LEMMA CommitSound ==
    ASSUME TypeOK, BaseSound, StorageNeverForgotten,
           NEW ops, NEW e, e = Commit(env, ops),
           \A a \in Addr : Op("dequeue", a, None) \in ops => AllSlots(env, ops, a)
    PROVE  /\ \A a \in Addr : /\ e.baseAcct[a] \in {None, Base.acct[a]}
                              /\ \A s \in Slot : e.baseSlot[a][s] \in {None, Base.slot[a][s]}
           /\ \A a \in Addr : AllSlots(env, ops, a) => AllSlots(e, {}, a)
           /\ \A a \in Addr : (a \in env.queue \/ Op("queue", a, None) \in ops \/ AllSlots(env, ops, a))
                                => (a \in e.queue \/ AllSlots(e, {}, a))
<1>1. \A a \in Addr :
        /\ e.baseAcct[a] = IF Op("acct", a, None) \in ops
                           THEN Base.acct[a] ELSE env.baseAcct[a]
        /\ \A s \in Slot :
             e.baseSlot[a][s] = IF Op("slot", a, s) \in ops
                                THEN Base.slot[a][s] ELSE env.baseSlot[a][s]
        /\ a \in e.queue <=>
             /\ a \in env.queue \/ Op("queue", a, None) \in ops
             /\ Op("dequeue", a, None) \notin ops
  <2> SUFFICES ASSUME NEW a \in Addr
               PROVE  /\ e.baseAcct[a] = IF Op("acct", a, None) \in ops
                                         THEN Base.acct[a] ELSE env.baseAcct[a]
                      /\ \A s \in Slot :
                           e.baseSlot[a][s] = IF Op("slot", a, s) \in ops
                                              THEN Base.slot[a][s] ELSE env.baseSlot[a][s]
                      /\ a \in e.queue <=>
                           /\ a \in env.queue \/ Op("queue", a, None) \in ops
                           /\ Op("dequeue", a, None) \notin ops
    OBVIOUS
  <2>1. e.baseAcct[a] = IF Op("acct", a, None) \in ops
                        THEN Base.acct[a] ELSE env.baseAcct[a]
    BY CommitFields, SMTT(60)
  <2>2. \A s \in Slot :
          e.baseSlot[a][s] = IF Op("slot", a, s) \in ops
                             THEN Base.slot[a][s] ELSE env.baseSlot[a][s]
    BY CommitFields, SMTT(60)
  <2>3. a \in e.queue <=> /\ a \in env.queue \/ Op("queue", a, None) \in ops
                          /\ Op("dequeue", a, None) \notin ops
    BY CommitFields
  <2> QED
    BY <2>1, <2>2, <2>3
<1>2. \A a \in Addr, s \in Slot : Base.slot[a][s] # None
  BY StoreAssumption, DataAssumption, SMTT(60) DEF World
<1>3. \A a \in Addr : AllSlots(env, ops, a) => AllSlots(e, {}, a)
  BY <1>1, <1>2, SMTT(60) DEF AllSlots
<1>4. \A a \in Addr : (a \in env.queue \/ Op("queue", a, None) \in ops \/ AllSlots(env, ops, a))
                       => (a \in e.queue \/ AllSlots(e, {}, a))
  BY <1>1, <1>3
<1>5. \A a \in Addr : /\ e.baseAcct[a] \in {None, Base.acct[a]}
                      /\ \A s \in Slot : e.baseSlot[a][s] \in {None, Base.slot[a][s]}
  <2> SUFFICES ASSUME NEW a \in Addr
               PROVE  /\ e.baseAcct[a] \in {None, Base.acct[a]}
                      /\ \A s \in Slot : e.baseSlot[a][s] \in {None, Base.slot[a][s]}
    OBVIOUS
  <2>1. e.baseAcct[a] \in {None, Base.acct[a]}
    BY <1>1 DEF BaseSound
  <2>2. ASSUME NEW s \in Slot
        PROVE  e.baseSlot[a][s] \in {None, Base.slot[a][s]}
    <3>1. env.baseSlot[a][s] \in {None, Base.slot[a][s]}
      BY DEF BaseSound
    <3>2. e.baseSlot[a][s] = IF Op("slot", a, s) \in ops
                             THEN Base.slot[a][s] ELSE env.baseSlot[a][s]
      BY <1>1
    <3> QED
      BY <3>1, <3>2
  <2> QED
    BY <2>1, <2>2
<1> QED
  BY <1>3, <1>4, <1>5

(* Committing ops that keep BufSound's promises keeps StorageNeverForgotten. *)
LEMMA CommitKeeps ==
    ASSUME TypeOK, LoaderInv, ~env.complete,
           NEW ops, env' = Commit(env, ops), buf' = {},
           \A a \in Addr : Op("dequeue", a, None) \in ops => AllSlots(env, ops, a),
           \A a \in Addr : Op("acct", a, None) \in ops /\ HasStorage(a) =>
              (a \in env.queue \/ Op("queue", a, None) \in ops \/ AllSlots(env, ops, a))
    PROVE  BaseSound' /\ BufSound' /\ StorageNeverForgotten' /\ CompleteIsFull'
           /\ ~env'.complete
<1>1. BaseSound /\ StorageNeverForgotten
  BY DEF LoaderInv
<1>2. /\ \A a \in Addr : /\ env'.baseAcct[a] \in {None, Base.acct[a]}
                         /\ \A s \in Slot : env'.baseSlot[a][s] \in {None, Base.slot[a][s]}
      /\ \A a \in Addr : AllSlots(env, ops, a) => AllSlots(env', {}, a)
      /\ \A a \in Addr : (a \in env.queue \/ Op("queue", a, None) \in ops \/ AllSlots(env, ops, a))
                           => (a \in env'.queue \/ AllSlots(env', {}, a))
  BY <1>1, CommitSound
<1>3. ~env'.complete
  BY CommitFields, SMTT(60)
<1>4. BaseSound' /\ BufSound' /\ CompleteIsFull'
  BY <1>2, <1>3 DEF BaseSound, BufSound, CompleteIsFull
<1>5. StorageNeverForgotten'
  <2> SUFFICES ASSUME NEW a \in Addr, env'.baseAcct[a] # None
               PROVE  a \in env'.queue \/ AllSlots(env', {}, a)
    BY DEF StorageNeverForgotten
  <2>1. CASE env.baseAcct[a] # None
    <3>1. a \in env.queue \/ AllSlots(env, {}, a)
      BY <1>1, <2>1 DEF StorageNeverForgotten
    <3>2. AllSlots(env, {}, a) => AllSlots(env, ops, a)
      BY DEF AllSlots
    <3>3. a \in env.queue \/ AllSlots(env, ops, a)
      BY <3>1, <3>2
    <3> QED
      BY <1>2, <3>3
  <2>2. CASE env.baseAcct[a] = None
    <3>1. Op("acct", a, None) \in ops
      BY <2>2, CommitFields, SMTT(60)
    <3>2. ~HasStorage(a) => AllSlots(env, ops, a)
      BY DEF HasStorage, AllSlots
    <3>3. a \in env.queue \/ Op("queue", a, None) \in ops \/ AllSlots(env, ops, a)
      BY <3>1, <3>2
    <3> QED
      BY <1>2, <3>3
  <2> QED
    BY <2>1, <2>2
<1> QED
  BY <1>3, <1>4, <1>5

(* Only the baseline rows and the loader state matter to LoaderInv. *)
LEMMA LoaderFrame ==
    ASSUME LoaderInv, UNCHANGED <<buf, todo>>,
           env'.baseAcct = env.baseAcct, env'.baseSlot = env.baseSlot,
           env'.queue = env.queue, env'.complete = env.complete
    PROVE  LoaderInv'
<1>1. \A a \in Addr : /\ AllSlots(env, buf, a)' <=> AllSlots(env, buf, a)
                      /\ AllSlots(env, {}, a)' <=> AllSlots(env, {}, a)
  BY DEF AllSlots
<1>2. \A a \in Addr : Queued(a)' <=> Queued(a)
  BY <1>1 DEF Queued
<1>3. BaseSound'
  BY DEF LoaderInv, BaseSound
<1>4. BufSound'
  BY <1>1, <1>2 DEF LoaderInv, BufSound
<1>5. TodoSound'
  BY <1>1, <1>2 DEF LoaderInv, TodoSound
<1>6. StorageNeverForgotten'
  BY <1>1 DEF LoaderInv, StorageNeverForgotten
<1>7. CompleteIsFull'
  BY <1>1 DEF LoaderInv, CompleteIsFull, AllAccounts
<1>8. (env.complete => buf = {} /\ todo = <<>>)'
  BY DEF LoaderInv
<1> QED
  BY <1>3, <1>4, <1>5, <1>6, <1>7, <1>8 DEF LoaderInv

(* The op that Add takes from the bundle keeps the promises of the buffer. *)
LEMMA AddOps ==
    ASSUME LoaderInv, todo # <<>>, NEW ops, ops = buf \cup {Head(todo)}
    PROVE  /\ \A a \in Addr : Op("dequeue", a, None) \in ops => AllSlots(env, ops, a)
           /\ \A a \in Addr : Op("acct", a, None) \in ops /\ HasStorage(a) =>
              (a \in env.queue \/ Op("queue", a, None) \in ops \/ AllSlots(env, ops, a))
           /\ \/ Tail(todo) = <<>>
              \/ \E a \in Addr : /\ Tail(todo) = <<Op("acct", a, None)>>
                                 /\ Op("queue", a, None) \in ops
<1>1. BufSound /\ TodoSound
  BY DEF LoaderInv
<1>2. \A a \in Addr : AllSlots(env, buf, a) => AllSlots(env, ops, a)
  BY DEF AllSlots
<1>3. \A a, c, s :
        /\ Op("dequeue", a, None) = Op("dequeue", c, None) => a = c
        /\ Op("acct", a, None) = Op("acct", c, None) => a = c
        /\ Op("dequeue", a, None) # Op("acct", c, None)
        /\ Op("dequeue", a, None) # Op("queue", c, None)
        /\ Op("dequeue", a, None) # Op("slot", c, s)
        /\ Op("acct", a, None) # Op("queue", c, None)
        /\ Op("acct", a, None) # Op("slot", c, s)
  BY DEF Op
<1>4. CASE \E c \in Addr : todo = <<Op("queue", c, None), Op("acct", c, None)>>
  <2>1. PICK c \in Addr : todo = <<Op("queue", c, None), Op("acct", c, None)>>
    BY <1>4
  <2>2. Head(todo) = Op("queue", c, None) /\ Tail(todo) = <<Op("acct", c, None)>>
    BY <2>1, SMTT(60)
  <2>3. \A a \in Addr : /\ Op("dequeue", a, None) \in ops => Op("dequeue", a, None) \in buf
                        /\ Op("acct", a, None) \in ops => Op("acct", a, None) \in buf
    BY <1>3, <2>2
  <2> QED
    BY <1>1, <1>2, <2>2, <2>3 DEF BufSound, Queued
<1>5. CASE \E c \in Addr : /\ todo = <<Op("acct", c, None)>>
                           /\ HasStorage(c) => Queued(c)
  <2>1. PICK c \in Addr : todo = <<Op("acct", c, None)>> /\ (HasStorage(c) => Queued(c))
    BY <1>5
  <2>2. Head(todo) = Op("acct", c, None) /\ Tail(todo) = <<>>
    BY <2>1, SMTT(60)
  <2>3. \A a \in Addr :
          /\ Op("dequeue", a, None) \in ops => Op("dequeue", a, None) \in buf
          /\ Op("acct", a, None) \in ops => Op("acct", a, None) \in buf \/ a = c
    BY <1>3, <2>2
  <2> QED
    BY <1>1, <1>2, <2>1, <2>2, <2>3 DEF BufSound, Queued
<1>6. CASE \E c \in Addr, s \in Slot : todo = <<Op("slot", c, s)>>
  <2>1. PICK c \in Addr, s \in Slot : todo = <<Op("slot", c, s)>>
    BY <1>6
  <2>2. Head(todo) = Op("slot", c, s) /\ Tail(todo) = <<>>
    BY <2>1, SMTT(60)
  <2>3. \A a \in Addr : /\ Op("dequeue", a, None) \in ops => Op("dequeue", a, None) \in buf
                        /\ Op("acct", a, None) \in ops => Op("acct", a, None) \in buf
    BY <1>3, <2>2, SMTT(60)
  <2> QED
    BY <1>1, <1>2, <2>2, <2>3 DEF BufSound, Queued
<1>7. CASE \E c \in Addr : /\ todo = <<Op("dequeue", c, None)>>
                           /\ AllSlots(env, buf, c)
  <2>1. PICK c \in Addr : todo = <<Op("dequeue", c, None)>> /\ AllSlots(env, buf, c)
    BY <1>7
  <2>2. Head(todo) = Op("dequeue", c, None) /\ Tail(todo) = <<>>
    BY <2>1, SMTT(60)
  <2>3. \A a \in Addr :
          /\ Op("dequeue", a, None) \in ops => Op("dequeue", a, None) \in buf \/ a = c
          /\ Op("acct", a, None) \in ops => Op("acct", a, None) \in buf
    BY <1>3, <2>2
  <2> QED
    BY <1>1, <1>2, <2>1, <2>2, <2>3 DEF BufSound, Queued
<1> QED
  BY <1>1, <1>4, <1>5, <1>6, <1>7 DEF TodoSound

(* Buffering one op, and the flush it may cause, keep the promises. *)
LEMMA LoaderAdd ==
    ASSUME TypeOK, LoaderInv, Add
    PROVE  LoaderInv'
<1> DEFINE ops == buf \cup {Head(todo)}
<1>0. todo # <<>> /\ todo' = Tail(todo) /\ ~env.complete
  BY DEF Add, LoaderInv
<1>1. /\ \A a \in Addr : Op("dequeue", a, None) \in ops => AllSlots(env, ops, a)
      /\ \A a \in Addr : Op("acct", a, None) \in ops /\ HasStorage(a) =>
           (a \in env.queue \/ Op("queue", a, None) \in ops \/ AllSlots(env, ops, a))
      /\ \/ Tail(todo) = <<>>
         \/ \E a \in Addr : /\ Tail(todo) = <<Op("acct", a, None)>>
                            /\ Op("queue", a, None) \in ops
  BY <1>0, AddOps
<1>2. \/ env' = Commit(env, ops) /\ buf' = {}
      \/ env' = env /\ buf' = ops
  BY DEF Add
<1> HIDE DEF ops
<1>3. CASE env' = Commit(env, ops) /\ buf' = {}
  <2>1. BaseSound' /\ BufSound' /\ StorageNeverForgotten' /\ CompleteIsFull' /\ ~env'.complete
    BY <1>0, <1>1, <1>3, CommitKeeps
  <2>2. \A a \in Addr : Op("queue", a, None) \in ops =>
           (a \in env'.queue \/ AllSlots(env', {}, a))
    <3>1. BaseSound /\ StorageNeverForgotten
      BY DEF LoaderInv
    <3> QED
      BY <1>1, <1>3, <3>1, CommitSound
  <2>3. TodoSound'
    BY <1>0, <1>1, <1>3, <2>2 DEF TodoSound, Queued
  <2> QED
    BY <2>1, <2>3 DEF LoaderInv
<1>4. CASE env' = env /\ buf' = ops
  <2>1. BufSound' /\ TodoSound'
    BY <1>0, <1>1, <1>4 DEF BufSound, TodoSound, Queued
  <2> QED
    BY <1>0, <1>4, <2>1
       DEF LoaderInv, BaseSound, StorageNeverForgotten, CompleteIsFull
<1> QED
  BY <1>2, <1>3, <1>4

(* Finish sets the watermark only over a full baseline. *)
LEMMA LoaderFinish ==
    ASSUME TypeOK, LoaderInv, Finish
    PROVE  LoaderInv'
<1> DEFINE e == Commit(env, buf)
<1>1. /\ ~env.complete /\ todo = <<>> /\ todo' = <<>> /\ buf' = {}
      /\ AllAccounts(e)
      /\ env' = IF e.queue # {} THEN e ELSE [e EXCEPT !.complete = TRUE]
  BY DEF Finish, FinishRefused
<1>2. BaseSound /\ StorageNeverForgotten /\ BufSound
  BY DEF LoaderInv
<1>3. /\ e \in EnvType /\ e.complete = env.complete
      /\ \A a \in Addr : e.baseAcct[a] = IF Op("acct", a, None) \in buf
                                          THEN Base.acct[a] ELSE env.baseAcct[a]
  BY CommitFields, SMTT(60)
<1>4. /\ \A a \in Addr : /\ e.baseAcct[a] \in {None, Base.acct[a]}
                         /\ \A s \in Slot : e.baseSlot[a][s] \in {None, Base.slot[a][s]}
      /\ \A a \in Addr : AllSlots(env, buf, a) => AllSlots(e, {}, a)
      /\ \A a \in Addr : (a \in env.queue \/ Op("queue", a, None) \in buf \/ AllSlots(env, buf, a))
                           => (a \in e.queue \/ AllSlots(e, {}, a))
  <2>1. \A a \in Addr : Op("dequeue", a, None) \in buf => AllSlots(env, buf, a)
    BY <1>2 DEF BufSound
  <2> QED
    BY <1>2, <2>1, CommitSound
<1> HIDE DEF e
<1>5. /\ env'.baseAcct = e.baseAcct /\ env'.baseSlot = e.baseSlot
      /\ env'.queue = e.queue
      /\ env'.complete => e.queue = {}
  BY <1>1, <1>3 DEF EnvType
<1>6. \A a \in Addr : e.baseAcct[a] # None => a \in e.queue \/ AllSlots(e, {}, a)
  <2> SUFFICES ASSUME NEW a \in Addr, e.baseAcct[a] # None
               PROVE  a \in e.queue \/ AllSlots(e, {}, a)
    OBVIOUS
  <2>1. AllSlots(env, {}, a) => AllSlots(env, buf, a)
    BY DEF AllSlots
  <2>2. ~HasStorage(a) => AllSlots(env, buf, a)
    BY DEF HasStorage, AllSlots
  <2>3. a \in env.queue \/ Op("queue", a, None) \in buf \/ AllSlots(env, buf, a)
    BY <1>2, <1>3, <2>1, <2>2 DEF StorageNeverForgotten, BufSound, Queued
  <2> QED
    BY <1>4, <2>3
<1>7. BaseSound' /\ BufSound' /\ TodoSound' /\ StorageNeverForgotten'
  BY <1>1, <1>4, <1>5, <1>6, SMTT(60)
     DEF BaseSound, BufSound, TodoSound, StorageNeverForgotten, AllSlots
<1>8. CompleteIsFull'
  <2> SUFFICES ASSUME env'.complete
               PROVE  /\ AllAccounts(env')
                      /\ env'.queue = {}
                      /\ \A a \in Addr : AllSlots(env', {}, a)
    BY DEF CompleteIsFull
  <2>1. env'.queue = {} /\ e.queue = {}
    BY <1>5
  <2>2. AllAccounts(env')
    BY <1>1, <1>5 DEF AllAccounts
  <2>3. \A a \in Addr : Base.acct[a] = NoAcct => AllSlots(env', {}, a)
    BY StoreAssumption DEF AllSlots
  <2>4. \A a \in Addr : Base.acct[a] # NoAcct => AllSlots(e, {}, a)
    BY <1>1, <1>6, <2>1 DEF AllAccounts
  <2>5. \A a \in Addr : AllSlots(e, {}, a) => AllSlots(env', {}, a)
    BY <1>5 DEF AllSlots
  <2> QED
    BY <2>1, <2>2, <2>3, <2>4, <2>5
<1> QED
  BY <1>1, <1>7, <1>8 DEF LoaderInv

(* Every step keeps the loader's promises. *)
LEMMA LoaderStep == TypeOK /\ LoaderInv /\ [Next]_vars => LoaderInv'
<1> SUFFICES ASSUME TypeOK, LoaderInv, [Next]_vars PROVE LoaderInv'
  OBVIOUS
<1>0. env \in EnvType
  BY DEF TypeOK, EnvType
<1>1. CASE WriteBlock
  <2>1. PICK b \in Batches : env' = Rows(env, top + 1, b)
    BY <1>1 DEF WriteBlock
  <2>2. /\ env'.baseAcct = env.baseAcct /\ env'.baseSlot = env.baseSlot
        /\ env'.queue = env.queue /\ env'.complete = env.complete
    BY <1>0, <2>1 DEF Rows, EnvType
  <2> QED
    BY <1>1, <2>2, LoaderFrame DEF WriteBlock
<1>2. CASE NewBaseline
  <2>1. /\ env'.baseAcct = env.baseAcct /\ env'.baseSlot = env.baseSlot
        /\ env'.queue = env.queue /\ env'.complete = env.complete
    BY <1>0, <1>2 DEF NewBaseline, EnvType
  <2> QED
    BY <1>2, <2>1, LoaderFrame DEF NewBaseline
<1>3. CASE Add
  BY <1>3, LoaderAdd
<1>4. CASE Flush
  <2>1. /\ env' = Commit(env, buf) /\ buf' = {} /\ todo' = <<>> /\ ~env.complete
    BY <1>4 DEF Flush, LoaderInv
  <2>2. /\ \A a \in Addr : Op("dequeue", a, None) \in buf => AllSlots(env, buf, a)
        /\ \A a \in Addr : Op("acct", a, None) \in buf /\ HasStorage(a) =>
             (a \in env.queue \/ Op("queue", a, None) \in buf \/ AllSlots(env, buf, a))
    BY DEF LoaderInv, BufSound, Queued
  <2>3. BaseSound' /\ BufSound' /\ StorageNeverForgotten' /\ CompleteIsFull' /\ ~env'.complete
    BY <2>1, <2>2, CommitKeeps
  <2> QED
    BY <2>1, <2>3 DEF LoaderInv, TodoSound
<1>5. CASE Finish
  BY <1>5, LoaderFinish
<1>6. CASE LoaderCrash
  BY <1>6 DEF LoaderCrash, LoaderInv, BaseSound, BufSound, TodoSound,
              StorageNeverForgotten, CompleteIsFull
<1>7. ASSUME NEW a \in Addr, LoadAccount(a)
      PROVE  LoaderInv'
  <2>1. TodoSound'
    BY <1>7 DEF LoadAccount, AccountBundle, TodoSound
  <2> QED
    BY <1>7, <2>1 DEF LoadAccount, LoaderInv, BaseSound, BufSound, Queued,
                      StorageNeverForgotten, CompleteIsFull
<1>8. ASSUME NEW a \in Addr, Dequeue(a)
      PROVE  LoaderInv'
  <2>1. TodoSound'
    BY <1>8 DEF Dequeue, DequeueReady, TodoSound
  <2> QED
    BY <1>8, <2>1 DEF Dequeue, LoaderInv, BaseSound, BufSound, Queued,
                      StorageNeverForgotten, CompleteIsFull
<1>9. ASSUME NEW a \in Addr, NEW s \in Slot, LoadSlot(a, s)
      PROVE  LoaderInv'
  <2>1. TodoSound'
    BY <1>9 DEF LoadSlot, TodoSound
  <2> QED
    BY <1>9, <2>1 DEF LoadSlot, LoaderInv, BaseSound, BufSound, Queued,
                      StorageNeverForgotten, CompleteIsFull
<1>10. CASE UNCHANGED <<env, buf, todo>>
  BY <1>10, LoaderFrame
<1> QED
  BY <1>1, <1>2, <1>3, <1>4, <1>5, <1>6, <1>7, <1>8, <1>9, <1>10
     DEF Next, vars, BeginRead, ResolveMiss
-----------------------------------------------------------------------------
(***************************************************************************)
(* The reads.                                                              *)
(***************************************************************************)

(* At any height from genesis on, latest included, history rows and the    *)
(* baseline of the snapshot give the true value.                           *)
LEMMA TruthFromRows ==
    ASSUME TypeOK, HistorySound, NEW a \in Addr, NEW at \in Int, Genesis <= at
    PROVE  /\ Truth(at).acct[a] = Either(AcctHistory(env, a, at), Base.acct[a])
           /\ \A s \in Slot : Truth(at).slot[a][s]
                                = Either(SlotHistory(env, a, s, at), Base.slot[a][s])
<1>0. /\ top \in Int /\ Genesis \in Int /\ Genesis <= top
      /\ DOMAIN env.acct[a] \in SUBSET (Genesis + 1 .. top)
      /\ env.dest[a] \in SUBSET (Genesis + 1 .. top)
      /\ \A s \in Slot : DOMAIN env.slot[a][s] \in SUBSET (Genesis + 1 .. top)
  BY EnvTypes
<1>1. CASE at <= top
  <2>1. at \in Genesis..top /\ Truth(at) = truth[at]
    BY <1>0, <1>1, SMTT(60) DEF Truth
  <2> QED
    BY <2>1, SMTT(60) DEF HistorySound
<1>2. CASE ~(at <= top)
  <2>1. top \in Genesis..top /\ Truth(at) = truth[top] /\ top <= at
    BY <1>0, <1>2, SMTT(60) DEF Truth
  <2>2. AcctHistory(env, a, at) = AcctHistory(env, a, top)
    <3>1. SeekLE(DOMAIN env.acct[a], at) = SeekLE(DOMAIN env.acct[a], top)
      BY <1>0, <2>1, SeekLEAbove
    <3>2. SeekLE(env.dest[a], at) = SeekLE(env.dest[a], top)
      BY <1>0, <2>1, SeekLEAbove
    <3> QED
      BY <3>1, <3>2 DEF AcctHistory
  <2>3. ASSUME NEW s \in Slot
        PROVE  SlotHistory(env, a, s, at) = SlotHistory(env, a, s, top)
    <3>1. SeekLE(DOMAIN env.slot[a][s], at) = SeekLE(DOMAIN env.slot[a][s], top)
      BY <1>0, <2>1, SeekLEAbove
    <3>2. SeekLE(env.dest[a], at) = SeekLE(env.dest[a], top)
      BY <1>0, <2>1, SeekLEAbove
    <3> QED
      BY <3>1, <3>2 DEF SlotHistory
  <2> QED
    BY <2>1, <2>2, <2>3, SMTT(60) DEF HistorySound
<1> QED
  BY <1>1, <1>2

(* A row that is found is the true value; where none is found and the      *)
(* baseline is complete, absence is the true value.                        *)
LEMMA RowsAreTrue ==
    ASSUME TypeOK, HistorySound, LoaderInv, NEW a \in Addr, NEW at \in Int, Genesis <= at
    PROVE  /\ AccountRow(env, a, at) # None => AccountRow(env, a, at) = Truth(at).acct[a]
           /\ AccountRow(env, a, at) = None /\ env.complete => Truth(at).acct[a] = NoAcct
           /\ \A s \in Slot :
                /\ SlotRow(env, a, s, at) # None =>
                     SlotRow(env, a, s, at) = Truth(at).slot[a][s]
                /\ SlotRow(env, a, s, at) = None /\ env.complete =>
                     Truth(at).slot[a][s] = Zero
<1>1. /\ Truth(at).acct[a] = Either(AcctHistory(env, a, at), Base.acct[a])
      /\ \A s \in Slot : Truth(at).slot[a][s]
                           = Either(SlotHistory(env, a, s, at), Base.slot[a][s])
  BY TruthFromRows
<1>2. /\ env.baseAcct[a] \in {None, Base.acct[a]}
      /\ \A s \in Slot : env.baseSlot[a][s] \in {None, Base.slot[a][s]}
  BY DEF LoaderInv, BaseSound
<1>3. env.complete => /\ env.baseAcct[a] = None => Base.acct[a] = NoAcct
                      /\ \A s \in Slot : env.baseSlot[a][s] = None => Base.slot[a][s] = Zero
  BY DEF LoaderInv, CompleteIsFull, AllAccounts, AllSlots
<1>4. /\ AccountRow(env, a, at) # None => AccountRow(env, a, at) = Truth(at).acct[a]
      /\ AccountRow(env, a, at) = None /\ env.complete => Truth(at).acct[a] = NoAcct
  BY <1>1, <1>2, <1>3 DEF AccountRow, Either
<1>5. ASSUME NEW s \in Slot
      PROVE  /\ SlotRow(env, a, s, at) # None =>
                  SlotRow(env, a, s, at) = Truth(at).slot[a][s]
             /\ SlotRow(env, a, s, at) = None /\ env.complete =>
                  Truth(at).slot[a][s] = Zero
  <2>1. /\ Truth(at).slot[a][s] = Either(SlotHistory(env, a, s, at), Base.slot[a][s])
        /\ env.baseSlot[a][s] \in {None, Base.slot[a][s]}
        /\ env.complete /\ env.baseSlot[a][s] = None => Base.slot[a][s] = Zero
    BY <1>1, <1>2, <1>3
  <2> QED
    BY <2>1 DEF SlotRow, Either
<1> QED
  BY <1>4, <1>5

(* A read that began complete keeps, then returns, the true answer. *)
LEMMA ReadStep == IInv /\ [Next]_vars => ReadSound'
<1> SUFFICES ASSUME IInv, [Next]_vars PROVE ReadSound'
  OBVIOUS
<1>0. /\ TypeOK /\ HistorySound /\ LoaderInv /\ ReadSound
      /\ env \in EnvType /\ rd \in ReadType
  BY DEF IInv, TypeOK, EnvType, ReadType
<1>1. CASE BeginRead
  <2>0. env' = env
    BY <1>1 DEF BeginRead
  <2>1. PICK a \in Addr, at \in (Genesis - 1)..(MaxHeight + 1) :
         \/ /\ CheckAt(env, at) # None
            /\ rd' = Answer("done", None, CheckAt(env, at), None)
         \/ /\ CheckAt(env, at) = None
            /\ \/ rd' = BeginAccount(a, at)
               \/ \E s \in Slot : rd' = BeginSlot(a, s, at)
    BY <1>1 DEF BeginRead
  <2>2. CASE rd' = Answer("done", None, CheckAt(env, at), None)
    BY <2>2 DEF Answer, ReadSound, ReadAfterCompleteExact
  <2>3. CASE CheckAt(env, at) = None
    <3>1. at \in Int /\ Genesis <= at
      <4>1. "ErrNoGenesis" # None /\ "ErrBelowGenesis" # None
        BY DataAssumption DEF Errors
      <4>2. ~ (at < Genesis)
        BY <2>3, <4>1 DEF CheckAt
      <4>3. at \in Int /\ Genesis \in Int
        BY StoreAssumption, SMTT(60)
      <4> QED
        BY <4>2, <4>3, SMTT(60)
    <3>2. CASE rd' = BeginAccount(a, at)
      <4>1. /\ AccountRow(env, a, at) # None => AccountRow(env, a, at) = Truth(at).acct[a]
            /\ AccountRow(env, a, at) = None /\ env.complete => Truth(at).acct[a] = NoAcct
        BY <1>0, <3>1, RowsAreTrue
      <4> QED
        BY <2>0, <3>2, <4>1 DEF BeginAccount, Answer, ReadSound, ReadAfterCompleteExact
    <3>3. ASSUME NEW s \in Slot, rd' = BeginSlot(a, s, at)
          PROVE  ReadSound'
      <4>1. /\ SlotRow(env, a, s, at) # None => SlotRow(env, a, s, at) = Truth(at).slot[a][s]
            /\ SlotRow(env, a, s, at) = None /\ env.complete => Truth(at).slot[a][s] = Zero
        BY <1>0, <3>1, RowsAreTrue
      <4> QED
        BY <2>0, <3>3, <4>1 DEF BeginSlot, Answer, ReadSound, ReadAfterCompleteExact
    <3> QED
      BY <2>1, <2>3, <2>2, <3>2, <3>3
  <2> QED
    BY <2>1, <2>2, <2>3
<1>2. CASE ResolveMiss
  <2>1. rd # Idle
    BY <1>2, SMTT(60) DEF ResolveMiss, Idle
  <2> QED
    BY <1>0, <1>2, <2>1
       DEF ResolveMiss, OnMiss, ReadType, ReadSound, ReadAfterCompleteExact
<1>3. CASE rd' = rd /\ (env.complete => env'.complete)
  BY <1>0, <1>3 DEF ReadSound, ReadAfterCompleteExact
<1>4. WriteBlock => env'.complete = env.complete
  BY <1>0 DEF WriteBlock, Rows, EnvType
<1>5. Add \/ Flush => env'.complete = env.complete
  <2>1. \A ops : Commit(env, ops).complete = env.complete
    BY <1>0, CommitFields, SMTT(60)
  <2> QED
    BY <2>1, SMTT(60) DEF Add, Flush
<1>6. NewBaseline => env'.complete = env.complete
  BY <1>0 DEF NewBaseline, EnvType
<1> QED
  BY <1>1, <1>2, <1>3, <1>4, <1>5, <1>6
     DEF Next, vars, WriteBlock, NewBaseline, Add, Flush, Finish, LoaderCrash,
         LoadAccount, Dequeue, LoadSlot
-----------------------------------------------------------------------------
(***************************************************************************)
(* The theorems.                                                           *)
(***************************************************************************)

(* The strengthened invariant holds initially and every step keeps it. *)
THEOREM Inductive == Spec => []IInv
<1>1. Init => IInv
  <2>1. Init => TypeOK /\ HistorySound
    BY TypeInit, HistoryInit
  <2>2. Init => LoaderInv
    <3> SUFFICES ASSUME Init PROVE LoaderInv
      OBVIOUS
    <3>1. /\ ~env.complete /\ buf = {} /\ todo = <<>>
          /\ \A a \in Addr : /\ env.baseAcct[a] = None
                             /\ \A s \in Slot : env.baseSlot[a][s] = None
      BY DEF Init
    <3>2. BaseSound /\ StorageNeverForgotten
      BY <3>1 DEF BaseSound, StorageNeverForgotten
    <3>3. BufSound /\ TodoSound
      BY <3>1 DEF BufSound, TodoSound
    <3>4. CompleteIsFull
      BY <3>1 DEF CompleteIsFull
    <3> QED
      BY <3>1, <3>2, <3>3, <3>4 DEF LoaderInv
  <2>3. Init => ReadSound
    BY SMTT(60) DEF Init, Idle, ReadSound, ReadAfterCompleteExact
  <2> QED
    BY <2>1, <2>2, <2>3 DEF IInv
<1>2. IInv /\ [Next]_vars => IInv'
  BY TypeStep, HistoryStep, LoaderStep, ReadStep DEF IInv
<1> QED
  BY <1>1, <1>2, PTL DEF Spec

(* Rows, ghosts, buffers and answers keep their types. *)
THEOREM TypeCorrect == Spec => []TypeOK
BY Inductive, PTL DEF IInv

(* GetAccount and GetSlot, at any height and at latest, return the value   *)
(* at the end of that block or refuse because the baseline is incomplete.  *)
THEOREM HistoryIsExact == Spec => []HistoryExact
<1>1. IInv => HistoryExact
  <2> SUFFICES ASSUME IInv, env.genesis,
                      NEW at \in Genesis..(MaxHeight + 1), NEW a \in Addr
               PROVE  /\ GetAccount(env, a, at)
                           \in {Truth(at).acct[a], "ErrBaselineIncomplete"}
                      /\ \A s \in Slot : GetSlot(env, a, s, at)
                           \in {Truth(at).slot[a][s], "ErrBaselineIncomplete"}
    BY DEF HistoryExact
  <2>1. at \in Int /\ Genesis \in Int /\ Genesis <= at
    BY StoreAssumption, SMTT(60)
  <2>2. CheckAt(env, at) = None
    BY <2>1, SMTT(60) DEF CheckAt
  <2>3. TypeOK /\ HistorySound /\ LoaderInv
    BY DEF IInv
  <2>4. /\ AccountRow(env, a, at) # None => AccountRow(env, a, at) = Truth(at).acct[a]
        /\ AccountRow(env, a, at) = None /\ env.complete => Truth(at).acct[a] = NoAcct
        /\ \A s \in Slot :
             /\ SlotRow(env, a, s, at) # None =>
                  SlotRow(env, a, s, at) = Truth(at).slot[a][s]
             /\ SlotRow(env, a, s, at) = None /\ env.complete =>
                  Truth(at).slot[a][s] = Zero
    BY <2>1, <2>3, RowsAreTrue
  <2> QED
    BY <2>2, <2>4 DEF GetAccount, GetSlot, Either, OnMiss
<1> QED
  BY <1>1, Inductive, PTL

(* Finish never declares a baseline complete that lacks an account or a slot. *)
THEOREM CompleteMeansFull == Spec => []CompleteIsFull
BY Inductive, PTL DEF IInv, LoaderInv

(* No crash between two chunks loses the storage of a committed account. *)
THEOREM StorageKept == Spec => []StorageNeverForgotten
BY Inductive, PTL DEF IInv, LoaderInv

(* A read begun after completion answers with the value of its snapshot. *)
THEOREM ReadsAreExact == Spec => []ReadAfterCompleteExact
BY Inductive, PTL DEF IInv, ReadSound
=============================================================================
