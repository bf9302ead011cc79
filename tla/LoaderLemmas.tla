---------------------------- MODULE LoaderLemmas ----------------------------
(***************************************************************************)
(* The inductive invariant of Loader and the first half of its proof: what *)
(* a commit of any prefix of the buffered ops leaves, what the channel and *)
(* the goroutines still bring, and the steps of the writer.                *)
(***************************************************************************)
EXTENDS Loader, TLAPS, WellFoundedInduction, FiniteSetTheorems

\* A minute for each leaf: the default is short for a large module.
USE ZenonT(60)

(***************************************************************************)
(* The loader's inductive invariant, in three parts: what is on disk       *)
(* (Sound), what the Baseline has buffered and may commit any prefix of    *)
(* (Buffered), and what is on its way there: the channel, the responses in *)
(* the goroutines' hands and the claims.                                   *)
(***************************************************************************)
SameSeg(x, y) == SegOf[x] = SegOf[y]

Ordered(D) == \A a \in D, b \in Accounts : b < a /\ SegOf[a] = SegOf[b] => b \in D

(* An account whose code is not there shares it with one still to come. *)
Owed(D, C) ==
    \A a \in D : \/ CodeOf[a] \in C \cup {NoCode}
                 \/ \E b \in Accounts \ D : CodeOf[b] = CodeOf[a]

Whole(D, C, Q, S) == D = Accounts /\ S = Stored /\ C = Codes /\ Q = {}

Sound(d) ==
    /\ Ordered(d.acct) /\ Owed(d.acct, d.code)
    /\ d.acct \cap Stored \subseteq d.queue \cup d.slots
    /\ \A s \in d.bits : SegAccounts(s) \subseteq d.acct
    /\ d.complete => Whole(d.acct, d.code, d.queue, d.slots)

(* An account row in the buffer lies above every row that goes before it. *)
Above(D, ops) ==
    \A p \in DOMAIN ops : ops[p].kind = "acct" =>
      /\ \A x \in D : SameSeg(x, ops[p].key) => x < ops[p].key
      /\ \A q \in DOMAIN ops :
           q < p /\ ops[q].kind = "acct" /\ SameSeg(ops[q].key, ops[p].key)
             => ops[q].key < ops[p].key

(* Its queue row goes before it, the code it brings too. *)
QueueFirst(Q, S, ops) ==
    \A p \in DOMAIN ops : ops[p].kind = "acct" /\ ops[p].key \in Stored =>
      \/ ops[p].key \in Q \cup S
      \/ \E q \in DOMAIN ops : q < p /\ ops[q] = Op("queue", ops[p].key)

CodeFirst(ops) ==
    \A p \in DOMAIN ops : ops[p].kind = "code" =>
      \E q \in DOMAIN ops : p < q /\ ops[q].kind = "acct" /\ CodeOf[ops[q].key] = ops[p].key

AccountNext(ops) ==
    \A p \in DOMAIN ops : ops[p].kind = "queue" =>
      \E q \in DOMAIN ops : p < q /\ ops[q] = Op("acct", ops[p].key)

(* A queue row is deleted after the rows of the storage it stands for. *)
DeleteLast(S, ops) ==
    \A p \in DOMAIN ops : ops[p].kind = "del" =>
      \/ ops[p].key \in S
      \/ \E q \in DOMAIN ops : q < p /\ ops[q] = Op("slots", ops[p].key)

Buffered(D, Q, S, ops) ==
    /\ Above(D, ops) /\ QueueFirst(Q, S, ops) /\ CodeFirst(ops)
    /\ AccountNext(ops) /\ DeleteLast(S, ops)

OpSet ==
    [kind : {"acct"}, key : Accounts] \cup [kind : {"code"}, key : Codes]
      \cup [kind : {"queue", "slots", "del"}, key : Stored]

(* ops is pre, of length i, and then suf. *)
Cut(ops, i, pre, suf) ==
    /\ i \in Nat /\ Len(pre) = i /\ Len(ops) = i + Len(suf)
    /\ DOMAIN ops = 1..Len(ops) /\ DOMAIN pre = 1..i /\ DOMAIN suf = 1..Len(suf)
    /\ \A p \in 1..i : pre[p] = ops[p]
    /\ \A p \in 1..Len(suf) : suf[p] = ops[i + p]
    /\ \A p \in 1..Len(ops) : ops[p] \in OpSet
    /\ Len(suf) \in Nat
-----------------------------------------------------------------------------
(***************************************************************************)
(* A chunk: what a commit of the first i ops of the buffer leaves on disk  *)
(* is sound, and so is the rest of the buffer on top of it.                *)
(***************************************************************************)
LEMMA AccountIs == \A a \in Accounts : a \in Nat /\ ~ (a < a)
<1>1. Accounts \subseteq Nat
  BY LoaderAssumption
<1> QED BY <1>1, SMTT(60)

LEMMA InPuts ==
  ASSUME NEW ops, NEW k, NEW x
  PROVE  x \in Puts(ops, k) <=> \E p \in DOMAIN ops : ops[p].kind = k /\ ops[p].key = x
BY DEF Puts

LEMMA OpIs ==
  ASSUME NEW o \in OpSet, NEW k, NEW x
  PROVE  o = Op(k, x) <=> o.kind = k /\ o.key = x
BY SMTT(60) DEF OpSet, Op

LEMMA CutSides ==
  ASSUME NEW ops, NEW i, NEW pre, NEW suf, Cut(ops, i, pre, suf), NEW p \in DOMAIN ops
  PROVE  \/ p \in DOMAIN pre /\ pre[p] = ops[p] /\ p <= i
         \/ p - i \in DOMAIN suf /\ suf[p - i] = ops[p] /\ p > i
BY SMTT(60) DEF Cut

LEMMA CutPuts ==
  ASSUME NEW ops, NEW i, NEW pre, NEW suf, Cut(ops, i, pre, suf), NEW k
  PROVE  Puts(ops, k) = Puts(pre, k) \cup Puts(suf, k)
<1>1. ASSUME NEW x \in Puts(ops, k) PROVE x \in Puts(pre, k) \cup Puts(suf, k)
  <2>1. PICK p \in DOMAIN ops : ops[p].kind = k /\ ops[p].key = x
    BY <1>1, InPuts, SMTT(60)
  <2> QED BY <2>1, CutSides, InPuts, SMTT(60)
<1>2. ASSUME NEW x \in Puts(pre, k) PROVE x \in Puts(ops, k)
  <2>1. PICK p \in DOMAIN pre : pre[p].kind = k /\ pre[p].key = x
    BY <1>2, InPuts, SMTT(60)
  <2>2. p \in DOMAIN ops /\ ops[p] = pre[p]
    BY <2>1, SMTT(60) DEF Cut
  <2> QED BY <2>1, <2>2, InPuts, SMTT(60)
<1>3. ASSUME NEW x \in Puts(suf, k) PROVE x \in Puts(ops, k)
  <2>1. PICK p \in DOMAIN suf : suf[p].kind = k /\ suf[p].key = x
    BY <1>3, InPuts, SMTT(60)
  <2>2. i + p \in DOMAIN ops /\ ops[i + p] = suf[p]
    BY <2>1, SMTT(60) DEF Cut
  <2> QED BY <2>1, <2>2, InPuts, SMTT(60)
<1> QED BY <1>1, <1>2, <1>3

LEMMA PutsTyped ==
  ASSUME NEW ops, \A p \in DOMAIN ops : ops[p] \in OpSet
  PROVE  /\ Puts(ops, "acct") \subseteq Accounts /\ Puts(ops, "code") \subseteq Codes
         /\ Puts(ops, "queue") \subseteq Stored /\ Puts(ops, "slots") \subseteq Stored
         /\ Puts(ops, "del") \subseteq Stored
BY DEF Puts, OpSet

(* An account row behind the cut is not before it. *)
LEMMA CutAbove ==
  ASSUME NEW D \in SUBSET Accounts, NEW ops, NEW i, NEW pre, NEW suf, Cut(ops, i, pre, suf),
         Above(D, ops), NEW x \in D \cup Puts(pre, "acct"),
         NEW q \in DOMAIN ops, q > i, ops[q].kind = "acct", SameSeg(x, ops[q].key)
  PROVE  x < ops[q].key
<1>1. CASE x \in D
  BY <1>1 DEF Above
<1>2. CASE x \in Puts(pre, "acct")
  <2>1. PICK p \in DOMAIN pre : pre[p].kind = "acct" /\ pre[p].key = x
    BY <1>2, InPuts, SMTT(60)
  <2>2. p \in DOMAIN ops /\ ops[p] = pre[p] /\ p < q
    BY <2>1, SMTT(60) DEF Cut
  <2> QED BY <2>1, <2>2 DEF Above
<1> QED BY <1>1, <1>2

LEMMA CutOrdered ==
  ASSUME NEW D \in SUBSET Accounts, NEW ops, NEW i, NEW pre, NEW suf, Cut(ops, i, pre, suf),
         Above(D, ops), Ordered(D \cup Puts(ops, "acct"))
  PROVE  Ordered(D \cup Puts(pre, "acct"))
<1> SUFFICES ASSUME NEW a \in D \cup Puts(pre, "acct"), NEW b \in Accounts,
                    b < a, SegOf[a] = SegOf[b], b \notin D \cup Puts(pre, "acct")
             PROVE  FALSE
  BY DEF Ordered
<1>1. b \in Puts(ops, "acct")
  BY CutPuts, SMTT(60) DEF Ordered
<1>2. PICK q \in DOMAIN ops : ops[q].kind = "acct" /\ ops[q].key = b
  BY <1>1, InPuts, SMTT(60)
<1>3. q > i
  BY <1>2, CutSides, InPuts, SMTT(60)
<1>4. a \in Accounts
  BY PutsTyped, SMTT(60) DEF Cut
<1>5. a < b
  BY <1>2, <1>3, CutAbove DEF SameSeg
<1> QED BY <1>4, <1>5, LoaderAssumption, SMTT(60)

LEMMA CutOwed ==
  ASSUME NEW D \in SUBSET Accounts, NEW C, NEW ops, NEW i, NEW pre, NEW suf,
         Cut(ops, i, pre, suf), Above(D, ops), CodeFirst(ops),
         Owed(D \cup Puts(ops, "acct"), C \cup Puts(ops, "code"))
  PROVE  Owed(D \cup Puts(pre, "acct"), C \cup Puts(pre, "code"))
<1> SUFFICES ASSUME NEW a \in D \cup Puts(pre, "acct"),
                    CodeOf[a] \notin C \cup Puts(pre, "code") \cup {NoCode}
             PROVE  \E b \in Accounts \ (D \cup Puts(pre, "acct")) : CodeOf[b] = CodeOf[a]
  BY DEF Owed
<1>1. a \in D \cup Puts(ops, "acct") /\ D \cup Puts(pre, "acct") \subseteq D \cup Puts(ops, "acct")
  BY CutPuts, SMTT(60)
<1>2. CASE CodeOf[a] \in Puts(suf, "code")
  <2>1. PICK p \in DOMAIN suf : suf[p].kind = "code" /\ suf[p].key = CodeOf[a]
    BY <1>2, InPuts, SMTT(60)
  <2>2. i + p \in DOMAIN ops /\ ops[i + p] = suf[p] /\ i + p > i /\ i \in Nat /\ p \in Nat
    BY <2>1, SMTT(60) DEF Cut
  <2>3. PICK q \in DOMAIN ops :
          i + p < q /\ ops[q].kind = "acct" /\ CodeOf[ops[q].key] = CodeOf[a]
    BY <2>1, <2>2 DEF CodeFirst
  <2>4. q > i /\ ops[q].key \in Accounts
    BY <2>2, <2>3, SMTT(60) DEF Cut, OpSet
  <2>5. ops[q].key \notin D \cup Puts(pre, "acct")
    <3>1. ~ (ops[q].key < ops[q].key)
      BY <2>4, AccountIs
    <3> QED BY <2>3, <2>4, <3>1, CutAbove DEF SameSeg
  <2> QED BY <2>3, <2>4, <2>5
<1>3. CASE CodeOf[a] \notin Puts(suf, "code")
  <2>1. CodeOf[a] \notin C \cup Puts(ops, "code") \cup {NoCode}
    BY <1>3, CutPuts, SMTT(60)
  <2> QED BY <1>1, <2>1 DEF Owed
<1> QED BY <1>2, <1>3

(* A queue row is there until the storage is. *)
LEMMA CutQueue ==
  ASSUME NEW Q, NEW S, NEW ops, NEW i, NEW pre, NEW suf, Cut(ops, i, pre, suf),
         DeleteLast(S, ops), NEW a \in Q \cup S \cup Puts(pre, "queue")
  PROVE  a \in QueueAfter(Q, pre) \cup S \cup Puts(pre, "slots")
<1> SUFFICES ASSUME a \notin QueueAfter(Q, pre), a \in Q \cup Puts(pre, "queue"), a \notin S
             PROVE  a \in Puts(pre, "slots")
  OBVIOUS
<1>1. PICK p \in DOMAIN pre : pre[p] = Op("del", a)
  BY DEF QueueAfter
<1>2. p \in DOMAIN ops /\ ops[p] = pre[p] /\ ops[p].kind = "del" /\ ops[p].key = a /\ p <= i
  BY <1>1, SMTT(60) DEF Cut, Op
<1>3. PICK q \in DOMAIN ops : q < p /\ ops[q] = Op("slots", a)
  BY <1>2 DEF DeleteLast
<1>4. q \in DOMAIN pre /\ pre[q] = ops[q] /\ pre[q].kind = "slots" /\ pre[q].key = a
  BY <1>2, <1>3, SMTT(60) DEF Cut, Op
<1> QED BY <1>4, InPuts

LEMMA CutQueued ==
  ASSUME NEW D \in SUBSET Accounts, NEW Q, NEW S, NEW ops, NEW i, NEW pre, NEW suf,
         Cut(ops, i, pre, suf), DeleteLast(S, ops), QueueFirst(Q, S, ops),
         D \cap Stored \subseteq Q \cup S
  PROVE  (D \cup Puts(pre, "acct")) \cap Stored
           \subseteq QueueAfter(Q, pre) \cup (S \cup Puts(pre, "slots"))
<1> SUFFICES ASSUME NEW a \in (D \cup Puts(pre, "acct")) \cap Stored
             PROVE  a \in Q \cup S \cup Puts(pre, "queue")
  BY CutQueue
<1>1. CASE a \in Puts(pre, "acct") /\ a \notin Q \cup S
  <2>1. PICK p \in DOMAIN pre : pre[p].kind = "acct" /\ pre[p].key = a
    BY <1>1, InPuts, SMTT(60)
  <2>2. p \in DOMAIN ops /\ ops[p] = pre[p] /\ p <= i
    BY <2>1, SMTT(60) DEF Cut
  <2>3. PICK q \in DOMAIN ops : q < p /\ ops[q] = Op("queue", a)
    BY <1>1, <2>1, <2>2 DEF QueueFirst
  <2>4. q \in DOMAIN pre /\ pre[q] = ops[q] /\ pre[q].kind = "queue" /\ pre[q].key = a
    BY <2>2, <2>3, SMTT(60) DEF Cut, Op
  <2> QED BY <2>4, InPuts
<1> QED BY <1>1

LEMMA CutRest ==
  ASSUME NEW D \in SUBSET Accounts, NEW Q, NEW S, NEW ops, NEW i, NEW pre, NEW suf,
         Cut(ops, i, pre, suf), Buffered(D, Q, S, ops)
  PROVE  Buffered(D \cup Puts(pre, "acct"), QueueAfter(Q, pre), S \cup Puts(pre, "slots"), suf)
<1>1. \A p \in DOMAIN suf : i + p \in DOMAIN ops /\ ops[i + p] = suf[p] /\ i + p > i /\ p \in Nat
  BY SMTT(60) DEF Cut
<1>2. \A q \in DOMAIN ops : q > i => q - i \in DOMAIN suf /\ suf[q - i] = ops[q]
  BY SMTT(60) DEF Cut
<1>3. i \in Nat /\ DOMAIN ops \subseteq Nat
  BY SMTT(60) DEF Cut
<1>4. Above(D \cup Puts(pre, "acct"), suf)
  <2>1. ASSUME NEW p \in DOMAIN suf, suf[p].kind = "acct", NEW x \in D \cup Puts(pre, "acct"),
               SameSeg(x, suf[p].key)
        PROVE  x < suf[p].key
    BY <1>1, <2>1, CutAbove DEF Buffered
  <2>2. ASSUME NEW p \in DOMAIN suf, suf[p].kind = "acct", NEW q \in DOMAIN suf, q < p,
               suf[q].kind = "acct", SameSeg(suf[q].key, suf[p].key)
        PROVE  suf[q].key < suf[p].key
    <3>1. i + q < i + p
      BY <1>1, <1>3, <2>2, SMTT(60)
    <3> QED BY <1>1, <2>2, <3>1 DEF Buffered, Above
  <2> QED BY <2>1, <2>2 DEF Above
<1>5. QueueFirst(QueueAfter(Q, pre), S \cup Puts(pre, "slots"), suf)
  <2> SUFFICES ASSUME NEW p \in DOMAIN suf, suf[p].kind = "acct", suf[p].key \in Stored
               PROVE  \/ suf[p].key \in QueueAfter(Q, pre) \cup (S \cup Puts(pre, "slots"))
                      \/ \E q \in DOMAIN suf : q < p /\ suf[q] = Op("queue", suf[p].key)
    BY DEF QueueFirst
  <2>1. CASE suf[p].key \in Q \cup S
    BY <2>1, CutQueue DEF Buffered
  <2>2. CASE \E q \in DOMAIN ops : q < i + p /\ ops[q] = Op("queue", suf[p].key)
    <3>1. PICK q \in DOMAIN ops : q < i + p /\ ops[q] = Op("queue", suf[p].key)
      BY <2>2
    <3>2. CASE q <= i
      <4>1. q \in DOMAIN pre /\ pre[q] = ops[q]
        BY <3>1, <3>2, SMTT(60) DEF Cut
      <4>2. suf[p].key \in Puts(pre, "queue")
        BY <3>1, <4>1, InPuts, SMTT(60) DEF Op
      <4> QED BY <4>2, CutQueue DEF Buffered
    <3>3. CASE q > i
      <4>1. q - i < p
        BY <1>1, <1>3, <3>1, SMTT(60)
      <4> QED BY <1>2, <3>1, <3>3, <4>1
    <3> QED BY <1>3, <3>2, <3>3, SMTT(60)
  <2> QED BY <1>1, <2>1, <2>2 DEF Buffered, QueueFirst
<1>6. CodeFirst(suf)
  <2> SUFFICES ASSUME NEW p \in DOMAIN suf, suf[p].kind = "code"
               PROVE  \E q \in DOMAIN suf :
                        p < q /\ suf[q].kind = "acct" /\ CodeOf[suf[q].key] = suf[p].key
    BY DEF CodeFirst
  <2>1. PICK q \in DOMAIN ops :
          i + p < q /\ ops[q].kind = "acct" /\ CodeOf[ops[q].key] = suf[p].key
    BY <1>1, SMTT(60) DEF Buffered, CodeFirst
  <2>2. q > i /\ p < q - i
    BY <1>1, <1>3, <2>1, SMTT(60)
  <2> QED BY <1>2, <2>1, <2>2
<1>7. AccountNext(suf)
  <2> SUFFICES ASSUME NEW p \in DOMAIN suf, suf[p].kind = "queue"
               PROVE  \E q \in DOMAIN suf : p < q /\ suf[q] = Op("acct", suf[p].key)
    BY DEF AccountNext
  <2>1. PICK q \in DOMAIN ops : i + p < q /\ ops[q] = Op("acct", suf[p].key)
    BY <1>1 DEF Buffered, AccountNext
  <2>2. q > i /\ p < q - i
    BY <1>1, <1>3, <2>1, SMTT(60)
  <2> QED BY <1>2, <2>1, <2>2
<1>8. DeleteLast(S \cup Puts(pre, "slots"), suf)
  <2> SUFFICES ASSUME NEW p \in DOMAIN suf, suf[p].kind = "del", suf[p].key \notin S
               PROVE  \/ suf[p].key \in Puts(pre, "slots")
                      \/ \E q \in DOMAIN suf : q < p /\ suf[q] = Op("slots", suf[p].key)
    BY DEF DeleteLast
  <2>1. PICK q \in DOMAIN ops : q < i + p /\ ops[q] = Op("slots", suf[p].key)
    BY <1>1 DEF Buffered, DeleteLast
  <2>2. CASE q <= i
    <3>1. q \in DOMAIN pre /\ pre[q] = ops[q]
      BY <2>1, <2>2, SMTT(60) DEF Cut
    <3> QED BY <2>1, <3>1, InPuts, SMTT(60) DEF Op
  <2>3. CASE q > i
    <3>1. q - i < p
      BY <1>1, <1>3, <2>1, SMTT(60)
    <3> QED BY <1>2, <2>1, <2>3, <3>1
  <2> QED BY <1>3, <2>2, <2>3, SMTT(60)
<1> QED BY <1>4, <1>5, <1>6, <1>7, <1>8 DEF Buffered

(* On a complete baseline no more rows arrive. *)
LEMMA CutWhole ==
  ASSUME NEW C, NEW Q, NEW S, NEW ops, NEW i, NEW pre, NEW suf,
         Cut(ops, i, pre, suf), Buffered(Accounts, Q, S, ops), Whole(Accounts, C, Q, S)
  PROVE  Whole(Accounts \cup Puts(pre, "acct"), C \cup Puts(pre, "code"),
               QueueAfter(Q, pre), S \cup Puts(pre, "slots"))
<1>1. \A p \in DOMAIN pre : p \in DOMAIN ops /\ pre[p] = ops[p] /\ pre[p] \in OpSet
  BY SMTT(60) DEF Cut
<1>2. ASSUME NEW q \in DOMAIN ops PROVE ops[q].kind # "acct"
  <2>1. ops[q].kind = "acct" => ops[q].key \in Accounts
    BY DEF Cut, OpSet
  <2>2. ops[q].kind = "acct" => ops[q].key < ops[q].key
    BY <2>1 DEF Buffered, Above, SameSeg
  <2> QED BY <2>1, <2>2, AccountIs
<1>3. ASSUME NEW q \in DOMAIN ops PROVE ops[q].kind # "code" /\ ops[q].kind # "queue"
  BY <1>2, SMTT(60) DEF Buffered, CodeFirst, AccountNext, Op
<1>4. Puts(pre, "acct") = {} /\ Puts(pre, "code") = {} /\ Puts(pre, "queue") = {}
  BY <1>1, <1>2, <1>3 DEF Puts
<1>5. Puts(pre, "slots") \subseteq Stored
  BY <1>1, PutsTyped
<1>6. QueueAfter(Q, pre) = {}
  BY <1>4 DEF QueueAfter, Whole
<1> QED BY <1>4, <1>5, <1>6 DEF Whole

DiskSet ==
    [acct : SUBSET Accounts, code : SUBSET Codes, queue : SUBSET Stored,
     slots : SUBSET Stored, bits : SUBSET Segs, complete : BOOLEAN]

LEMMA DiskExcept ==
  ASSUME NEW A, NEW B, NEW E, NEW F, NEW G,
         NEW d \in [acct : A, code : B, queue : E, slots : E, bits : F, complete : G],
         NEW D \in A, NEW C \in B, NEW Q \in E, NEW S \in E,
         NEW e, e = [d EXCEPT !.acct = D, !.code = C, !.slots = S, !.queue = Q]
  PROVE  /\ e \in [acct : A, code : B, queue : E, slots : E, bits : F, complete : G]
         /\ e.acct = D /\ e.code = C /\ e.slots = S /\ e.queue = Q
         /\ e.bits = d.bits /\ e.complete = d.complete
OBVIOUS

LEMMA WrittenIs ==
  ASSUME NEW d \in DiskSet, NEW ops, \A p \in DOMAIN ops : ops[p] \in OpSet
  PROVE  /\ Written(d, ops) \in DiskSet
         /\ Written(d, ops).acct = d.acct \cup Puts(ops, "acct")
         /\ Written(d, ops).code = d.code \cup Puts(ops, "code")
         /\ Written(d, ops).slots = d.slots \cup Puts(ops, "slots")
         /\ Written(d, ops).queue = QueueAfter(d.queue, ops)
         /\ Written(d, ops).bits = d.bits /\ Written(d, ops).complete = d.complete
<1>1. QueueAfter(d.queue, ops) \subseteq Stored
  <2>1. d.queue \subseteq Stored /\ Puts(ops, "queue") \subseteq Stored
    BY PutsTyped DEF DiskSet
  <2> QED BY <2>1 DEF QueueAfter
<1>2. PICK D, C, S, Q : /\ D = d.acct \cup Puts(ops, "acct") /\ C = d.code \cup Puts(ops, "code")
                        /\ S = d.slots \cup Puts(ops, "slots") /\ Q = QueueAfter(d.queue, ops)
  OBVIOUS
<1>3. D \in SUBSET Accounts /\ C \in SUBSET Codes /\ S \in SUBSET Stored /\ Q \in SUBSET Stored
  BY <1>1, <1>2, PutsTyped DEF DiskSet
<1>4. PICK e : e = [d EXCEPT !.acct = D, !.code = C, !.slots = S, !.queue = Q]
  OBVIOUS
<1>5. Written(d, ops) = e
  BY <1>2, <1>4 DEF Written
<1>6. /\ e \in DiskSet /\ e.acct = D /\ e.code = C /\ e.slots = S /\ e.queue = Q
      /\ e.bits = d.bits /\ e.complete = d.complete
  BY <1>3, <1>4, DiskExcept DEF DiskSet
<1> QED BY <1>2, <1>5, <1>6

TakenA(d, ops) == d.acct \cup Puts(ops, "acct")

TakenC(d, ops) == d.code \cup Puts(ops, "code")

TakenS(d, ops) == d.slots \cup Puts(ops, "slots")

(* The disk is sound, and after any chunk of the buffer. *)
Stable(d, ops) ==
    /\ d \in DiskSet /\ Sound(d) /\ ops \in Seq(OpSet)
    /\ Buffered(d.acct, d.queue, d.slots, ops)

SameTaken(d, ops, e, suf) ==
    /\ TakenA(e, suf) = TakenA(d, ops) /\ TakenC(e, suf) = TakenC(d, ops)
    /\ TakenS(e, suf) = TakenS(d, ops)

Settled(d, ops) == Ordered(TakenA(d, ops)) /\ Owed(TakenA(d, ops), TakenC(d, ops))

(* The cursor is unset or a bitmap of segments whose accounts are in D. *)
CursorIn(pr, D) ==
    pr = {} \/ \E P \in SUBSET Segs : pr = {P} /\ \A s \in P : SegAccounts(s) \subseteq D

LEMMA WrittenSound ==
  ASSUME NEW d, NEW ops, Stable(d, ops), Settled(d, ops), NEW i, NEW pre, NEW suf \in Seq(OpSet),
         Cut(ops, i, pre, suf), NEW e, e = Written(d, pre)
  PROVE  Stable(e, suf) /\ SameTaken(d, ops, e, suf) /\ e.acct = d.acct \cup Puts(pre, "acct")
<1>0. /\ d \in DiskSet /\ Sound(d) /\ Buffered(d.acct, d.queue, d.slots, ops)
      /\ Ordered(d.acct \cup Puts(ops, "acct"))
      /\ Owed(d.acct \cup Puts(ops, "acct"), d.code \cup Puts(ops, "code"))
  BY DEF Stable, Settled, TakenA, TakenC
<1>1. PICK D, C, Q, S : D = d.acct /\ C = d.code /\ Q = d.queue /\ S = d.slots
  OBVIOUS
<1>2. D \in SUBSET Accounts
  BY <1>0, <1>1 DEF DiskSet
<1>3. /\ e \in DiskSet /\ e.bits = d.bits /\ e.complete = d.complete
      /\ e.acct = D \cup Puts(pre, "acct") /\ e.code = C \cup Puts(pre, "code")
      /\ e.slots = S \cup Puts(pre, "slots") /\ e.queue = QueueAfter(Q, pre)
  <2>1. \A p \in DOMAIN pre : pre[p] \in OpSet
    BY SMTT(60) DEF Cut
  <2> QED BY <1>0, <1>1, <2>1, WrittenIs
<1>4. Buffered(D, Q, S, ops) /\ D \cap Stored \subseteq Q \cup S
  BY <1>0, <1>1 DEF Sound
<1>5. Above(D, ops) /\ CodeFirst(ops) /\ DeleteLast(S, ops) /\ QueueFirst(Q, S, ops)
  BY <1>4 DEF Buffered
<1>6. Ordered(e.acct)
  BY <1>0, <1>1, <1>2, <1>3, <1>5, CutOrdered, SMTT(60)
<1>7. Owed(e.acct, e.code)
  <2>1. Owed(D \cup Puts(ops, "acct"), C \cup Puts(ops, "code"))
    BY <1>0, <1>1
  <2>2. Owed(D \cup Puts(pre, "acct"), C \cup Puts(pre, "code"))
    BY <1>2, <1>5, <2>1, CutOwed
  <2> QED BY <1>3, <2>2
<1>8. e.acct \cap Stored \subseteq e.queue \cup e.slots
  BY <1>2, <1>3, <1>4, <1>5, CutQueued, SMTT(60)
<1>9. \A s \in e.bits : SegAccounts(s) \subseteq e.acct
  BY <1>0, <1>1, <1>3 DEF Sound
<1>10. e.complete => Whole(e.acct, e.code, e.queue, e.slots)
  <2> SUFFICES ASSUME e.complete PROVE Whole(e.acct, e.code, e.queue, e.slots)
    OBVIOUS
  <2>1. Whole(D, C, Q, S) /\ D = Accounts
    BY <1>0, <1>1, <1>3 DEF Sound, Whole
  <2> QED BY <1>3, <1>4, <2>1, CutWhole, SMTT(60)
<1>11. Buffered(e.acct, e.queue, e.slots, suf)
  BY <1>2, <1>3, <1>4, CutRest, SMTT(60)
<1>12. \A k : Puts(ops, k) = Puts(pre, k) \cup Puts(suf, k)
  BY CutPuts, SMTT(60)
<1>13. Stable(e, suf)
  BY <1>3, <1>6, <1>7, <1>8, <1>9, <1>10, <1>11 DEF Stable, Sound
<1>14. SameTaken(d, ops, e, suf)
  BY <1>1, <1>3, <1>12 DEF SameTaken, TakenA, TakenC, TakenS
<1> QED BY <1>1, <1>3, <1>13, <1>14

WithBits(d, B) == [d EXCEPT !.bits = B]

(* With the cursor, which is not ahead of the rows. *)
LEMMA BitsSound ==
  ASSUME NEW d \in DiskSet, Sound(d), NEW B \in SUBSET Segs,
         \A s \in B : SegAccounts(s) \subseteq d.acct, NEW e, e = WithBits(d, B)
  PROVE  /\ e \in DiskSet /\ Sound(e) /\ e.acct = d.acct /\ e.code = d.code
         /\ e.queue = d.queue /\ e.slots = d.slots /\ e.complete = d.complete
BY DEF DiskSet, Sound, WithBits
-----------------------------------------------------------------------------
(***************************************************************************)
(* Cutting and joining sequences of ops.                                   *)
(***************************************************************************)
LEMMA SubSeqCut ==
  ASSUME NEW ops \in Seq(OpSet), NEW i \in 0..Len(ops)
  PROVE  /\ Cut(ops, i, SubSeq(ops, 1, i), SubSeq(ops, i + 1, Len(ops)))
         /\ SubSeq(ops, 1, i) \in Seq(OpSet) /\ SubSeq(ops, i + 1, Len(ops)) \in Seq(OpSet)
BY SMTT(60) DEF Cut

LEMMA WholeCut ==
  ASSUME NEW ops \in Seq(OpSet)
  PROVE  Cut(ops, Len(ops), ops, << >>)
BY SMTT(60) DEF Cut

LEMMA JoinCut ==
  ASSUME NEW ops \in Seq(OpSet), NEW add \in Seq(OpSet)
  PROVE  Cut(ops \o add, Len(ops), ops, add) /\ ops \o add \in Seq(OpSet)
BY SMTT(60) DEF Cut

LEMMA NoPuts == \A k : Puts(<< >>, k) = {}
BY SMTT(60) DEF Puts

LEMMA NoneBuffered == \A D, Q, S : Buffered(D, Q, S, << >>)
BY SMTT(60) DEF Buffered, Above, QueueFirst, CodeFirst, AccountNext, DeleteLast

-----------------------------------------------------------------------------
(***************************************************************************)
(* On the way to the Baseline.  T, TC and TS are the accounts, codes and   *)
(* storage committed or buffered, w is the channel.                        *)
(***************************************************************************)
RowSet == [a : Accounts, code : BOOLEAN]

BundleSet ==
    [kind : {"account"}, of : RowSet] \cup [kind : {"slots", "del"}, of : Stored]
      \cup [kind : {"final"}, of : Segs] \cup [kind : {"barrier"}, of : {{}}]

Sends(w, i, x) == w[i].kind = "account" /\ w[i].of.a = x

Enqueued(w) == {w[i].of.a : i \in {j \in DOMAIN w : w[j].kind = "account"}}

(* The accounts in the channel ascend per segment, above those taken. *)
Rising(T, w) ==
    \A j \in DOMAIN w : w[j].kind = "account" =>
      /\ \A x \in T : SameSeg(x, w[j].of.a) => x < w[j].of.a
      /\ \A i \in DOMAIN w : i < j /\ w[i].kind = "account" /\ SameSeg(w[i].of.a, w[j].of.a)
                               => w[i].of.a < w[j].of.a

RowClaimed(cl, r) == CodeOf[r.a] \in cl \cup {NoCode} /\ (r.code => CodeOf[r.a] # NoCode)

Coded(cl, w) == \A j \in DOMAIN w : w[j].kind = "account" => RowClaimed(cl, w[j].of)

Finals(T, w) ==
    \A j \in DOMAIN w : w[j].kind = "final" =>
      \A a \in SegAccounts(w[j].of) :
        a \in T \/ \E i \in DOMAIN w : i < j /\ Sends(w, i, a)

Deletes(TS, w) ==
    \A j \in DOMAIN w : w[j].kind = "del" =>
      \/ w[j].of \in TS
      \/ \E i \in DOMAIN w : i < j /\ w[i] = Bundle("slots", w[j].of)

Rows(g) == {r.a : r \in g.rows}

Held(g) == Rows(g) \cup g.keys

WalkedOut(g) == g.pc \in {"final", "done"} \/ (g.pc = "handle" /\ g.last)

(* A goroutine has nothing left out behind its start, and what it holds    *)
(* lies above all that went before; U is what is taken or in the channel.  *)
SegOK(U, cl, g, s) ==
    /\ Held(g) \subseteq SegAccounts(s)
    /\ \A r \in g.rows : RowClaimed(cl, r) /\ r.a \notin g.keys
    /\ \A r, q \in g.rows : r.a = q.a => r = q
    /\ \A x \in U : SegOf[x] = s => x < g.start /\ \A y \in Held(g) : x < y
    /\ \A y \in Held(g) : y < g.start
    /\ \A a \in SegAccounts(s) : a < g.start \/ WalkedOut(g) => a \in U \cup Held(g)
    /\ g.pc # "handle" => Held(g) = {}

SegsOK(U, cl, sg) == \A s \in Segs : SegOK(U, cl, sg[s], s)

(* A claimed code is there or on its way. *)
Claimed(TC, w, sg, c) ==
    \/ c \in TC
    \/ \E j \in DOMAIN w : w[j].kind = "account" /\ w[j].of.code /\ CodeOf[w[j].of.a] = c
    \/ \E s \in Segs : \E r \in sg[s].rows : r.code /\ CodeOf[r.a] = c

SegSet ==
    [pc : {"fetch", "handle", "final", "done"}, start : Nat, keys : SUBSET Accounts,
     rows : SUBSET RowSet, last : BOOLEAN]

Arriving(T, TC, TS, w, sg, cl) ==
    /\ Owed(T, TC) /\ Rising(T, w) /\ Coded(cl, w) /\ Finals(T, w) /\ Deletes(TS, w)
    /\ SegsOK(T \cup Enqueued(w), cl, sg)
    /\ \A c \in cl : Claimed(TC, w, sg, c)
-----------------------------------------------------------------------------
LEMMA InEnqueued ==
  ASSUME NEW w, NEW x
  PROVE  x \in Enqueued(w) <=> \E i \in DOMAIN w : Sends(w, i, x)
BY DEF Enqueued, Sends

LEMMA BundleIs ==
  ASSUME NEW b \in BundleSet
  PROVE  /\ b.kind \in {"account", "slots", "del", "final", "barrier"}
         /\ b.kind = "account" => b.of \in RowSet /\ b.of.a \in Accounts /\ b.of.code \in BOOLEAN
         /\ b.kind \in {"slots", "del"} => b.of \in Stored
         /\ b.kind = "final" => b.of \in Segs
         /\ \A k, o : b = Bundle(k, o) <=> b.kind = k /\ b.of = o
BY SMTT(60) DEF BundleSet, RowSet, Bundle

LEMMA TailIs ==
  ASSUME NEW w \in Seq(BundleSet), w # << >>
  PROVE  /\ Tail(w) \in Seq(BundleSet) /\ Head(w) = w[1] /\ w[1] \in BundleSet
         /\ 1 \in DOMAIN w
         /\ \A i \in DOMAIN Tail(w) : i + 1 \in DOMAIN w /\ Tail(w)[i] = w[i + 1] /\ i \in Nat
         /\ \A i \in DOMAIN w :
              i # 1 => i - 1 \in DOMAIN Tail(w) /\ Tail(w)[i - 1] = w[i] /\ i > 1 /\ i \in Nat
BY SMTT(60)

LEMMA AppendIs ==
  ASSUME NEW w \in Seq(BundleSet), NEW b \in BundleSet
  PROVE  /\ Append(w, b) \in Seq(BundleSet)
         /\ DOMAIN Append(w, b) = DOMAIN w \cup {Len(w) + 1}
         /\ Append(w, b)[Len(w) + 1] = b
         /\ \A i \in DOMAIN w : Append(w, b)[i] = w[i] /\ i < Len(w) + 1 /\ i \in Nat
BY SMTT(60)

(* What is buffered or committed is a prefix of every segment. *)
LEMMA TakenOrdered ==
  ASSUME NEW T \in SUBSET Accounts, NEW TC, NEW TS, NEW w \in Seq(BundleSet), NEW sg, NEW cl,
         Arriving(T, TC, TS, w, sg, cl), sg \in [Segs -> SegSet]
  PROVE  Ordered(T)
<1> SUFFICES ASSUME NEW a \in T, NEW b \in Accounts, b < a, SegOf[a] = SegOf[b]
             PROVE  b \in T
  BY DEF Ordered
<1>1. PICK s \in Segs : s = SegOf[a] /\ s = SegOf[b]
  BY LoaderAssumption
<1>2. PICK g \in SegSet : g = sg[s]
  BY <1>1
<1>3. SegOK(T \cup Enqueued(w), cl, g, s)
  BY <1>2 DEF Arriving, SegsOK
<1>4. a \in Nat /\ b \in Nat /\ g.start \in Nat
  BY <1>2, AccountIs DEF SegSet
<1>5. a < g.start /\ \A y \in Held(g) : a < y
  BY <1>1, <1>3 DEF SegOK
<1>6. b \in T \cup Enqueued(w) \cup Held(g)
  <2>1. b < g.start /\ b \in SegAccounts(s)
    BY <1>1, <1>4, <1>5, SMTT(60) DEF SegAccounts
  <2> QED BY <1>3, <2>1 DEF SegOK
<1>7. b \notin Held(g)
  BY <1>4, <1>5, SMTT(60)
<1>8. b \notin Enqueued(w)
  <2> SUFFICES ASSUME b \in Enqueued(w) PROVE FALSE
    OBVIOUS
  <2>1. PICK i \in DOMAIN w : Sends(w, i, b)
    BY InEnqueued
  <2>2. a < b
    BY <1>1, <2>1 DEF Sends, Arriving, Rising, SameSeg
  <2> QED BY <1>4, <2>2, SMTT(60)
<1> QED BY <1>6, <1>7, <1>8

(* Without the head of the channel. *)
LEMMA TailEnqueued ==
  ASSUME NEW w \in Seq(BundleSet), w # << >>
  PROVE  /\ w[1].kind = "account" => Enqueued(w) = {w[1].of.a} \cup Enqueued(Tail(w))
         /\ w[1].kind # "account" => Enqueued(w) = Enqueued(Tail(w))
<1>1. ASSUME NEW x \in Enqueued(Tail(w)) PROVE x \in Enqueued(w)
  <2>1. PICK i \in DOMAIN Tail(w) : Sends(Tail(w), i, x)
    BY <1>1, InEnqueued
  <2>2. i + 1 \in DOMAIN w /\ Sends(w, i + 1, x)
    BY <2>1, TailIs DEF Sends
  <2> QED BY <2>2, InEnqueued
<1>2. ASSUME NEW x \in Enqueued(w), ~ Sends(w, 1, x) PROVE x \in Enqueued(Tail(w))
  <2>1. PICK i \in DOMAIN w : Sends(w, i, x)
    BY <1>2, InEnqueued
  <2>2. i - 1 \in DOMAIN Tail(w) /\ Sends(Tail(w), i - 1, x)
    BY <1>2, <2>1, TailIs DEF Sends
  <2> QED BY <2>2, InEnqueued
<1>3. w[1].kind = "account" => w[1].of.a \in Enqueued(w)
  BY TailIs DEF Enqueued
<1>4. \A x : Sends(w, 1, x) <=> w[1].kind = "account" /\ x = w[1].of.a
  BY DEF Sends
<1> QED BY <1>1, <1>2, <1>3, <1>4

LEMMA TailRising ==
  ASSUME NEW T, NEW w \in Seq(BundleSet), w # << >>, Rising(T, w), NEW T2,
         \A x \in T2 : x \in T \/ Sends(w, 1, x)
  PROVE  Rising(T2, Tail(w))
<1> SUFFICES ASSUME NEW j \in DOMAIN Tail(w), Tail(w)[j].kind = "account"
             PROVE  /\ \A x \in T2 : SameSeg(x, Tail(w)[j].of.a) => x < Tail(w)[j].of.a
                    /\ \A i \in DOMAIN Tail(w) :
                         i < j /\ Tail(w)[i].kind = "account"
                           /\ SameSeg(Tail(w)[i].of.a, Tail(w)[j].of.a)
                         => Tail(w)[i].of.a < Tail(w)[j].of.a
  BY DEF Rising
<1>1. j + 1 \in DOMAIN w /\ w[j + 1] = Tail(w)[j] /\ 1 \in DOMAIN w /\ 1 < j + 1
  BY TailIs, SMTT(60)
<1>2. ASSUME NEW x \in T2, SameSeg(x, w[j + 1].of.a) PROVE x < w[j + 1].of.a
  BY <1>1, <1>2 DEF Rising, Sends
<1>3. ASSUME NEW i \in DOMAIN Tail(w), i < j, Tail(w)[i].kind = "account",
             SameSeg(Tail(w)[i].of.a, Tail(w)[j].of.a)
      PROVE  Tail(w)[i].of.a < Tail(w)[j].of.a
  <2>1. i + 1 \in DOMAIN w /\ w[i + 1] = Tail(w)[i] /\ i + 1 < j + 1
    BY <1>3, TailIs, SMTT(60)
  <2> QED BY <1>1, <1>3, <2>1 DEF Rising
<1> QED BY <1>1, <1>2, <1>3

LEMMA TailFinals ==
  ASSUME NEW T, NEW w \in Seq(BundleSet), w # << >>, Finals(T, w), NEW T2, T \subseteq T2,
         \A x : Sends(w, 1, x) => x \in T2
  PROVE  Finals(T2, Tail(w))
<1> SUFFICES ASSUME NEW j \in DOMAIN Tail(w), Tail(w)[j].kind = "final",
                    NEW a \in SegAccounts(Tail(w)[j].of), a \notin T2
             PROVE  \E i \in DOMAIN Tail(w) : i < j /\ Sends(Tail(w), i, a)
  BY DEF Finals
<1>1. j + 1 \in DOMAIN w /\ w[j + 1] = Tail(w)[j]
  BY TailIs
<1>2. PICK i \in DOMAIN w : i < j + 1 /\ Sends(w, i, a)
  BY <1>1 DEF Finals
<1>3. i - 1 \in DOMAIN Tail(w) /\ i - 1 < j /\ Sends(Tail(w), i - 1, a)
  <2>1. i # 1
    BY <1>2
  <2>2. i - 1 \in DOMAIN Tail(w) /\ Tail(w)[i - 1] = w[i] /\ i \in Nat
    BY <2>1, TailIs
  <2> QED BY <1>2, <2>2, SMTT(60) DEF Sends
<1> QED BY <1>3

LEMMA TailDeletes ==
  ASSUME NEW TS, NEW w \in Seq(BundleSet), w # << >>, Deletes(TS, w), NEW TS2, TS \subseteq TS2,
         \A x : w[1] = Bundle("slots", x) => x \in TS2
  PROVE  Deletes(TS2, Tail(w))
<1> SUFFICES ASSUME NEW j \in DOMAIN Tail(w), Tail(w)[j].kind = "del", Tail(w)[j].of \notin TS2
             PROVE  \E i \in DOMAIN Tail(w) :
                      i < j /\ Tail(w)[i] = Bundle("slots", Tail(w)[j].of)
  BY DEF Deletes
<1>1. j + 1 \in DOMAIN w /\ w[j + 1] = Tail(w)[j]
  BY TailIs
<1>2. PICK i \in DOMAIN w : i < j + 1 /\ w[i] = Bundle("slots", Tail(w)[j].of)
  BY <1>1 DEF Deletes
<1>3. i # 1
  BY <1>2
<1>4. i - 1 \in DOMAIN Tail(w) /\ Tail(w)[i - 1] = w[i] /\ i \in Nat
  BY <1>3, TailIs
<1> QED BY <1>2, <1>4, SMTT(60)

LEMMA TailCoded ==
  ASSUME NEW cl, NEW w \in Seq(BundleSet), w # << >>, Coded(cl, w)
  PROVE  Coded(cl, Tail(w))
BY TailIs, SMTT(60) DEF Coded

LEMMA TailClaimed ==
  ASSUME NEW TC, NEW w \in Seq(BundleSet), w # << >>, NEW sg, NEW c, Claimed(TC, w, sg, c),
         NEW TC2, TC \subseteq TC2,
         w[1].kind = "account" /\ w[1].of.code => CodeOf[w[1].of.a] \in TC2
  PROVE  Claimed(TC2, Tail(w), sg, c)
<1>1. ASSUME NEW j \in DOMAIN w, w[j].kind = "account", w[j].of.code, CodeOf[w[j].of.a] = c,
             c \notin TC2
      PROVE  \E i \in DOMAIN Tail(w) :
               Tail(w)[i].kind = "account" /\ Tail(w)[i].of.code /\ CodeOf[Tail(w)[i].of.a] = c
  <2>1. j - 1 \in DOMAIN Tail(w) /\ Tail(w)[j - 1] = w[j]
    BY <1>1, TailIs
  <2> QED BY <1>1, <2>1
<1> QED BY <1>1 DEF Claimed

-----------------------------------------------------------------------------
(***************************************************************************)
(* The writer takes the head of the channel.                               *)
(***************************************************************************)
(* An account with code c is still to come. *)
Comes(T, c) == \E b \in Accounts \ T : CodeOf[b] = c

LEMMA NotTaken ==
  ASSUME NEW T \in SUBSET Accounts, NEW w \in Seq(BundleSet), NEW sg \in [Segs -> SegSet], NEW cl,
         NEW TC, NEW c, c \notin TC, Claimed(TC, w, sg, c), Rising(T, w),
         SegsOK(T \cup Enqueued(w), cl, sg)
  PROVE  Comes(T, c)
<1>1. CASE \E j \in DOMAIN w : w[j].kind = "account" /\ w[j].of.code /\ CodeOf[w[j].of.a] = c
  <2>1. PICK j \in DOMAIN w : w[j].kind = "account" /\ CodeOf[w[j].of.a] = c
    BY <1>1
  <2>2. w[j].of.a \in Accounts
    BY <2>1, BundleIs, SMTT(60)
  <2>3. w[j].of.a \notin T
    BY <2>1, <2>2, AccountIs DEF Rising, SameSeg
  <2> QED BY <2>1, <2>2, <2>3 DEF Comes
<1>2. CASE \E s \in Segs : \E r \in sg[s].rows : r.code /\ CodeOf[r.a] = c
  <2>1. PICK s \in Segs : \E r \in sg[s].rows : r.code /\ CodeOf[r.a] = c
    BY <1>2
  <2>2. PICK g \in SegSet : g = sg[s]
    BY <2>1
  <2>3. PICK r \in g.rows : CodeOf[r.a] = c
    BY <2>1, <2>2
  <2>4. SegOK(T \cup Enqueued(w), cl, g, s)
    BY <2>2 DEF SegsOK
  <2>5. r.a \in Held(g)
    BY <2>3 DEF Held, Rows
  <2>6. r.a \in Accounts /\ SegOf[r.a] = s
    BY <2>4, <2>5 DEF SegOK, SegAccounts
  <2>7. r.a \notin T
    BY <2>4, <2>5, <2>6, AccountIs DEF SegOK
  <2> QED BY <2>3, <2>6, <2>7 DEF Comes
<1> QED BY <1>1, <1>2 DEF Claimed

LEMMA HeadTaken ==
  ASSUME NEW T \in SUBSET Accounts, NEW TC, NEW TS, NEW w \in Seq(BundleSet), w # << >>,
         NEW sg \in [Segs -> SegSet], NEW cl, Arriving(T, TC, TS, w, sg, cl),
         NEW T2 \in SUBSET Accounts, NEW TC2, NEW TS2, TC \subseteq TC2, TS \subseteq TS2,
         \A x : x \in T2 <=> x \in T \/ Sends(w, 1, x),
         w[1].kind = "account" /\ w[1].of.code => CodeOf[w[1].of.a] \in TC2,
         \A x : w[1] = Bundle("slots", x) => x \in TS2
  PROVE  Arriving(T2, TC2, TS2, Tail(w), sg, cl)
<1>1. Rising(T2, Tail(w))
  BY TailRising DEF Arriving
<1>2. Coded(cl, Tail(w)) /\ Finals(T2, Tail(w))
  <2>1. T \subseteq T2 /\ \A x : Sends(w, 1, x) => x \in T2
    OBVIOUS
  <2> QED BY <2>1, TailCoded, TailFinals DEF Arriving
<1>3. Deletes(TS2, Tail(w))
  BY TailDeletes DEF Arriving
<1>4. T2 \cup Enqueued(Tail(w)) = T \cup Enqueued(w)
  <2>1. \A x : Sends(w, 1, x) <=> w[1].kind = "account" /\ x = w[1].of.a
    BY DEF Sends
  <2> QED BY <2>1, TailEnqueued
<1>5. SegsOK(T2 \cup Enqueued(Tail(w)), cl, sg)
  BY <1>4 DEF Arriving
<1>6. \A c \in cl : Claimed(TC2, Tail(w), sg, c)
  BY TailClaimed DEF Arriving
<1>7. Tail(w) \in Seq(BundleSet)
  BY TailIs
<1>8. ASSUME NEW c \in cl, c \notin TC2 PROVE Comes(T2, c)
  <2>1. Claimed(TC2, Tail(w), sg, c)
    BY <1>6
  <2> QED BY <1>1, <1>5, <1>7, <1>8, <2>1, NotTaken
<1>9. ASSUME NEW x, Sends(w, 1, x) PROVE CodeOf[x] \in cl \cup {NoCode}
  <2>1. 1 \in DOMAIN w
    BY TailIs
  <2> QED BY <1>9, <2>1 DEF Sends, Arriving, Coded, RowClaimed
<1>10. Owed(T2, TC2)
  <2> SUFFICES ASSUME NEW x \in T2, CodeOf[x] \notin TC2, CodeOf[x] # NoCode
               PROVE  \E b \in Accounts \ T2 : CodeOf[b] = CodeOf[x]
    BY DEF Owed
  <2>1. CASE Sends(w, 1, x)
    BY <1>8, <1>9, <2>1 DEF Comes
  <2>2. CASE x \in T
    <3>1. PICK b \in Accounts \ T : CodeOf[b] = CodeOf[x]
      BY <2>2 DEF Arriving, Owed
    <3>2. CASE b \in T2
      <4>1. CodeOf[x] \in cl
        BY <1>9, <3>1, <3>2
      <4> QED BY <1>8, <4>1 DEF Comes
    <3> QED BY <3>1, <3>2
  <2> QED BY <2>1, <2>2
<1> QED BY <1>1, <1>2, <1>3, <1>5, <1>6, <1>10 DEF Arriving
-----------------------------------------------------------------------------
(***************************************************************************)
(* Buffering more ops.                                                     *)
(***************************************************************************)
(* add may follow when T and TS are the accounts and the storage taken. *)
Joins(T, TS, add) ==
    /\ add \in Seq(OpSet) /\ Above(T, add) /\ QueueFirst({}, {}, add) /\ CodeFirst(add)
    /\ AccountNext(add) /\ DeleteLast(TS, add)

LEMMA JoinBuffered ==
  ASSUME NEW D, NEW Q, NEW S, NEW all, NEW n, NEW ops, NEW add, Cut(all, n, ops, add),
         Buffered(D, Q, S, ops),
         Joins(D \cup Puts(ops, "acct"), S \cup Puts(ops, "slots"), add)
  PROVE  Buffered(D, Q, S, all)
<1>1. \A p \in DOMAIN ops : p \in DOMAIN all /\ all[p] = ops[p] /\ p <= n /\ p \in Nat
  BY SMTT(60) DEF Cut
<1>2. \A p \in DOMAIN add : n + p \in DOMAIN all /\ all[n + p] = add[p] /\ n < n + p /\ p \in Nat
  BY SMTT(60) DEF Cut
<1>3. \A p \in DOMAIN all : \/ p \in DOMAIN ops
                            \/ \E q \in DOMAIN add : p = n + q
  <2> TAKE p \in DOMAIN all
  <2>1. CASE p <= n
    BY <2>1, SMTT(60) DEF Cut
  <2>2. CASE p > n
    <3>1. p - n \in DOMAIN add /\ p = n + (p - n)
      BY <2>2, SMTT(60) DEF Cut
    <3> QED BY <3>1
  <2> QED BY <2>1, <2>2, SMTT(60) DEF Cut
<1>4. n \in Nat
  BY DEF Cut
<1>5. Above(D, all)
  <2>1. ASSUME NEW p \in DOMAIN all, all[p].kind = "acct", NEW x \in D, SameSeg(x, all[p].key)
        PROVE  x < all[p].key
    BY <1>1, <1>2, <1>3, <2>1 DEF Joins, Buffered, Above
  <2>2. ASSUME NEW p \in DOMAIN all, all[p].kind = "acct", NEW q \in DOMAIN all, q < p,
               all[q].kind = "acct", SameSeg(all[q].key, all[p].key)
        PROVE  all[q].key < all[p].key
    <3>1. CASE p \in DOMAIN ops
      <4>1. q \in DOMAIN ops
        BY <1>1, <1>2, <1>3, <1>4, <2>2, <3>1, SMTT(60)
      <4> QED BY <1>1, <2>2, <3>1, <4>1 DEF Buffered, Above
    <3>2. CASE \E m \in DOMAIN add : p = n + m
      <4>1. PICK m \in DOMAIN add : p = n + m
        BY <3>2
      <4>2. CASE q \in DOMAIN ops
        <5>1. all[q].key \in Puts(ops, "acct")
          BY <1>1, <2>2, <4>2, InPuts
        <5> QED BY <1>2, <2>2, <4>1, <5>1 DEF Joins, Above
      <4>3. CASE \E k \in DOMAIN add : q = n + k
        <5>1. PICK k \in DOMAIN add : q = n + k
          BY <4>3
        <5>2. k < m
          BY <1>2, <1>4, <2>2, <4>1, <5>1, SMTT(60)
        <5> QED BY <1>2, <2>2, <4>1, <5>1, <5>2 DEF Joins, Above
      <4> QED BY <1>3, <4>2, <4>3
    <3> QED BY <1>3, <3>1, <3>2
  <2> QED BY <2>1, <2>2 DEF Above
<1>6. QueueFirst(Q, S, all)
  <2> SUFFICES ASSUME NEW p \in DOMAIN all, all[p].kind = "acct", all[p].key \in Stored,
                      all[p].key \notin Q \cup S
               PROVE  \E q \in DOMAIN all : q < p /\ all[q] = Op("queue", all[p].key)
    BY DEF QueueFirst
  <2>1. CASE p \in DOMAIN ops
    BY <1>1, <2>1 DEF Buffered, QueueFirst
  <2>2. CASE \E m \in DOMAIN add : p = n + m
    <3>1. PICK m \in DOMAIN add : p = n + m
      BY <2>2
    <3>2. PICK q \in DOMAIN add : q < m /\ add[q] = Op("queue", all[p].key)
      BY <1>2, <3>1 DEF Joins, QueueFirst
    <3>3. n + q < p
      BY <1>2, <1>4, <3>1, <3>2, SMTT(60)
    <3> QED BY <1>2, <3>2, <3>3
  <2> QED BY <1>3, <2>1, <2>2
<1>7. CodeFirst(all)
  <2> SUFFICES ASSUME NEW p \in DOMAIN all, all[p].kind = "code"
               PROVE  \E q \in DOMAIN all :
                        p < q /\ all[q].kind = "acct" /\ CodeOf[all[q].key] = all[p].key
    BY DEF CodeFirst
  <2>1. CASE p \in DOMAIN ops
    BY <1>1, <2>1, SMTT(60) DEF Buffered, CodeFirst
  <2>2. CASE \E m \in DOMAIN add : p = n + m
    <3>1. PICK m \in DOMAIN add : p = n + m
      BY <2>2
    <3>2. PICK q \in DOMAIN add :
            m < q /\ add[q].kind = "acct" /\ CodeOf[add[q].key] = all[p].key
      BY <1>2, <3>1, SMTT(60) DEF Joins, CodeFirst
    <3>3. p < n + q
      BY <1>2, <1>4, <3>1, <3>2, SMTT(60)
    <3> QED BY <1>2, <3>2, <3>3
  <2> QED BY <1>3, <2>1, <2>2
<1>8. AccountNext(all)
  <2> SUFFICES ASSUME NEW p \in DOMAIN all, all[p].kind = "queue"
               PROVE  \E q \in DOMAIN all : p < q /\ all[q] = Op("acct", all[p].key)
    BY DEF AccountNext
  <2>1. CASE p \in DOMAIN ops
    BY <1>1, <2>1 DEF Buffered, AccountNext
  <2>2. CASE \E m \in DOMAIN add : p = n + m
    <3>1. PICK m \in DOMAIN add : p = n + m
      BY <2>2
    <3>2. PICK q \in DOMAIN add : m < q /\ add[q] = Op("acct", all[p].key)
      BY <1>2, <3>1, SMTT(60) DEF Joins, AccountNext
    <3>3. p < n + q
      BY <1>2, <1>4, <3>1, <3>2, SMTT(60)
    <3> QED BY <1>2, <3>2, <3>3
  <2> QED BY <1>3, <2>1, <2>2
<1>9. DeleteLast(S, all)
  <2> SUFFICES ASSUME NEW p \in DOMAIN all, all[p].kind = "del", all[p].key \notin S
               PROVE  \E q \in DOMAIN all : q < p /\ all[q] = Op("slots", all[p].key)
    BY DEF DeleteLast
  <2>1. CASE p \in DOMAIN ops
    BY <1>1, <2>1 DEF Buffered, DeleteLast
  <2>2. CASE \E m \in DOMAIN add : p = n + m
    <3>1. PICK m \in DOMAIN add : p = n + m
      BY <2>2
    <3>2. CASE all[p].key \in Puts(ops, "slots")
      <4>1. PICK q \in DOMAIN ops : ops[q].kind = "slots" /\ ops[q].key = all[p].key
        BY <3>2, InPuts, SMTT(60)
      <4>2. all[q] = Op("slots", all[p].key)
        BY <1>1, <4>1, OpIs, SMTT(60) DEF Cut
      <4>3. q < p
        BY <1>1, <1>2, <1>4, <3>1, <4>1, SMTT(60)
      <4> QED BY <1>1, <4>1, <4>2, <4>3
    <3>3. CASE \E q \in DOMAIN add : q < m /\ add[q] = Op("slots", all[p].key)
      <4>1. PICK q \in DOMAIN add : q < m /\ add[q] = Op("slots", all[p].key)
        BY <3>3
      <4>2. n + q < p
        BY <1>2, <1>4, <3>1, <4>1, SMTT(60)
      <4> QED BY <1>2, <4>1, <4>2
    <3> QED BY <1>2, <3>1, <3>2, <3>3 DEF Joins, DeleteLast
  <2> QED BY <1>3, <2>1, <2>2
<1> QED BY <1>5, <1>6, <1>7, <1>8, <1>9 DEF Buffered

(* What handling a bundle adds. *)
LEMMA RowOps ==
  ASSUME NEW row \in RowSet, row.code => CodeOf[row.a] # NoCode, NEW add, add = AccountOps(row)
  PROVE  /\ add \in Seq(OpSet) /\ Len(add) \in 1..3 /\ add[Len(add)] = Op("acct", row.a)
         /\ \A p \in DOMAIN add : p # Len(add) =>
              \/ add[p] = Op("code", CodeOf[row.a])
              \/ add[p] = Op("queue", row.a)
         /\ row.code => \E p \in DOMAIN add : add[p] = Op("code", CodeOf[row.a])
         /\ row.a \in Stored => \E p \in DOMAIN add : p < Len(add) /\ add[p] = Op("queue", row.a)
<1>1. row.a \in Accounts /\ row.code \in BOOLEAN /\ Op("acct", row.a) \in OpSet
  BY DEF RowSet, OpSet, Op
<1>2. row.code => Op("code", CodeOf[row.a]) \in OpSet
  BY <1>1 DEF OpSet, Op, Codes
<1>3. row.a \in Stored => Op("queue", row.a) \in OpSet
  BY DEF OpSet, Op
<1>4. PICK x, y, z : x = Op("code", CodeOf[row.a]) /\ y = Op("queue", row.a) /\ z = Op("acct", row.a)
  OBVIOUS
<1>5. add = (IF row.code THEN <<x>> ELSE << >>) \o (IF row.a \in Stored THEN <<y>> ELSE << >>) \o <<z>>
  BY <1>4 DEF AccountOps
<1>6. CASE row.code /\ row.a \in Stored
  <2>1. add = (<<x>> \o <<y>>) \o <<z>> /\ x \in OpSet /\ y \in OpSet /\ z \in OpSet
    BY <1>1, <1>2, <1>3, <1>4, <1>5, <1>6
  <2>2. PICK u : u = <<x>> \o <<y>>
    OBVIOUS
  <2>3. u \in Seq(OpSet) /\ Len(u) = 2 /\ u[1] = x /\ u[2] = y
    BY <2>1, <2>2, SMTT(60)
  <2>4. add \in Seq(OpSet) /\ Len(add) = 3 /\ add[1] = x /\ add[2] = y /\ add[3] = z
    BY <2>1, <2>2, <2>3, SMTT(60)
  <2> QED BY <1>4, <1>6, <2>4, SMTT(60)
<1>7. CASE row.code /\ row.a \notin Stored
  <2>1. add = (<<x>> \o << >>) \o <<z>> /\ x \in OpSet /\ z \in OpSet
    BY <1>1, <1>2, <1>3, <1>4, <1>5, <1>7
  <2>2. add \in Seq(OpSet) /\ Len(add) = 2 /\ add[1] = x /\ add[2] = z
    BY <2>1, SMTT(60)
  <2> QED BY <1>4, <1>7, <2>2, SMTT(60)
<1>8. CASE ~row.code /\ row.a \in Stored
  <2>1. add = (<< >> \o <<y>>) \o <<z>> /\ y \in OpSet /\ z \in OpSet
    BY <1>1, <1>2, <1>3, <1>4, <1>5, <1>8
  <2>2. add \in Seq(OpSet) /\ Len(add) = 2 /\ add[1] = y /\ add[2] = z
    BY <2>1, SMTT(60)
  <2> QED BY <1>4, <1>8, <2>2, SMTT(60)
<1>9. CASE ~row.code /\ row.a \notin Stored
  <2>1. add = <<z>>
    BY <1>5, <1>9, SMTT(60)
  <2> QED BY <1>1, <1>2, <1>3, <1>4, <1>9, <2>1, SMTT(60)
<1> QED BY <1>1, <1>6, <1>7, <1>8, <1>9

LEMMA RowJoins ==
  ASSUME NEW T, NEW TS, NEW row \in RowSet, row.code => CodeOf[row.a] # NoCode,
         \A x \in T : SameSeg(x, row.a) => x < row.a, NEW add, add = AccountOps(row)
  PROVE  /\ Joins(T, TS, add)
         /\ \A x : x \in Puts(add, "acct") <=> x = row.a
         /\ row.code => CodeOf[row.a] \in Puts(add, "code")
<1>1. /\ add \in Seq(OpSet) /\ Len(add) \in 1..3 /\ add[Len(add)] = Op("acct", row.a)
      /\ \A p \in DOMAIN add : p # Len(add) =>
           add[p] = Op("code", CodeOf[row.a]) \/ add[p] = Op("queue", row.a)
      /\ row.code => \E p \in DOMAIN add : add[p] = Op("code", CodeOf[row.a])
      /\ row.a \in Stored => \E p \in DOMAIN add : p < Len(add) /\ add[p] = Op("queue", row.a)
  BY RowOps, SMTT(60)
<1>2. PICK n : n = Len(add)
  OBVIOUS
<1>3. /\ n \in DOMAIN add /\ add[n] = Op("acct", row.a) /\ add[n].kind = "acct" /\ add[n].key = row.a
      /\ \A p \in DOMAIN add : p # n => p < n
  BY <1>1, <1>2, SMTT(60) DEF Op
<1>4. \A p \in DOMAIN add : p # n =>
        \/ add[p].kind = "code" /\ add[p].key = CodeOf[row.a]
        \/ add[p].kind = "queue" /\ add[p].key = row.a
  BY <1>1, <1>2, SMTT(60) DEF Op
<1>5. Above(T, add)
  <2>1. \A p, q \in DOMAIN add : add[p].kind = "acct" => p = n /\ ~ (q < p /\ add[q].kind = "acct")
    <3>1. \A p \in DOMAIN add : add[p].kind = "acct" => p = n
      BY <1>4
    <3> QED BY <1>1, <3>1, SMTT(60)
  <2> QED BY <1>3, <2>1 DEF Above
<1>6. QueueFirst({}, {}, add)
  BY <1>1, <1>2, <1>3, <1>4, SMTT(60) DEF QueueFirst
<1>7. CodeFirst(add) /\ AccountNext(add) /\ DeleteLast(TS, add)
  BY <1>3, <1>4 DEF CodeFirst, AccountNext, DeleteLast
<1>8. \A x : x \in Puts(add, "acct") <=> x = row.a
  BY <1>3, <1>4, InPuts, SMTT(60)
<1>9. row.code => CodeOf[row.a] \in Puts(add, "code")
  BY <1>1, InPuts, SMTT(60) DEF Op
<1> QED BY <1>1, <1>5, <1>6, <1>7, <1>8, <1>9 DEF Joins

LEMMA OneOp ==
  ASSUME NEW TS, NEW T, NEW add \in Seq(OpSet), Len(add) = 1, add[1].kind \in {"slots", "del"},
         add[1].kind = "del" => add[1].key \in TS
  PROVE  /\ Joins(T, TS, add) /\ Puts(add, "acct") = {}
         /\ add[1].kind = "slots" => add[1].key \in Puts(add, "slots")
<1>2. DOMAIN add = {1}
  BY SMTT(60)
<1>3. \A p \in DOMAIN add : add[p].kind \in {"slots", "del"}
  BY <1>2
<1>4. Above(T, add) /\ QueueFirst({}, {}, add) /\ CodeFirst(add) /\ AccountNext(add)
  BY <1>3 DEF Above, QueueFirst, CodeFirst, AccountNext
<1>5. DeleteLast(TS, add)
  BY <1>2 DEF DeleteLast
<1>6. Puts(add, "acct") = {} /\ (add[1].kind = "slots" => add[1].key \in Puts(add, "slots"))
  BY <1>2, <1>3 DEF Puts
<1> QED BY <1>4, <1>5, <1>6 DEF Joins

LEMMA HeadJoins ==
  ASSUME NEW T, NEW TC, NEW TS, NEW w \in Seq(BundleSet), w # << >>, NEW sg, NEW cl,
         Arriving(T, TC, TS, w, sg, cl), w[1].kind \in RowKinds, NEW add, add = OpsOf(w[1])
  PROVE  /\ Joins(T, TS, add)
         /\ \A x : x \in Puts(add, "acct") <=> Sends(w, 1, x)
         /\ w[1].kind = "account" /\ w[1].of.code => CodeOf[w[1].of.a] \in Puts(add, "code")
         /\ \A x : w[1] = Bundle("slots", x) => x \in Puts(add, "slots")
<1>1. PICK b : b = w[1]
  OBVIOUS
<1>2. b \in BundleSet /\ 1 \in DOMAIN w
  BY <1>1, TailIs
<1>3. \A x : Sends(w, 1, x) <=> b.kind = "account" /\ x = b.of.a
  BY <1>1 DEF Sends
<1>4. CASE b.kind = "account"
  <2> DEFINE r == b.of
  <2>1. r \in RowSet /\ (r.code => CodeOf[r.a] # NoCode)
    BY <1>1, <1>2, <1>4, BundleIs DEF Arriving, Coded, RowClaimed
  <2>2. \A x \in T : SameSeg(x, r.a) => x < r.a
    BY <1>1, <1>2, <1>4 DEF Arriving, Rising
  <2>3. add = AccountOps(r)
    BY <1>1, <1>4 DEF OpsOf
  <2>4. \A x : w[1] # Bundle("slots", x)
    BY <1>1, <1>4, SMTT(60) DEF Bundle
  <2>5. /\ Joins(T, TS, add)
        /\ \A x : x \in Puts(add, "acct") <=> x = r.a
        /\ r.code => CodeOf[r.a] \in Puts(add, "code")
    <3> HIDE DEF r
    <3> QED BY <2>1, <2>2, <2>3, RowJoins
  <2> QED BY <1>1, <1>3, <1>4, <2>4, <2>5
<1>5. CASE b.kind \in {"slots", "del"}
  <2>0. PICK k, o : k = b.kind /\ o = b.of
    OBVIOUS
  <2>1. o \in Stored /\ add = <<Op(k, o)>> /\ k \in {"slots", "del"} /\ Op(k, o) \in OpSet
    BY <2>0, <1>1, <1>2, <1>5, BundleIs DEF OpsOf, OpSet, Op
  <2>2. k = "del" => o \in TS
    <3>1. \A i \in DOMAIN w : ~ (i < 1)
      BY SMTT(60)
    <3>2. b.kind = "del" => b.of \in TS
      BY <1>1, <1>2, <3>1 DEF Arriving, Deletes
    <3> QED BY <2>0, <3>2
  <2>3. \A x : w[1] = Bundle("slots", x) => k = "slots" /\ x = o
    BY <1>1, <2>0, SMTT(60) DEF Bundle
  <2>4. /\ Joins(T, TS, add)
        /\ Puts(add, "acct") = {} /\ (k = "slots" => o \in Puts(add, "slots"))
    <3>1. add \in Seq(OpSet) /\ Len(add) = 1 /\ add[1] = Op(k, o)
      BY <2>1, SMTT(60)
    <3>2. add[1].kind = k /\ add[1].key = o
      BY <3>1, SMTT(60) DEF Op
    <3>3. Joins(T, TS, add) /\ Puts(add, "acct") = {} /\ (add[1].kind = "slots" => add[1].key \in Puts(add, "slots"))
      BY <2>1, <2>2, <3>1, <3>2, OneOp
    <3> QED BY <3>2, <3>3
  <2>5. \A x : ~ Sends(w, 1, x)
    BY <1>3, <1>5
  <2> QED BY <1>1, <1>5, <2>3, <2>4, <2>5
<1> QED BY <1>1, <1>4, <1>5 DEF RowKinds

-----------------------------------------------------------------------------
(***************************************************************************)
(* Commits: nothing taken gets lost.                                       *)
(***************************************************************************)
Flushed(d, pre, pr) == [Written(d, pre) EXCEPT !.bits = IF pr = {} THEN @ ELSE UNION pr]

LEMMA CommitStable ==
  ASSUME NEW d, NEW ops, Stable(d, ops), Settled(d, ops), NEW i, NEW pre, NEW suf \in Seq(OpSet),
         Cut(ops, i, pre, suf), NEW pr, CursorIn(pr, d.acct \cup Puts(pre, "acct")),
         NEW e, e = Flushed(d, pre, pr)
  PROVE  Stable(e, suf) /\ SameTaken(d, ops, e, suf) /\ d.acct \subseteq e.acct
<1>1. PICK f : f = Written(d, pre)
  OBVIOUS
<1>2. /\ Stable(f, suf) /\ SameTaken(d, ops, f, suf) /\ f.acct = d.acct \cup Puts(pre, "acct")
      /\ d.acct \subseteq f.acct
  <2>1. /\ Stable(f, suf) /\ SameTaken(d, ops, f, suf)
        /\ f.acct = d.acct \cup Puts(pre, "acct")
    BY <1>1, WrittenSound
  <2> QED BY <2>1
<1>3. PICK B : B = IF pr = {} THEN f.bits ELSE UNION pr
  OBVIOUS
<1>4. B \in SUBSET Segs /\ \A s \in B : SegAccounts(s) \subseteq f.acct
  <2>1. CASE pr = {}
    BY <1>2, <1>3, <2>1 DEF Stable, Sound, DiskSet
  <2>2. CASE pr # {}
    <3>1. PICK P \in SUBSET Segs : pr = {P} /\ \A s \in P : SegAccounts(s) \subseteq f.acct
      BY <1>2, <2>2 DEF CursorIn
    <3>2. B = P
      BY <1>3, <2>2, <3>1
    <3> QED BY <3>1, <3>2
  <2> QED BY <2>1, <2>2
<1>5. e = WithBits(f, B)
  BY <1>1, <1>3 DEF Flushed, WithBits
<1>6. /\ e \in DiskSet /\ Sound(e) /\ e.acct = f.acct /\ e.code = f.code
      /\ e.queue = f.queue /\ e.slots = f.slots
  <2>1. f \in DiskSet /\ Sound(f)
    BY <1>2 DEF Stable
  <2> QED BY <1>4, <1>5, <2>1, BitsSound
<1> QED BY <1>2, <1>6 DEF Stable, SameTaken, TakenA, TakenC, TakenS

Took(d, ops, add, e, suf) ==
    /\ TakenA(e, suf) = TakenA(d, ops) \cup Puts(add, "acct")
    /\ TakenC(e, suf) = TakenC(d, ops) \cup Puts(add, "code")
    /\ TakenS(e, suf) = TakenS(d, ops) \cup Puts(add, "slots")

LEMMA JoinStable ==
  ASSUME NEW d, NEW ops, Stable(d, ops), NEW add, Joins(TakenA(d, ops), TakenS(d, ops), add),
         NEW all, all = ops \o add
  PROVE  Stable(d, all) /\ Took(d, ops, add, d, all)
<1>1. Cut(all, Len(ops), ops, add) /\ all \in Seq(OpSet)
  BY JoinCut DEF Stable, Joins
<1>2. Buffered(d.acct, d.queue, d.slots, all)
  BY <1>1, JoinBuffered DEF Stable, TakenA, TakenS
<1>3. \A k : Puts(all, k) = Puts(ops, k) \cup Puts(add, k)
  BY <1>1, CutPuts, SMTT(60)
<1>4. Stable(d, all)
  BY <1>1, <1>2 DEF Stable
<1> QED BY <1>3, <1>4 DEF TakenA, TakenC, TakenS, Took

LEMMA PutsGrow ==
  ASSUME NEW ops, NEW pre, \A p \in DOMAIN ops : p \in DOMAIN pre /\ pre[p] = ops[p], NEW k
  PROVE  Puts(ops, k) \subseteq Puts(pre, k)
<1> SUFFICES ASSUME NEW x \in Puts(ops, k) PROVE x \in Puts(pre, k)
  OBVIOUS
<1>1. PICK p \in DOMAIN ops : ops[p].kind = k /\ ops[p].key = x
  BY InPuts, SMTT(60)
<1> QED BY <1>1, InPuts

LEMMA CutPrefix ==
  ASSUME NEW ops \in Seq(OpSet), NEW add \in Seq(OpSet),
         NEW all, all = ops \o add, NEW i \in (Len(ops) + 1)..Len(all),
         NEW pre, pre = SubSeq(all, 1, i), NEW k
  PROVE  Puts(ops, k) \subseteq Puts(pre, k)
<1>1. \A p \in DOMAIN ops : p \in DOMAIN pre /\ pre[p] = ops[p]
  BY SMTT(60)
<1> QED BY <1>1, PutsGrow

BlSet == [ops : Seq(OpSet), progress : SUBSET (SUBSET Segs)]

LEMMA CursorGrows ==
  ASSUME NEW pr, NEW D, NEW E, CursorIn(pr, D), D \subseteq E
  PROVE  CursorIn(pr, E)
BY DEF CursorIn

LEMMA BlIs ==
  ASSUME NEW A, NEW B, NEW b \in [ops : A, progress : B], NEW x \in A
  PROVE  /\ [b EXCEPT !.ops = x] \in [ops : A, progress : B]
         /\ [b EXCEPT !.ops = x].ops = x /\ [b EXCEPT !.ops = x].progress = b.progress
OBVIOUS

LEMMA AddKeeps ==
  ASSUME NEW d, NEW ops, d = disk, ops = bl.ops, bl \in BlSet, Stable(d, ops),
         NEW add, Joins(TakenA(d, ops), TakenS(d, ops), add), Settled(d, ops \o add),
         CursorIn(bl.progress, TakenA(d, ops)), AddOps(add)
  PROVE  /\ bl' \in BlSet /\ Stable(disk', bl'.ops) /\ Took(d, ops, add, disk', bl'.ops)
         /\ bl'.progress = bl.progress \/ bl'.progress = {}
         /\ d.acct \subseteq disk'.acct
<1>0. ops \in Seq(OpSet) /\ add \in Seq(OpSet)
  BY DEF Stable, Joins
<1>1. PICK all : all = ops \o add
  OBVIOUS
<1>2. Stable(d, all) /\ Took(d, ops, add, d, all) /\ Settled(d, all) /\ all \in Seq(OpSet)
  <2>1. Stable(d, all) /\ Took(d, ops, add, d, all)
    BY <1>1, JoinStable
  <2> QED BY <1>1, <2>1 DEF Stable
<1>3. CASE bl' = [bl EXCEPT !.ops = all] /\ disk' = disk
  <2>1. bl' \in BlSet /\ bl'.ops = all /\ bl'.progress = bl.progress
    BY <1>2, <1>3, BlIs DEF BlSet
  <2> QED BY <1>2, <1>3, <2>1
<1>4. ASSUME NEW i \in (Len(ops) + 1)..Len(all), disk' = Committed(SubSeq(all, 1, i)),
             bl' = [ops |-> SubSeq(all, i + 1, Len(all)), progress |-> NoProgress]
      PROVE  /\ bl' \in BlSet /\ Stable(disk', bl'.ops) /\ Took(d, ops, add, disk', bl'.ops)
             /\ bl'.progress = {} /\ d.acct \subseteq disk'.acct
  <2>1. PICK pre, suf : pre = SubSeq(all, 1, i) /\ suf = SubSeq(all, i + 1, Len(all))
    OBVIOUS
  <2>2. i \in 0..Len(all)
    BY <1>0, <1>2, SMTT(60)
  <2>3. Cut(all, i, pre, suf) /\ suf \in Seq(OpSet)
    BY <1>2, <2>1, <2>2, SubSeqCut
  <2>4. TakenA(d, ops) \subseteq d.acct \cup Puts(pre, "acct")
    <3>1. Puts(ops, "acct") \subseteq Puts(pre, "acct")
      BY <1>0, <1>1, <2>1, CutPrefix
    <3> QED BY <3>1 DEF TakenA
  <2>5. CursorIn(bl.progress, d.acct \cup Puts(pre, "acct"))
    BY <2>4, CursorGrows
  <2>6. PICK e, pr : e = disk' /\ pr = bl.progress
    OBVIOUS
  <2>7. e = Flushed(d, pre, pr)
    BY <1>4, <2>1, <2>6 DEF Flushed, Committed, NoProgress
  <2>8. Stable(e, suf) /\ SameTaken(d, all, e, suf) /\ d.acct \subseteq e.acct
    BY <1>2, <2>3, <2>5, <2>6, <2>7, CommitStable
  <2>9. bl' = [ops |-> suf, progress |-> {}]
    BY <1>4, <2>1 DEF NoProgress
  <2>10. bl' \in BlSet /\ bl'.ops = suf /\ bl'.progress = {}
    BY <2>3, <2>9 DEF BlSet
  <2> QED BY <1>2, <2>6, <2>8, <2>10 DEF Took, SameTaken
<1> QED BY <1>1, <1>3, <1>4 DEF AddOps

LEMMA FlushKeeps ==
  ASSUME NEW d, NEW ops, d = disk, ops = bl.ops, Stable(d, ops), Settled(d, ops),
         CursorIn(bl.progress, TakenA(d, ops)), FlushOps
  PROVE  /\ bl' \in BlSet /\ bl'.ops = << >> /\ bl'.progress = {}
         /\ Stable(disk', << >>) /\ SameTaken(d, ops, disk', << >>)
         /\ disk'.acct = TakenA(d, ops)
<1>1. ops \in Seq(OpSet) /\ << >> \in Seq(OpSet)
  BY SMTT(60) DEF Stable
<1>2. Cut(ops, Len(ops), ops, << >>)
  BY <1>1, WholeCut
<1>3. PICK e, pr, n : e = disk' /\ pr = bl.progress /\ n = Len(ops)
  OBVIOUS
<1>4. e = Flushed(d, ops, pr)
  BY <1>3 DEF FlushOps, Flushed, Committed, NoProgress
<1>5. Stable(e, << >>) /\ SameTaken(d, ops, e, << >>)
  <2>1. CursorIn(pr, d.acct \cup Puts(ops, "acct"))
    BY <1>3 DEF TakenA
  <2> QED BY <1>1, <1>2, <1>3, <1>4, <2>1, CommitStable
<1>6. bl' \in BlSet /\ bl'.ops = << >> /\ bl'.progress = {}
  BY <1>1 DEF FlushOps, NoProgress, BlSet
<1>7. e.acct = TakenA(d, ops)
  <2>1. TakenA(e, << >>) = TakenA(d, ops)
    BY <1>5 DEF SameTaken
  <2> QED BY <2>1, NoPuts DEF TakenA
<1> QED BY <1>3, <1>5, <1>6, <1>7

LEMMA FinishKeeps ==
  ASSUME NEW d, NEW ops, Stable(d, ops), Settled(d, ops), NEW e, e = Written(d, ops)
  PROVE  /\ Stable(e, << >>) /\ SameTaken(d, ops, e, << >>)
         /\ e.acct = d.acct \cup Puts(ops, "acct")
<1>1. ops \in Seq(OpSet) /\ << >> \in Seq(OpSet)
  BY SMTT(60) DEF Stable
<1>2. PICK n : n = Len(ops)
  OBVIOUS
<1>3. Cut(ops, n, ops, << >>)
  BY <1>1, <1>2, WholeCut
<1> QED BY <1>1, <1>3, WrittenSound

-----------------------------------------------------------------------------
(***************************************************************************)
(* Finite sets of accounts: where a segment resumes, what a peer answers.  *)
(***************************************************************************)
LEMMA LessRelation ==
  OpToRel(<, Nat) = {ss \in Nat \X Nat : ss[1] < ss[2]}
BY DEF OpToRel

LEMMA LeastNatural ==
  ASSUME NEW T \in SUBSET Nat, T # {}
  PROVE  \E n \in T : \A m \in T : n <= m
<1>1. PICK n \in T : \A m \in T : ~ (<<m, n>> \in OpToRel(<, Nat))
  BY NatLessThanWellFounded, WFMin
<1>2. ASSUME NEW m \in T PROVE n <= m
  <2>1. ~ (<<m, n>> \in {ss \in Nat \X Nat : ss[1] < ss[2]})
    BY <1>1, LessRelation
  <2> QED BY <2>1, SMTT(60)
<1> QED BY <1>2

Over(S, m) == {c \in S : c > m}

LEMMA FiniteMax ==
  ASSUME NEW S \in SUBSET Nat, IsFiniteSet(S), S # {}
  PROVE  Max(S) \in S /\ \A y \in S : y <= Max(S)
<1> DEFINE T == {Cardinality(Over(S, m)) : m \in S}
<1>1. ASSUME NEW m \in S
      PROVE  Over(S, m) \in SUBSET S /\ IsFiniteSet(Over(S, m)) /\ Cardinality(Over(S, m)) \in Nat
  <2>1. Over(S, m) \in SUBSET S
    BY DEF Over
  <2>2. IsFiniteSet(Over(S, m))
    BY <2>1, FS_Subset
  <2> QED BY <2>1, <2>2, FS_CardinalityType
<1>2. T \in SUBSET Nat /\ T # {}
  <2>1. \A m \in S : Cardinality(Over(S, m)) \in Nat
    BY <1>1
  <2> QED BY <2>1
<1>3. PICK n \in T : \A k \in T : n <= k
  <2> HIDE DEF T
  <2> QED BY <1>2, LeastNatural
<1>4. PICK m \in S : n = Cardinality(Over(S, m))
  BY <1>3
<1>5. ASSUME NEW y \in S, y > m PROVE FALSE
  <2>0. m \in Nat /\ y \in Nat /\ (\A c \in S : c \in Nat) /\ ~ (y > y)
    BY SMTT(60)
  <2>1. Over(S, y) \in SUBSET Over(S, m) /\ y \in Over(S, m) /\ y \notin Over(S, y)
    <3>1. \A c \in S : c > y => c > m
      BY <1>5, <2>0, SMTT(60)
    <3> QED BY <1>5, <2>0, <3>1 DEF Over
  <2>2. /\ Cardinality(Over(S, y)) <= Cardinality(Over(S, m))
        /\ Cardinality(Over(S, m)) = Cardinality(Over(S, y)) => Over(S, m) = Over(S, y)
    BY <1>1, <2>1, FS_Subset
  <2>3. Cardinality(Over(S, y)) \in T
    OBVIOUS
  <2>4. n <= Cardinality(Over(S, y))
    <3> HIDE DEF T
    <3> QED BY <1>3, <2>3
  <2>5. Cardinality(Over(S, m)) # Cardinality(Over(S, y))
    BY <2>1, <2>2
  <2> QED BY <1>1, <1>4, <2>2, <2>4, <2>5, SMTT(60)
<1>6. \A y \in S : m >= y
  BY <1>5, SMTT(60)
<1>7. /\ (CHOOSE x \in S : \A y \in S : x >= y) \in S
      /\ \A z \in S : (CHOOSE x \in S : \A y \in S : x >= y) >= z
  BY <1>6
<1>8. Max(S) \in S /\ \A z \in S : Max(S) >= z
  BY <1>7 DEF Max
<1> QED BY <1>8

LEMMA AccountsFinite ==
  ASSUME NEW S \in SUBSET Accounts
  PROVE  S \in SUBSET Nat /\ IsFiniteSet(S) /\ Cardinality(S) \in Nat
<1>1. IsFiniteSet(Accounts) /\ Accounts \in SUBSET Nat
  BY LoaderAssumption
<1>2. IsFiniteSet(S)
  BY <1>1, FS_Subset
<1> QED BY <1>1, <1>2, FS_CardinalityType

LEMMA AccountMax ==
  ASSUME NEW S \in SUBSET Accounts, S # {}
  PROVE  Max(S) \in S /\ Max(S) \in Nat /\ \A y \in S : y <= Max(S)
<1>1. S \in SUBSET Nat /\ IsFiniteSet(S)
  BY AccountsFinite
<1> QED BY <1>1, FiniteMax

(* A response, of n leaves of R, holds the least of R and no gap. *)
FirstOf(R, n) == {a \in R : Cardinality({b \in R : b <= a}) <= n}

UpTo(R, a) == {b \in R : b <= a}

LEMMA FirstIs ==
  ASSUME NEW R \in SUBSET Accounts, NEW n \in Nat, n # 0
  PROVE  /\ FirstOf(R, n) \in SUBSET R
         /\ \A a \in FirstOf(R, n), b \in R : b <= a => b \in FirstOf(R, n)
         /\ FirstOf(R, n) = {} => R = {}
<1>1. FirstOf(R, n) = {a \in R : Cardinality(UpTo(R, a)) <= n}
  BY DEF FirstOf, UpTo
<1>2. \A a \in R : UpTo(R, a) \in SUBSET Accounts /\ a \in Nat
  BY AccountIs DEF UpTo
<1>3. \A a \in R : IsFiniteSet(UpTo(R, a)) /\ Cardinality(UpTo(R, a)) \in Nat
  BY <1>2, AccountsFinite
<1>4. ASSUME NEW a \in FirstOf(R, n), NEW b \in R, b <= a PROVE b \in FirstOf(R, n)
  <2>1. a \in R /\ Cardinality(UpTo(R, a)) <= n
    BY <1>1
  <2>2. a \in Nat /\ b \in Nat
    BY <1>2, <2>1
  <2>3. UpTo(R, b) \in SUBSET UpTo(R, a)
    <3>1. \A c \in R : c \in Nat
      BY <1>2
    <3>2. \A c \in R : c <= b => c <= a
      BY <1>4, <2>2, <3>1, SMTT(60)
    <3> QED BY <3>2 DEF UpTo
  <2>4. Cardinality(UpTo(R, b)) <= Cardinality(UpTo(R, a))
    BY <1>3, <2>1, <2>3, FS_Subset
  <2>5. Cardinality(UpTo(R, b)) <= n
    BY <1>3, <2>1, <2>4, SMTT(60)
  <2> QED BY <1>1, <2>5
<1>5. ASSUME R # {} PROVE FirstOf(R, n) # {}
  <2>1. R \in SUBSET Nat
    BY AccountsFinite
  <2>2. PICK a \in R : \A b \in R : a <= b
    BY <1>5, <2>1, LeastNatural
  <2>3. UpTo(R, a) = {a}
    <3>1. \A b \in R : b \in Nat /\ (b <= a <=> b = a)
      BY <2>1, <2>2, SMTT(60)
    <3> QED BY <3>1 DEF UpTo
  <2>4. Cardinality(UpTo(R, a)) = 1
    BY <2>3, FS_Singleton
  <2>5. Cardinality(UpTo(R, a)) <= n
    BY <2>4, SMTT(60)
  <2>6. a \in FirstOf(R, n)
    BY <1>1, <2>5
  <2> QED BY <2>6
<1>6. FirstOf(R, n) \in SUBSET R
  BY <1>1
<1> QED BY <1>4, <1>5, <1>6

-----------------------------------------------------------------------------
(***************************************************************************)
(* The goroutines: a step of one leaves the others as they are.            *)
(***************************************************************************)
LEMMA SegGrows ==
  ASSUME NEW U, NEW cl, NEW g, NEW s, SegOK(U, cl, g, s), NEW U2, U \subseteq U2,
         \A x \in U2 : x \in U \/ SegOf[x] # s, NEW cl2, cl \subseteq cl2 \cup {NoCode}
  PROVE  SegOK(U2, cl2, g, s)
<1>1. \A r \in g.rows : RowClaimed(cl2, r) /\ r.a \notin g.keys
  BY DEF SegOK, RowClaimed
<1>2. \A x \in U2 : SegOf[x] = s => x < g.start /\ \A y \in Held(g) : x < y
  BY DEF SegOK
<1>3. \A a \in SegAccounts(s) : a < g.start \/ WalkedOut(g) => a \in U2 \cup Held(g)
  BY DEF SegOK
<1> QED BY <1>1, <1>2, <1>3 DEF SegOK

Others(sg, sg2, s) == \A t \in Segs : t # s => sg2[t] = sg[t]

LEMMA SegsReplace ==
  ASSUME NEW U, NEW cl, NEW sg, SegsOK(U, cl, sg), NEW s \in Segs, NEW sg2, Others(sg, sg2, s),
         NEW U2, NEW cl2, SegOK(U2, cl2, sg2[s], s), U \subseteq U2,
         \A x \in U2 : x \in U \/ SegOf[x] = s, cl \subseteq cl2 \cup {NoCode}
  PROVE  SegsOK(U2, cl2, sg2)
<1> SUFFICES ASSUME NEW t \in Segs, t # s PROVE SegOK(U2, cl2, sg2[t], t)
  BY DEF SegsOK
<1>1. SegOK(U, cl, sg2[t], t)
  BY DEF SegsOK, Others
<1>2. \A x \in U2 : x \in U \/ SegOf[x] # t
  OBVIOUS
<1> QED BY <1>1, <1>2, SegGrows

(* A step that sends nothing. *)
LEMMA StepArriving ==
  ASSUME NEW T, NEW TC, NEW TS, NEW w, NEW sg, NEW cl, Arriving(T, TC, TS, w, sg, cl),
         NEW sg2, NEW cl2, cl \subseteq cl2 \cup {NoCode},
         SegsOK(T \cup Enqueued(w), cl2, sg2), \A c \in cl2 : Claimed(TC, w, sg2, c)
  PROVE  Arriving(T, TC, TS, w, sg2, cl2)
<1>1. Coded(cl2, w)
  BY DEF Arriving, Coded, RowClaimed
<1> QED BY <1>1 DEF Arriving

LEMMA AppendEnqueued ==
  ASSUME NEW w \in Seq(BundleSet), NEW b \in BundleSet, NEW w2, w2 = Append(w, b)
  PROVE  \A x : x \in Enqueued(w2) <=> x \in Enqueued(w) \/ (b.kind = "account" /\ x = b.of.a)
<1> SUFFICES ASSUME NEW x
             PROVE  x \in Enqueued(w2) <=> x \in Enqueued(w) \/ (b.kind = "account" /\ x = b.of.a)
  OBVIOUS
<1>1. PICK n : n = Len(w) + 1
  OBVIOUS
<1>2. DOMAIN w2 = DOMAIN w \cup {n} /\ w2[n] = b /\ \A i \in DOMAIN w : w2[i] = w[i]
  BY <1>1, AppendIs
<1>3. \A i \in DOMAIN w : Sends(w2, i, x) <=> Sends(w, i, x)
  BY <1>2 DEF Sends
<1>4. Sends(w2, n, x) <=> b.kind = "account" /\ x = b.of.a
  BY <1>2 DEF Sends
<1>5. (\E i \in DOMAIN w2 : Sends(w2, i, x)) <=> (\E i \in DOMAIN w : Sends(w, i, x)) \/ Sends(w2, n, x)
  BY <1>2, <1>3
<1>6. \A v : x \in Enqueued(v) <=> \E i \in DOMAIN v : Sends(v, i, x)
  BY InEnqueued
<1> QED BY <1>4, <1>5, <1>6

(* What may follow in the channel. *)
MaySend(T, TS, w, cl, b) ==
    /\ b.kind = "account" =>
         /\ RowClaimed(cl, b.of)
         /\ \A x \in T \cup Enqueued(w) : SameSeg(x, b.of.a) => x < b.of.a
    /\ b.kind = "final" => SegAccounts(b.of) \subseteq T \cup Enqueued(w)
    /\ b.kind = "del" => b.of \in TS \/ \E i \in DOMAIN w : w[i] = Bundle("slots", b.of)

LEMMA SendArriving ==
  ASSUME NEW T, NEW TC, NEW TS, NEW w \in Seq(BundleSet), NEW sg, NEW cl,
         Arriving(T, TC, TS, w, sg, cl), NEW b \in BundleSet, MaySend(T, TS, w, cl, b),
         NEW w2, w2 = Append(w, b), NEW sg2,
         SegsOK(T \cup Enqueued(w2), cl, sg2), \A c \in cl : Claimed(TC, w2, sg2, c)
  PROVE  Arriving(T, TC, TS, w2, sg2, cl)
<1>1. PICK n : n = Len(w) + 1
  OBVIOUS
<1>2. /\ DOMAIN w2 = DOMAIN w \cup {n} /\ w2[n] = b /\ \A i \in DOMAIN w : w2[i] = w[i]
      /\ \A i \in DOMAIN w : i < n /\ ~ (n < i)
      /\ ~ (n < n)
  <2>1. n \in Nat /\ Len(w) \in Nat /\ DOMAIN w = 1..Len(w)
    BY <1>1, SMTT(60)
  <2>2. DOMAIN w2 = DOMAIN w \cup {n} /\ w2[n] = b /\ \A i \in DOMAIN w : w2[i] = w[i]
    BY <1>1, AppendIs
  <2> QED BY <1>1, <2>1, <2>2, SMTT(60)
<1>3. Coded(cl, w2)
  BY <1>2 DEF Arriving, Coded, MaySend
<1>4. Rising(T, w2)
  <2> SUFFICES ASSUME NEW j \in DOMAIN w2, w2[j].kind = "account"
               PROVE  /\ \A x \in T : SameSeg(x, w2[j].of.a) => x < w2[j].of.a
                      /\ \A i \in DOMAIN w2 :
                           i < j /\ w2[i].kind = "account" /\ SameSeg(w2[i].of.a, w2[j].of.a)
                             => w2[i].of.a < w2[j].of.a
    BY DEF Rising
  <2>1. CASE j \in DOMAIN w
    BY <1>2, <2>1 DEF Arriving, Rising
  <2>2. CASE j = n
    <3>1. \A x \in T \cup Enqueued(w) : SameSeg(x, b.of.a) => x < b.of.a
      BY <1>2, <2>2 DEF MaySend
    <3>2. \A i \in DOMAIN w : w[i].kind = "account" => w[i].of.a \in Enqueued(w)
      BY DEF Enqueued
    <3> QED BY <1>2, <2>2, <3>1, <3>2
  <2> QED BY <1>2, <2>1, <2>2
<1>5. Finals(T, w2)
  <2> SUFFICES ASSUME NEW j \in DOMAIN w2, w2[j].kind = "final",
                      NEW a \in SegAccounts(w2[j].of), a \notin T
               PROVE  \E i \in DOMAIN w2 : i < j /\ Sends(w2, i, a)
    BY DEF Finals
  <2>0. \A i \in DOMAIN w : Sends(w2, i, a) <=> Sends(w, i, a)
    BY <1>2 DEF Sends
  <2>1. CASE j \in DOMAIN w
    BY <1>2, <2>0, <2>1 DEF Arriving, Finals
  <2>2. CASE j = n
    <3>1. a \in Enqueued(w)
      BY <1>2, <2>2 DEF MaySend
    <3>2. PICK i \in DOMAIN w : Sends(w, i, a)
      BY <3>1, InEnqueued
    <3> QED BY <1>2, <2>0, <2>2, <3>2
  <2> QED BY <1>2, <2>1, <2>2
<1>6. Deletes(TS, w2)
  <2> SUFFICES ASSUME NEW j \in DOMAIN w2, w2[j].kind = "del", w2[j].of \notin TS
               PROVE  \E i \in DOMAIN w2 : i < j /\ w2[i] = Bundle("slots", w2[j].of)
    BY DEF Deletes
  <2>1. CASE j \in DOMAIN w
    BY <1>2, <2>1 DEF Arriving, Deletes
  <2>2. CASE j = n
    BY <1>2, <2>2 DEF MaySend
  <2> QED BY <1>2, <2>1, <2>2
<1> QED BY <1>3, <1>4, <1>5, <1>6 DEF Arriving

-----------------------------------------------------------------------------
LEMMA PastMax ==
  ASSUME NEW K, NEW m \in Nat, NEW o \in Nat, m >= o, \A y \in K : y <= m /\ y \in Nat,
         NEW z, z = m + 1
  PROVE  z \in Nat /\ z >= o /\ \A y \in K : y < z
BY SMTT(60)

(* What a goroutine asks for next. *)
RightOf(g, s) == {a \in Accounts : a >= g.start /\ SegOf[a] >= s}

NextStart(g, keys) == IF keys = {} THEN g.start ELSE Max(keys) + 1

AtEnd(keys, resp) == keys # resp \/ Max(Accounts) \in resp \/ resp = {}

LEMMA FetchOK ==
  ASSUME NEW U \in SUBSET Accounts, NEW cl, NEW s \in Segs, NEW g \in SegSet,
         SegOK(U, cl, g, s), g.pc = "fetch",
         NEW R, R = RightOf(g, s),
         NEW n \in Nat, n # 0, NEW resp, resp = FirstOf(R, n),
         NEW keys, keys = resp \cap SegAccounts(s),
         NEW g2, g2.pc = "handle", g2.keys = keys, g2.rows = {},
         g2.start = NextStart(g, keys), g2.last => AtEnd(keys, resp)
  PROVE  SegOK(U, cl, g2, s) /\ g2.start \in Nat
<1>1. /\ resp \in SUBSET R
      /\ \A a \in resp, b \in R : b <= a => b \in resp
      /\ resp = {} => R = {}
  <2>1. R \in SUBSET Accounts
    BY DEF RightOf
  <2> QED BY <2>1, FirstIs
<1>2. Held(g) = {} /\ Held(g2) = keys /\ Rows(g2) = {}
  BY DEF SegOK, Held, Rows
<1>3. /\ keys \in SUBSET Accounts /\ keys \subseteq SegAccounts(s)
      /\ \A y \in keys : y \in resp /\ y \in Nat /\ y >= g.start
  <2>1. \A y \in R : y \in Accounts /\ y >= g.start
    BY DEF RightOf
  <2> QED BY <1>1, <2>1, AccountIs
<1>4. g.start \in Nat /\ s \in Nat /\ \A a \in Accounts : SegOf[a] \in Nat
  <2>1. Segs \subseteq Nat /\ SegOf \in [Accounts -> Segs]
    BY LoaderAssumption
  <2>2. g.start \in Nat
    BY DEF SegSet
  <2>3. s \in Nat /\ \A a \in Accounts : SegOf[a] \in Nat
    BY <2>1
  <2> QED BY <2>2, <2>3
<1>5. keys # {} => Max(keys) \in keys /\ Max(keys) \in Nat /\ \A y \in keys : y <= Max(keys)
  BY <1>3, AccountMax
<1>6. g2.start \in Nat /\ g2.start >= g.start /\ \A y \in keys : y < g2.start
  <2>1. PICK m : m = Max(keys)
    OBVIOUS
  <2>2. CASE keys = {}
    <3>1. g2.start = g.start
      BY <2>2 DEF NextStart
    <3> QED BY <1>4, <2>2, <3>1, SMTT(60)
  <2>3. CASE keys # {}
    <3>1. g2.start = m + 1
      BY <2>1, <2>3 DEF NextStart
    <3>2. m \in Nat /\ m >= g.start /\ \A y \in keys : y <= m /\ y \in Nat
      BY <1>3, <1>5, <2>1, <2>3
    <3>3. PICK o, z : o = g.start /\ z = m + 1
      OBVIOUS
    <3>4. o \in Nat /\ m \in Nat /\ m >= o /\ \A y \in keys : y <= m /\ y \in Nat
      BY <1>4, <3>2, <3>3
    <3>5. z \in Nat /\ z >= o /\ \A y \in keys : y < z
      BY <3>3, <3>4, PastMax
    <3> QED BY <3>1, <3>3, <3>5
  <2> QED BY <2>2, <2>3
<1>7. ASSUME NEW x \in U, SegOf[x] = s
      PROVE  x < g2.start /\ \A y \in keys : x < y
  <2>1. x < g.start
    BY <1>7 DEF SegOK
  <2>2. x \in Nat
    BY AccountIs
  <2>3. x < g2.start
    BY <1>4, <1>6, <2>1, <2>2, SMTT(60)
  <2>4. ASSUME NEW y \in keys PROVE x < y
    BY <1>3, <1>4, <2>1, <2>2, SMTT(60)
  <2> QED BY <2>3, <2>4
<1>8. ASSUME NEW a \in SegAccounts(s), a < g2.start \/ g2.last PROVE a \in U \cup keys
  <2>0. a \in Accounts /\ SegOf[a] = s /\ a \in Nat
    BY AccountIs DEF SegAccounts
  <2>1. CASE a < g.start
    BY <1>2, <2>1 DEF SegOK
  <2>2. CASE ~ (a < g.start)
    <3>1. a \in R
      BY <1>4, <2>0, <2>2, SMTT(60) DEF RightOf
    <3>2. ASSUME NEW b \in resp, a <= b PROVE a \in keys
      BY <1>1, <3>1, <3>2
    <3>3. CASE a < g2.start
      <4>1. keys # {} /\ a <= Max(keys)
        BY <1>4, <1>5, <2>0, <2>2, <3>3, SMTT(60) DEF NextStart
      <4> QED BY <1>3, <1>5, <3>2, <4>1
    <3>4. CASE keys # resp
      <4>1. PICK b \in resp : b \notin SegAccounts(s)
        BY <3>4
      <4>2. b \in Accounts /\ SegOf[b] >= s /\ SegOf[b] # s
        BY <1>1, <4>1 DEF SegAccounts, RightOf
      <4>3. ~ (b < a)
        <5>1. b < a => SegOf[b] <= SegOf[a]
          BY <2>0, <4>2, LoaderAssumption
        <5>2. PICK u, v : u = SegOf[b] /\ v = SegOf[a]
          OBVIOUS
        <5>3. u \in Nat /\ s \in Nat /\ v = s /\ u >= s /\ u # s /\ (b < a => u <= v)
          BY <1>4, <2>0, <4>2, <5>1, <5>2
        <5>4. ~ (u <= v)
          BY <5>3, SMTT(60)
        <5> QED BY <5>3, <5>4
      <4>4. a <= b
        <5>1. b \in Nat
          BY <4>2, AccountIs
        <5> QED BY <2>0, <4>3, <5>1, SMTT(60)
      <4> QED BY <3>2, <4>4
    <3>5. CASE Max(Accounts) \in resp
      <4>1. a <= Max(Accounts)
        BY <2>0, AccountMax
      <4> QED BY <3>2, <3>5, <4>1
    <3>6. CASE resp = {}
      BY <1>1, <3>1, <3>6
    <3> QED BY <1>8, <3>3, <3>4, <3>5, <3>6 DEF AtEnd
  <2> QED BY <2>1, <2>2
<1>9. SegOK(U, cl, g2, s)
  <2>1. \A r \in g2.rows : FALSE
    OBVIOUS
  <2>2. \A x \in U : SegOf[x] = s => x < g2.start /\ \A y \in Held(g2) : x < y
    BY <1>2, <1>7
  <2>3. \A y \in Held(g2) : y < g2.start
    BY <1>2, <1>6
  <2>4. \A a \in SegAccounts(s) : a < g2.start \/ WalkedOut(g2) => a \in U \cup Held(g2)
    <3>1. WalkedOut(g2) => g2.last
      BY DEF WalkedOut
    <3> QED BY <1>2, <1>8, <3>1
  <2> QED BY <1>2, <1>3, <2>1, <2>2, <2>3, <2>4 DEF SegOK
<1> QED BY <1>6, <1>9

(* An account is handled: its row, with the code or without. *)
LEMMA HandleOK ==
  ASSUME NEW U, NEW cl, NEW s, NEW g, SegOK(U, cl, g, s), g.pc = "handle", NEW r,
         r.a \in g.keys, NEW cl2, cl \subseteq cl2 \cup {NoCode}, RowClaimed(cl2, r),
         NEW g2, g2.pc = g.pc, g2.start = g.start, g2.last = g.last,
         g2.keys = g.keys \ {r.a}, g2.rows = g.rows \cup {r}
  PROVE  SegOK(U, cl2, g2, s)
<1>1. \A x : x \in Held(g2) <=> x \in Held(g)
  BY DEF Held, Rows
<1>2. WalkedOut(g2) <=> WalkedOut(g)
  BY DEF WalkedOut
<1>3. \A q \in g.rows : RowClaimed(cl2, q) /\ q.a \notin g.keys
  BY DEF SegOK, RowClaimed
<1>4. \A q \in g2.rows : RowClaimed(cl2, q) /\ q.a \notin g2.keys
  BY <1>3
<1>5. \A p, q \in g2.rows : p.a = q.a => p = q
  BY <1>3 DEF SegOK
<1> QED BY <1>1, <1>2, <1>4, <1>5 DEF SegOK

(* The least row is sent. *)
Adds(U, U2, a) == \A x : x \in U2 <=> x \in U \/ x = a

SendsRow(g, g2, row) ==
    /\ g.pc = "handle" /\ g.keys = {} /\ row \in g.rows /\ \A r \in g.rows : row.a <= r.a
    /\ g2.pc = g.pc /\ g2.start = g.start /\ g2.last = g.last /\ g2.keys = g.keys
    /\ g2.rows = g.rows \ {row}

LEMMA SendRowOK ==
  ASSUME NEW U, NEW cl, NEW s, NEW g, SegOK(U, cl, g, s), NEW g2, NEW row, SendsRow(g, g2, row),
         NEW U2, Adds(U, U2, row.a)
  PROVE  /\ SegOK(U2, cl, g2, s) /\ row.a \in Accounts /\ SegOf[row.a] = s
         /\ \A x \in U : SameSeg(x, row.a) => x < row.a
<1> USE DEF SendsRow, Adds
<1>1. \A x : x \in Held(g) <=> x \in Held(g2) \/ x = row.a
  BY DEF Held, Rows
<1>2. row.a \notin Held(g2)
  BY DEF Held, Rows, SegOK
<1>3. \A y \in Held(g) : row.a <= y
  BY DEF Held, Rows
<1>4. \A y \in Held(g) : y \in Accounts /\ SegOf[y] = s /\ y \in Nat
  BY AccountIs DEF SegOK, SegAccounts
<1>5. row.a \in Held(g)
  BY <1>1
<1>6. \A y \in Held(g2) : row.a < y
  BY <1>1, <1>2, <1>3, <1>4, <1>5, SMTT(60)
<1>7. WalkedOut(g2) <=> WalkedOut(g)
  BY DEF WalkedOut
<1>8. \A x \in U2 : SegOf[x] = s => x < g2.start /\ \A y \in Held(g2) : x < y
  BY <1>1, <1>5, <1>6 DEF SegOK
<1>9. \A a \in SegAccounts(s) : a < g2.start \/ WalkedOut(g2) => a \in U2 \cup Held(g2)
  BY <1>1, <1>7 DEF SegOK
<1>10. \A r \in g2.rows : r \in g.rows
  OBVIOUS
<1>11. SegOK(U2, cl, g2, s)
  BY <1>1, <1>8, <1>9, <1>10 DEF SegOK
<1> QED BY <1>4, <1>5, <1>11 DEF SegOK, SameSeg

(* A response is done with, or the segment. *)
LEMMA HandledOK ==
  ASSUME NEW U, NEW cl, NEW s, NEW g, SegOK(U, cl, g, s), Held(g) = {},
         NEW g2, g2.start = g.start, g2.last = g.last, g2.keys = g.keys, g2.rows = g.rows,
         WalkedOut(g2) => WalkedOut(g)
  PROVE  SegOK(U, cl, g2, s)
<1>1. Held(g2) = Held(g)
  BY DEF Held, Rows
<1> QED BY <1>1 DEF SegOK

-----------------------------------------------------------------------------
(***************************************************************************)
(* The invariant.                                                          *)
(***************************************************************************)
(* The barrier is the last in the channel, behind all segments' ends. *)
Fenced(w, m, sg) ==
    /\ \A j \in DOMAIN w : w[j].kind = "barrier" => j = Len(w) /\ m = "wait"
    /\ m = "wait" => \A s \in Segs : sg[s].pc = "done"

(* A trie goroutine deletes its queue row after it sent its storage. *)
Drained(TS, w, m, tr) ==
    m = "phase2" => \A a \in DOMAIN tr : tr[a] # "walk" =>
      a \in TS \/ \E j \in DOMAIN w : w[j] = Bundle("slots", a)

Behind(bm, T) == \A s \in bm : SegAccounts(s) \subseteq T

Running(d, ops, bm, w, m, sg, cl, tr) ==
    /\ Stable(d, ops)
    /\ Arriving(TakenA(d, ops), TakenC(d, ops), TakenS(d, ops), w, sg, cl)
    /\ Behind(bm, TakenA(d, ops)) /\ Fenced(w, m, sg) /\ Drained(TakenS(d, ops), w, m, tr)

Ending == {"flush", "sweep", "finish", "mark"}

Late == {"scan", "phase2"} \cup Ending

Stopped == {"off", "close"}

LoadTypes ==
    /\ disk \in DiskSet /\ bl \in BlSet /\ bitmap \in SUBSET Segs
    /\ bl.progress = {} \/ \E P \in SUBSET bitmap : bl.progress = {P}
    /\ writes \in Seq(BundleSet) /\ seg \in [Segs -> SegSet] /\ DOMAIN tries \subseteq Stored
    /\ writer \in {"run", "failed"}

Phased ==
    /\ main \in Stopped \cup Ending => writes = << >>
    /\ main \in Ending => writer = "run"
    /\ main \in Late => disk.acct = Accounts

Alive == writer = "run" /\ main \notin Stopped

RunOK == Running(disk, bl.ops, bitmap, writes, main, seg, claims, tries)

LoadInv == LoadTypes /\ Phased /\ Sound(disk) /\ (Alive => RunOK)

LEMMA TakenIn ==
  ASSUME NEW d \in DiskSet, NEW ops \in Seq(OpSet)
  PROVE  TakenA(d, ops) \in SUBSET Accounts
<1>1. d.acct \subseteq Accounts /\ \A p \in DOMAIN ops : ops[p] \in OpSet
  BY SMTT(60) DEF DiskSet
<1>2. Puts(ops, "acct") \subseteq Accounts
  BY <1>1, PutsTyped
<1> QED BY <1>1, <1>2 DEF TakenA

LEMMA TakenTyped ==
  ASSUME NEW d, NEW ops, Stable(d, ops)
  PROVE  TakenA(d, ops) \in SUBSET Accounts
BY TakenIn DEF Stable

LEMMA EnqueuedIn ==
  ASSUME NEW w \in Seq(BundleSet)
  PROVE  Enqueued(w) \in SUBSET Accounts
<1>1. \A i \in DOMAIN w : w[i] \in BundleSet
  BY SMTT(60)
<1>2. \A i \in DOMAIN w : w[i].kind = "account" => w[i].of.a \in Accounts
  BY <1>1, BundleIs
<1> QED BY <1>2 DEF Enqueued

LEMMA ArrivingSettled ==
  ASSUME NEW d, NEW ops, Stable(d, ops), NEW w \in Seq(BundleSet), NEW sg \in [Segs -> SegSet],
         NEW cl, Arriving(TakenA(d, ops), TakenC(d, ops), TakenS(d, ops), w, sg, cl)
  PROVE  Settled(d, ops)
<1>1. PICK T, TC, TS : T = TakenA(d, ops) /\ TC = TakenC(d, ops) /\ TS = TakenS(d, ops)
  OBVIOUS
<1>2. T \in SUBSET Accounts /\ Arriving(T, TC, TS, w, sg, cl)
  BY <1>1, TakenTyped
<1>3. Ordered(T)
  BY <1>2, TakenOrdered
<1>4. Owed(T, TC)
  BY <1>2 DEF Arriving
<1> QED BY <1>1, <1>3, <1>4 DEF Settled

LEMMA AliveFacts ==
  ASSUME LoadInv, Alive
  PROVE  /\ RunOK /\ Stable(disk, bl.ops) /\ Settled(disk, bl.ops)
         /\ CursorIn(bl.progress, TakenA(disk, bl.ops))
<1>1. RunOK /\ Stable(disk, bl.ops)
  BY DEF LoadInv, RunOK, Running
<1>2. Settled(disk, bl.ops)
  BY <1>1, ArrivingSettled DEF LoadInv, LoadTypes, RunOK, Running
<1>3. CursorIn(bl.progress, TakenA(disk, bl.ops))
  BY <1>1 DEF LoadInv, LoadTypes, RunOK, Running, Behind, CursorIn
<1> QED BY <1>1, <1>2, <1>3

LEMMA TailFenced ==
  ASSUME NEW w \in Seq(BundleSet), w # << >>, NEW m, NEW sg, Fenced(w, m, sg)
  PROVE  Fenced(Tail(w), m, sg)
<1>1. ASSUME NEW j \in DOMAIN Tail(w), Tail(w)[j].kind = "barrier"
      PROVE  j = Len(Tail(w)) /\ m = "wait"
  <2>1. j + 1 \in DOMAIN w /\ w[j + 1] = Tail(w)[j]
    BY TailIs
  <2>2. j + 1 = Len(w) /\ m = "wait"
    BY <1>1, <2>1 DEF Fenced
  <2>3. j = Len(Tail(w))
    <3>1. Len(Tail(w)) = Len(w) - 1 /\ Len(w) \in Nat /\ DOMAIN Tail(w) = 1..(Len(w) - 1)
      BY SMTT(60)
    <3> QED BY <2>2, <3>1, SMTT(60)
  <2> QED BY <2>2, <2>3
<1> QED BY <1>1 DEF Fenced

LEMMA TailDrained ==
  ASSUME NEW TS, NEW w \in Seq(BundleSet), w # << >>, NEW m, NEW tr, Drained(TS, w, m, tr),
         NEW TS2, TS \subseteq TS2, \A x : w[1] = Bundle("slots", x) => x \in TS2
  PROVE  Drained(TS2, Tail(w), m, tr)
<1> SUFFICES ASSUME m = "phase2", NEW a \in DOMAIN tr, tr[a] # "walk", a \notin TS2
             PROVE  \E j \in DOMAIN Tail(w) : Tail(w)[j] = Bundle("slots", a)
  BY DEF Drained
<1>1. PICK i \in DOMAIN w : w[i] = Bundle("slots", a)
  BY DEF Drained
<1>2. i # 1
  BY <1>1
<1>3. i - 1 \in DOMAIN Tail(w) /\ Tail(w)[i - 1] = w[i]
  BY <1>2, TailIs
<1> QED BY <1>1, <1>3

-----------------------------------------------------------------------------
(***************************************************************************)
(* The writer's steps.                                                     *)
(***************************************************************************)
LEMMA ReceivedAlive ==
  ASSUME LoadInv, NEW K, Received(K)
  PROVE  /\ Alive /\ writer = "run" /\ writes # << >> /\ writes[1] = Head(writes)
         /\ Head(writes).kind \in K /\ main \notin Stopped \cup Ending
         /\ Tail(writes) \in Seq(BundleSet) /\ writes \in Seq(BundleSet)
<1>1. writer = "run" /\ writes # << >> /\ Head(writes).kind \in K /\ writes \in Seq(BundleSet)
  BY DEF Received, LoadInv, LoadTypes
<1>2. main \notin Stopped \cup Ending
  BY <1>1 DEF LoadInv, Phased
<1>3. Alive
  BY <1>1, <1>2 DEF Alive
<1>4. writes[1] = Head(writes) /\ Tail(writes) \in Seq(BundleSet)
  BY <1>1, TailIs
<1> QED BY <1>1, <1>2, <1>3, <1>4

(* The head of the channel goes to the buffer; e and suf are disk and buffer after. *)
LEMMA HeadBuffered ==
  ASSUME NEW d, NEW ops, NEW bm, NEW w \in Seq(BundleSet), w # << >>, NEW m,
         NEW sg \in [Segs -> SegSet], NEW cl, NEW tr, Running(d, ops, bm, w, m, sg, cl, tr),
         w[1].kind \in RowKinds, NEW add, add = OpsOf(w[1])
  PROVE  /\ Joins(TakenA(d, ops), TakenS(d, ops), add) /\ Settled(d, ops \o add)
         /\ \A e, suf : Stable(e, suf) /\ Took(d, ops, add, e, suf)
                          => Running(e, suf, bm, Tail(w), m, sg, cl, tr)
<1>1. PICK T, TC, TS : T = TakenA(d, ops) /\ TC = TakenC(d, ops) /\ TS = TakenS(d, ops)
  OBVIOUS
<1>2. /\ T \in SUBSET Accounts /\ Arriving(T, TC, TS, w, sg, cl) /\ Behind(bm, T)
      /\ Fenced(w, m, sg) /\ Drained(TS, w, m, tr) /\ Stable(d, ops)
  BY <1>1, TakenTyped DEF Running
<1>3. /\ Joins(T, TS, add)
      /\ \A x : x \in Puts(add, "acct") <=> Sends(w, 1, x)
      /\ w[1].kind = "account" /\ w[1].of.code => CodeOf[w[1].of.a] \in Puts(add, "code")
      /\ \A x : w[1] = Bundle("slots", x) => x \in Puts(add, "slots")
  BY <1>2, HeadJoins
<1>4. PICK T2, TC2, TS2 : /\ T2 = T \cup Puts(add, "acct") /\ TC2 = TC \cup Puts(add, "code")
                          /\ TS2 = TS \cup Puts(add, "slots")
  OBVIOUS
<1>5. Stable(d, ops \o add) /\ Took(d, ops, add, d, ops \o add)
  BY <1>1, <1>2, <1>3, JoinStable
<1>6. T2 \in SUBSET Accounts
  <2>1. TakenA(d, ops \o add) \in SUBSET Accounts
    BY <1>5, TakenTyped
  <2> QED BY <1>1, <1>4, <1>5, <2>1 DEF Took
<1>7. Arriving(T2, TC2, TS2, Tail(w), sg, cl)
  <2>1. \A x : x \in T2 <=> x \in T \/ Sends(w, 1, x)
    BY <1>3, <1>4
  <2>2. TC \subseteq TC2 /\ TS \subseteq TS2
    BY <1>4
  <2>3. w[1].kind = "account" /\ w[1].of.code => CodeOf[w[1].of.a] \in TC2
    BY <1>3, <1>4
  <2>4. \A x : w[1] = Bundle("slots", x) => x \in TS2
    BY <1>3, <1>4
  <2> QED BY <1>2, <1>6, <2>1, <2>2, <2>3, <2>4, HeadTaken
<1>8. Fenced(Tail(w), m, sg) /\ Drained(TS2, Tail(w), m, tr) /\ Behind(bm, T2)
  <2>1. Fenced(Tail(w), m, sg)
    BY <1>2, TailFenced
  <2>2. Drained(TS2, Tail(w), m, tr)
    <3>1. TS \subseteq TS2 /\ \A x : w[1] = Bundle("slots", x) => x \in TS2
      BY <1>3, <1>4
    <3> QED BY <1>2, <3>1, TailDrained
  <2>3. Behind(bm, T2)
    BY <1>2, <1>4 DEF Behind
  <2> QED BY <2>1, <2>2, <2>3
<1>9. Tail(w) \in Seq(BundleSet)
  BY TailIs
<1>10. \A e, suf : Took(d, ops, add, e, suf)
                     => TakenA(e, suf) = T2 /\ TakenC(e, suf) = TC2 /\ TakenS(e, suf) = TS2
  BY <1>1, <1>4 DEF Took
<1>11. ASSUME NEW e, NEW suf, Stable(e, suf), Took(d, ops, add, e, suf)
       PROVE  Running(e, suf, bm, Tail(w), m, sg, cl, tr) /\ Settled(e, suf)
  <2>1. Running(e, suf, bm, Tail(w), m, sg, cl, tr)
    BY <1>7, <1>8, <1>10, <1>11 DEF Running
  <2>2. Arriving(TakenA(e, suf), TakenC(e, suf), TakenS(e, suf), Tail(w), sg, cl)
    BY <2>1 DEF Running
  <2> QED BY <1>9, <1>11, <2>1, <2>2, ArrivingSettled
<1> QED BY <1>1, <1>3, <1>5, <1>11

LEMMA ApplyStep ==
  ASSUME LoadInv, Apply
  PROVE  LoadInv'
<1>1. /\ Alive /\ writer = "run" /\ writes # << >> /\ writes[1] = Head(writes)
      /\ Head(writes).kind \in RowKinds /\ main \notin Stopped \cup Ending
      /\ Tail(writes) \in Seq(BundleSet) /\ writes \in Seq(BundleSet)
  BY ReceivedAlive DEF Apply
<1>2. PICK add : add = OpsOf(writes[1])
  OBVIOUS
<1>3. /\ AddOps(add) /\ writes' = Tail(writes) /\ bitmap' = bitmap /\ writer' = writer
      /\ main' = main /\ seg' = seg /\ claims' = claims /\ tries' = tries
  BY <1>1, <1>2 DEF Apply
<1>4. /\ RunOK /\ Stable(disk, bl.ops) /\ CursorIn(bl.progress, TakenA(disk, bl.ops))
      /\ bl \in BlSet /\ seg \in [Segs -> SegSet]
  BY <1>1, AliveFacts DEF LoadInv, LoadTypes
<1>5. PICK d, ops : d = disk /\ ops = bl.ops
  OBVIOUS
<1>6. /\ Joins(TakenA(d, ops), TakenS(d, ops), add) /\ Settled(d, ops \o add)
      /\ \A e, suf : Stable(e, suf) /\ Took(d, ops, add, e, suf)
                       => Running(e, suf, bitmap, Tail(writes), main, seg, claims, tries)
  BY <1>1, <1>2, <1>4, <1>5, HeadBuffered DEF RunOK
<1>7. /\ bl' \in BlSet /\ Stable(disk', bl'.ops) /\ Took(d, ops, add, disk', bl'.ops)
      /\ bl'.progress = bl.progress \/ bl'.progress = {}
      /\ d.acct \subseteq disk'.acct
  BY <1>3, <1>4, <1>5, <1>6, AddKeeps
<1>8. RunOK'
  BY <1>3, <1>6, <1>7 DEF RunOK
<1>9. LoadTypes'
  BY <1>1, <1>3, <1>7 DEF LoadInv, LoadTypes, Stable
<1>10. Phased'
  <2>1. disk'.acct \subseteq Accounts
    BY <1>9 DEF LoadTypes, DiskSet
  <2>2. disk.acct = Accounts => disk'.acct = Accounts
    BY <1>5, <1>7, <2>1
  <2> QED BY <1>1, <1>3, <2>2 DEF LoadInv, Phased
<1>11. Sound(disk')
  BY <1>7 DEF Stable
<1> QED BY <1>8, <1>9, <1>10, <1>11 DEF LoadInv

(* A commit fails, nobody writes any more. *)
LEMMA FailedTypes ==
  ASSUME LoadTypes, FlushFails
  PROVE  /\ bl' \in BlSet /\ bl'.progress = bl.progress /\ disk' = disk
<1>1. bl \in BlSet /\ bl' = [bl EXCEPT !.ops = << >>] /\ disk' = disk
  BY DEF LoadTypes, FlushFails
<1>2. << >> \in Seq(OpSet)
  BY SMTT(60)
<1> QED BY <1>1, <1>2, BlIs DEF BlSet

LEMMA ApplyFailsStep ==
  ASSUME LoadInv, ApplyFails
  PROVE  LoadInv'
<1>1. main \notin Stopped \cup Ending /\ Tail(writes) \in Seq(BundleSet)
  BY ReceivedAlive DEF ApplyFails
<1>2. bl' \in BlSet /\ bl'.progress = bl.progress /\ disk' = disk
  BY FailedTypes DEF ApplyFails, LoadInv
<1>3. /\ writes' = Tail(writes) /\ writer' = "failed" /\ bitmap' = bitmap /\ main' = main
      /\ seg' = seg /\ tries' = tries
  BY DEF ApplyFails
<1>4. LoadTypes'
  BY <1>1, <1>2, <1>3 DEF LoadInv, LoadTypes
<1>5. Phased'
  BY <1>1, <1>2, <1>3 DEF LoadInv, Phased
<1>6. ~ Alive'
  BY <1>3 DEF Alive
<1> QED BY <1>2, <1>4, <1>5, <1>6 DEF LoadInv

LEMMA DrainWritesStep ==
  ASSUME LoadInv, DrainWrites
  PROVE  LoadInv'
<1>1. /\ writer = "failed" /\ writes # << >> /\ writes' = Tail(writes) /\ disk' = disk /\ bl' = bl
      /\ bitmap' = bitmap /\ writer' = writer /\ main' = main /\ seg' = seg /\ tries' = tries
  BY DEF DrainWrites
<1>2. Tail(writes) \in Seq(BundleSet)
  BY <1>1, TailIs DEF LoadInv, LoadTypes
<1>3. LoadTypes'
  BY <1>1, <1>2 DEF LoadInv, LoadTypes
<1>4. Phased'
  BY <1>1 DEF LoadInv, Phased
<1>5. ~ Alive'
  BY <1>1 DEF Alive
<1> QED BY <1>1, <1>3, <1>4, <1>5 DEF LoadInv

LEMMA HeadDropped ==
  ASSUME NEW d, NEW ops, NEW bm, NEW w \in Seq(BundleSet), w # << >>, NEW m,
         NEW sg \in [Segs -> SegSet], NEW cl, NEW tr, Running(d, ops, bm, w, m, sg, cl, tr),
         w[1].kind \in {"final", "barrier"}, NEW T, NEW TC, NEW TS, T = TakenA(d, ops),
         TC = TakenC(d, ops), TS = TakenS(d, ops)
  PROVE  /\ Arriving(T, TC, TS, Tail(w), sg, cl) /\ Fenced(Tail(w), m, sg)
         /\ Drained(TS, Tail(w), m, tr)
         /\ w[1].kind = "final" => SegAccounts(w[1].of) \subseteq T /\ w[1].of \in Segs
<1>1. /\ T \in SUBSET Accounts /\ Arriving(T, TC, TS, w, sg, cl)
      /\ Fenced(w, m, sg) /\ Drained(TS, w, m, tr)
  BY TakenTyped DEF Running
<1>2. w[1] \in BundleSet /\ 1 \in DOMAIN w
  BY TailIs
<1>3. w[1].kind # "account" /\ \A x : w[1] # Bundle("slots", x)
  <2>1. \A x : Bundle("slots", x).kind = "slots"
    BY DEF Bundle
  <2> QED BY <2>1
<1>4. \A x : ~ Sends(w, 1, x)
  BY <1>3 DEF Sends
<1>5. Arriving(T, TC, TS, Tail(w), sg, cl)
  <2>1. /\ \A x : x \in T <=> x \in T \/ Sends(w, 1, x)
        /\ w[1].kind = "account" /\ w[1].of.code => CodeOf[w[1].of.a] \in TC
        /\ \A x : w[1] = Bundle("slots", x) => x \in TS
        /\ TC \subseteq TC /\ TS \subseteq TS
    BY <1>3, <1>4
  <2> QED BY <1>1, <2>1, HeadTaken
<1>6. Fenced(Tail(w), m, sg)
  BY <1>1, TailFenced
<1>7. Drained(TS, Tail(w), m, tr)
  <2>1. TS \subseteq TS /\ \A x : w[1] = Bundle("slots", x) => x \in TS
    BY <1>3
  <2> QED BY <1>1, <2>1, TailDrained
<1>8. ASSUME w[1].kind = "final" PROVE SegAccounts(w[1].of) \subseteq T /\ w[1].of \in Segs
  <2>1. \A i \in DOMAIN w : ~ (i < 1)
    BY SMTT(60)
  <2>2. w[1].of \in Segs
    BY <1>2, <1>8, BundleIs
  <2> QED BY <1>1, <1>2, <1>8, <2>1, <2>2 DEF Arriving, Finals
<1> QED BY <1>5, <1>6, <1>7, <1>8

LEMMA ProgressSet ==
  ASSUME NEW A, NEW B, NEW b \in [ops : A, progress : B], NEW x \in B
  PROVE  /\ [b EXCEPT !.progress = x] \in [ops : A, progress : B]
         /\ [b EXCEPT !.progress = x].progress = x /\ [b EXCEPT !.progress = x].ops = b.ops
OBVIOUS

LEMMA FinalStep ==
  ASSUME LoadInv, Final
  PROVE  LoadInv'
<1>1. /\ Alive /\ writer = "run" /\ writes # << >> /\ writes[1] = Head(writes)
      /\ Head(writes).kind \in {"final"} /\ main \notin Stopped \cup Ending
      /\ Tail(writes) \in Seq(BundleSet) /\ writes \in Seq(BundleSet)
  BY ReceivedAlive DEF Final
<1>2. RunOK /\ bl \in BlSet /\ seg \in [Segs -> SegSet] /\ bitmap \in SUBSET Segs
  BY <1>1, AliveFacts DEF LoadInv, LoadTypes
<1>3. PICK T, TC, TS : /\ T = TakenA(disk, bl.ops) /\ TC = TakenC(disk, bl.ops)
                       /\ TS = TakenS(disk, bl.ops)
  OBVIOUS
<1>4. /\ Arriving(T, TC, TS, Tail(writes), seg, claims) /\ Fenced(Tail(writes), main, seg)
      /\ Drained(TS, Tail(writes), main, tries)
      /\ SegAccounts(writes[1].of) \subseteq T /\ writes[1].of \in Segs
  <2>1. writes[1].kind \in {"final", "barrier"} /\ writes[1].kind = "final"
    BY <1>1
  <2> QED BY <1>1, <1>2, <1>3, <2>1, HeadDropped DEF RunOK
<1>5. PICK B : B = bitmap \cup {writes[1].of}
  OBVIOUS
<1>6. /\ bitmap' = B /\ bl' = [bl EXCEPT !.progress = {B}] /\ writes' = Tail(writes)
      /\ disk' = disk /\ writer' = writer /\ main' = main /\ seg' = seg /\ claims' = claims
      /\ tries' = tries
  BY <1>1, <1>5 DEF Final
<1>7. B \in SUBSET Segs /\ {B} \in SUBSET (SUBSET Segs)
  BY <1>2, <1>4, <1>5
<1>8. bl' \in BlSet /\ bl'.progress = {B} /\ bl'.ops = bl.ops
  BY <1>2, <1>6, <1>7, ProgressSet DEF BlSet
<1>9. Behind(B, T)
  BY <1>2, <1>3, <1>4, <1>5 DEF RunOK, Running, Behind
<1>10. RunOK'
  BY <1>2, <1>3, <1>4, <1>6, <1>8, <1>9 DEF RunOK, Running
<1>11. LoadTypes'
  <2>1. \E P \in SUBSET bitmap' : bl'.progress = {P}
    BY <1>6, <1>8
  <2> QED BY <1>1, <1>6, <1>7, <1>8, <2>1 DEF LoadInv, LoadTypes
<1>12. Phased'
  BY <1>1, <1>6 DEF LoadInv, Phased
<1> QED BY <1>6, <1>10, <1>11, <1>12 DEF LoadInv

(* All segments are through and only the barrier is in the channel: every account is taken. *)
LEMMA AllTaken ==
  ASSUME NEW T, NEW TC, NEW TS, NEW w \in Seq(BundleSet), w # << >>, NEW m, NEW sg, NEW cl,
         Arriving(T, TC, TS, w, sg, cl), Fenced(w, m, sg), w[1].kind = "barrier"
  PROVE  /\ Accounts \subseteq T /\ Tail(w) = << >> /\ m = "wait"
<1>1. 1 \in DOMAIN w
  BY TailIs
<1>2. 1 = Len(w) /\ m = "wait" /\ \A s \in Segs : sg[s].pc = "done"
  BY <1>1 DEF Fenced
<1>3. Tail(w) = << >> /\ DOMAIN w = {1}
  <2>1. DOMAIN w = {1} /\ Tail(w) \in Seq(BundleSet) /\ Len(Tail(w)) = 0
    BY <1>2, SMTT(60)
  <2>2. \A v \in Seq(BundleSet) : Len(v) = 0 => v = << >>
    BY SMTT(60)
  <2> QED BY <2>1, <2>2
<1>4. Enqueued(w) = {}
  BY <1>3 DEF Enqueued
<1>5. ASSUME NEW a \in Accounts PROVE a \in T
  <2>1. PICK s \in Segs : s = SegOf[a]
    BY LoaderAssumption
  <2>2. PICK g : g = sg[s]
    OBVIOUS
  <2>3. SegOK(T \cup Enqueued(w), cl, g, s) /\ g.pc = "done"
    BY <1>2, <2>2 DEF Arriving, SegsOK
  <2>4. a \in SegAccounts(s) /\ WalkedOut(g)
    BY <2>1, <2>3 DEF SegAccounts, WalkedOut
  <2>5. Held(g) = {}
    BY <2>3 DEF SegOK
  <2> QED BY <1>4, <2>3, <2>4, <2>5 DEF SegOK
<1> QED BY <1>2, <1>3, <1>5

LEMMA BarrierStep ==
  ASSUME LoadInv, Barrier
  PROVE  LoadInv'
<1>1. /\ Alive /\ writer = "run" /\ writes # << >> /\ writes[1] = Head(writes)
      /\ Head(writes).kind \in {"barrier"} /\ main \notin Stopped \cup Ending
      /\ Tail(writes) \in Seq(BundleSet) /\ writes \in Seq(BundleSet)
  BY ReceivedAlive DEF Barrier
<1>2. /\ RunOK /\ bl \in BlSet /\ seg \in [Segs -> SegSet] /\ Stable(disk, bl.ops)
      /\ Settled(disk, bl.ops) /\ CursorIn(bl.progress, TakenA(disk, bl.ops))
  BY <1>1, AliveFacts DEF LoadInv, LoadTypes
<1>3. PICK T, TC, TS : /\ T = TakenA(disk, bl.ops) /\ TC = TakenC(disk, bl.ops)
                       /\ TS = TakenS(disk, bl.ops)
  OBVIOUS
<1>4. /\ Arriving(T, TC, TS, Tail(writes), seg, claims) /\ T \in SUBSET Accounts
      /\ Behind(bitmap, T) /\ Accounts \subseteq T /\ Tail(writes) = << >> /\ main = "wait"
  <2>1. writes[1].kind \in {"final", "barrier"} /\ writes[1].kind = "barrier"
    BY <1>1
  <2>2. Arriving(T, TC, TS, Tail(writes), seg, claims)
    BY <1>1, <1>2, <1>3, <2>1, HeadDropped DEF RunOK
  <2>3. Behind(bitmap, T) /\ Fenced(writes, main, seg) /\ Arriving(T, TC, TS, writes, seg, claims)
    BY <1>2, <1>3 DEF RunOK, Running
  <2>4. Accounts \subseteq T /\ Tail(writes) = << >> /\ main = "wait"
    BY <1>1, <2>1, <2>3, AllTaken
  <2>5. T \in SUBSET Accounts
    BY <1>2, <1>3, TakenTyped
  <2> QED BY <2>2, <2>3, <2>4, <2>5
<1>5. /\ writes' = << >> /\ bitmap' = bitmap /\ writer' = writer /\ seg' = seg
      /\ claims' = claims /\ tries' = tries
  BY <1>4 DEF Barrier
<1>6. CASE FlushOps /\ main' = "scan"
  <2>1. /\ bl' \in BlSet /\ bl'.ops = << >> /\ bl'.progress = {}
        /\ Stable(disk', << >>) /\ SameTaken(disk, bl.ops, disk', << >>)
        /\ disk'.acct = T
    <3>1. PICK d, ops : d = disk /\ ops = bl.ops
      OBVIOUS
    <3> QED BY <1>2, <1>3, <1>6, <3>1, FlushKeeps
  <2>2. TakenA(disk', << >>) = T /\ TakenC(disk', << >>) = TC /\ TakenS(disk', << >>) = TS
    BY <1>3, <2>1 DEF SameTaken
  <2>3. Fenced(<< >>, "scan", seg) /\ Drained(TS, << >>, "scan", tries)
    BY SMTT(60) DEF Fenced, Drained
  <2>4. RunOK'
    BY <1>4, <1>5, <1>6, <2>1, <2>2, <2>3 DEF RunOK, Running
  <2>5. LoadTypes'
    <3>1. << >> \in Seq(BundleSet)
      BY SMTT(60)
    <3> QED BY <1>5, <2>1, <3>1 DEF LoadInv, LoadTypes, Stable
  <2>6. Phased'
    <3>1. disk'.acct = Accounts
      BY <1>4, <2>1
    <3>2. "scan" \notin Ending
      BY DEF Ending
    <3> QED BY <1>5, <1>6, <3>1, <3>2 DEF LoadInv, Phased
  <2>7. Sound(disk')
    BY <2>1 DEF Stable
  <2> QED BY <2>4, <2>5, <2>6, <2>7 DEF LoadInv
<1>7. CASE FlushFails /\ main' = "close"
  <2>1. bl' \in BlSet /\ bl'.progress = bl.progress /\ disk' = disk
    BY <1>7, FailedTypes DEF LoadInv
  <2>2. LoadTypes'
    <3>1. << >> \in Seq(BundleSet)
      BY SMTT(60)
    <3> QED BY <1>5, <2>1, <3>1 DEF LoadInv, LoadTypes
  <2>3. "close" \in Stopped /\ "close" \notin Ending /\ "close" \notin Late
    BY DEF Stopped, Ending, Late
  <2>4. Phased' /\ ~ Alive'
    BY <1>5, <1>7, <2>3 DEF Phased, Alive
  <2> QED BY <2>1, <2>2, <2>4 DEF LoadInv
<1> QED BY <1>6, <1>7 DEF Barrier
=============================================================================
