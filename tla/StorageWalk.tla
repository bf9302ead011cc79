---------------------------- MODULE StorageWalk ----------------------------
(***************************************************************************)
(* The baseline loader's walk over one queued storage trie (package        *)
(* follower/sync, phase 2): a sequential warmup, then, for a giant trie,   *)
(* SplitWays parallel walkers over sub-ranges of the remaining keyspace,   *)
(* each resuming past the greatest row an earlier run committed in its     *)
(* range.  The rows go through one writer in the order they were enqueued; *)
(* the loader may stop anywhere and start again.                           *)
(*                                                                         *)
(* Keys are integers in 0..KeyMax, so a nil end is KeyMax and incKey's nil *)
(* is NoKey.  A peer is external: it answers with the first n leaves at or *)
(* after the start key, n in Sizes, and says whether there are more.       *)
(***************************************************************************)
EXTENDS Integers, Sequences, FiniteSetsExt

CONSTANTS
    KeyMax,       \* the key ff..ff
    Tries,        \* the tries, as sets of slot keys
    Sizes,        \* how many leaves a peer may put into one response
    SplitAfter,   \* warmup requests before the trie counts as giant
    SplitWays,    \* sub-ranges of a giant
    MaxStop       \* bound: how often the loader stops and is run again

ASSUME WalkAssumption ==
    /\ KeyMax \in Nat /\ Tries \subseteq SUBSET (0..KeyMax)
    /\ Sizes \subseteq Nat \ {0} /\ Sizes # {}
    /\ SplitAfter \in Nat \ {0} /\ SplitWays \in Nat \ {0} /\ MaxStop \in Nat

VARIABLES
    trie,     \* the slot keys of the trie; never changes
    rows,     \* committed 0x08 rows
    queued,   \* the 0x09 row is committed
    sent,     \* ops enqueued and not committed, in order
    pc,       \* the trie's goroutine: "idle", "warm", "fan", "walked", "sent"
    warm,     \* the warmup: [n, start]
    ws,       \* the sub-walkers: [lo, start, end, pc]
    stops     \* bound counter

vars == <<trie, rows, queued, sent, pc, warm, ws, stops>>

NoKey == KeyMax + 1

Dequeued == -1       \* the op that deletes the 0x09 row
-----------------------------------------------------------------------------
IncKey(k) == IF k = KeyMax THEN NoKey ELSE k + 1

(* Mutant: the next sub-range starts one key late. *)
SplitRangeGap(from, n) ==
    LET step == (KeyMax - from) \div n
        lo(i) == from + (i - 1) * (step + 2)
    IN  IF n <= 1 \/ step = 0 THEN <<[lo |-> from, hi |-> KeyMax]>>
        ELSE [i \in 1..n |-> [lo |-> lo(i), hi |-> IF i = n THEN KeyMax ELSE lo(i) + step]]

SplitRange(from, n) ==
    LET step == (KeyMax - from) \div n
        lo(i) == from + (i - 1) * (step + 1)
    IN  IF n <= 1 \/ step = 0 THEN <<[lo |-> from, hi |-> KeyMax]>>
        ELSE [i \in 1..n |-> [lo |-> lo(i), hi |-> IF i = n THEN KeyMax ELSE lo(i) + step]]

(***************************************************************************)
(* One request and its response, truncated at the end of the range.        *)
(***************************************************************************)
Answer(start, n) ==
    LET right == {k \in trie : k >= start}
    IN  {k \in right : Cardinality({j \in right : j <= k}) <= n}

Kept(start, end, n) == {k \in Answer(start, n) : k <= end}

(* The range is covered, by truncation or because the trie ends. *)
Finished(start, end, n) ==
    \/ Kept(start, end, n) # Answer(start, n)
    \/ Answer(start, n) = {k \in trie : k >= start}

(* Mutant: the walk goes on one key too far. *)
NextStartSkips(start, end, n) ==
    IF Finished(start, end, n) THEN NoKey ELSE IncKey(IncKey(Max(Kept(start, end, n))))

NextStart(start, end, n) ==
    IF Finished(start, end, n) THEN NoKey ELSE IncKey(Max(Kept(start, end, n)))

(* The leaves of a response come in the order of their keys. *)
Ascending(keys) ==
    CHOOSE q \in [1..Cardinality(keys) -> keys] :
      /\ {q[i] : i \in DOMAIN q} = keys
      /\ \A i, j \in DOMAIN q : i < j => q[i] < q[j]

Enqueue(keys) == sent' = sent \o Ascending(keys)
-----------------------------------------------------------------------------
(* drainStorageQueue finds the committed queue row. *)
Begin ==
    /\ pc = "idle" /\ queued
    /\ pc' = "warm" /\ warm' = [n |-> 0, start |-> 0]
    /\ UNCHANGED <<trie, rows, queued, sent, ws, stops>>

Warmup ==
    /\ pc = "warm" /\ warm.n < SplitAfter
    /\ \E n \in Sizes :
         LET next == NextStart(warm.start, KeyMax, n)
         IN  /\ Enqueue(Kept(warm.start, KeyMax, n))
             /\ warm' = [n |-> warm.n + 1, start |-> next]
             /\ pc' = IF next = NoKey THEN "walked" ELSE "warm"
    /\ UNCHANGED <<trie, rows, queued, ws, stops>>

FanOut ==
    /\ pc = "warm" /\ warm.n = SplitAfter
    /\ LET ranges == SplitRange(warm.start, SplitWays)
       IN  ws' = [i \in DOMAIN ranges |->
                    [lo |-> ranges[i].lo, start |-> ranges[i].lo,
                     end |-> ranges[i].hi, pc |-> "new"]]
    /\ pc' = "fan"
    /\ UNCHANGED <<trie, rows, queued, sent, warm, stops>>

(* MaxBaseSlot: the greatest committed row of the range, if any. *)
ResumeAt(w) ==
    LET have == {k \in rows : w.lo <= k /\ k <= w.end}
    IN  IF have = {} THEN w.lo ELSE IncKey(Max(have))

Resume(i) ==
    /\ pc = "fan" /\ ws[i].pc = "new"
    /\ LET at == ResumeAt(ws[i])
       IN  ws' = [ws EXCEPT ![i].start = at,
                            ![i].pc = IF at > ws[i].end THEN "done" ELSE "walk"]
    /\ UNCHANGED <<trie, rows, queued, sent, pc, warm, stops>>

Walk(i) ==
    /\ pc = "fan" /\ ws[i].pc = "walk"
    /\ \E n \in Sizes :
         LET next == NextStart(ws[i].start, ws[i].end, n)
         IN  /\ Enqueue(Kept(ws[i].start, ws[i].end, n))
             /\ ws' = [ws EXCEPT ![i].start = next,
                                 ![i].pc = IF next = NoKey THEN "done" ELSE "walk"]
    /\ UNCHANGED <<trie, rows, queued, pc, warm, stops>>

(* Mutant: the deletion of the queue row does not wait for the walkers. *)
DequeueEarly ==
    /\ pc \in {"walked", "fan"}
    /\ sent' = Append(sent, Dequeued)
    /\ pc' = "sent"
    /\ UNCHANGED <<trie, rows, queued, warm, ws, stops>>

(* The queue row's deletion follows the last slot row. *)
Dequeue ==
    /\ \/ pc = "walked"
       \/ pc = "fan" /\ \A i \in DOMAIN ws : ws[i].pc = "done"
    /\ sent' = Append(sent, Dequeued)
    /\ pc' = "sent"
    /\ UNCHANGED <<trie, rows, queued, warm, ws, stops>>

(* Mutant: a deletion is dropped. *)
CommitIgnoresDeletes ==
    /\ sent # <<>>
    /\ rows' = rows \cup ({Head(sent)} \ {Dequeued})
    /\ sent' = Tail(sent)
    /\ UNCHANGED <<trie, queued, pc, warm, ws, stops>>

(* The writer; a chunk may end after any op. *)
Commit ==
    /\ sent # <<>>
    /\ rows' = rows \cup ({Head(sent)} \ {Dequeued})
    /\ queued' = (queued /\ Head(sent) # Dequeued)
    /\ sent' = Tail(sent)
    /\ UNCHANGED <<trie, pc, warm, ws, stops>>

(* The loader dies or returns an error; it is run again later. *)
Stop ==
    /\ pc # "idle" /\ stops < MaxStop
    /\ stops' = stops + 1
    /\ pc' = "idle" /\ sent' = <<>> /\ ws' = <<>>
    /\ UNCHANGED <<trie, rows, queued, warm>>
-----------------------------------------------------------------------------
Init ==
    /\ trie \in Tries /\ trie # {}
    /\ rows = {} /\ queued = TRUE /\ sent = <<>>
    /\ pc = "idle" /\ warm = [n |-> 0, start |-> 0] /\ ws = <<>>
    /\ stops = 0

Next ==
    \/ Begin \/ Warmup \/ FanOut \/ Dequeue \/ Commit \/ Stop
    \/ \E i \in DOMAIN ws : Resume(i) \/ Walk(i)

Spec == Init /\ [][Next]_vars

(* The client retries until a peer answers, the writer goroutine runs, and *)
(* an operator runs a stopped loader again.                                *)
WalkFairness ==
    /\ WF_vars(Begin) /\ WF_vars(Warmup) /\ WF_vars(FanOut)
    /\ WF_vars(Dequeue) /\ WF_vars(Commit)
    /\ \A i \in 1..SplitWays : WF_vars(i \in DOMAIN ws /\ (Resume(i) \/ Walk(i)))
-----------------------------------------------------------------------------
(***************************************************************************)
(* Properties.                                                             *)
(***************************************************************************)

(***************************************************************************)
(* "a missing queue row implies complete storage" (drainStorageQueue): a   *)
(* committed deletion of the queue row finds every slot row committed,     *)
(* wherever earlier runs of the loader stopped.                            *)
(***************************************************************************)
StorageWhole == ~queued => rows = trie

(***************************************************************************)
(* "rows below the watermark are complete" (walkStorage, MaxBaseSlot):     *)
(* what a sub-walker leaves behind in its range, by resuming or by         *)
(* walking, is committed or on its way to the writer.                      *)
(***************************************************************************)
NothingSkipped ==
    \A i \in DOMAIN ws, k \in trie :
      ws[i].pc # "new" /\ ws[i].lo <= k /\ k <= ws[i].end /\ k < ws[i].start =>
        k \in rows \/ \E j \in DOMAIN sent : sent[j] = k

(***************************************************************************)
(* "splitRange divides [from, ff..ff] into n contiguous inclusive          *)
(* sub-ranges": wherever the warmup may end, they start there, follow each *)
(* other without gap or overlap and end at ff..ff.  Nearer to ff..ff than  *)
(* n * n keys the last of them would start beyond the keyspace.            *)
(***************************************************************************)
SplitCovers ==
    pc = "warm" =>
      \A n \in 1..SplitWays : \A from \in warm.start..(KeyMax - n * n) :
        LET r == SplitRange(from, n)
        IN  /\ r[1].lo = from /\ r[Len(r)].hi = KeyMax
            /\ \A i \in DOMAIN r : r[i].lo <= r[i].hi
            /\ \A i \in 1..(Len(r) - 1) : r[i + 1].lo = r[i].hi + 1

(***************************************************************************)
(* The trie is loaded in the end: every walk gets past every key, also at  *)
(* the end of its range and of the keyspace.                               *)
(***************************************************************************)
TrieLoaded == <>(~queued)
=============================================================================
