------------------------------- MODULE Store -------------------------------
(***************************************************************************)
(* The main LMDB environment (package store): per-block history rows, the  *)
(* hash-keyed baseline at the history genesis that the bulk loader fills   *)
(* while blocks above it are already being captured, and the historical    *)
(* reads that combine the two.  A read is one read transaction; only the   *)
(* completeness of the baseline is looked up in a second, later one, so a  *)
(* reader is a process of its own with two steps.                          *)
(***************************************************************************)
EXTENDS FlatState

CONSTANTS
    Genesis,     \* history genesis
    MaxHeight,   \* bound: the highest block written
    Base,        \* the world at Genesis, which the loader copies
    Batches,     \* the captures a block may come with
    Chunk        \* baselineChunk: buffered ops per write transaction

ASSUME StoreAssumption ==
    /\ Genesis \in Nat /\ MaxHeight \in Nat /\ Genesis <= MaxHeight
    /\ Chunk \in Nat \ {0}
    /\ Base \in World
    /\ \A a \in Addr, s \in Slot : Base.acct[a] = NoAcct => Base.slot[a][s] = Zero
    /\ Batches \subseteq Batch
    /\ \A b \in Batches : Contract(b)

VARIABLES
    env,     \* the committed rows
    top,     \* ghost: the last block written
    truth,   \* ghost: the world at every height Genesis..top
    buf,     \* Baseline.ops: loader ops not yet committed
    todo,    \* ops of the loader's current bundle not yet added to buf
    rd       \* one historical read in flight

vars == <<env, top, truth, buf, todo, rd>>

(***************************************************************************)
(* Rows.  History rows are keyed by (key, height); a destruct marker is    *)
(* only a height.  baseAcct, baseSlot are the 0x07/0x08 rows, queue the    *)
(* 0x09 rows.                                                              *)
(***************************************************************************)
NotFound == -1

(* seekLE: the greatest row height at or below at. *)
SeekLE(heights, at) ==
    LET H == {h \in heights : h <= at}
    IN  IF H = {} THEN NotFound ELSE Max(H)

(* Mutant: the row of a block lands one height late. *)
PutLate(rows, h, v) ==
    IF v = None THEN rows
    ELSE [x \in DOMAIN rows \cup {h + 1} |-> IF x = h + 1 THEN v ELSE rows[x]]

Put(rows, h, v) ==
    IF v = None THEN rows
    ELSE [x \in DOMAIN rows \cup {h} |-> IF x = h THEN v ELSE rows[x]]

(* WriteBlock's transaction: one row per op, at the block's height. *)
Rows(e, h, b) ==
    [e EXCEPT
       !.acct = [a \in Addr |-> Put(e.acct[a], h, b.acct[a])],
       !.slot = [a \in Addr |->
                   [s \in Slot |-> Put(e.slot[a][s], h, b.slot[a][s])]],
       !.dest = [a \in Addr |->
                   IF a \in b.dest THEN e.dest[a] \cup {h} ELSE e.dest[a]]]

(***************************************************************************)
(* GetAccount and GetSlot inside their read transaction: what the history  *)
(* rows say, then the baseline row; None where there is neither.           *)
(***************************************************************************)
AcctHistory(e, a, at) ==
    LET h == SeekLE(DOMAIN e.acct[a], at)
        dh == SeekLE(e.dest[a], at)
    IN  IF h # NotFound /\ dh <= h THEN e.acct[a][h]
        ELSE IF h # NotFound \/ dh # NotFound THEN NoAcct
        ELSE None

(* Mutant: the destruct marker is compared with the wrong sign. *)
SlotHistoryMarker(e, a, s, at) ==
    LET h == SeekLE(DOMAIN e.slot[a][s], at)
        dh == SeekLE(e.dest[a], at)
    IN  IF h = NotFound
        THEN IF dh # NotFound THEN Zero ELSE None
        ELSE IF dh >= h THEN Zero ELSE e.slot[a][s][h]

SlotHistory(e, a, s, at) ==
    LET h == SeekLE(DOMAIN e.slot[a][s], at)
        dh == SeekLE(e.dest[a], at)
    IN  IF h = NotFound
        THEN IF dh # NotFound THEN Zero ELSE None
        ELSE IF dh > h THEN Zero
        ELSE IF dh = h /\ SeekLE(DOMAIN e.acct[a], dh) # dh
        THEN "ErrDestructEdge"
        ELSE e.slot[a][s][h]

Either(x, y) == IF x # None THEN x ELSE y

AccountRow(e, a, at) == Either(AcctHistory(e, a, at), e.baseAcct[a])

SlotRow(e, a, s, at) == Either(SlotHistory(e, a, s, at), e.baseSlot[a][s])

(* Mutant: the sense of the watermark is inverted. *)
OnMissInverted(complete, absent) ==
    IF complete THEN "ErrBaselineIncomplete" ELSE absent

(* missAllowed: the answer to a read that found no row. *)
OnMiss(complete, absent) ==
    IF complete THEN absent ELSE "ErrBaselineIncomplete"

CheckAt(e, at) ==
    IF ~e.genesis THEN "ErrNoGenesis"
    ELSE IF at < Genesis THEN "ErrBelowGenesis" ELSE None

GetAccount(e, a, at) ==
    IF CheckAt(e, at) # None THEN CheckAt(e, at)
    ELSE Either(AccountRow(e, a, at), OnMiss(e.complete, NoAcct))

GetSlot(e, a, s, at) ==
    IF CheckAt(e, at) # None THEN CheckAt(e, at)
    ELSE Either(SlotRow(e, a, s, at), OnMiss(e.complete, Zero))
-----------------------------------------------------------------------------
(***************************************************************************)
(* The block writer.                                                       *)
(***************************************************************************)
WriteBlock ==
    /\ env.genesis
    /\ top < MaxHeight
    /\ \E b \in Batches :
         /\ env' = Rows(env, top + 1, b)
         /\ truth' = [h \in Genesis..(top + 1) |->
                        IF h <= top THEN truth[h] ELSE After(truth[top], b)]
    /\ top' = top + 1
    /\ UNCHANGED <<buf, todo, rd>>
-----------------------------------------------------------------------------
(***************************************************************************)
(* The baseline bulk loader.  It runs in phases: every account row, then,  *)
(* for each queued account, its slot rows and last the removal of its      *)
(* queue row.  An op is a record [put, a, s]; s is None where it has no    *)
(* meaning.                                                                *)
(***************************************************************************)
Op(put, a, s) == [put |-> put, a |-> a, s |-> s]

HasStorage(a) == \E s \in Slot : Base.slot[a][s] # Zero

(* Flush: the buffered ops in one write transaction. *)
Commit(e, ops) ==
    [e EXCEPT
       !.baseAcct = [a \in Addr |-> IF Op("acct", a, None) \in ops
                                    THEN Base.acct[a] ELSE e.baseAcct[a]],
       !.baseSlot = [a \in Addr |->
                       [s \in Slot |-> IF Op("slot", a, s) \in ops
                                       THEN Base.slot[a][s]
                                       ELSE e.baseSlot[a][s]]],
       !.queue = {a \in Addr : /\ a \in e.queue \/ Op("queue", a, None) \in ops
                               /\ Op("dequeue", a, None) \notin ops}]

AllAccounts(e) == \A a \in Addr : Base.acct[a] # NoAcct => e.baseAcct[a] # None

(* Every slot row of a is committed or buffered ahead of what follows. *)
AllSlots(e, ops, a) ==
    \A s \in Slot : Base.slot[a][s] # Zero =>
                      e.baseSlot[a][s] # None \/ Op("slot", a, s) \in ops

NewBaseline ==
    /\ ~env.genesis
    /\ env' = [env EXCEPT !.genesis = TRUE]
    /\ UNCHANGED <<top, truth, buf, todo, rd>>

(* Mutant: the account row goes in first. *)
AccountFirst(a) ==
    IF HasStorage(a) THEN <<Op("acct", a, None), Op("queue", a, None)>>
    ELSE <<Op("acct", a, None)>>

(* handleAccount's bundle: the queue row before the account row. *)
AccountBundle(a) ==
    IF HasStorage(a) THEN <<Op("queue", a, None), Op("acct", a, None)>>
    ELSE <<Op("acct", a, None)>>

LoadAccount(a) ==
    /\ env.genesis /\ ~env.complete /\ todo = <<>>
    /\ Base.acct[a] # NoAcct
    /\ env.baseAcct[a] = None /\ Op("acct", a, None) \notin buf
    /\ todo' = AccountBundle(a)
    /\ UNCHANGED <<env, top, truth, buf, rd>>

LoadSlot(a, s) ==
    /\ ~env.complete /\ todo = <<>>
    /\ AllAccounts(env) /\ a \in env.queue
    /\ Base.slot[a][s] # Zero
    /\ env.baseSlot[a][s] = None /\ Op("slot", a, s) \notin buf
    /\ todo' = <<Op("slot", a, s)>>
    /\ UNCHANGED <<env, top, truth, buf, rd>>

(* The dequeue is ordered after the trie's last slot row. *)
DequeueReady(e, ops, a) ==
    AllSlots(e, ops, a)

Dequeue(a) ==
    /\ ~env.complete /\ todo = <<>>
    /\ AllAccounts(env) /\ a \in env.queue
    /\ Op("dequeue", a, None) \notin buf
    /\ DequeueReady(env, buf, a)
    /\ todo' = <<Op("dequeue", a, None)>>
    /\ UNCHANGED <<env, top, truth, buf, rd>>

(* Baseline.add and addDel: buffer one op, flush when the chunk is full. *)
Add ==
    /\ todo # <<>>
    /\ LET ops == buf \cup {Head(todo)}
       IN  IF Cardinality(ops) >= Chunk
           THEN env' = Commit(env, ops) /\ buf' = {}
           ELSE env' = env /\ buf' = ops
    /\ todo' = Tail(todo)
    /\ UNCHANGED <<top, truth, rd>>

Flush ==
    /\ buf # {} /\ todo = <<>>
    /\ env' = Commit(env, buf)
    /\ buf' = {}
    /\ UNCHANGED <<top, truth, todo, rd>>

(* Mutant: Finish does not look at the storage queue. *)
NeverRefused(e) == FALSE

(* Finish: flush, refuse while a queue row remains, set the watermark. *)
FinishRefused(e) == e.queue # {}

Finish ==
    /\ env.genesis /\ ~env.complete /\ todo = <<>>
    /\ AllAccounts(Commit(env, buf))
    /\ LET e == Commit(env, buf)
       IN  env' = IF FinishRefused(e) THEN e ELSE [e EXCEPT !.complete = TRUE]
    /\ buf' = {}
    /\ UNCHANGED <<top, truth, todo, rd>>

(* The loader process dies (or a flush fails, which ends its run): what it *)
(* buffered is gone, what it committed stays.                              *)
LoaderCrash ==
    /\ buf # {} \/ todo # <<>>
    /\ buf' = {} /\ todo' = <<>>
    /\ UNCHANGED <<env, top, truth, rd>>
-----------------------------------------------------------------------------
(***************************************************************************)
(* One historical read.  BeginRead is the read transaction; a read that    *)
(* found no row looks the baseline watermark up in ResolveMiss, from the   *)
(* environment of that later moment.  want is the true answer at the time  *)
(* of the read transaction.  An at above top is store.Latest.              *)
(***************************************************************************)
Truth(at) == truth[IF at <= top THEN at ELSE top]

Idle == [pc |-> "idle"]

Answer(pc, want, got, absent) ==
    [pc |-> pc, want |-> want, got |-> got, absent |-> absent,
     begunComplete |-> env.complete]

BeginAccount(a, at) ==
    LET row == AccountRow(env, a, at)
    IN  IF row # None THEN Answer("done", Truth(at).acct[a], row, NoAcct)
        ELSE Answer("miss", Truth(at).acct[a], None, NoAcct)

BeginSlot(a, s, at) ==
    LET row == SlotRow(env, a, s, at)
    IN  IF row # None THEN Answer("done", Truth(at).slot[a][s], row, Zero)
        ELSE Answer("miss", Truth(at).slot[a][s], None, Zero)

BeginRead ==
    /\ rd.pc # "miss"
    /\ \E a \in Addr, at \in (Genesis - 1)..(MaxHeight + 1) :
         \/ /\ CheckAt(env, at) # None
            /\ rd' = Answer("done", None, CheckAt(env, at), None)
         \/ /\ CheckAt(env, at) = None
            /\ \/ rd' = BeginAccount(a, at)
               \/ \E s \in Slot : rd' = BeginSlot(a, s, at)
    /\ UNCHANGED <<env, top, truth, buf, todo>>

ResolveMiss ==
    /\ rd.pc = "miss"
    /\ rd' = [rd EXCEPT !.pc = "done", !.got = OnMiss(env.complete, rd.absent)]
    /\ UNCHANGED <<env, top, truth, buf, todo>>
-----------------------------------------------------------------------------
Init ==
    /\ env = [genesis |-> FALSE, complete |-> FALSE,
              acct |-> [a \in Addr |-> <<>>],
              slot |-> [a \in Addr |-> [s \in Slot |-> <<>>]],
              dest |-> [a \in Addr |-> {}],
              baseAcct |-> [a \in Addr |-> None],
              baseSlot |-> [a \in Addr |-> [s \in Slot |-> None]],
              queue |-> {}]
    /\ top = Genesis
    /\ truth = [h \in Genesis..Genesis |-> Base]
    /\ buf = {} /\ todo = <<>>
    /\ rd = Idle

Next ==
    \/ WriteBlock
    \/ NewBaseline \/ Add \/ Flush \/ Finish \/ LoaderCrash
    \/ \E a \in Addr : LoadAccount(a) \/ Dequeue(a)
    \/ \E a \in Addr, s \in Slot : LoadSlot(a, s)
    \/ BeginRead \/ ResolveMiss

Spec == Init /\ [][Next]_vars
-----------------------------------------------------------------------------
(***************************************************************************)
(* Properties.                                                             *)
(***************************************************************************)
(* Rows of one key: a partial function from the heights above Genesis. *)
RowsOf(V) == UNION {[D -> V] : D \in SUBSET (Genesis + 1 .. top)}

LoaderOps == [put : {"acct", "slot", "queue", "dequeue"},
              a : Addr, s : Slot \cup {None}]

(* The types of the rows, the ghosts, the loader buffer and the read. *)
TypeOK ==
    /\ top \in Genesis..MaxHeight
    /\ truth \in [Genesis..top -> World]
    /\ env \in [genesis : BOOLEAN, complete : BOOLEAN,
                acct : [Addr -> RowsOf(Acct)],
                slot : [Addr -> [Slot -> RowsOf(Val)]],
                dest : [Addr -> SUBSET (Genesis + 1 .. top)],
                baseAcct : [Addr -> Acct \cup {NoAcct, None}],
                baseSlot : [Addr -> [Slot -> Val \cup {None}]],
                queue : SUBSET Addr]
    /\ buf \in SUBSET LoaderOps /\ todo \in Seq(LoaderOps)
    /\ rd \in {Idle} \cup
             [pc : {"miss", "done"}, want : Acct \cup Val \cup {NoAcct, None},
              got : Acct \cup Val \cup {NoAcct, None} \cup Errors,
              absent : {NoAcct, Zero, None}, begunComplete : BOOLEAN]

(***************************************************************************)
(* A read of any key at any height from genesis up answers with the        *)
(* end-of-block value at that height (the newest one above top), or        *)
(* refuses because the baseline is not complete: the rows, the destruct    *)
(* markers and the baseline rows combine correctly in GetAccount and       *)
(* GetSlot, whatever the blocks did and however far the loader has come.   *)
(***************************************************************************)
HistoryExact ==
    env.genesis =>
      \A at \in Genesis..(MaxHeight + 1), a \in Addr :
        /\ GetAccount(env, a, at) \in {Truth(at).acct[a], "ErrBaselineIncomplete"}
        /\ \A s \in Slot :
             GetSlot(env, a, s, at) \in {Truth(at).slot[a][s], "ErrBaselineIncomplete"}

(***************************************************************************)
(* Once Finish has set the watermark the baseline holds every account and  *)
(* every nonzero slot of the snapshot and no storage is queued, across     *)
(* auto-flushes at the chunk boundary and loader crashes: no absent row is *)
(* a wrong zero.                                                           *)
(***************************************************************************)
CompleteIsFull ==
    env.complete => /\ AllAccounts(env)
                    /\ env.queue = {}
                    /\ \A a \in Addr : AllSlots(env, {}, a)

(***************************************************************************)
(* A committed account row with storage has a durable queue row until all  *)
(* its slots are committed (QueueStorage, DequeueStorage): a crash between *)
(* two chunks never loses the storage of an account that the restarted     *)
(* loader skips.                                                           *)
(***************************************************************************)
StorageNeverForgotten ==
    \A a \in Addr :
      env.baseAcct[a] # None => a \in env.queue \/ AllSlots(env, {}, a)

(***************************************************************************)
(* A read whose transaction began after the baseline was complete answers, *)
(* and with the value of its snapshot, even when blocks commit before the  *)
(* second lookup.                                                          *)
(***************************************************************************)
ReadAfterCompleteExact ==
    rd.pc = "done" /\ rd.want # None /\ rd.begunComplete => rd.got = rd.want

(***************************************************************************)
(* "Baseline not yet complete for a key: error" (D13): an answer is right  *)
(* or an error, also for a read that began before the baseline was         *)
(* complete.  missAllowed breaks it: it looks the watermark up in a        *)
(* transaction newer than the one that found no row.                       *)
(***************************************************************************)
ReadExactOrError ==
    rd.pc = "done" => rd.got \in Errors \/ rd.got = rd.want
=============================================================================
