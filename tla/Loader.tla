------------------------------- MODULE Loader -------------------------------
(***************************************************************************)
(* The baseline loader (package follower/sync, Run): one goroutine per     *)
(* segment of the account trie, a bounded channel, the single writer with  *)
(* its chunked commits, the barrier between the phases, the storage queue, *)
(* the code sweep and Finish.  Run may be stopped anywhere, a commit may   *)
(* fail, and the loader is run again on what is on disk.                   *)
(*                                                                         *)
(* Accounts are integers, ascending like their hashes.  The storage of an  *)
(* account is one row here; StorageWalk models how one trie is walked.     *)
(* Peers are external: a response has any number of leaves in Sizes.       *)
(***************************************************************************)
EXTENDS Integers, Sequences, FiniteSetsExt

CONSTANTS
    Accounts,   \* the accounts at S, integers
    Segs,       \* segments, integers
    SegOf,      \* the segment of an account, monotonic
    NoCode,     \* the code of a plain account
    CodeOf,     \* the code of an account, or NoCode
    Stored,     \* the accounts with storage
    Sizes,      \* how many leaves a peer may put into one response
    ChanCap,    \* capacity of the channel to the writer
    MaxRuns,    \* bound: how often the loader is run
    MaxFails    \* bound: how many commits fail

ASSUME LoaderAssumption ==
    /\ Accounts \subseteq Nat /\ IsFiniteSet(Accounts)
    /\ Segs \subseteq Nat /\ Stored \subseteq Accounts
    /\ DOMAIN CodeOf = Accounts /\ SegOf \in [Accounts -> Segs]
    /\ \A a, b \in Accounts : a < b => SegOf[a] <= SegOf[b]
    /\ Sizes \subseteq Nat \ {0} /\ Sizes # {} /\ ChanCap \in Nat \ {0}
    /\ MaxRuns \in Nat /\ MaxFails \in Nat

VARIABLES
    disk,     \* committed rows: [acct, code, queue, slots, bits, complete]
    bl,       \* the writer's Baseline: [ops, progress]
    bitmap,   \* segments the writer has seen the end of
    writes,   \* the channel of bundles
    writer,   \* "run", or "failed": draining the channel
    main,     \* where Run is
    seg,      \* the segment goroutines: [pc, start, keys, rows, last]; keys are
              \* the accounts of the response in work, rows what is resolved
    claims,   \* codes claimed by some goroutine of this run
    tries,    \* the trie goroutines of phase 2, by account
    runs,     \* bound counters
    fails

loadVars == <<disk, bl, bitmap, writes, writer, main, seg, claims, tries, runs, fails>>

Codes == {CodeOf[a] : a \in Accounts} \ {NoCode}

NoProgress == {}    \* bl.progress is nil; {B} when it holds the bitmap B
-----------------------------------------------------------------------------
(***************************************************************************)
(* store.Baseline: rows and deletions are buffered and committed in order, *)
(* in chunks; the chunk size is left open, so a chunk may end at any op.   *)
(***************************************************************************)
Op(kind, key) == [kind |-> kind, key |-> key]

Puts(ops, kind) == {ops[i].key : i \in {j \in DOMAIN ops : ops[j].kind = kind}}

(* The queue rows after ops: put last, or never deleted. *)
QueueAfter(queue, ops) ==
    {a \in queue \cup Puts(ops, "queue") :
       \A i \in DOMAIN ops :
         ops[i] = Op("del", a) => \E j \in DOMAIN ops : j > i /\ ops[j] = Op("queue", a)}

Written(d, ops) ==
    [d EXCEPT !.acct = @ \cup Puts(ops, "acct"), !.code = @ \cup Puts(ops, "code"),
              !.slots = @ \cup Puts(ops, "slots"), !.queue = QueueAfter(@, ops)]

(* What one write transaction leaves on disk: the rows and the cursor. *)
Committed(ops) ==
    [Written(disk, ops) EXCEPT
       !.bits = IF bl.progress = NoProgress THEN @ ELSE UNION bl.progress]

(* Buffering ops: no chunk ends, or one ends at op number i. *)
AddOps(ops) ==
    LET all == bl.ops \o ops
    IN  \/ bl' = [bl EXCEPT !.ops = all] /\ UNCHANGED disk
        \/ \E i \in (Len(bl.ops) + 1)..Len(all) :
             /\ disk' = Committed(SubSeq(all, 1, i))
             /\ bl' = [ops |-> SubSeq(all, i + 1, Len(all)), progress |-> NoProgress]

FlushOps ==
    /\ disk' = Committed(bl.ops)
    /\ bl' = [ops |-> <<>>, progress |-> NoProgress]

(* An empty flush writes nothing and cannot fail. *)
Pending == bl.ops # <<>> \/ bl.progress # NoProgress

(* A commit fails: nothing is written, the ops are gone, the cursor stays. *)
FlushFails ==
    /\ fails < MaxFails /\ fails' = fails + 1
    /\ bl' = [bl EXCEPT !.ops = <<>>]
    /\ UNCHANGED disk
-----------------------------------------------------------------------------
(***************************************************************************)
(* The segment goroutines.                                                 *)
(***************************************************************************)
Bundle(kind, of) == [kind |-> kind, of |-> of]

Enqueue(b) == Len(writes) < ChanCap /\ writes' = Append(writes, b)

SegAccounts(s) == {a \in Accounts : SegOf[a] = s}

(* Where a segment starts: past its greatest committed account. *)
ResumeAt(s) ==
    LET have == disk.acct \cap SegAccounts(s)
    IN  IF have = {} THEN 0 ELSE Max(have) + 1

(* The first n leaves at or after start, of the segment or beyond it. *)
Response(s, n) ==
    LET right == {a \in Accounts : a >= seg[s].start /\ SegOf[a] >= s}
    IN  {a \in right : Cardinality({b \in right : b <= a}) <= n}

Fetch(s) ==
    /\ main = "phase1" /\ seg[s].pc = "fetch"
    /\ \E n \in Sizes :
         LET resp == Response(s, n)
             keys == resp \cap SegAccounts(s)
             more == Max(Accounts) \notin resp /\ resp # {}
         IN  seg' = [seg EXCEPT ![s] =
               [pc |-> "handle", keys |-> keys, rows |-> {},
                start |-> IF keys = {} THEN @.start ELSE Max(keys) + 1,
                last |-> keys # resp \/ ~more]]
    /\ UNCHANGED <<disk, bl, bitmap, writes, writer, main, claims, tries, runs, fails>>

(***************************************************************************)
(* handleAccount, for the accounts of a response in any order: the first   *)
(* to claim a code fetches it.                                             *)
(***************************************************************************)
Handle(s, a) ==
    /\ main = "phase1" /\ seg[s].pc = "handle" /\ a \in seg[s].keys
    /\ LET c == CodeOf[a]
           fetched == c # NoCode /\ c \notin claims
       IN  /\ claims' = (claims \cup {c}) \ {NoCode}
           /\ seg' = [seg EXCEPT ![s].keys = @ \ {a},
                                 ![s].rows = @ \cup {[a |-> a, code |-> fetched]}]
    /\ UNCHANGED <<disk, bl, bitmap, writes, writer, main, tries, runs, fails>>

(* Mutant: account rows are enqueued in any order. *)
EnqueueAnyRow(s) ==
    /\ main = "phase1" /\ seg[s].pc = "handle" /\ seg[s].keys = {}
    /\ \E row \in seg[s].rows :
         /\ Enqueue(Bundle("account", row))
         /\ seg' = [seg EXCEPT ![s].rows = @ \ {row}]
    /\ UNCHANGED <<disk, bl, bitmap, writer, main, claims, tries, runs, fails>>

(* Account rows are enqueued in key order once the response is handled. *)
EnqueueRow(s) ==
    /\ main = "phase1" /\ seg[s].pc = "handle" /\ seg[s].keys = {}
    /\ \E row \in seg[s].rows :
         /\ \A r \in seg[s].rows : row.a <= r.a
         /\ Enqueue(Bundle("account", row))
         /\ seg' = [seg EXCEPT ![s].rows = @ \ {row}]
    /\ UNCHANGED <<disk, bl, bitmap, writer, main, claims, tries, runs, fails>>

Handled(s) ==
    /\ main = "phase1" /\ seg[s].pc = "handle"
    /\ seg[s].keys = {} /\ seg[s].rows = {}
    /\ seg' = [seg EXCEPT ![s].pc = IF seg[s].last THEN "final" ELSE "fetch"]
    /\ UNCHANGED <<disk, bl, bitmap, writes, writer, main, claims, tries, runs, fails>>

EnqueueFinal(s) ==
    /\ main = "phase1" /\ seg[s].pc = "final"
    /\ Enqueue(Bundle("final", s))
    /\ seg' = [seg EXCEPT ![s].pc = "done"]
    /\ UNCHANGED <<disk, bl, bitmap, writer, main, claims, tries, runs, fails>>
-----------------------------------------------------------------------------
(***************************************************************************)
(* The writer goroutine.                                                   *)
(***************************************************************************)
Received(kinds) == writer = "run" /\ writes # <<>> /\ Head(writes).kind \in kinds

RowKinds == {"account", "slots", "del"}

(* Mutant: the account row goes first. *)
AccountOpsUnordered(row) ==
    <<Op("acct", row.a)>>
      \o (IF row.code THEN <<Op("code", CodeOf[row.a])>> ELSE <<>>)
      \o (IF row.a \in Stored THEN <<Op("queue", row.a)>> ELSE <<>>)

AccountOps(row) ==
    (IF row.code THEN <<Op("code", CodeOf[row.a])>> ELSE <<>>)
      \o (IF row.a \in Stored THEN <<Op("queue", row.a)>> ELSE <<>>)
      \o <<Op("acct", row.a)>>

(* What a bundle's apply does to the Baseline. *)
OpsOf(b) == IF b.kind = "account" THEN AccountOps(b.of) ELSE <<Op(b.kind, b.of)>>

Apply ==
    /\ Received(RowKinds)
    /\ AddOps(OpsOf(Head(writes)))
    /\ writes' = Tail(writes)
    /\ UNCHANGED <<bitmap, writer, main, seg, claims, tries, runs, fails>>

(* Mutant: the writer goes on after a failed commit. *)
ApplyFailsOn ==
    /\ Received(RowKinds) /\ FlushFails
    /\ writes' = Tail(writes)
    /\ UNCHANGED <<bitmap, writer, main, seg, claims, tries, runs>>

(* The bundle fills a chunk, which does not commit: Run's writer gives up. *)
ApplyFails ==
    /\ Received(RowKinds) /\ FlushFails
    /\ writes' = Tail(writes)
    /\ writer' = "failed"
    /\ UNCHANGED <<bitmap, main, seg, claims, tries, runs>>

Final ==
    /\ Received({"final"})
    /\ bitmap' = bitmap \cup {Head(writes).of}
    /\ bl' = [bl EXCEPT !.progress = {bitmap'}]
    /\ writes' = Tail(writes)
    /\ UNCHANGED <<disk, writer, main, seg, claims, tries, runs, fails>>

(* The flush result goes to Run: on to the queue scan, or out with it. *)
Barrier ==
    /\ Received({"barrier"})
    /\ \/ FlushOps /\ main' = "scan" /\ UNCHANGED fails
       \/ Pending /\ FlushFails /\ main' = "close"
    /\ writes' = Tail(writes)
    /\ UNCHANGED <<bitmap, writer, seg, claims, tries, runs>>

(* A failed writer drains the channel; a barrier is dropped like the rest. *)
DrainWrites ==
    /\ writer = "failed" /\ writes # <<>>
    /\ writes' = Tail(writes)
    /\ UNCHANGED <<disk, bl, bitmap, writer, main, seg, claims, tries, runs, fails>>
-----------------------------------------------------------------------------
(***************************************************************************)
(* Run.                                                                    *)
(***************************************************************************)
(* Mutant: a code claimed once is never fetched again. *)
StartKeepsClaims ==
    /\ main = "off" /\ runs < MaxRuns
    /\ runs' = runs + 1
    /\ main' = "phase1" /\ writer' = "run" /\ writes' = <<>>
    /\ bl' = [ops |-> <<>>, progress |-> NoProgress]
    /\ bitmap' = disk.bits
    /\ seg' = [s \in Segs |->
                 [pc |-> IF s \in disk.bits THEN "done" ELSE "fetch",
                  start |-> ResumeAt(s), keys |-> {}, rows |-> {}, last |-> FALSE]]
    /\ tries' = [a \in {} |-> "walk"]
    /\ UNCHANGED <<disk, claims, fails>>

Start ==
    /\ main = "off" /\ runs < MaxRuns
    /\ runs' = runs + 1
    /\ main' = "phase1" /\ writer' = "run" /\ writes' = <<>>
    /\ bl' = [ops |-> <<>>, progress |-> NoProgress]
    /\ bitmap' = disk.bits
    /\ seg' = [s \in Segs |->
                 [pc |-> IF s \in disk.bits THEN "done" ELSE "fetch",
                  start |-> ResumeAt(s), keys |-> {}, rows |-> {}, last |-> FALSE]]
    /\ claims' = {} /\ tries' = [a \in {} |-> "walk"]
    /\ UNCHANGED <<disk, fails>>

(* Mutant: the queue is scanned without waiting for phase 1's rows. *)
FenceForgotten ==
    /\ main = "phase1" /\ \A s \in Segs : seg[s].pc = "done"
    /\ main' = "scan"
    /\ UNCHANGED <<disk, bl, bitmap, writes, writer, seg, claims, tries, runs, fails>>

Fence ==
    /\ main = "phase1" /\ \A s \in Segs : seg[s].pc = "done"
    /\ Enqueue(Bundle("barrier", {}))
    /\ main' = "wait"
    /\ UNCHANGED <<disk, bl, bitmap, writer, seg, claims, tries, runs, fails>>

ScanQueue ==
    /\ main = "scan"
    /\ tries' = [a \in disk.queue |-> "walk"]
    /\ main' = "phase2"
    /\ UNCHANGED <<disk, bl, bitmap, writes, writer, seg, claims, runs, fails>>

(* Mutant: the queue row is deleted first. *)
DrainDeletesFirst(a) ==
    /\ main = "phase2" /\ tries[a] # "done"
    /\ Enqueue(Bundle(IF tries[a] = "walk" THEN "del" ELSE "slots", a))
    /\ tries' = [tries EXCEPT ![a] = IF @ = "walk" THEN "walked" ELSE "done"]
    /\ UNCHANGED <<disk, bl, bitmap, writer, main, seg, claims, runs, fails>>

(* One trie: its slot rows, then the deletion of its queue row. *)
Drain(a) ==
    /\ main = "phase2" /\ tries[a] # "done"
    /\ Enqueue(Bundle(IF tries[a] = "walk" THEN "slots" ELSE "del", a))
    /\ tries' = [tries EXCEPT ![a] = IF @ = "walk" THEN "walked" ELSE "done"]
    /\ UNCHANGED <<disk, bl, bitmap, writer, main, seg, claims, runs, fails>>

CloseWrites ==
    /\ main = "phase2" /\ \A a \in DOMAIN tries : tries[a] = "done"
    /\ writes = <<>>
    /\ main' = IF writer = "failed" THEN "off" ELSE "flush"
    /\ UNCHANGED <<disk, bl, bitmap, writes, writer, seg, claims, tries, runs, fails>>

(* The barrier's flush failed: Run closes the channel and returns. *)
ReturnError ==
    /\ main = "close" /\ writes = <<>>
    /\ main' = "off"
    /\ UNCHANGED <<disk, bl, bitmap, writes, writer, seg, claims, tries, runs, fails>>

(* Pending queue deletions and bits. *)
LastFlush ==
    /\ main = "flush"
    /\ \/ FlushOps /\ main' = "sweep" /\ UNCHANGED fails
       \/ Pending /\ FlushFails /\ main' = "off"
    /\ UNCHANGED <<bitmap, writes, writer, seg, claims, tries, runs>>

MissingCodeHashes == {CodeOf[a] : a \in disk.acct} \ (disk.code \cup {NoCode})

(* The missing codes are added one after the other. *)
CodeSweep ==
    /\ main = "sweep"
    /\ \/ /\ \E order \in [1..Cardinality(MissingCodeHashes) -> MissingCodeHashes] :
               /\ \A c \in MissingCodeHashes : \E i \in DOMAIN order : order[i] = c
               /\ AddOps([i \in DOMAIN order |-> Op("code", order[i])])
          /\ main' = "finish" /\ UNCHANGED fails
       \/ MissingCodeHashes # {} /\ FlushFails /\ main' = "off"
    /\ UNCHANGED <<bitmap, writes, writer, seg, claims, tries, runs>>

(* Finish: a last flush without a cursor ... *)
FinishFlush ==
    /\ main = "finish"
    /\ \/ /\ disk' = Written(disk, bl.ops)
          /\ bl' = [ops |-> <<>>, progress |-> NoProgress]
          /\ main' = "mark" /\ UNCHANGED fails
       \/ bl.ops # <<>> /\ FlushFails /\ main' = "off"
    /\ UNCHANGED <<bitmap, writes, writer, seg, claims, tries, runs>>

(* ... and, when no queue row is left, the watermark; Run returns. *)
MarkComplete ==
    /\ main = "mark"
    /\ disk' = IF disk.queue # {} THEN disk
               ELSE [disk EXCEPT !.bits = {}, !.complete = TRUE]
    /\ main' = "off"
    /\ UNCHANGED <<bl, bitmap, writes, writer, seg, claims, tries, runs, fails>>

(* The process dies, or a peer error or a cancelled context ends Run. *)
Stop ==
    /\ main # "off" /\ runs < MaxRuns
    /\ main' = "off" /\ writes' = <<>>
    /\ UNCHANGED <<disk, bl, bitmap, writer, seg, claims, tries, runs, fails>>
-----------------------------------------------------------------------------
LoadInit ==
    /\ disk = [acct |-> {}, code |-> {}, queue |-> {}, slots |-> {},
               bits |-> {}, complete |-> FALSE]
    /\ bl = [ops |-> <<>>, progress |-> NoProgress] /\ bitmap = {}
    /\ writes = <<>> /\ writer = "run" /\ main = "off"
    /\ seg = [s \in Segs |-> [pc |-> "done", start |-> 0, keys |-> {},
                              rows |-> {}, last |-> FALSE]]
    /\ claims = {} /\ tries = [a \in {} |-> "walk"]
    /\ runs = 0 /\ fails = 0

SegStep(s) ==
    \/ Fetch(s) \/ EnqueueRow(s) \/ Handled(s) \/ EnqueueFinal(s)
    \/ \E a \in Accounts : Handle(s, a)

WriterStep == Apply \/ ApplyFails \/ Final \/ Barrier \/ DrainWrites

MainStep ==
    \/ Start \/ Fence \/ ScanQueue \/ CloseWrites \/ ReturnError
    \/ LastFlush \/ CodeSweep \/ FinishFlush \/ MarkComplete

LoadNext ==
    \/ WriterStep \/ MainStep \/ Stop
    \/ \E s \in Segs : SegStep(s)
    \/ \E a \in DOMAIN tries : Drain(a)

LoadSpec == LoadInit /\ [][LoadNext]_loadVars

(* Every goroutine runs, peers answer in the end (the client retries), and *)
(* the operator runs a stopped loader again.                               *)
FairLoadSpec ==
    /\ LoadSpec
    /\ WF_loadVars(WriterStep) /\ WF_loadVars(MainStep)
    /\ \A s \in Segs : WF_loadVars(SegStep(s))
    /\ \A a \in Stored : WF_loadVars(a \in DOMAIN tries /\ Drain(a))
-----------------------------------------------------------------------------
(***************************************************************************)
(* Properties.                                                             *)
(***************************************************************************)

(***************************************************************************)
(* "it can never run ahead of the flushed rows" (SetProgress): a segment   *)
(* whose bit is committed has all its accounts committed, also after a     *)
(* failed commit threw buffered rows away.                                 *)
(***************************************************************************)
ProgressBehindRows == \A s \in disk.bits : SegAccounts(s) \subseteq disk.acct

(***************************************************************************)
(* "baseline rows commit in ascending order per segment, so this is the    *)
(* segment's durable watermark" (MaxBaseAccountWithPrefix): below a        *)
(* committed account of a segment every account of it is committed.        *)
(***************************************************************************)
WatermarkSound ==
    \A a \in disk.acct, b \in Accounts : b < a /\ SegOf[a] = SegOf[b] => b \in disk.acct

(***************************************************************************)
(* "a committed account row then implies its queue row is durable"         *)
(* (QueueStorage): a resumed run, which never fetches a committed account  *)
(* again, still finds its storage in the queue unless the storage is       *)
(* committed.                                                              *)
(***************************************************************************)
StorageQueued == disk.acct \cap Stored \subseteq disk.queue \cup disk.slots

(***************************************************************************)
(* A claim is never lost (handleAccount's codeClaims): the goroutine that  *)
(* relies on another's claim may commit first and the run may end there,   *)
(* yet when the walk is over no code is missing and codeSweep finds        *)
(* nothing to do.                                                          *)
(***************************************************************************)
ClaimsKept == main = "sweep" => MissingCodeHashes = {}

(***************************************************************************)
(* The watermark baseline_complete is never set over a hole: all accounts, *)
(* all storage and all code are committed, wherever earlier runs ended.    *)
(***************************************************************************)
BaselineWhole ==
    disk.complete => /\ disk.acct = Accounts /\ disk.slots = Stored
                     /\ disk.code = Codes /\ disk.queue = {}

(***************************************************************************)
(* The load gets done unless a commit fails: Run's goroutines, the bounded *)
(* channel and the barrier never wait for each other for ever, and a       *)
(* stopped run resumes.                                                    *)
(***************************************************************************)
Completes == <>(disk.complete \/ fails > 0)

(***************************************************************************)
(* A run whose writer gave up returns ("drain so workers never block"):    *)
(* nobody goes on waiting for it.                                          *)
(***************************************************************************)
RunReturns == writer = "failed" ~> main = "off"
=============================================================================
