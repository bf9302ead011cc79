------------------------------- MODULE Reader -------------------------------
(***************************************************************************)
(* A bot process beside the follower: it opens the main environment and    *)
(* the tip bus read-only, rebuilds mem.State from the bus (the follow loop *)
(* of cmd/simbench) and runs batches of calls over it (package engine).    *)
(* Its two goroutines share one RWMutex: a batch holds it for reading, the *)
(* follow loop for writing, and as in Go a waiting writer keeps new        *)
(* readers out.  The follower's commits interleave with every step here.   *)
(***************************************************************************)
EXTENDS Node

CONSTANT Execs       \* number of executors, each with its side buffer

VARIABLES
    rst,     \* the bot's mem.State
    sbs,     \* the executors' side buffers
    fol,     \* follow: [on, cur, next, events, lock]
    bat,     \* Engine.Execute: [pc, stamp, exact]
    seen     \* ghost: which opening of the bus the bot attached to

botVars == <<rst, sbs, fol, bat, seen>>
allVars == <<vars, botVars>>

ASSUME ReaderAssumption == Execs \in Nat \ {0}

(* How often the writer has opened, and truncated, the bus. *)
Openings == IF pc = "down" THEN crashes ELSE crashes + 1

EmptyBuffers == [w \in 1..Execs |-> EmptyMap]

NoBatch == [pc |-> "idle", stamp |-> None, exact |-> TRUE]
-----------------------------------------------------------------------------
(***************************************************************************)
(* The follow goroutine.                                                   *)
(***************************************************************************)

(* Mutant: the bot polls from the first event, not from the handshake's seq. *)
AttachFromStart ==
    /\ ~fol.on
    /\ Openings > 0
    /\ rst' = PreferenceReset(NewState, bus.layers)
    /\ fol' = [on |-> TRUE, cur |-> 0, next |-> 0, events |-> <<>>, lock |-> FALSE]
    /\ seen' = Openings
    /\ UNCHANGED <<vars, sbs, bat>>

(* Handshake: the layers and the seq of one snapshot, each layer applied. *)
Attach ==
    /\ ~fol.on
    /\ Openings > 0
    /\ rst' = PreferenceReset(NewState, bus.layers)
    /\ fol' = [on |-> TRUE, cur |-> Len(bus.log), next |-> Len(bus.log),
               events |-> <<>>, lock |-> FALSE]
    /\ seen' = Openings
    /\ UNCHANGED <<vars, sbs, bat>>

(* Mutant: the newest event is left for the next poll. *)
PollShort ==
    /\ fol.on /\ fol.events = <<>>
    /\ Len(bus.log) # fol.cur
    /\ fol' = [fol EXCEPT !.events = SubSeq(bus.log, fol.cur + 1, Len(bus.log) - 1),
                          !.next = Len(bus.log) - 1]
    /\ UNCHANGED <<vars, rst, sbs, bat, seen>>

(* Poll: the events from cur on; none when seq has not grown beyond cur. *)
Poll ==
    /\ fol.on /\ fol.events = <<>>
    /\ Len(bus.log) # fol.cur
    /\ fol' = [fol EXCEPT !.events = SubSeq(bus.log, fol.cur + 1, Len(bus.log)),
                          !.next = IF Len(bus.log) > fol.cur
                                   THEN Len(bus.log) ELSE fol.cur]
    /\ UNCHANGED <<vars, rst, sbs, bat, seen>>

(* lockAndDrain asks for the write lock. *)
WantLock ==
    /\ fol.events # <<>> /\ ~fol.lock
    /\ fol' = [fol EXCEPT !.lock = TRUE]
    /\ UNCHANGED <<vars, rst, sbs, bat, seen>>

(* Mutant: the side buffers drain after the event was applied. *)
DrainLast ==
    /\ fol.lock /\ bat.pc # "run"
    /\ LET ev == Head(fol.events)
           s == CASE ev.kind = "block" -> ApplyBlock(rst, Head(ev.es))
                  [] ev.kind = "final" -> Finalize(rst, ev.blk)
                  [] ev.kind = "reset" -> PreferenceReset(rst, ev.es)
       IN  /\ rst' = Drain(s, sbs)
           /\ fol' = [fol EXCEPT !.events = Tail(fol.events), !.lock = FALSE,
                                 !.cur = IF Len(fol.events) = 1 THEN fol.next ELSE fol.cur]
    /\ sbs' = EmptyBuffers
    /\ UNCHANGED <<vars, bat, seen>>

(***************************************************************************)
(* One event in its write phase: the buffers drain into the base first.  A *)
(* finalize that does not match makes the loop take the whole stack from a *)
(* new handshake; the events it has polled already stay in its list.       *)
(***************************************************************************)
ApplyEvent ==
    /\ fol.lock /\ bat.pc # "run"
    /\ LET ev == Head(fol.events)
           s == Drain(rst, sbs)
           resync == ev.kind = "final" /\ ~OldestIs(s.layers, ev.blk)
           next == IF resync THEN Len(bus.log) ELSE fol.next
       IN  /\ rst' = IF resync THEN PreferenceReset(s, bus.layers)
                     ELSE CASE ev.kind = "block" -> ApplyBlock(s, Head(ev.es))
                            [] ev.kind = "final" -> Finalize(s, ev.blk)
                            [] ev.kind = "reset" -> PreferenceReset(s, ev.es)
           /\ fol' = [fol EXCEPT !.events = Tail(fol.events), !.next = next,
                                 !.lock = FALSE,
                                 !.cur = IF Len(fol.events) = 1 THEN next ELSE fol.cur]
    /\ sbs' = EmptyBuffers
    /\ UNCHANGED <<vars, bat, seen>>
-----------------------------------------------------------------------------
(***************************************************************************)
(* A batch.  exact is a ghost: every value read so far was the one at the  *)
(* end of the stamp's block.  No batch runs before the state has a tip     *)
(* (cmd/simbench waits for it).                                            *)
(***************************************************************************)
BeginBatch ==
    /\ bat.pc \in {"idle", "done"} /\ rst.tip # None /\ ~fol.lock
    /\ bat' = [pc |-> "run", stamp |-> rst.tip, exact |-> TRUE]
    /\ UNCHANGED <<vars, rst, sbs, fol, seen>>

Served(ok) == [bat EXCEPT !.exact = bat.exact /\ ok]

(* The owner of a pinned slot is pinned by a second LMDB read. *)
OwnerMissing(w, a) ==
    /\ rst.base.acct[a] = None /\ sbs[w].acct[a] = None
    /\ \E s \in Slot : sbs[w].slot[a][s] # None

PinOwner(w, a) ==
    /\ bat.pc = "run" /\ OwnerMissing(w, a)
    /\ sbs' = [sbs EXCEPT ![w].acct[a] = Latest(disk).acct[a]]
    /\ UNCHANGED <<vars, rst, fol, bat, seen>>

Busy(w) == \E a \in Addr : OwnerMissing(w, a)

ReadAccount(w, a) ==
    /\ bat.pc = "run" /\ ~Busy(w)
    /\ LET found == Account(rst, sbs[w], a)
           value == Else(found, Latest(disk).acct[a])
       IN  /\ bat' = Served(value = WorldOf[rst.tip].acct[a])
           /\ sbs' = IF found # None THEN sbs ELSE [sbs EXCEPT ![w].acct[a] = value]
    /\ UNCHANGED <<vars, rst, fol, seen>>

ReadSlot(w, a, s) ==
    /\ bat.pc = "run" /\ ~Busy(w)
    /\ LET found == SlotValue(rst, sbs[w], a, s)
           value == Else(found, Latest(disk).slot[a][s])
       IN  /\ bat' = Served(value = WorldOf[rst.tip].slot[a][s])
           /\ sbs' = IF found # None THEN sbs ELSE [sbs EXCEPT ![w].slot[a][s] = value]
    /\ UNCHANGED <<vars, rst, fol, seen>>

EndBatch ==
    /\ bat.pc = "run" /\ \A w \in 1..Execs : ~Busy(w)
    /\ bat' = [bat EXCEPT !.pc = "check"]
    /\ UNCHANGED <<vars, rst, sbs, fol, seen>>

(* Mutant: the comparison of the stamp is inverted. *)
CheckStampInverted ==
    /\ bat.pc = "check" /\ ~fol.lock
    /\ bat' = IF rst.tip # bat.stamp THEN [bat EXCEPT !.pc = "done", !.stamp = None]
              ELSE NoBatch
    /\ UNCHANGED <<vars, rst, sbs, fol, seen>>

(* Execute compares the stamp with the tip of now and requeues if stale. *)
CheckStamp ==
    /\ bat.pc = "check" /\ ~fol.lock
    /\ bat' = IF rst.tip = bat.stamp THEN [bat EXCEPT !.pc = "done", !.stamp = None]
              ELSE NoBatch
    /\ UNCHANGED <<vars, rst, sbs, fol, seen>>
-----------------------------------------------------------------------------
BotInit ==
    /\ rst = NewState
    /\ sbs = EmptyBuffers
    /\ fol = [on |-> FALSE, cur |-> 0, next |-> 0, events |-> <<>>, lock |-> FALSE]
    /\ bat = NoBatch
    /\ seen = 0

BotNext ==
    \/ Attach \/ Poll \/ WantLock \/ ApplyEvent
    \/ BeginBatch \/ EndBatch \/ CheckStamp
    \/ \E w \in 1..Execs, a \in Addr :
         \/ PinOwner(w, a) \/ ReadAccount(w, a)
         \/ \E s \in Slot : ReadSlot(w, a, s)

NodeStep == Next /\ UNCHANGED botVars

BotSpec == Init /\ BotInit /\ [][NodeStep \/ BotNext]_allVars

(***************************************************************************)
(* The follow loop never stops polling and applying, and a batch that runs *)
(* ends: its calls are bounded and wait for nobody.                        *)
(***************************************************************************)
BotFairSpec ==
    /\ BotSpec
    /\ WF_allVars(Poll) /\ WF_allVars(WantLock) /\ WF_allVars(ApplyEvent)
    /\ WF_allVars(\E w \in 1..Execs, a \in Addr : PinOwner(w, a))
    /\ WF_allVars(EndBatch) /\ WF_allVars(CheckStamp)
    /\ WF_allVars(bat.pc = "idle" /\ BeginBatch)
-----------------------------------------------------------------------------
(***************************************************************************)
(* Properties.  Attached: the writer has not restarted since the bot       *)
(* attached to its bus.                                                    *)
(***************************************************************************)
Attached == fol.on /\ seen = Openings

CaughtUp == fol.events = <<>> /\ fol.cur = Len(bus.log)

(***************************************************************************)
(* The events of the bus rebuild the writer's stack: a bot that has        *)
(* applied all of them has exactly the published layers, wherever in the   *)
(* stream it attached, and no finalize ever fails to match on the way.     *)
(***************************************************************************)
StreamRebuildsStack ==
    Attached =>
      /\ CaughtUp => rst.layers = bus.layers
      /\ fol.events # <<>> /\ Head(fol.events).kind = "final" =>
           OldestIs(rst.layers, Head(fol.events).blk)

(* The last block the bot knows to be final. *)
BotFin ==
    IF rst.layers # <<>> THEN Parent[Head(rst.layers).blk]
    ELSE IF rst.tip # None THEN rst.tip ELSE Root

(* A value that the accepted chain had at some block from x to LMDB's top. *)
SinceAcct(x, a, val) ==
    \E y \in Chain[disk.top] : Height[y] >= Height[x] /\ val = WorldOf[y].acct[a]

SinceSlot(x, a, s, val) ==
    \E y \in Chain[disk.top] : Height[y] >= Height[x] /\ val = WorldOf[y].slot[a][s]

(***************************************************************************)
(* "a concurrent reader miss can never pin a stale value" (sink.go, D7):   *)
(* whatever is pinned, in the base or in a side buffer, was the value at   *)
(* the block the bot holds for final or at a later accepted one, however   *)
(* the bot's misses, drains and folds interleave with the writer.          *)
(***************************************************************************)
PinsNeverStale ==
    Attached /\ ~torn =>
      \A m \in {rst.base} \cup {sbs[w] : w \in 1..Execs}, a \in Addr :
        /\ m.acct[a] # None => SinceAcct(BotFin, a, m.acct[a])
        /\ \A s \in Slot : m.slot[a][s] # None => SinceSlot(BotFin, a, s, m.slot[a][s])

(***************************************************************************)
(* The read path of D8 (layers, base, side buffer, LMDB) gives every key   *)
(* its value at the end of the tip block, for every executor, as long as   *)
(* LMDB holds no block that the bot has not applied.                       *)
(***************************************************************************)
ViewExact ==
    Attached /\ ~torn /\ rst.tip # None /\ disk.top \in Chain[rst.tip] =>
      \A w \in 1..Execs, a \in Addr :
        /\ Else(Account(rst, sbs[w], a), Latest(disk).acct[a])
             = WorldOf[rst.tip].acct[a]
        /\ \A s \in Slot : Else(SlotValue(rst, sbs[w], a, s), Latest(disk).slot[a][s])
                             = WorldOf[rst.tip].slot[a][s]

(***************************************************************************)
(* The bot catches up with the bus: batches that keep the read lock        *)
(* between them never keep the follow loop out for ever.                   *)
(***************************************************************************)
CatchesUp == Attached ~> CaughtUp \/ ~Attached

(***************************************************************************)
(* A batch that starts is served against the tip in the end: the requeues  *)
(* of Engine.Execute and the waiting writer hold it up only while the bus  *)
(* brings new tips.                                                        *)
(***************************************************************************)
BatchReturns == bat.pc = "run" ~> bat.pc = "done"

(***************************************************************************)
(* "A wrong-height answer served silently is the worst failure mode this   *)
(* system can have; every ambiguous read errors instead" (D13): a batch    *)
(* that Execute returns saw the state of the block it is stamped with.     *)
(***************************************************************************)
ServedExact == bat.pc = "done" => bat.exact
=============================================================================
