------------------------------ MODULE History ------------------------------
(***************************************************************************)
(* Two readers of the history while the writer goes on: a replay.Session,  *)
(* which reads keys at its block, keeps them and advances by applying      *)
(* diffs, and a suitecache.Cache, which keeps what it read at one block    *)
(* in a file from run to run.                                              *)
(*                                                                         *)
(* The store answers as HistoryExact of Store says: with the state at the  *)
(* end of the block, the newest one when the block is not written yet, or  *)
(* with an error, which changes nothing.  Two reads at one written block   *)
(* are of the same state, so each call is one step.                        *)
(***************************************************************************)
EXTENDS LazyMap

CONSTANTS
    Genesis,      \* history genesis
    Origin,       \* the world at Genesis
    Batches,      \* the captures a block may come with
    SuiteBlock,   \* the block of the cache
    MaxBlocks     \* bound: blocks written above Genesis

ASSUME HistoryAssumption ==
    /\ Genesis \in Nat /\ MaxBlocks \in Nat /\ SuiteBlock \in Nat
    /\ SuiteBlock >= Genesis
    /\ Origin \in World /\ Batches \subseteq Batch
    /\ \A b \in Batches : Contract(b)

VARIABLES
    written,   \* the 0x04 rows: the diffs of Genesis + 1, ...
    session,   \* [open, block, map]
    cache,     \* [open, db, dirty, map]
    file,      \* the cache file: [block, recs], or NoFile
    early      \* ghost: the readers that read at a block not written yet

historyVars == <<written, session, cache, file, early>>

Closed == [open |-> FALSE, block |-> Genesis, map |-> EmptyMap]
ClosedCache == [open |-> FALSE, db |-> FALSE, dirty |-> FALSE, map |-> EmptyMap]
NoFile == [block |-> -1, recs |-> {}]

Newest == Genesis + Len(written)

(* The states that the diffs of Genesis + 1, ... lead through. *)
Replayed(diffs) ==
    LET world[n \in 0..Len(diffs)] ==
          IF n = 0 THEN Origin ELSE After(world[n - 1], diffs[n])
    IN  world

(* The state at the end of a block; of the newest one for a later block. *)
StateAt(h) == Replayed(written)[Min({h, Newest}) - Genesis]

WriteDiff(b) ==
    /\ Len(written) < MaxBlocks
    /\ written' = Append(written, b)
    /\ UNCHANGED <<session, cache, file, early>>

PinnedAccount(m, a, w) == [m EXCEPT !.acct[a] = Else(@, w.acct[a])]

PinnedSlot(m, a, s, w) == [m EXCEPT !.slot[a][s] = Else(@, w.slot[a][s])]

(* A reader has read at block h. *)
ReadAt(reader, h) == early' = IF h > Newest THEN early \cup {reader} ELSE early
-----------------------------------------------------------------------------
(* replay.Open: the block need not be written. *)
OpenSession(h) ==
    /\ session' = [open |-> TRUE, block |-> h, map |-> EmptyMap]
    /\ early' = early \ {"session"}
    /\ UNCHANGED <<written, cache, file>>

(* Mutant: the session's reads are of the newest state. *)
SessionReadLatest == StateAt(Newest)

SessionRead == StateAt(session.block)

(* Caught up, it returns nothing. *)
NextDiff ==
    /\ session.open /\ session.block < Newest
    /\ session' = [session EXCEPT !.map = Apply(@, written[session.block + 1 - Genesis]),
                                  !.block = @ + 1]
    /\ UNCHANGED <<written, cache, file, early>>

SessionAccount(a) ==
    /\ session.open /\ session.map.acct[a] = None
    /\ session' = [session EXCEPT !.map = PinnedAccount(@, a, SessionRead)]
    /\ ReadAt("session", session.block)
    /\ UNCHANGED <<written, cache, file>>

(* The account is pinned first; one known not to exist has no slots. *)
SessionSlot(a, s) ==
    /\ session.open
    /\ session.map.acct[a] # NoAcct /\ session.map.slot[a][s] = None
    /\ session' = [session EXCEPT
         !.map = PinnedSlot(PinnedAccount(@, a, SessionRead), a, s, SessionRead)]
    /\ ReadAt("session", session.block)
    /\ UNCHANGED <<written, cache, file>>
-----------------------------------------------------------------------------
(* The records of the file; an account that does not exist is blank. *)
Encoded(m) ==
    {[tag |-> "account", a |-> a, exists |-> m.acct[a] # NoAcct,
      acct |-> IF m.acct[a] = NoAcct THEN None ELSE m.acct[a]] :
       a \in {x \in Addr : m.acct[x] # None}}
      \cup {[tag |-> "slot", a |-> k[1], s |-> k[2], v |-> m.slot[k[1]][k[2]]] :
              k \in {x \in Addr \X Slot : m.slot[x[1]][x[2]] # None}}

(* Cache.load *)
Decoded(recs) ==
    [acct |-> [a \in Addr |->
        LET r == {e \in recs : e.tag = "account" /\ e.a = a}
        IN  IF r = {} THEN None
            ELSE LET e == CHOOSE e \in r : TRUE IN IF e.exists THEN e.acct ELSE NoAcct],
     slot |-> [a \in Addr |-> [s \in Slot |->
        LET r == {e \in recs : e.tag = "slot" /\ e.a = a /\ e.s = s}
        IN  IF r = {} THEN None ELSE (CHOOSE e \in r : TRUE).v]]]

(* suitecache.Open, with a store or for a file-only run. *)
OpenCache(db) ==
    /\ ~cache.open
    /\ file = NoFile \/ file.block = SuiteBlock
    /\ cache' = [open |-> TRUE, db |-> db, dirty |-> FALSE, map |-> Decoded(file.recs)]
    /\ UNCHANGED <<written, session, file, early>>

(* Mutant: the cache reads the newest state. *)
CacheReadLatest == StateAt(Newest)

CacheRead == StateAt(SuiteBlock)

CacheAccount(a) ==
    /\ cache.open /\ cache.map.acct[a] = None /\ cache.db
    /\ cache' = [cache EXCEPT !.map = PinnedAccount(@, a, CacheRead), !.dirty = TRUE]
    /\ ReadAt("cache", SuiteBlock)
    /\ UNCHANGED <<written, session, file>>

CacheSlot(a, s) ==
    /\ cache.open /\ cache.map.slot[a][s] = None /\ cache.db
    /\ cache' = [cache EXCEPT !.map = PinnedSlot(@, a, s, CacheRead), !.dirty = TRUE]
    /\ ReadAt("cache", SuiteBlock)
    /\ UNCHANGED <<written, session, file>>

(* Cache.Close: the file is replaced by a rename. *)
CloseCache ==
    /\ cache.open
    /\ file' = IF cache.dirty THEN [block |-> SuiteBlock, recs |-> Encoded(cache.map)]
               ELSE file
    /\ cache' = ClosedCache
    /\ UNCHANGED <<written, session, early>>

(* The readers' process dies, before the rename if it was in Close. *)
ReaderDies ==
    /\ cache.open \/ session.open
    /\ cache' = ClosedCache /\ session' = Closed
    /\ UNCHANGED <<written, file, early>>
-----------------------------------------------------------------------------
HistoryInit ==
    /\ written = <<>> /\ session = Closed /\ cache = ClosedCache
    /\ file = NoFile /\ early = {}

HistoryNext ==
    \/ \E b \in Batches : WriteDiff(b)
    \/ \E h \in Genesis..(Genesis + MaxBlocks) : OpenSession(h)
    \/ NextDiff
    \/ \E a \in Addr : SessionAccount(a) \/ CacheAccount(a)
    \/ \E a \in Addr, s \in Slot : SessionSlot(a, s) \/ CacheSlot(a, s)
    \/ \E db \in BOOLEAN : OpenCache(db)
    \/ CloseCache \/ ReaderDies

HistorySpec == HistoryInit /\ [][HistoryNext]_historyVars
-----------------------------------------------------------------------------
Agrees(m, w) ==
    \A a \in Addr :
      /\ m.acct[a] \in {None, w.acct[a]}
      /\ \A s \in Slot : m.slot[a][s] \in {None, w.slot[a][s]}

(***************************************************************************)
(* "Same apply code and miss path as live": what a session keeps is the    *)
(* state at its block, however reads, diffs and the live writer            *)
(* interleave, if the block it was opened at was written when it read.     *)
(***************************************************************************)
SessionExact ==
    session.open /\ "session" \notin early => Agrees(session.map, StateAt(session.block))

(***************************************************************************)
(* "State at a fixed height never changes, so there is no invalidation":   *)
(* what the cache holds, through its file and over crashes of the process  *)
(* that keeps it, is the state at its block, if that block was written     *)
(* whenever the cache read.                                                *)
(***************************************************************************)
CacheExact ==
    cache.open /\ "cache" \notin early => Agrees(cache.map, StateAt(SuiteBlock))
=============================================================================
