------------------------------ MODULE Backfill ------------------------------
(***************************************************************************)
(* The engine's way to its live phase: polls of the validators until       *)
(* enough of them report the same accepted container (the anchor), then    *)
(* the containers from the anchor down to the resume point, fetched from   *)
(* any peer that answers, then the execution of the gap upwards.           *)
(*                                                                         *)
(* The network is external.  Requests are answered in any order; answers   *)
(* may be short, useless or garbled, and come after their timeout; gossip  *)
(* comes in between.  What can happen without bound but does not help (a   *)
(* useless answer, a timeout, gossip, no peer to ask) is counted.          *)
(***************************************************************************)
EXTENDS Containers

CONSTANTS
    Resumes,          \* Config.Resume: None or [height, hash], hash None if unknown
    HeaderBackfill,   \* 0: no SeedHeaders
    Reports,          \* external: what each validator may report as accepted
    MaxAnswer,        \* external: the longest answer to GetAncestors
    MaxNoise          \* bound: events that do not help

VARIABLES
    phase,
    resume,    \* where the store stands
    bsVotes,   \* answers to the bootstrap poll: Peer -> container or None
    anchor,    \* anchorID
    low,       \* bfLow; with anchor it determines bfChain
    req,       \* bfReqID, 0 for none
    flight,    \* external: requests for ancestors not answered yet
    noise,     \* bound counter
    seeded,    \* what SeedHeaders was given
    sunk       \* what was executed and accepted by the sink, in order

bfVars == <<phase, resume, bsVotes, anchor, low, req, flight, noise, seeded, sunk>>

ASSUME BackfillAssumption ==
    /\ HeaderBackfill \in Nat /\ MaxNoise \in Nat /\ MaxAnswer \in Nat \ {0}
    /\ None \notin Resumes \ {None}
    /\ \A n \in Peer : \A c \in Reports[n] : Chain[c] \cap Mismatched = {}

Ids == 1..(MaxNoise + 2)

(* Mutant: the window of headers is forgotten. *)
TargetWithoutHeaders ==
    IF resume = None THEN Height[anchor] ELSE resume.height

(* backfillTarget *)
Target ==
    IF resume = None THEN Height[anchor]
    ELSE IF resume.height < HeaderBackfill THEN resume.height
    ELSE resume.height - HeaderBackfill

(* bfChain, once it reaches down to l. *)
Fetched(l) == {c \in Chain[anchor] : Height[c] >= Height[l]}

AtHeight(chain, h) == {c \in chain : Height[c] = h}
-----------------------------------------------------------------------------
Noise == noise < MaxNoise /\ noise' = noise + 1

(* sendBackfillRequest, to some peer: a fresh ID replaces the one in use. *)
SendRequest(l, inFlight) ==
    LET i == CHOOSE i \in Ids : i # req /\ i \notin inFlight
    IN  req' = i /\ flight' = IF l = None THEN inFlight ELSE inFlight \cup {i}

(* sendBootstrapPoll, for the first time or again. *)
SendBootstrapPoll ==
    /\ phase = "anchor"
    /\ bsVotes' = [n \in Peer |-> None]
    /\ UNCHANGED <<phase, resume, anchor, low, req, flight, noise, seeded, sunk>>

(* bootstrapChit; nobody may be there to be asked for the anchor. *)
BootstrapChit(n, c, asks) ==
    /\ phase = "anchor" /\ bsVotes[n] = None
    /\ bsVotes' = [bsVotes EXCEPT ![n] = c]
    /\ IF Cardinality({m \in Peer : bsVotes'[m] = c}) < AlphaPreference
       THEN UNCHANGED <<phase, anchor, req, flight>>
       ELSE /\ phase' = "backfill" /\ anchor' = c
            /\ IF asks THEN SendRequest(None, {}) ELSE UNCHANGED <<req, flight>>
    /\ UNCHANGED <<resume, low, noise, seeded, sunk>>
-----------------------------------------------------------------------------
(* Mutant: the hash in the store is not compared. *)
FitsAnyHash(chain) ==
    resume # None => AtHeight(chain, resume.height) # {}

(* The fetched chain holds the block the store stands on; if not, the *)
(* engine fails and the follower halts.                                 *)
Fits(chain) ==
    resume # None =>
      \E c \in AtHeight(chain, resume.height) : resume.hash \in {None, c}

Ascending(chain) == SetToSortSeq(chain, LAMBDA c, d : Height[c] < Height[d])

(* finishBootstrap, with the chain fetched down to l. *)
FinishBootstrap(l) ==
    LET chain == Fetched(l)
        start == IF resume = None THEN Height[l] ELSE resume.height
    IN  IF ~Fits(chain)
        THEN phase' = "fatal" /\ UNCHANGED <<seeded, sunk>>
        ELSE /\ phase' = "executed"
             /\ seeded' = IF HeaderBackfill = 0 THEN {} ELSE {c \in chain : Height[c] <= start}
             /\ sunk' = Ascending({c \in chain : Height[c] > start})

(* Mutant: the genesis block does not end the walk. *)
ReachedTarget(l) == Height[l] = Target

Reached(l) == Height[l] = Target \/ Height[l] = 0

Ends(l) == l \notin {None, low} /\ Reached(l)

(***************************************************************************)
(* The chain reaches down to l now: it is finished, or more is asked for.  *)
(* When nobody can be asked, old is left as the request in use.            *)
(***************************************************************************)
ReachDown(l, inFlight, asks, old) ==
    /\ low' = l
    /\ \/ /\ Ends(l)
          /\ FinishBootstrap(l)
          /\ req' = 0 /\ flight' = inFlight
       \/ /\ ~Ends(l)
          /\ IF asks THEN SendRequest(l, inFlight) ELSE req' = old /\ flight' = inFlight
          /\ UNCHANGED <<phase, seeded, sunk>>

(* backfillContainer takes the anchor, then only the parent of the lowest. *)
Links(c) ==
    IF low = None THEN c = anchor
    ELSE low # Genesis /\ low \notin Mismatched /\ c = Parent[low]

(* A container comes: the answer to Get, or gossip. *)
BackfillContainer(c, asks) ==
    /\ phase = "backfill"
    /\ IF low = None /\ c = anchor /\ asks THEN UNCHANGED noise ELSE Noise
    /\ ReachDown(IF Links(c) THEN c ELSE low, flight, asks, req)
    /\ UNCHANGED <<resume, bsVotes, anchor>>

(* The container k steps below the lowest one, or where the walk ends. *)
Below(k) ==
    LET ends == {c \in Chain[low] \ {low} : Reached(c) \/ Height[c] = Height[low] - k}
    IN  CHOOSE c \in ends : \A d \in ends : Height[d] <= Height[c]

(***************************************************************************)
(* An answer with k containers that link.  After them nothing more is      *)
(* asked for when the next one is garbled, or when nobody can be asked.    *)
(***************************************************************************)
OnAncestors(i, k, asks) ==
    /\ phase = "backfill" /\ i \in flight
    /\ k <= Height[low]
    /\ IF i = req /\ k > 0 /\ asks THEN UNCHANGED noise ELSE Noise
    /\ \/ /\ i # req
          /\ flight' = flight \ {i}
          /\ UNCHANGED <<phase, low, req, seeded, sunk>>
       \/ /\ i = req
          /\ ReachDown(IF k = 0 THEN low ELSE Below(k), flight \ {i}, asks, 0)
    /\ UNCHANGED <<resume, bsVotes, anchor>>

(* No answer can come any more: nothing was asked for, or only for what came. *)
Unanswerable == req = 0 \/ (low # None /\ req \notin flight)

(* Tick asks again when nothing is asked for, or after the timeout. *)
Retry ==
    /\ phase = "backfill"
    /\ IF Unanswerable THEN UNCHANGED noise ELSE Noise
    /\ SendRequest(low, flight)
    /\ UNCHANGED <<phase, resume, bsVotes, anchor, low, seeded, sunk>>
-----------------------------------------------------------------------------
BackfillInit ==
    /\ phase = "anchor" /\ resume \in Resumes
    /\ bsVotes = [n \in Peer |-> None] /\ anchor = None /\ low = None
    /\ req = 0 /\ flight = {} /\ noise = 0 /\ seeded = {} /\ sunk = <<>>

BackfillNext ==
    \/ SendBootstrapPoll
    \/ \E n \in Peer, asks \in BOOLEAN : \E c \in Reports[n] : BootstrapChit(n, c, asks)
    \/ \E c \in Container, asks \in BOOLEAN : BackfillContainer(c, asks)
    \/ \E i \in flight, k \in 0..MaxAnswer, asks \in BOOLEAN : OnAncestors(i, k, asks)
    \/ Retry
-----------------------------------------------------------------------------
(***************************************************************************)
(* finishBootstrap hands over to the live phase only if the block on which *)
(* the store stands is on the chain of the anchor, and then has executed   *)
(* exactly the blocks between them, parents first: however the answers     *)
(* came, nothing is skipped and nothing is executed twice.                 *)
(***************************************************************************)
GapExecuted ==
    phase = "executed" =>
      /\ resume # None /\ resume.hash # None => Leads(resume.hash, anchor)
      /\ LET from == IF resume = None THEN Height[anchor] ELSE resume.height
         IN  /\ from + Len(sunk) = Height[anchor]
             /\ \A i \in DOMAIN sunk :
                  Leads(sunk[i], anchor) /\ Height[sunk[i]] = from + i

(***************************************************************************)
(* Before the first block is executed, SeedHeaders gets every header in    *)
(* the window below the resume point (what BLOCKHASH may ask for), or all  *)
(* down to the genesis if there are fewer.                                 *)
(***************************************************************************)
HeadersSeeded ==
    phase = "executed" /\ HeaderBackfill > 0 /\ resume # None /\ resume.height >= HeaderBackfill =>
      \A c \in Chain[anchor] :
        Height[c] \in (resume.height - HeaderBackfill)..resume.height => c \in seeded
=============================================================================
