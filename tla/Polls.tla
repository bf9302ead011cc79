------------------------------- MODULE Polls -------------------------------
(***************************************************************************)
(* The live phase of the consensus engine: containers come in, are issued  *)
(* once their parent is, and polls of sampled validators decide.  Every    *)
(* entry point takes the engine's mutex, so a handler runs to its end      *)
(* before the next one starts; inside a handler the votes it applies and   *)
(* the polls it thereby ends are steps of their own.                       *)
(*                                                                         *)
(* External: poll.Set (a poll ends with its outcome, and ended polls leave *)
(* the set oldest first) and snowman.Topological (a poll with              *)
(* AlphaConfidence behind a child of the last accepted block may accept    *)
(* it, however many polls it takes).  Containers and answers may be lost,  *)
(* late, repeated or reordered: any container may come at any time, asked  *)
(* for or not, a sampled validator may answer at any time until its poll   *)
(* expires, and anybody may send a late answer.                            *)
(***************************************************************************)
EXTENDS Containers

CONSTANTS
    Req,                \* bound: request IDs in use at a time
    ConcurrentRepolls,
    Samples,            \* external: what SampleValidators returns, a list of K peers
    Answers             \* external: the Chits of each peer, <<preferred, at height, accepted>>

VARIABLES
    acc,         \* lastAcceptedID
    recs,        \* known containers that are not decided
    issued,      \* those of them that consensus is processing
    waiting,     \* pendingByPa, as pairs <<parent, child>>
    parked,      \* votes blocked on an unknown container
    frontiers,   \* what each peer last said it had accepted
    polls,       \* poll.Set, oldest first: [req, sample, votes]
    remaining,   \* pollVdrs: who may still answer a poll
    todo,        \* votes the handler in progress has still to apply
    results,     \* ended polls the handler has still to record
    stage        \* "idle", or what Tick has still to do

containerVars == <<acc, recs, issued, waiting>>
pollVars == <<polls, remaining>>
voteVars == <<parked, frontiers, todo, results>>
liveVars == <<containerVars, pollVars, voteVars, stage>>

Idle == stage = "idle" /\ todo = {} /\ results = <<>>

Vote(r, n, options, park) == [req |-> r, node |-> n, options |-> options, park |-> park]
-----------------------------------------------------------------------------
(***************************************************************************)
(* bubble: up from id to the first block that consensus knows, or that is  *)
(* unknown, or that lies on a stale fork.                                  *)
(***************************************************************************)
Stops(id) ==
    {x \in Chain[id] : x = acc \/ x \in issued \/ x \notin recs \/ Height[x] <= Height[acc]}

Bubble(id) == CHOOSE x \in Stops(id) : \A y \in Stops(id) : Height[y] <= Height[x]

Counts(id) == Bubble(id) = acc \/ Bubble(id) \in issued

Blocked(id) == ~Counts(id) /\ Bubble(id) \notin recs

(* The vote of a peer: its first option that counts, else its frontier. *)
Candidates(v) ==
    SelectSeq(v.options \o <<frontiers[v.node]>>, LAMBDA id : id # None /\ Counts(id))
-----------------------------------------------------------------------------
(***************************************************************************)
(* External: poll.Set.                                                     *)
(***************************************************************************)
Sampled(p) == {p.sample[i] : i \in DOMAIN p.sample}

(* How often the peers in ns are in the sample. *)
Weight(p, ns) == Cardinality({i \in DOMAIN p.sample : p.sample[i] \in ns})

(* The outcome of a vote that has nothing to count for. *)
Dropped == "dropped"

Support(p, x) ==
    Weight(p, {n \in Peer : p.votes[n] \in Container /\ Leads(x, p.votes[n])})

Pending(p) == Weight(p, {n \in Peer : p.votes[n] = None})

(* All answers are in, or some block has enough, or none can have any more. *)
Ended(p) ==
    \/ Pending(p) = 0
    \/ \E x \in Container : Support(p, x) >= AlphaConfidence
    \/ \A x \in Container : Support(p, x) + Pending(p) < AlphaPreference

(* The ended polls at the old end of the set. *)
Released(ps) ==
    CHOOSE k \in 0..Len(ps) :
      /\ \A i \in 1..k : Ended(ps[i])
      /\ k < Len(ps) => ~Ended(ps[k + 1])

(* Vote or Drop: an unknown request and a second vote are ignored. *)
Record(v, ballot) ==
    LET ps == [i \in DOMAIN polls |->
                 IF /\ polls[i].req = v.req /\ v.node \in Sampled(polls[i])
                    /\ polls[i].votes[v.node] = None
                 THEN [polls[i] EXCEPT !.votes[v.node] = ballot]
                 ELSE polls[i]]
        k == Released(ps)
    IN  /\ results' = SubSeq(ps, 1, k)
        /\ polls' = SubSeq(ps, k + 1, Len(ps))
-----------------------------------------------------------------------------
(***************************************************************************)
(* Votes.                                                                  *)
(***************************************************************************)

(* A sampled validator answers, or a late or unsolicited answer comes in. *)
OnChits(n, r, chit) ==
    /\ Idle
    /\ frontiers' = [frontiers EXCEPT ![n] = chit[3]]
    /\ \/ /\ n \notin remaining[r]
          /\ UNCHANGED <<remaining, todo>>
       \/ /\ n \in remaining[r]
          /\ remaining' = [remaining EXCEPT ![r] = @ \ {n}]
          /\ todo' = {Vote(r, n, <<chit[1], chit[2]>>, TRUE)}
    /\ UNCHANGED <<acc, recs, issued, waiting, polls, parked, results, stage>>

(* applyVote: park the vote on what blocks its highest option, or count it. *)
ApplyVote(v) ==
    /\ v \in todo /\ results = <<>>
    /\ todo' = todo \ {v}
    /\ \/ /\ v.park /\ Blocked(v.options[1])
          /\ parked' = parked \cup {[on |-> Bubble(v.options[1]), vote |-> v]}
          /\ UNCHANGED <<polls, results>>
       \/ /\ ~(v.park /\ Blocked(v.options[1]))
          /\ Record(v, IF Candidates(v) = <<>> THEN Dropped ELSE Bubble(Candidates(v)[1]))
          /\ UNCHANGED parked
    /\ UNCHANGED <<acc, recs, issued, waiting, remaining, frontiers, stage>>

(***************************************************************************)
(* recordPolls: RecordPoll accepts any number of blocks, one after the     *)
(* other; each acceptance decides its rivals and whatever is not higher.   *)
(***************************************************************************)
Rivals(b) == {x \in issued : ~Leads(b, x)}

(* Mutant: only what consensus decides is forgotten. *)
UndecidedOrLow(b) == recs \ (Rivals(b) \cup {b})

(* What is left of recs: a container that was not issued must be higher. *)
Undecided(b) == {x \in recs \ (Rivals(b) \cup {b}) : x \in issued \/ Height[x] > Height[b]}

Accept(b) ==
    /\ results # <<>> /\ b \in issued /\ Parent[b] = acc
    /\ Support(Head(results), b) >= AlphaConfidence
    /\ acc' = b
    /\ issued' = issued \ (Rivals(b) \cup {b})
    /\ recs' = Undecided(b)
    /\ waiting' = {w \in waiting : w[1] \notin Rivals(b)}
    /\ UNCHANGED <<pollVars, voteVars, stage>>

PollRecorded ==
    /\ results # <<>>
    /\ results' = Tail(results)
    /\ UNCHANGED <<containerVars, pollVars, parked, frontiers, todo, stage>>
-----------------------------------------------------------------------------
(***************************************************************************)
(* Containers.                                                             *)
(***************************************************************************)

(* What issuing c drains: the children that wait for it, and theirs. *)
Drained(c) ==
    {x \in recs : /\ c \in Chain[x]
                  /\ \A y \in Chain[x] \ Chain[c] :
                       y \in recs /\ <<Parent[y], y>> \in waiting /\ Parent[y] \notin Mismatched}

(* tryIssue: a mismatched container is dropped, its children go on waiting. *)
TryIssue(c) ==
    LET new == (Drained(c) \cup {c}) \ Mismatched
    IN  \/ /\ Parent[c] = acc \/ Parent[c] \in issued
           /\ issued' = issued \cup new
           /\ recs' = (recs \cup {c}) \ (Mismatched \cap (Drained(c) \cup {c}))
           /\ waiting' = {w \in waiting : w[1] \notin new}
        \/ /\ Parent[c] # acc /\ Parent[c] \notin issued
           /\ recs' = recs \cup {c}
           /\ waiting' = waiting \cup {<<Parent[c], c>>}
           /\ UNCHANGED issued

(* Mutant: the votes for the parent are looked up. *)
ParkedOnParent(c) == {p \in parked : p.on = Parent[c]}

ParkedOn(c) == {p \in parked : p.on = c}

(* addContainer; the votes parked on the container are tried again. *)
AddContainer(c) ==
    /\ Idle
    /\ \/ /\ c \in recs \/ Height[c] <= Height[acc]
          /\ UNCHANGED <<recs, issued, waiting, parked, todo>>
       \/ /\ c \notin recs /\ Height[c] > Height[acc]
          /\ TryIssue(c)
          /\ parked' = parked \ ParkedOn(c)
          /\ todo' = {[p.vote EXCEPT !.park = FALSE] : p \in ParkedOn(c)}
    /\ UNCHANGED <<acc, pollVars, frontiers, results, stage>>
-----------------------------------------------------------------------------
(***************************************************************************)
(* Tick: expirePolls and expireParked, then a poll.  The requests in rs    *)
(* and the parked votes in vs are past their deadline;                     *)
(* deadlines of polls pass in the order in which the polls were sent.      *)
(***************************************************************************)
ExpiredPolls(rs) ==
    {Vote(x[1], x[2], <<>>, FALSE) : x \in {y \in rs \X Peer : y[2] \in remaining[y[1]]}}

(* Mutant: expireParked forgets the votes it removes. *)
LostParked(vs) == {}

ExpiredParked(vs) == {Vote(p.vote.req, p.vote.node, <<>>, FALSE) : p \in vs}

Tick(rs, vs) ==
    /\ Idle
    /\ \A i, j \in DOMAIN polls : i < j /\ polls[j].req \in rs => polls[i].req \in rs
    /\ remaining' = [r \in Req |-> IF r \in rs THEN {} ELSE remaining[r]]
    /\ parked' = parked \ vs
    /\ todo' = ExpiredPolls(rs) \cup ExpiredParked(vs)
    /\ stage' = "tick"
    /\ UNCHANGED <<containerVars, polls, frontiers, results>>

InUse ==
    {polls[i].req : i \in DOMAIN polls} \cup {r \in Req : remaining[r] # {}}
      \cup {v.vote.req : v \in parked}

(* sendPoll: a validator that is not connected votes with its frontier. *)
SendPoll(sample, connected) ==
    /\ stage = "tick" /\ todo = {} /\ results = <<>>
    /\ issued # {} => Len(polls) < ConcurrentRepolls
    /\ InUse # Req
    /\ LET r == CHOOSE x \in Req \ InUse : TRUE
           p == [req |-> r, sample |-> sample, votes |-> [n \in Peer |-> None]]
       IN  /\ connected \subseteq Sampled(p)
           /\ polls' = Append(polls, p)
           /\ remaining' = [remaining EXCEPT ![r] = connected]
           /\ todo' = {Vote(r, n, <<>>, FALSE) : n \in Sampled(p) \ connected}
    /\ stage' = "idle"
    /\ UNCHANGED <<acc, recs, issued, waiting, parked, frontiers, results>>

(* Sampling fails, or (a bound of the model) all request IDs are in use. *)
NoPoll ==
    /\ stage = "tick" /\ todo = {} /\ results = <<>>
    /\ stage' = "idle"
    /\ UNCHANGED <<acc, recs, issued, waiting, pollVars, voteVars>>
-----------------------------------------------------------------------------
(* The end of finishBootstrap: live above the anchor, with a first poll. *)
LiveAt(anchor) ==
    /\ acc' = anchor
    /\ stage' = "tick"

LiveInit(anchor) ==
    /\ acc = anchor
    /\ recs = {} /\ issued = {} /\ waiting = {}
    /\ parked = {} /\ frontiers = [n \in Peer |-> None]
    /\ polls = <<>> /\ remaining = [r \in Req |-> {}]
    /\ todo = {} /\ results = <<>> /\ stage = "idle"

LiveNext ==
    \/ \E n \in Peer, r \in Req : \E chit \in Answers[n] : OnChits(n, r, chit)
    \/ \E v \in todo : ApplyVote(v)
    \/ \E c \in Container : AddContainer(c)
    \/ \E b \in Container \ {Genesis} : Accept(b)
    \/ PollRecorded
    \/ \E rs \in SUBSET Req, vs \in SUBSET parked : Tick(rs, vs)
    \/ \E sample \in Samples, connected \in SUBSET Peer : SendPoll(sample, connected)
    \/ NoPoll
=============================================================================
