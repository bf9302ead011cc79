----------------------------- MODULE Consensus -----------------------------
(***************************************************************************)
(* The consensus engine: Backfill until the gap to the network's accepted  *)
(* frontier is executed, then Polls above it.                              *)
(***************************************************************************)
EXTENDS Backfill, Polls

vars == <<bfVars, liveVars>>

(* The end of finishBootstrap; what the backfill used is not read again. *)
GoLive ==
    /\ phase = "executed" /\ phase' = "live"
    /\ LiveAt(anchor)
    /\ resume' = None /\ bsVotes' = [n \in Peer |-> None]
    /\ anchor' = None /\ low' = None /\ req' = 0 /\ flight' = {}
    /\ noise' = 0 /\ seeded' = {} /\ sunk' = <<>>
    /\ UNCHANGED <<recs, issued, waiting, pollVars, voteVars>>

Init == BackfillInit /\ LiveInit(None)

Next ==
    \/ BackfillNext /\ UNCHANGED liveVars
    \/ GoLive
    \/ phase = "live" /\ LiveNext /\ UNCHANGED bfVars

(***************************************************************************)
(* A peer answers the request in use, usefully and before its timeout,     *)
(* unless one of the MaxNoise events comes first; Tick is called for ever. *)
(***************************************************************************)
Answered ==
    \/ low = None /\ req # 0 /\ BackfillContainer(anchor, TRUE)
    \/ \E k \in 1..MaxAnswer : OnAncestors(req, k, TRUE)

Fairness ==
    /\ WF_vars(Answered /\ UNCHANGED liveVars)
    /\ WF_vars(Unanswerable /\ Retry /\ UNCHANGED liveVars)
    /\ WF_vars(GoLive)

Spec == Init /\ [][Next]_vars /\ Fairness
-----------------------------------------------------------------------------
(***************************************************************************)
(* The votes of a sampled validator that a poll still waits for will come  *)
(* from one place: the validator may answer, or its vote is parked, or it  *)
(* is about to be applied.  Each of these ends at a deadline, so no poll   *)
(* stays open for ever and holds up the polls behind it; and no vote is    *)
(* counted twice.                                                          *)
(***************************************************************************)
Votes(r, n) == {v \in todo \cup {p.vote : p \in parked} : v.req = r /\ v.node = n}

PollsAccounted ==
    \A i \in DOMAIN polls : \A n \in Sampled(polls[i]) :
      LET r == polls[i].req
      IN  IF polls[i].votes[n] # None
          THEN n \notin remaining[r] /\ Votes(r, n) = {}
          ELSE IF n \in remaining[r] THEN Votes(r, n) = {} ELSE Cardinality(Votes(r, n)) = 1

(***************************************************************************)
(* Between two handlers the containers the engine keeps are undecided and  *)
(* above the last accepted one; those that consensus processes form a tree *)
(* rooted there; and none waits whose parent is ready, so a chain that     *)
(* arrives in any order is issued as far as it is complete.                *)
(***************************************************************************)
KnownIsLive ==
    phase = "live" /\ Idle =>
      /\ issued \subseteq recs
      /\ \A c \in recs :
           /\ Height[c] > Height[acc]
           /\ c \in issued <=> Parent[c] \in issued \cup {acc}

(***************************************************************************)
(* A vote is parked on a container that is not known and that its highest  *)
(* option needs: when the container comes, the vote does not stay behind.  *)
(***************************************************************************)
ParkedOnUnknown ==
    \A p \in parked :
      p.on \notin recs /\ p.on # acc /\ Leads(p.on, p.vote.options[1])

(***************************************************************************)
(* Once the validators agree on an anchor, the walk down from it ends,     *)
(* also when the store is ahead of the anchor or on another chain: the     *)
(* engine goes live or reports that it cannot.                             *)
(***************************************************************************)
GoesLive == phase = "backfill" ~> phase \in {"live", "fatal"}
=============================================================================
