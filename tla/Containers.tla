----------------------------- MODULE Containers -----------------------------
(***************************************************************************)
(* What the consensus engine talks about: containers (snowman blocks that  *)
(* wrap a block of the C-chain), the validators it polls, and the          *)
(* parameters of snowman.  Constant level; a model gives the tree.         *)
(***************************************************************************)
EXTENDS Integers, FiniteSets, FiniteSetsExt, Sequences, SequencesExt

CONSTANTS
    Peer,         \* validators, identified by node ID
    Container,    \* containers, identified by container ID
    Parent,       \* the parent of every container but the genesis
    Height,       \* the number of the wrapped block
    Chain,        \* Chain[c]: the containers from the genesis to c
    Mismatched,   \* containers whose block does not follow their parent's block
    AlphaPreference, AlphaConfidence,
    None

Genesis == CHOOSE c \in Container : Height[c] = 0

ASSUME ContainerAssumption ==
    /\ None \notin Container /\ None \notin Peer
    /\ \E g \in Container : \A c \in Container : Height[c] = 0 <=> c = g
    /\ Parent \in [Container \ {Genesis} -> Container]
    /\ Height \in [Container -> Nat]
    /\ Chain \in [Container -> SUBSET Container] /\ Chain[Genesis] = {Genesis}
    /\ \A c \in Container \ {Genesis} :
         Height[c] = Height[Parent[c]] + 1 /\ Chain[c] = Chain[Parent[c]] \cup {c}
    /\ Mismatched \subseteq Container
    /\ AlphaPreference \in Nat \ {0} /\ AlphaConfidence \in Nat
    /\ AlphaPreference <= AlphaConfidence

(* c is d or one of its ancestors. *)
Leads(c, d) == c \in Chain[d]
=============================================================================
