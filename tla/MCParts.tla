------------------------------ MODULE MCParts ------------------------------
(***************************************************************************)
(* Four components that share no state, side by side: a behaviour runs one *)
(* of them and the others stay as they begin.                              *)
(*                                                                         *)
(* walk: the tries of MCStorageWalk.  sim: one address with one slot, with *)
(* and without an override, under two tips.  client: two callers, with     *)
(* room for both and for one.  history: three blocks that write, clear,    *)
(* destruct and recreate, the cache at the first of them.                  *)
(***************************************************************************)
EXTENDS MCStorageWalk, SimStateDB, NetClient, History

CONSTANTS x1, s1, v0, v1, p, q

VARIABLE part

MCNorm == [s \in Slot |-> s]

MCOverrides ==
    {[k \in Cell |-> None], [k \in Cell |-> IF k = Balance(x1) THEN v1 ELSE None]}

\* Both callers wait for answers; the second waits for a slot; it finds the
\* peer at its limit.
MCLimits ==
    {[inflight |-> 2, perPeer |-> 2], [inflight |-> 1, perPeer |-> 2],
     [inflight |-> 2, perPeer |-> 1]}

MCOrigin == [acct |-> [a \in Addr |-> p], slot |-> [a \in Addr |-> [s \in Slot |-> v1]]]

One(dest, acct, val) ==
    [dest |-> dest, acct |-> [a \in Addr |-> acct],
     slot |-> [a \in Addr |-> [s \in Slot |-> val]]]

MCBatches == {One({}, q, v0), One({x1}, None, None), One({x1}, q, None), One({}, p, v1)}

PartsInit ==
    /\ part \in {"walk", "sim", "client", "history"}
    /\ Init /\ SimInit /\ ClientInit /\ HistoryInit
    /\ part # "walk" => trie = {3, 15}
    /\ part # "client" => limits.inflight = 1

PartsNext ==
    \/ part = "walk" /\ Next /\ UNCHANGED <<part, simVars, clientVars, historyVars>>
    \/ part = "sim" /\ SimNext /\ UNCHANGED <<part, vars, clientVars, historyVars>>
    \/ part = "client" /\ ClientNext /\ UNCHANGED <<part, vars, simVars, historyVars>>
    \/ part = "history" /\ HistoryNext /\ UNCHANGED <<part, vars, simVars, clientVars>>

PartsSpec ==
    /\ PartsInit
    /\ [][PartsNext]_<<part, vars, simVars, clientVars, historyVars>>
    /\ part = "walk" => WalkFairness
-----------------------------------------------------------------------------
(***************************************************************************)
(* The trie is loaded in the end: every walk gets past every key, also at  *)
(* the end of its range and of the keyspace.                               *)
(***************************************************************************)
WalkLoads == part = "walk" => TrieLoaded
=============================================================================
