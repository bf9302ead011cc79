---------------------------- MODULE MCConsensus ----------------------------
EXTENDS Consensus, TLC

CONSTANTS n1, n2, g0, g1, g2, a, b, c, d, m, f3, f4, fork

MCPeer == {n1, n2}
MCContainer == {g0, g1, g2, a, b, c, d, m, f3, f4}

\* fork is the hash of a block that is not on the chain of any container.
\* g0 - g1 - g2 - a, and above it the rivals b - d and c, and a mismatched m;
\* f3 - f4 forks off below the anchor.
MCParent ==
    [x \in MCContainer \ {g0} |->
       CASE x = g1 -> g0 [] x = g2 -> g1 [] x \in {a, f3} -> g2
         [] x \in {b, c, m} -> a [] x = d -> b [] x = f4 -> f3]
MCHeight ==
    [x \in MCContainer |->
       CASE x = g0 -> 0 [] x = g1 -> 1 [] x = g2 -> 2 [] x \in {a, f3} -> 3
         [] x \in {b, c, m, f4} -> 4 [] x = d -> 5]
MCChain[x \in MCContainer] == {x} \cup IF x = g0 THEN {} ELSE MCChain[MCParent[x]]

MCReports == n1 :> {a} @@ n2 :> {a, g2}
MCResumes ==
    {None, [height |-> 0, hash |-> g0], [height |-> 2, hash |-> None],
     [height |-> 2, hash |-> fork],
     [height |-> 3, hash |-> a], [height |-> 4, hash |-> b], [height |-> 5, hash |-> d]}

MCSamples == {<<n1, n2>>}
MCAnswers == n1 :> {<<d, b, b>>, <<a, a, g2>>} @@ n2 :> {<<f4, c, a>>, <<d, b, a>>}
=============================================================================
