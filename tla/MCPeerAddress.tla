---------------------------- MODULE MCPeerAddress ----------------------------
(***************************************************************************)
(* Three nodes: p1 initialized the consensus, the others join with an      *)
(* invite of a node that did.                                              *)
(***************************************************************************)
EXTENDS PeerAddress

CONSTANTS p1, p2, p3

ThreeNodes == {p1, p2, p3}

\* Bound: only p1 is restarted, and so comes to have a newer address.
FounderRestarts ==
    /\ up \ {p1} \subseteq up'
    /\ \A n \in Peers \ {p1} : rows'[n][n] <= 0

=============================================================================
