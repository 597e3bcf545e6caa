-------------------------------- MODULE MCMeta --------------------------------
(***************************************************************************)
(* Three peers, of which two start as members.                             *)
(***************************************************************************)
EXTENDS Meta

CONSTANTS p1, p2, p3, v1, v2

TwoPeers   == {p1, p2}
ThreePeers == {p1, p2, p3}

\* Bound: only the operators of members propose.
MembersPropose == \A p \in Peers : wanted'[p] # wanted[p] => p \in peers

=============================================================================
