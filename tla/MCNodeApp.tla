------------------------------ MODULE MCNodeApp ------------------------------
(***************************************************************************)
(* Instances of NodeApp: two peers, the consensus-ctrl module and one      *)
(* other, and blocks in which an item is accepted, refused, refused after  *)
(* it changed the peer set, or changes what the next items are judged by.  *)
(***************************************************************************)
EXTENDS NodeApp

CONSTANTS p1, p2

MCPeers   == {p1, p2}
MCModules == {0, 1}

Plain(m)   == [module |-> m, op |-> "none"]
Refused(m) == [module |-> m, op |-> "error"]
SetPeers(s)     == [module |-> 0, op |-> "peers", peers |-> s]
SetPeersLate(s) == [module |-> 0, op |-> "late_error", peers |-> s]
Configure(m)    == [module |-> 0, op |-> "config", target |-> m]

MCBlocks ==
    { [peer |-> p1, items |-> <<>>],
      [peer |-> p1, items |-> <<Plain(0), Configure(1), Plain(1)>>],
      [peer |-> p1, items |-> <<SetPeers({p1}), Refused(0), SetPeers({p1, p2})>>],
      [peer |-> p2, items |-> <<SetPeersLate({p1}), Plain(1)>>],
      [peer |-> p2, items |-> <<SetPeers({p1})>>] }

=============================================================================
