--------------------------- MODULE MCConsensusCtrl ---------------------------
(***************************************************************************)
(* Three peers, of which two start as members.  Every vote with every      *)
(* other is more than TLC can go through, so a behaviour is about one of   *)
(* two questions, each with bounds of its own.                             *)
(***************************************************************************)
EXTENDS ConsensusCtrl, TLC

CONSTANTS p1, p2, p3, ctrl, meta, other

ThreePeers == {p1, p2, p3}
TwoPeers   == {p1, p2}
AllKinds   == {ctrl, meta, other}
MetaKinds  == {ctrl, meta}

Same == Permutations(TwoPeers)

\* What a behaviour is about: members come and go, with the versions they
\* support; or the two members add modules and upgrade them.
VARIABLE question

MCInit == Init /\ question \in {"members", "modules"}

MCNext == Next /\ UNCHANGED question

MCSpec == MCInit /\ [][MCNext]_<<vars, question>>

\* Bounds: the votes cast, the calls and the blocks on their way.
Bounds ==
    /\ question = "members" =>
          /\ \A p \in Peers : asked'[p] # Absent => asked'[p].op \in {"add", "remove"}
          /\ \A p \in Peers : pending'[p].minors[0] # 0
          /\ Len(pipeline') <= 2
    /\ question = "modules" =>
          /\ \A p \in Peers : asked'[p] # Absent => asked'[p].op = "module"
          /\ asked'[p3] = Absent /\ pending'[p3] = pending[p3]
          /\ calls' <= 3

=============================================================================
