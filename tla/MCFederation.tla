---------------------------- MODULE MCFederation ----------------------------
(***************************************************************************)
(* Small federations for TLC.                                              *)
(***************************************************************************)
EXTENDS Federation, TLC

CONSTANTS p1, p2, p3, p4, itemA, itemB

Two  == {p1, p2}
Four == {p1, p2, p3, p4}

\* Rounds led in turn, and all of them by p1.
LeadersTwo   == [r \in Rounds |-> IF r % 2 = 0 THEN p1 ELSE p2]
LeadersFour  == [r \in Rounds |-> CASE r % 4 = 0 -> p1 [] r % 4 = 1 -> p2
                                    [] r % 4 = 2 -> p3 [] OTHER -> p4]
LeadersFirst == [r \in Rounds |-> p1]

\* p2 was told to expect nothing, or a block of round 1 on top of one of round 0:
\* it may be passed by a dummy, by another block, or by a gap after the first.
First    == NewBlock(NoBlock, 0, itemA)
Second   == NewBlock(First, 1, itemA)
PinsOf(bs) == [p \in Peers |-> IF p = p2 THEN bs ELSE {}]
NoPins   == {PinsOf({})}
SomePins == {PinsOf({}), PinsOf({Second})}

=============================================================================
