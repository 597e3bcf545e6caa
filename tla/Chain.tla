-------------------------------- MODULE Chain --------------------------------
(***************************************************************************)
(* Blocks (crates/consensus-core/src/block.rs).  A BlockHeader commits by  *)
(* hash to its parent header, hence to the whole chain behind it.  Hashing *)
(* is taken to be injective, so a block IS that chain: the sequence of     *)
(* links from the first block on, its last link being its own round and    *)
(* payload.  `seq` is then the length, and the parent is what is left when *)
(* the last link is removed.  Dummies are not blocks: they have no parent, *)
(* no payload and are never stored in a chain.                             *)
(***************************************************************************)
EXTENDS Integers, Sequences

CONSTANTS
    MaxRound,   \* bound: rounds 0 .. MaxRound - 1 are played, MaxRound is only entered
    Payloads    \* block contents (citems together with the timestamp)

ASSUME MaxRoundAssumption == MaxRound \in Nat

Rounds   == 0 .. MaxRound
Link     == [round : Rounds, payload : Payloads]
OptBlock == Seq(Link)
NoBlock  == <<>>
Block    == OptBlock \ {NoBlock}

RoundOf(b) == b[Len(b)].round

\* BlockHeader::new, on top of `prev` (NoBlock for the first block).
NewBlock(prev, r, x) == Append(prev, [round |-> r, payload |-> x])

\* Consecutive `seq`, increasing round, and the parent's hash; a first block has
\* seq 0 and the zero hash, and its round need not be 0.
DoesDirectlyExtend(b, prev) ==
    /\ Len(b) = Len(prev) + 1
    /\ SubSeq(b, 1, Len(prev)) = prev
    /\ prev # NoBlock => RoundOf(prev) < RoundOf(b)

=============================================================================
