------------------------------ MODULE Consensus ------------------------------
(***************************************************************************)
(* One peer's consensus state machine (crates/consensus): the tables it    *)
(* keeps in its database, the watch channels derived from them, and the    *)
(* handlers that change them.  A handler is one database transaction: an   *)
(* operator from the state before to the state after, and a transaction    *)
(* that returns an error leaves the state as it was.                       *)
(***************************************************************************)
EXTENDS Chain, NumPeers, FiniteSets, FiniteSetsExt

CONSTANTS
    Peers,      \* the peer set, the same for every round
    Leader      \* Leader[r]: the peer that may propose in round r

ASSUME PeersAssumption  == IsFiniteSet(Peers) /\ Peers # {}
ASSUME LeaderAssumption == Leader \in [Rounds -> Peers]

F == MaxFaulty(Cardinality(Peers))
T == Threshold(Cardinality(Peers))

NoVote == -1    \* no row in cons_finality_votes

ConsState == [
    round     : Rounds,                          \* cons_current_round
    proposals : [Rounds -> OptBlock],            \* cons_blocks_proposals
    notarized : [Rounds -> OptBlock],            \* cons_blocks_notarized
    votes     : [Rounds -> [Peers -> OptBlock]], \* cons_votes_block
    dummies   : [Rounds -> SUBSET Peers],        \* cons_votes_dummy
    finVotes  : [Peers -> Rounds \cup {NoVote}], \* cons_finality_votes
    finCons   : Rounds,                          \* cons_finality_consensus
    timeout   : BOOLEAN,   \* current_round_with_timeout_tx.1 (its .0 is `round`)
    finConsTx : Rounds,    \* finality_consensus_tx
    finSelfTx : Rounds ]   \* finality_self_vote_tx

(***************************************************************************)
(* Reads.                                                                  *)
(***************************************************************************)
NotarizedRounds(n) == {r \in Rounds : n.notarized[r] # NoBlock}

\* The notarized block of the highest round below r.
GetPrevNotarizedBlock(n, r) ==
    LET below == {x \in NotarizedRounds(n) : x < r}
    IN  IF below = {} THEN NoBlock ELSE n.notarized[Max(below)]

\* Mutant: the highest one.
GetLastNotarizedBlock(n, r) ==
    LET from == {x \in NotarizedRounds(n) : r <= x}
    IN  IF from = {} THEN NoBlock ELSE n.notarized[Max(from)]

\* The notarized block of the lowest round from r on.
GetNextNotarizedBlock(n, r) ==
    LET from == {x \in NotarizedRounds(n) : r <= x}
    IN  IF from = {} THEN NoBlock ELSE n.notarized[Min(from)]

LatestNotarized(n) == GetPrevNotarizedBlock(n, n.round)

\* Rows of cons_votes_block in round r, whatever block they are for.
BlockVoters(n, r) == {q \in Peers : n.votes[r][q] # NoBlock}

\* The round past b's, `h.round.next_expect()` or the default 0 of None.
RoundAfter(b) == IF b = NoBlock THEN 0 ELSE RoundOf(b) + 1

(***************************************************************************)
(* Table writes.                                                           *)
(***************************************************************************)
\* Mutant: no row is thrown away.
RetainAllVotes(rows, b) == rows

\* Votes collected for another block of the round are thrown away.
RetainVotes(rows, b) == [q \in Peers |-> IF rows[q] = b THEN b ELSE NoBlock]

InsertBlockProposal(n, b) ==
    [n EXCEPT !.proposals[RoundOf(b)] = b,
              !.votes[RoundOf(b)]     = RetainVotes(@, b)]

\* Mutant: the votes of the round are left as they are.
InsertNotarizedBlockOnly(n, b) == [n EXCEPT !.notarized[RoundOf(b)] = b]

InsertNotarizedBlock(n, b) ==
    [n EXCEPT !.notarized[RoundOf(b)] = b,
              !.votes[RoundOf(b)]     = RetainVotes(@, b)]

DeleteNotarizedBlock(n, r)   == [n EXCEPT !.notarized[r] = NoBlock]
InsertBlockVote(n, r, q, b)  == [n EXCEPT !.votes[r][q] = b]
InsertDummyVotes(n, r, qs)   == [n EXCEPT !.dummies[r] = @ \cup qs]

\* Mutant: the bound itself is pruned too.
PruneDummyVotesThrough(n, bound) ==
    [n EXCEPT !.dummies = [r \in Rounds |-> IF r <= bound THEN {} ELSE @[r]]]

PruneDummyVotes(n, bound)    ==
    [n EXCEPT !.dummies = [r \in Rounds |-> IF r < bound THEN {} ELSE @[r]]]

(***************************************************************************)
(* Finality.                                                               *)
(***************************************************************************)
\* Peers that vote at least v; a missing vote counts as 0.
FinalityVoters(n, v) == {q \in Peers : v = 0 \/ v <= n.finVotes[q]}

\* Mutant: votes sorted the other way round.
SortedVoteDescending(n) ==
    Max({v \in Rounds : F < Cardinality(FinalityVoters(n, v))})

\* `votes.sort(); votes[max_faulty]`: the highest round that all but
\* max_faulty peers have reached.
SortedVoteAtMaxFaulty(n) ==
    Max({v \in Rounds : T <= Cardinality(FinalityVoters(n, v))})

\* The table takes the new value even when it is lower; the channel does not.
RecalculateFinalityConsensus(n) ==
    LET new == SortedVoteAtMaxFaulty(n)
        m   == [n EXCEPT !.finCons = new]
    IN  IF new <= n.finCons THEN m
        ELSE PruneDummyVotes([m EXCEPT !.finConsTx = new], new)

\* A vote that goes back is stored, and nothing is recalculated.
UpdatePeerFinalityVoteRound(n, q, v) ==
    LET m == [n EXCEPT !.finVotes[q] = v]
    IN  IF v <= n.finVotes[q] THEN m ELSE RecalculateFinalityConsensus(m)

(***************************************************************************)
(* The end of a round.                                                     *)
(***************************************************************************)
HasProposalQuorum(n) ==
    /\ n.proposals[n.round] # NoBlock
    /\ T <= Cardinality(BlockVoters(n, n.round))

HasDummyQuorum(n) == T <= Cardinality(n.dummies[n.round])

\* Mutant: the dummy votes of others start no timer.
NeedsATimeoutForProposal(n) == n.proposals[n.round] # NoBlock

NeedsATimeout(n) ==
    \/ n.proposals[n.round] # NoBlock
    \/ F < Cardinality(n.dummies[n.round])
    \/ Leader[n.round] \in n.dummies[n.round]

\* The rounds the loop of check_round_end runs through.  Tables are empty past
\* the current round (NothingAhead), so after a quorum the loop goes one round
\* ahead, and after a notarized block of this or a later round to the round
\* past the highest one.
AdvanceRound(n) ==
    LET highest == RoundAfter(GetPrevNotarizedBlock(n, MaxRound + 1))
    IN  IF n.round < highest THEN [n EXCEPT !.round = highest]
        ELSE IF HasProposalQuorum(n)
        THEN [InsertNotarizedBlock(n, n.proposals[n.round]) EXCEPT !.round = @ + 1]
        ELSE IF HasDummyQuorum(n) THEN [n EXCEPT !.round = @ + 1]
        ELSE n

\* Mutants: a vote for the round that only starts, and one that is not stored.
VoteFinalityTooFar(p, n) ==
    UpdatePeerFinalityVoteRound([n EXCEPT !.finSelfTx = n.round + 1], p, n.round + 1)
VoteFinalityNotStored(p, n) == [n EXCEPT !.finSelfTx = n.round]

\* Having advanced past a notarized block, p votes for its finality.
VoteFinalitySelf(p, n) ==
    UpdatePeerFinalityVoteRound([n EXCEPT !.finSelfTx = n.round], p, n.round)

CheckRoundEnd(p, n) ==
    LET m == AdvanceRound(n)
    IN  IF m.round = n.round
        THEN [n EXCEPT !.timeout = @ \/ NeedsATimeout(n)]
        ELSE LET t == [m EXCEPT !.timeout = NeedsATimeout(m)]
             IN  IF m.notarized[m.round - 1] # NoBlock
                 THEN VoteFinalitySelf(p, t) ELSE t

(***************************************************************************)
(* process_vote_response, for a vote of peer q in peer p's current round.  *)
(***************************************************************************)
\* A second vote of q is dropped: the same one without looking at the end of
\* the round, a different one with ForkedSignature.
CountBlockVote(p, n, q, b) ==
    IF n.votes[n.round][q] # NoBlock THEN n
    ELSE CheckRoundEnd(p, InsertBlockVote(n, n.round, q, b))

ProcessVote(p, n, q, b) ==
    IF RoundOf(b) = n.round /\ n.proposals[n.round] \in {NoBlock, b}
    THEN CountBlockVote(p, n, q, b) ELSE n

\* Mutants: any parent will do, and a later proposal replaces the first.
ProcessProposalAnyParent(p, n, q, b) ==
    IF /\ RoundOf(b) = n.round
       /\ q = Leader[n.round]
       /\ n.proposals[n.round] = NoBlock
    THEN CountBlockVote(p, InsertBlockProposal(n, b), q, b) ELSE n
ProcessProposalAgain(p, n, q, b) ==
    IF /\ RoundOf(b) = n.round
       /\ q = Leader[n.round]
       /\ DoesDirectlyExtend(b, LatestNotarized(n))
    THEN CountBlockVote(p, InsertBlockProposal(n, b), q, b) ELSE n

\* Only from the leader, only on top of the latest notarized block, and only
\* the first one.
ProcessProposal(p, n, q, b) ==
    IF /\ RoundOf(b) = n.round
       /\ q = Leader[n.round]
       /\ DoesDirectlyExtend(b, LatestNotarized(n))
       /\ n.proposals[n.round] = NoBlock
    THEN CountBlockVote(p, InsertBlockProposal(n, b), q, b) ELSE n

ProcessDummyVote(p, n, q) ==
    IF q \in n.dummies[n.round] THEN n
    ELSE CheckRoundEnd(p, InsertDummyVotes(n, n.round, {q}))

(***************************************************************************)
(* process_notarized_block_response.  `sigs` are the signatures, as rows   *)
(* of the sender's cons_votes_block: sigs[q] is the block q signed.        *)
(***************************************************************************)
VerifySigs(b, sigs) ==
    /\ T <= Cardinality({q \in Peers : sigs[q] # NoBlock})
    /\ \A q \in Peers : sigs[q] \in {NoBlock, b}

InsertNotarizedWithVotes(n, b, sigs) ==
    LET m == InsertNotarizedBlock(n, b)
    IN  [m EXCEPT !.votes[RoundOf(b)] =
            [q \in Peers |-> IF sigs[q] # NoBlock THEN b ELSE @[q]]]

\* A peer without notarized blocks gets one that has a parent: "Must have latest
\* notarized".
PanicsWithoutLatest(n, b, sigs) ==
    /\ ~DoesDirectlyExtend(b, NoBlock) /\ VerifySigs(b, sigs)
    /\ LatestNotarized(n) = NoBlock

\* The block must be above our latest one, and extend it or, with our latest
\* one deleted, the one before it.
ProcessNotarizedBlock(p, n, b, sigs) ==
    LET latest == LatestNotarized(n)
        second == GetPrevNotarizedBlock(n, RoundOf(latest))
    IN  IF ~VerifySigs(b, sigs) \/ RoundOf(b) < RoundAfter(latest) THEN n
        ELSE IF DoesDirectlyExtend(b, latest)
        THEN CheckRoundEnd(p, InsertNotarizedWithVotes(n, b, sigs))
        ELSE IF latest # NoBlock /\ DoesDirectlyExtend(b, second)
        THEN CheckRoundEnd(p, InsertNotarizedWithVotes(
                                DeleteNotarizedBlock(n, RoundOf(latest)), b, sigs))
        ELSE n

ProcessNotarizedDummy(p, n, qs) ==
    IF T <= Cardinality(qs)
    THEN CheckRoundEnd(p, InsertDummyVotes(n, n.round, qs)) ELSE n

(***************************************************************************)
(* init and open: the channels are rebuilt from the tables.                *)
(***************************************************************************)
InitTables == [
    round     |-> 0,
    proposals |-> [r \in Rounds |-> NoBlock],
    notarized |-> [r \in Rounds |-> NoBlock],
    votes     |-> [r \in Rounds |-> [q \in Peers |-> NoBlock]],
    dummies   |-> [r \in Rounds |-> {}],
    finVotes  |-> [q \in Peers |-> NoVote],
    finCons   |-> 0,
    timeout   |-> FALSE,
    finConsTx |-> 0,
    finSelfTx |-> 0 ]

\* Mutants: finality voted up to the current round, and not voted at all.
OpenInternalAtRound(p, n) ==
    LET m == [n EXCEPT !.timeout = FALSE, !.finConsTx = n.finCons, !.finSelfTx = n.round]
    IN  CheckRoundEnd(p, UpdatePeerFinalityVoteRound(m, p, n.round))
OpenInternalNoVote(p, n) ==
    CheckRoundEnd(p, [n EXCEPT !.timeout = FALSE, !.finConsTx = n.finCons, !.finSelfTx = 0])

OpenInternal(p, n) ==
    LET self == RoundAfter(LatestNotarized(n))
        m    == [n EXCEPT !.timeout = FALSE, !.finConsTx = n.finCons,
                          !.finSelfTx = self]
    IN  CheckRoundEnd(p, UpdatePeerFinalityVoteRound(m, p, self))

(***************************************************************************)
(* What holds of a peer's tables between transactions.                     *)
(***************************************************************************)
\* No row of any table is about round r.
Untouched(n, r) ==
    /\ n.proposals[r] = NoBlock /\ n.notarized[r] = NoBlock
    /\ BlockVoters(n, r) = {} /\ n.dummies[r] = {}

\* Proposals and notarized blocks are filed under their own round.
Labelled(n) ==
    \A r \in Rounds :
        /\ n.proposals[r] # NoBlock => RoundOf(n.proposals[r]) = r
        /\ n.notarized[r] # NoBlock => RoundOf(n.notarized[r]) = r

\* In the current round only votes for its proposal are kept.
VotesMatchProposal(n) ==
    n.proposals[n.round] # NoBlock =>
        \A q \in Peers : n.votes[n.round][q] \in {NoBlock, n.proposals[n.round]}

WellFormed(n) ==
    /\ n \in ConsState
    /\ Labelled(n)
    /\ \A r \in Rounds : n.round < r \/ r = MaxRound => Untouched(n, r)
    /\ n.notarized[n.round] = NoBlock
    /\ VotesMatchProposal(n)

\* Recorded votes of the peers in H are for the proposals P these peers stored.
Genuine(n, H, P) ==
    \A q \in H, r \in Rounds : n.votes[r][q] \in {NoBlock, P[q][r]}

\* A threshold of peers stand behind block b of round r, those in H by having
\* stored it as the round's proposal.
Supported(b, r, H, P) ==
    \E S \in SUBSET Peers : T <= Cardinality(S) /\ \A q \in S \cap H : P[q][r] = b

AllSupported(n, H, P) ==
    \A r \in NotarizedRounds(n) : Supported(n.notarized[r], r, H, P)

=============================================================================
