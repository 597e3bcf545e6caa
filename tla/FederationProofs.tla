-------------------------- MODULE FederationProofs --------------------------
(***************************************************************************)
(* Safety of a federation with any peers, leaders, faulty peers, payloads, *)
(* pins and number of rounds.  The first part is about the handlers of     *)
(* module Consensus on the tables of one peer, the second about the        *)
(* federation.                                                             *)
(***************************************************************************)
EXTENDS Federation, FiniteSetTheorems, SequenceTheorems, WellFoundedInduction, TLAPS

-----------------------------------------------------------------------------
(***************************************************************************)
(* ONE PEER                                                                *)
(***************************************************************************)
-----------------------------------------------------------------------------
(***************************************************************************)
(* Minima and maxima of sets of rounds.                                    *)
(***************************************************************************)
\* A nonempty set of naturals has a least element, and Min is that element.
LEMMA MinOfNaturals ==
    ASSUME NEW S \in SUBSET Nat, S # {}
    PROVE  Min(S) \in S /\ \A y \in S : Min(S) <= y
<1> DEFINE R == {ss \in Nat \X Nat : ss[1] < ss[2]}
<1>1. IsWellFoundedOn(R, Nat)
    BY NatLessThanWellFounded DEF OpToRel
<1>2. \E x \in S : \A y \in S : ~(<<y, x>> \in R)
  <2>. HIDE DEF R
  <2>. QED
    BY <1>1, WFMin
<1>3. PICK x \in S : \A y \in S : ~(<<y, x>> \in R)
    BY <1>2
<1>4. \A y \in S : x <= y
  <2>. TAKE y \in S
  <2>1. y \in Nat /\ x \in Nat /\ ~(y < x)
    BY <1>3
  <2>. QED
    BY <2>1
<1>. QED
    BY <1>4 DEF Min

\* A nonempty set of naturals with an upper bound has a greatest element, and
\* Max is that element.
LEMMA MaxOfNaturals ==
    ASSUME NEW k \in Nat, NEW S \in SUBSET (0 .. k), S # {}
    PROVE  Max(S) \in S /\ \A y \in S : y <= Max(S)
<1> DEFINE D == {i \in 0 .. k : k - i \in S}
<1>1. D \in SUBSET Nat /\ D # {}
  <2>1. PICK x \in S : TRUE
    OBVIOUS
  <2>2. k - x \in D
    BY <2>1
  <2>3. D \in SUBSET Nat
    OBVIOUS
  <2>. QED
    BY <2>2, <2>3
<1>2. Min(D) \in D /\ \A y \in D : Min(D) <= y
  <2>. HIDE DEF D
  <2>. QED
    BY <1>1, MinOfNaturals
<1>3. k - Min(D) \in S
    BY <1>2
<1>4. \A y \in S : y <= k - Min(D)
  <2>. TAKE y \in S
  <2>1. k - y \in D
    OBVIOUS
  <2>2. Min(D) <= k - y /\ Min(D) \in 0 .. k
    BY <1>2, <2>1
  <2>. QED
    BY <2>2
<1>5. \E x \in S : \A y \in S : x >= y
    BY <1>3, <1>4
<1>. QED
    BY <1>5 DEF Max

\* Rounds are naturals up to MaxRound.
LEMMA RoundsAreNaturals == Rounds = 0 .. MaxRound /\ Rounds \in SUBSET Nat /\ MaxRound \in Nat
BY MaxRoundAssumption DEF Rounds

-----------------------------------------------------------------------------
(***************************************************************************)
(* Quorums.                                                                *)
(***************************************************************************)
\* Fewer than a third of the peers are counted as faulty.
LEMMA QuorumSize ==
    /\ Cardinality(Peers) \in Nat \ {0}
    /\ F \in Nat /\ T \in Nat /\ 1 <= T
    /\ T = Cardinality(Peers) - F
    /\ 3 * F < Cardinality(Peers)
<1>1. Cardinality(Peers) \in Nat \ {0}
    BY PeersAssumption, FS_CardinalityType, FS_EmptySet
<1>2. \A n \in Nat \ {0} : (n - 1) \div 3 \in Nat /\ 3 * ((n - 1) \div 3) < n
    OBVIOUS
<1>. QED
    BY <1>1, <1>2 DEF F, T, Threshold, MaxFaulty

\* Two thresholds of peers have more than max_faulty peers in common, hence one
\* that is not among any F faulty ones.
LEMMA QuorumsMeet ==
    ASSUME NEW A \in SUBSET Peers, NEW B \in SUBSET Peers,
           T <= Cardinality(A), T <= Cardinality(B),
           NEW Z \in SUBSET Peers, Cardinality(Z) <= F
    PROVE  \E q \in A \cap B : q \notin Z
<1>1. IsFiniteSet(A) /\ IsFiniteSet(B) /\ IsFiniteSet(Z) /\ IsFiniteSet(A \cap B)
    BY PeersAssumption, FS_Subset
<1>2. Cardinality(A \cup B) <= Cardinality(Peers)
    BY PeersAssumption, FS_Subset
<1>3. Cardinality(A \cup B) = Cardinality(A) + Cardinality(B) - Cardinality(A \cap B)
    BY <1>1, FS_Union
<1>4. /\ Cardinality(A) \in Nat /\ Cardinality(B) \in Nat /\ Cardinality(Z) \in Nat
      /\ Cardinality(A \cap B) \in Nat /\ Cardinality(A \cup B) \in Nat
    BY <1>1, FS_CardinalityType, FS_Union
<1>5. F < Cardinality(A \cap B)
    BY <1>2, <1>3, <1>4, QuorumSize
<1>6. CASE A \cap B \subseteq Z
  <2>1. Cardinality(A \cap B) <= Cardinality(Z)
    BY <1>1, <1>6, FS_Subset
  <2>. QED
    BY <1>4, <1>5, <2>1, QuorumSize
<1>. QED
    BY <1>6

-----------------------------------------------------------------------------
(***************************************************************************)
(* Types of the reads.                                                     *)
(***************************************************************************)
\* A block has a round, and the round after it is positive.
LEMMA BlockRound ==
    ASSUME NEW b \in Block
    PROVE  /\ Len(b) \in Nat /\ Len(b) >= 1
           /\ RoundOf(b) \in Rounds
           /\ RoundAfter(b) = RoundOf(b) + 1
<1>1. b \in Seq(Link) /\ b # <<>>
    BY DEF Block, OptBlock, NoBlock
<1>2. Len(b) \in Nat /\ Len(b) >= 1
    BY <1>1, EmptySeq, LenProperties
<1>3. b[Len(b)] \in Link
    BY <1>1, <1>2, ElementOfSeq
<1>. QED
    BY <1>1, <1>2, <1>3 DEF RoundOf, RoundAfter, Link, NoBlock

\* NewBlock appends a link, and has the round it was made for.
LEMMA NewBlockType ==
    ASSUME NEW prev \in OptBlock, NEW r \in Rounds, NEW x \in Payloads
    PROVE  NewBlock(prev, r, x) \in Block /\ RoundOf(NewBlock(prev, r, x)) = r
<1>1. [round |-> r, payload |-> x] \in Link
    BY DEF Link
<1>2. /\ NewBlock(prev, r, x) \in Seq(Link)
      /\ Len(NewBlock(prev, r, x)) = Len(prev) + 1
      /\ NewBlock(prev, r, x)[Len(prev) + 1] = [round |-> r, payload |-> x]
    BY <1>1, AppendProperties DEF NewBlock, OptBlock
<1>3. NewBlock(prev, r, x) # <<>>
    BY <1>2, LenProperties DEF OptBlock
<1>. QED
    BY <1>2, <1>3 DEF Block, OptBlock, NoBlock, RoundOf

\* The latest notarized block below a round is one of the notarized blocks,
\* and none is between.
LEMMA PrevNotarized ==
    ASSUME NEW n \in ConsState, NEW r \in Int
    PROVE  LET b == GetPrevNotarizedBlock(n, r)
           IN  \/ /\ b = NoBlock
                  /\ \A x \in NotarizedRounds(n) : ~(x < r)
               \/ \E x \in NotarizedRounds(n) :
                    /\ b = n.notarized[x] /\ b \in Block /\ x < r
                    /\ \A y \in NotarizedRounds(n) : y < r => y <= x
<1> DEFINE below == {x \in NotarizedRounds(n) : x < r}
<1>1. CASE below = {}
    BY <1>1 DEF GetPrevNotarizedBlock
<1>2. CASE below # {}
  <2>1. below \in SUBSET (0 .. MaxRound)
    BY DEF NotarizedRounds, Rounds
  <2>2. Max(below) \in below /\ \A y \in below : y <= Max(below)
    <3>. HIDE DEF below
    <3>. QED
      BY <1>2, <2>1, MaxOfNaturals, MaxRoundAssumption
  <2>3. GetPrevNotarizedBlock(n, r) = n.notarized[Max(below)]
    BY <1>2 DEF GetPrevNotarizedBlock
  <2>4. n.notarized[Max(below)] \in Block
    BY <2>2 DEF NotarizedRounds, ConsState, Block
  <2>. QED
    BY <2>2, <2>3, <2>4
<1>. QED
    BY <1>1, <1>2

\* The first notarized block from a round on is one of the notarized blocks,
\* and none is between.
LEMMA NextNotarized ==
    ASSUME NEW n \in ConsState, NEW r \in Int
    PROVE  LET b == GetNextNotarizedBlock(n, r)
           IN  \/ /\ b = NoBlock
                  /\ \A x \in NotarizedRounds(n) : ~(r <= x)
               \/ \E x \in NotarizedRounds(n) :
                    /\ b = n.notarized[x] /\ b \in Block /\ r <= x
                    /\ \A y \in NotarizedRounds(n) : r <= y => x <= y
<1> DEFINE from == {x \in NotarizedRounds(n) : r <= x}
<1>1. CASE from = {}
    BY <1>1 DEF GetNextNotarizedBlock
<1>2. CASE from # {}
  <2>1. from \in SUBSET Nat
    BY RoundsAreNaturals DEF NotarizedRounds
  <2>2. Min(from) \in from /\ \A y \in from : Min(from) <= y
    <3>. HIDE DEF from
    <3>. QED
      BY <1>2, <2>1, MinOfNaturals
  <2>3. GetNextNotarizedBlock(n, r) = n.notarized[Min(from)]
    BY <1>2 DEF GetNextNotarizedBlock
  <2>4. n.notarized[Min(from)] \in Block
    BY <2>2 DEF NotarizedRounds, ConsState, Block
  <2>. QED
    BY <2>2, <2>3, <2>4
<1>. QED
    BY <1>1, <1>2

-----------------------------------------------------------------------------
(***************************************************************************)
(* Table writes, field by field.                                           *)
(***************************************************************************)
\* The fields that no finality or timeout bookkeeping touches.
SameChain(n, m) ==
    /\ m.round = n.round
    /\ m.proposals = n.proposals
    /\ m.notarized = n.notarized
    /\ m.votes = n.votes

\* insert_notarized_block files the block and drops other votes of its round.
LEMMA InsertNotarizedFields ==
    ASSUME NEW n \in ConsState, NEW b \in Block
    PROVE  LET m == InsertNotarizedBlock(n, b)
           IN  /\ m \in ConsState
               /\ m.round = n.round /\ m.proposals = n.proposals /\ m.dummies = n.dummies
               /\ m.notarized = [n.notarized EXCEPT ![RoundOf(b)] = b]
               /\ \A r \in Rounds, q \in Peers :
                    m.votes[r][q] = IF r = RoundOf(b) /\ n.votes[r][q] # b
                                    THEN NoBlock ELSE n.votes[r][q]
<1>1. RoundOf(b) \in Rounds /\ b \in OptBlock /\ NoBlock \in OptBlock
    BY BlockRound DEF Block, OptBlock, NoBlock
<1>2. RetainVotes(n.votes[RoundOf(b)], b) \in [Peers -> OptBlock]
    BY <1>1 DEF RetainVotes
<1>. QED
    BY <1>1, <1>2 DEF InsertNotarizedBlock, RetainVotes, ConsState

\* insert_block_proposal does the same in the table of proposals.
LEMMA InsertProposalFields ==
    ASSUME NEW n \in ConsState, NEW b \in Block
    PROVE  LET m == InsertBlockProposal(n, b)
           IN  /\ m \in ConsState
               /\ m.round = n.round /\ m.notarized = n.notarized /\ m.dummies = n.dummies
               /\ m.proposals = [n.proposals EXCEPT ![RoundOf(b)] = b]
               /\ \A r \in Rounds, q \in Peers :
                    m.votes[r][q] = IF r = RoundOf(b) /\ n.votes[r][q] # b
                                    THEN NoBlock ELSE n.votes[r][q]
<1>1. RoundOf(b) \in Rounds /\ b \in OptBlock /\ NoBlock \in OptBlock
    BY BlockRound DEF Block, OptBlock, NoBlock
<1>2. RetainVotes(n.votes[RoundOf(b)], b) \in [Peers -> OptBlock]
    BY <1>1 DEF RetainVotes
<1>. QED
    BY <1>1, <1>2 DEF InsertBlockProposal, RetainVotes, ConsState

\* insert_block_vote sets one row.
LEMMA InsertVoteFields ==
    ASSUME NEW n \in ConsState, NEW b \in Block, NEW r \in Rounds, NEW q \in Peers
    PROVE  LET m == InsertBlockVote(n, r, q, b)
           IN  /\ m \in ConsState
               /\ m.round = n.round /\ m.proposals = n.proposals
               /\ m.notarized = n.notarized /\ m.dummies = n.dummies
               /\ \A s \in Rounds, x \in Peers :
                    m.votes[s][x] = IF s = r /\ x = q THEN b ELSE n.votes[s][x]
BY DEF InsertBlockVote, ConsState, Block

\* insert_dummy_vote adds rows to one round.
LEMMA InsertDummyFields ==
    ASSUME NEW n \in ConsState, NEW r \in Rounds, NEW qs \in SUBSET Peers
    PROVE  LET m == InsertDummyVotes(n, r, qs)
           IN  /\ m \in ConsState /\ SameChain(n, m)
               /\ m.dummies = [n.dummies EXCEPT ![r] = @ \cup qs]
BY DEF InsertDummyVotes, ConsState, SameChain

\* Deleting a notarized block changes only the table of notarized blocks.
LEMMA DeleteNotarizedFields ==
    ASSUME NEW n \in ConsState, NEW r \in Rounds
    PROVE  LET m == DeleteNotarizedBlock(n, r)
           IN  /\ m \in ConsState
               /\ m.round = n.round /\ m.proposals = n.proposals
               /\ m.votes = n.votes /\ m.dummies = n.dummies
               /\ m.notarized = [n.notarized EXCEPT ![r] = NoBlock]
<1>1. NoBlock \in OptBlock
    BY DEF OptBlock, NoBlock
<1>. QED
    BY <1>1 DEF DeleteNotarizedBlock, ConsState

\* Some round is reached by a threshold of finality votes (round 0 is), so the
\* finality consensus is a round.
LEMMA FinalityIsARound ==
    ASSUME NEW n \in ConsState
    PROVE  SortedVoteAtMaxFaulty(n) \in Rounds
<1> DEFINE V == {v \in Rounds : T <= Cardinality(FinalityVoters(n, v))}
<1>1. 0 \in V
  <2>1. FinalityVoters(n, 0) = Peers
    BY DEF FinalityVoters
  <2>. QED
    BY <2>1, QuorumSize, RoundsAreNaturals
<1>2. V \in SUBSET (0 .. MaxRound)
    BY RoundsAreNaturals
<1>3. Max(V) \in V
  <2>. HIDE DEF V
  <2>. QED
    BY <1>1, <1>2, MaxOfNaturals, RoundsAreNaturals
<1>. QED
    BY <1>3 DEF SortedVoteAtMaxFaulty

\* A finality vote leaves rounds, blocks and votes alone and drops dummy votes.
LEMMA FinalityVoteFields ==
    ASSUME NEW n \in ConsState, NEW q \in Peers, NEW v \in Rounds
    PROVE  LET m == UpdatePeerFinalityVoteRound(n, q, v)
           IN  /\ m \in ConsState /\ SameChain(n, m)
               /\ m.finSelfTx = n.finSelfTx
               /\ \A r \in Rounds : m.dummies[r] \subseteq n.dummies[r]
<1> DEFINE k == [n EXCEPT !.finVotes[q] = v]
<1>1. k \in ConsState /\ SameChain(n, k) /\ k.dummies = n.dummies /\ k.finSelfTx = n.finSelfTx
    BY DEF ConsState, SameChain
<1>2. SortedVoteAtMaxFaulty(k) \in Rounds
  <2>. HIDE DEF k
  <2>. QED
    BY <1>1, FinalityIsARound
<1>3. LET m == RecalculateFinalityConsensus(k)
      IN  /\ m \in ConsState /\ SameChain(k, m) /\ m.finSelfTx = k.finSelfTx
          /\ \A r \in Rounds : m.dummies[r] \subseteq k.dummies[r]
  <2>. HIDE DEF k
  <2>. QED
    BY <1>1, <1>2 DEF RecalculateFinalityConsensus, PruneDummyVotes, ConsState, SameChain
<1>4. UpdatePeerFinalityVoteRound(n, q, v) \in {k, RecalculateFinalityConsensus(k)}
    BY DEF UpdatePeerFinalityVoteRound
<1>. QED
  <2>. HIDE DEF k
  <2>. QED
    BY <1>1, <1>3, <1>4 DEF SameChain

-----------------------------------------------------------------------------
(***************************************************************************)
(* The end of a round.                                                     *)
(***************************************************************************)
\* What holds when a transaction calls check_round_end: a notarized block of
\* the current or a later round may just have been filed.
BeforeRoundEnd(n) ==
    /\ n \in ConsState
    /\ Labelled(n)
    /\ \A r \in Rounds :
        r = MaxRound \/ (n.round < r /\ \A x \in NotarizedRounds(n) : x < r)
            => Untouched(n, r)
    /\ (\A x \in NotarizedRounds(n) : x < n.round) => VotesMatchProposal(n)

\* Between transactions the tables are ready for check_round_end.
LEMMA WellFormedBeforeRoundEnd ==
    ASSUME NEW n, WellFormed(n)
    PROVE  BeforeRoundEnd(n)
BY DEF WellFormed, BeforeRoundEnd

\* The highest notarized block, as check_round_end reads it.
LEMMA HighestNotarized ==
    ASSUME NEW n, BeforeRoundEnd(n)
    PROVE  LET h == RoundAfter(GetPrevNotarizedBlock(n, MaxRound + 1))
           IN  /\ h \in Rounds
               /\ \A x \in NotarizedRounds(n) : x < h
               /\ h # 0 => h - 1 \in NotarizedRounds(n)
<1> DEFINE b == GetPrevNotarizedBlock(n, MaxRound + 1)
<1>1. n \in ConsState /\ \A x \in NotarizedRounds(n) : x \in Rounds /\ x < MaxRound + 1
    BY RoundsAreNaturals DEF BeforeRoundEnd, NotarizedRounds
<1>2. CASE b = NoBlock
  <2>1. NotarizedRounds(n) = {}
    BY <1>1, <1>2, PrevNotarized, RoundsAreNaturals, BlockRound DEF Block
  <2>. QED
    BY <1>2, <2>1, RoundsAreNaturals DEF RoundAfter
<1>3. CASE b # NoBlock
  <2>1. PICK x \in NotarizedRounds(n) :
            /\ b = n.notarized[x] /\ b \in Block
            /\ \A y \in NotarizedRounds(n) : y < MaxRound + 1 => y <= x
    BY <1>1, <1>3, PrevNotarized, RoundsAreNaturals
  <2>2. RoundOf(b) = x /\ x # MaxRound
    BY <1>1, <1>3, <2>1, RoundsAreNaturals DEF BeforeRoundEnd, Labelled, Untouched, NotarizedRounds
  <2>3. RoundAfter(b) = x + 1
    BY <2>1, <2>2, BlockRound
  <2>. QED
    BY <1>1, <2>1, <2>2, <2>3, RoundsAreNaturals
<1>. QED
    BY <1>2, <1>3

\* What the new round starts with, and what it leaves of the old one.
LEMMA AdvanceRoundEffect ==
    ASSUME NEW n, BeforeRoundEnd(n), NEW m, m = AdvanceRound(n)
    PROVE  /\ m \in ConsState /\ Labelled(m)
           /\ n.round <= m.round
           /\ m.round = n.round => m = n /\ \A x \in NotarizedRounds(n) : x < n.round
           /\ m.round # n.round =>
                /\ \A r \in Rounds : m.round <= r => Untouched(m, r)
           /\ m.proposals = n.proposals
           /\ \A r \in Rounds, q \in Peers : m.votes[r][q] \in {NoBlock, n.votes[r][q]}
           /\ \A r \in Rounds : m.notarized[r] # n.notarized[r] =>
                /\ r = n.round /\ m.notarized[r] = n.proposals[r]
                /\ HasProposalQuorum(n) /\ VotesMatchProposal(n)
           /\ \A r \in Rounds : r = MaxRound => Untouched(m, r)
<1> DEFINE h == RoundAfter(GetPrevNotarizedBlock(n, MaxRound + 1))
<1>1. /\ h \in Rounds /\ \A x \in NotarizedRounds(n) : x < h
      /\ h # 0 => h - 1 \in NotarizedRounds(n)
    BY HighestNotarized
<1>2. n \in ConsState /\ n.round \in Rounds /\ Labelled(n) /\ MaxRound \in Rounds
    BY RoundsAreNaturals DEF BeforeRoundEnd, ConsState
<1>3. \A r \in Rounds :
        r = MaxRound \/ (n.round < r /\ \A x \in NotarizedRounds(n) : x < r) => Untouched(n, r)
    BY DEF BeforeRoundEnd
<1>. HIDE DEF h
<1>4. CASE n.round < h
  <2>1. m = [n EXCEPT !.round = h]
    BY <1>4 DEF AdvanceRound, h
  <2>2. /\ m \in ConsState /\ m.round = h /\ m.proposals = n.proposals
        /\ m.notarized = n.notarized /\ m.votes = n.votes /\ m.dummies = n.dummies
    BY <1>1, <1>2, <2>1 DEF ConsState
  <2>3. \A r \in Rounds : Untouched(n, r) => Untouched(m, r)
    BY <2>2 DEF Untouched, BlockVoters
  <2>4. \A r \in Rounds : h <= r => Untouched(n, r)
    BY <1>1, <1>2, <1>3, <1>4, RoundsAreNaturals DEF NotarizedRounds
  <2>. QED
    BY <1>1, <1>2, <1>3, <1>4, <2>2, <2>3, <2>4, RoundsAreNaturals DEF Labelled
<1>5. CASE ~(n.round < h) /\ HasProposalQuorum(n)
  <2> DEFINE b == n.proposals[n.round]
             k == InsertNotarizedBlock(n, b)
  <2>1. b \in Block /\ RoundOf(b) = n.round
    BY <1>2, <1>5 DEF HasProposalQuorum, Labelled, ConsState, Block
  <2>2. n.round # MaxRound
    BY <1>2, <1>3, <1>5 DEF HasProposalQuorum, Untouched
  <2>3. \A x \in NotarizedRounds(n) : x < n.round
    BY <1>1, <1>2, <1>5, RoundsAreNaturals DEF NotarizedRounds
  <2>4. /\ k \in ConsState
        /\ k.round = n.round /\ k.proposals = n.proposals /\ k.dummies = n.dummies
        /\ k.notarized = [n.notarized EXCEPT ![n.round] = b]
        /\ \A r \in Rounds, q \in Peers :
             k.votes[r][q] = IF r = n.round /\ n.votes[r][q] # b THEN NoBlock ELSE n.votes[r][q]
    BY <1>2, <2>1, InsertNotarizedFields
  <2>. HIDE DEF k
  <2>5. m = [k EXCEPT !.round = @ + 1]
    BY <1>5 DEF AdvanceRound, h, k
  <2>. n.round + 1 \in Rounds
    BY <1>2, <2>2, RoundsAreNaturals
  <2>6. /\ m \in ConsState /\ m.round = n.round + 1 /\ m.proposals = n.proposals
        /\ m.notarized = k.notarized /\ m.votes = k.votes /\ m.dummies = n.dummies
    <3>1. k \in ConsState /\ k.round = n.round /\ k.proposals = n.proposals /\ k.dummies = n.dummies
      BY <2>4
    <3>2. m = [k EXCEPT !.round = n.round + 1]
      BY <2>5, <3>1
    <3>. QED
      BY <3>1, <3>2 DEF ConsState
  <2>7. Labelled(m)
    BY <1>2, <2>1, <2>4, <2>6 DEF Labelled, ConsState
  <2>8. \A r \in Rounds : n.round < r => Untouched(n, r)
    BY <1>2, <1>3, <2>3, RoundsAreNaturals DEF NotarizedRounds
  <2>9. \A r \in Rounds : n.round < r => Untouched(m, r)
    <3>. SUFFICES ASSUME NEW r \in Rounds, n.round < r
                  PROVE  Untouched(m, r)
      OBVIOUS
    <3>1. r # n.round
      BY <1>2, RoundsAreNaturals
    <3>2. m.notarized[r] = n.notarized[r]
      BY <1>2, <2>4, <2>6, <3>1 DEF ConsState
    <3>3. \A q \in Peers : m.votes[r][q] = n.votes[r][q]
      BY <2>4, <2>6, <3>1
    <3>4. BlockVoters(m, r) = BlockVoters(n, r)
      BY <3>3 DEF BlockVoters
    <3>. QED
      BY <2>6, <2>8, <3>2, <3>4 DEF Untouched
  <2>10. \A r \in Rounds : m.notarized[r] # n.notarized[r] => r = n.round
    BY <1>2, <2>4, <2>6 DEF ConsState
  <2>11. m.notarized[n.round] = b
    BY <1>2, <2>4, <2>6 DEF ConsState
  <2>12. VotesMatchProposal(n)
    BY <2>3 DEF BeforeRoundEnd
  <2>13. \A r \in Rounds, q \in Peers : m.votes[r][q] \in {NoBlock, n.votes[r][q]}
    BY <2>4, <2>6
  <2>14. n.round <= m.round /\ m.round # n.round /\ \A r \in Rounds : m.round <= r => n.round < r
    BY <1>2, <2>6, RoundsAreNaturals
  <2>15. \A r \in Rounds : r = MaxRound => n.round < r
    BY <1>2, <2>2, RoundsAreNaturals
  <2>. QED
    BY <1>5, <2>6, <2>7, <2>9, <2>10, <2>11, <2>12, <2>13, <2>14, <2>15
<1>6. CASE ~(n.round < h) /\ ~HasProposalQuorum(n)
  <2>1. \A x \in NotarizedRounds(n) : x < n.round
    BY <1>1, <1>2, <1>6, RoundsAreNaturals DEF NotarizedRounds
  <2>2. CASE HasDummyQuorum(n)
    <3>1. m = [n EXCEPT !.round = @ + 1]
      BY <1>6, <2>2 DEF AdvanceRound, h
    <3>2. n.round # MaxRound
      <4>1. Cardinality({}) = 0
        BY FS_EmptySet
      <4>2. ASSUME n.dummies[n.round] = {} PROVE FALSE
        <5>1. T <= Cardinality({})
          BY <2>2, <4>2 DEF HasDummyQuorum
        <5>. QED
          BY <4>1, <5>1, QuorumSize
      <4>. QED
        BY <1>2, <1>3, <4>2 DEF Untouched
    <3>. n.round + 1 \in Rounds
      BY <1>2, <3>2, RoundsAreNaturals
    <3>3. /\ m \in ConsState /\ m.round = n.round + 1 /\ m.proposals = n.proposals
          /\ m.notarized = n.notarized /\ m.votes = n.votes /\ m.dummies = n.dummies
      BY <1>2, <3>1 DEF ConsState
    <3>4. \A r \in Rounds : n.round < r => Untouched(n, r)
      BY <1>2, <1>3, <2>1, RoundsAreNaturals DEF NotarizedRounds
    <3>5. \A r \in Rounds : Untouched(n, r) => Untouched(m, r)
      BY <3>3 DEF Untouched, BlockVoters
    <3>6. n.round <= m.round /\ m.round # n.round
          /\ \A r \in Rounds : m.round <= r \/ r = MaxRound => n.round < r
      BY <1>2, <3>2, <3>3, RoundsAreNaturals
    <3>. QED
      BY <1>2, <3>3, <3>4, <3>5, <3>6 DEF Labelled
  <2>3. CASE ~HasDummyQuorum(n)
    <3>1. m = n
      BY <1>6, <2>3 DEF AdvanceRound, h
    <3>. QED
      BY <1>2, <1>3, <2>1, <3>1, RoundsAreNaturals
  <2>. QED
    BY <2>2, <2>3
<1>. QED
    BY <1>4, <1>5, <1>6

\* A peer's tables are in order, and what they hold of the peers in H agrees
\* with the proposals P these peers stored.
Sound(n, H, P) == WellFormed(n) /\ Genuine(n, H, P) /\ AllSupported(n, H, P)

\* Bookkeeping that keeps the blocks and adds no dummy votes keeps a peer sound.
LEMMA SameChainSound ==
    ASSUME NEW n, NEW m \in ConsState, SameChain(n, m),
           \A r \in Rounds : m.dummies[r] \subseteq n.dummies[r],
           NEW H, NEW P, Sound(n, H, P)
    PROVE  Sound(m, H, P)
<1>1. \A r \in Rounds : Untouched(n, r) => Untouched(m, r)
    BY DEF Untouched, BlockVoters, SameChain
<1>2. WellFormed(m)
    BY <1>1 DEF Sound, WellFormed, Labelled, VotesMatchProposal, SameChain
<1>3. Genuine(m, H, P)
    BY DEF Sound, Genuine, SameChain
<1>4. AllSupported(m, H, P)
    BY DEF Sound, AllSupported, NotarizedRounds, SameChain
<1>. QED
    BY <1>2, <1>3, <1>4 DEF Sound

\* The block a proposal quorum notarizes is supported by the peers counted.
LEMMA QuorumSupports ==
    ASSUME NEW n \in ConsState, NEW H \in SUBSET Peers, NEW P, Genuine(n, H, P),
           HasProposalQuorum(n), VotesMatchProposal(n)
    PROVE  Supported(n.proposals[n.round], n.round, H, P)
<1> DEFINE S == BlockVoters(n, n.round)
<1>1. n.round \in Rounds /\ S \in SUBSET Peers /\ T <= Cardinality(S)
    BY DEF HasProposalQuorum, BlockVoters, ConsState
<1>2. \A q \in S \cap H : P[q][n.round] = n.proposals[n.round]
    BY <1>1 DEF HasProposalQuorum, VotesMatchProposal, BlockVoters, Genuine
<1>. HIDE DEF S
<1>. QED
    BY <1>1, <1>2 DEF Supported

\* check_round_end leaves sound tables, and never goes back a round.
LEMMA CheckRoundEndSound ==
    ASSUME NEW p \in Peers, NEW n, BeforeRoundEnd(n),
           NEW H \in SUBSET Peers, NEW P, Genuine(n, H, P), AllSupported(n, H, P)
    PROVE  LET k == CheckRoundEnd(p, n)
           IN  /\ Sound(k, H, P)
               /\ k.proposals = n.proposals
               /\ n.round <= k.round
<1> DEFINE m == AdvanceRound(n)
<1>1. /\ m \in ConsState /\ Labelled(m)
      /\ n.round <= m.round
      /\ m.round = n.round => m = n /\ \A x \in NotarizedRounds(n) : x < n.round
      /\ m.round # n.round => \A r \in Rounds : m.round <= r => Untouched(m, r)
      /\ m.proposals = n.proposals
      /\ \A r \in Rounds, q \in Peers : m.votes[r][q] \in {NoBlock, n.votes[r][q]}
      /\ \A r \in Rounds : m.notarized[r] # n.notarized[r] =>
            /\ r = n.round /\ m.notarized[r] = n.proposals[r]
            /\ HasProposalQuorum(n) /\ VotesMatchProposal(n)
      /\ \A r \in Rounds : r = MaxRound => Untouched(m, r)
    BY AdvanceRoundEffect
<1>2. n \in ConsState /\ n.round \in Rounds
    BY DEF BeforeRoundEnd, ConsState
<1>. HIDE DEF m
<1>3. m.round \in Rounds
    BY <1>1 DEF ConsState
<1>4. Genuine(m, H, P)
  <2>. SUFFICES ASSUME NEW q \in H, NEW r \in Rounds
                PROVE  m.votes[r][q] \in {NoBlock, P[q][r]}
    BY DEF Genuine
  <2>1. n.votes[r][q] \in {NoBlock, P[q][r]}
    BY DEF Genuine
  <2>2. m.votes[r][q] \in {NoBlock, n.votes[r][q]}
    BY <1>1
  <2>. QED
    BY <2>1, <2>2
<1>5. AllSupported(m, H, P)
  <2>. SUFFICES ASSUME NEW r \in NotarizedRounds(m)
                PROVE  Supported(m.notarized[r], r, H, P)
    BY DEF AllSupported
  <2>0. r \in Rounds
    BY DEF NotarizedRounds
  <2>1. CASE m.notarized[r] = n.notarized[r]
    BY <2>1 DEF AllSupported, NotarizedRounds
  <2>2. CASE m.notarized[r] # n.notarized[r]
    BY <1>1, <1>2, <2>0, <2>2, QuorumSupports
  <2>. QED
    BY <2>1, <2>2
<1>6. VotesMatchProposal(m)
  <2>1. CASE m.round = n.round
    BY <1>1, <2>1 DEF BeforeRoundEnd
  <2>2. CASE m.round # n.round
    BY <1>1, <1>3, <2>2, RoundsAreNaturals DEF Untouched, VotesMatchProposal
  <2>. QED
    BY <2>1, <2>2
<1>7. WellFormed(m)
  <2>1. m.notarized[m.round] = NoBlock
    <3>1. CASE m.round = n.round
      BY <1>1, <1>2, <3>1, RoundsAreNaturals DEF NotarizedRounds
    <3>2. CASE m.round # n.round
      BY <1>1, <1>3, <3>2, RoundsAreNaturals DEF Untouched
    <3>. QED
      BY <3>1, <3>2
  <2>2. \A r \in Rounds : m.round < r => Untouched(m, r)
    <3>1. CASE m.round = n.round
      BY <1>1, <1>2, <3>1, RoundsAreNaturals DEF BeforeRoundEnd, NotarizedRounds
    <3>2. CASE m.round # n.round
      BY <1>1, <1>3, <3>2, RoundsAreNaturals
    <3>. QED
      BY <3>1, <3>2
  <2>. QED
    BY <1>1, <1>6, <2>1, <2>2 DEF WellFormed
<1>8. Sound(m, H, P)
    BY <1>4, <1>5, <1>7 DEF Sound
<1> DEFINE t == [m EXCEPT !.timeout = NeedsATimeout(m)]
           u == [n EXCEPT !.timeout = @ \/ NeedsATimeout(n)]
           s == [t EXCEPT !.finSelfTx = t.round]
<1>9. NeedsATimeout(m) \in BOOLEAN /\ NeedsATimeout(n) \in BOOLEAN
    BY DEF NeedsATimeout
<1>10. t \in ConsState /\ SameChain(m, t) /\ t.dummies = m.dummies
    BY <1>1, <1>9 DEF ConsState, SameChain
<1>11. s \in ConsState /\ SameChain(m, s) /\ s.dummies = m.dummies /\ s.round = m.round
    BY <1>1, <1>3, <1>9 DEF ConsState, SameChain
<1>12. m = n => u \in ConsState /\ SameChain(m, u) /\ u.dummies = m.dummies
    BY <1>1, <1>2, <1>9 DEF ConsState, SameChain
<1>13. \/ m = n /\ CheckRoundEnd(p, n) = u
       \/ CheckRoundEnd(p, n) = t
       \/ CheckRoundEnd(p, n) = UpdatePeerFinalityVoteRound(s, p, m.round)
    BY <1>1 DEF CheckRoundEnd, VoteFinalitySelf, m
<1>. HIDE DEF t, u, s
<1>14. LET k == UpdatePeerFinalityVoteRound(s, p, m.round)
       IN  /\ k \in ConsState /\ SameChain(s, k)
           /\ \A r \in Rounds : k.dummies[r] \subseteq s.dummies[r]
    BY <1>3, <1>11, FinalityVoteFields
<1>15. LET k == CheckRoundEnd(p, n)
       IN  /\ k \in ConsState /\ SameChain(m, k)
           /\ \A r \in Rounds : k.dummies[r] \subseteq m.dummies[r]
    BY <1>10, <1>11, <1>12, <1>13, <1>14 DEF SameChain
<1>16. Sound(CheckRoundEnd(p, n), H, P)
    BY <1>8, <1>15, SameChainSound
<1>. QED
    BY <1>1, <1>15, <1>16 DEF SameChain

-----------------------------------------------------------------------------
(***************************************************************************)
(* The handlers.                                                           *)
(***************************************************************************)
\* Proposals P of the peers in H may be added to, not replaced.
Grows(H, P, P2) ==
    \A q \in H, r \in Rounds : P[q][r] = NoBlock \/ P2[q][r] = P[q][r]

\* What was sound stays sound when a peer stores another proposal.
LEMMA SoundGrows ==
    ASSUME NEW n, NEW H \in SUBSET Peers, NEW P, NEW P2, Sound(n, H, P), Grows(H, P, P2)
    PROVE  Sound(n, H, P2)
<1>1. Genuine(n, H, P2)
    BY DEF Sound, Genuine, Grows
<1>2. AllSupported(n, H, P2)
  <2>. SUFFICES ASSUME NEW r \in NotarizedRounds(n)
                PROVE  Supported(n.notarized[r], r, H, P2)
    BY DEF AllSupported
  <2>1. r \in Rounds /\ n.notarized[r] # NoBlock
    BY DEF NotarizedRounds
  <2>2. PICK S \in SUBSET Peers :
            T <= Cardinality(S) /\ \A q \in S \cap H : P[q][r] = n.notarized[r]
    BY DEF Sound, AllSupported, Supported
  <2>3. \A q \in S \cap H : P2[q][r] = n.notarized[r]
    BY <2>1, <2>2 DEF Grows
  <2>. QED
    BY <2>2, <2>3 DEF Supported
<1>. QED
    BY <1>1, <1>2 DEF Sound

\* A vote for the round's proposal, or before there is one, is filed.
LEMMA InsertVoteReady ==
    ASSUME NEW q \in Peers, NEW n, WellFormed(n), NEW b \in Block,
           n.round # MaxRound, n.proposals[n.round] \in {NoBlock, b}
    PROVE  LET m == InsertBlockVote(n, n.round, q, b)
           IN  /\ BeforeRoundEnd(m) /\ m \in ConsState
               /\ m.round = n.round /\ m.proposals = n.proposals /\ m.notarized = n.notarized
               /\ \A s \in Rounds, x \in Peers :
                    m.votes[s][x] = IF s = n.round /\ x = q THEN b ELSE n.votes[s][x]
<1> DEFINE m == InsertBlockVote(n, n.round, q, b)
<1>1. n \in ConsState /\ n.round \in Rounds
    BY DEF WellFormed, ConsState
<1>2. /\ m \in ConsState
      /\ m.round = n.round /\ m.proposals = n.proposals
      /\ m.notarized = n.notarized /\ m.dummies = n.dummies
      /\ \A s \in Rounds, x \in Peers :
            m.votes[s][x] = IF s = n.round /\ x = q THEN b ELSE n.votes[s][x]
    BY <1>1, InsertVoteFields
<1>. HIDE DEF m
<1>3. \A r \in Rounds : r # n.round /\ Untouched(n, r) => Untouched(m, r)
    BY <1>2 DEF Untouched, BlockVoters
<1>4. Labelled(m)
    BY <1>1, <1>2 DEF WellFormed, Labelled
<1>5. VotesMatchProposal(m)
    BY <1>1, <1>2 DEF WellFormed, VotesMatchProposal
<1>6. \A r \in Rounds : n.round < r \/ r = MaxRound => Untouched(m, r)
  <2>1. \A r \in Rounds : n.round < r => r # n.round
    BY <1>1, RoundsAreNaturals
  <2>. QED
    BY <1>1, <1>3, <2>1 DEF WellFormed
<1>7. BeforeRoundEnd(m)
    BY <1>2, <1>4, <1>5, <1>6 DEF BeforeRoundEnd
<1>. QED
    BY <1>2, <1>7 DEF m

\* Counting that vote keeps a peer sound.
LEMMA CountBlockVoteSound ==
    ASSUME NEW p \in Peers, NEW q \in Peers, NEW n, NEW b \in Block,
           NEW H \in SUBSET Peers, NEW P, Sound(n, H, P),
           n.round # MaxRound,
           n.proposals[n.round] \in {NoBlock, b},
           q \in H => P[q][n.round] = b
    PROVE  LET k == CountBlockVote(p, n, q, b)
           IN  Sound(k, H, P) /\ k.proposals = n.proposals /\ n.round <= k.round
<1> DEFINE m == InsertBlockVote(n, n.round, q, b)
<1>1. n \in ConsState /\ n.round \in Rounds /\ WellFormed(n)
    BY DEF Sound, WellFormed, ConsState
<1>2. /\ BeforeRoundEnd(m)
      /\ m.round = n.round /\ m.proposals = n.proposals /\ m.notarized = n.notarized
      /\ \A s \in Rounds, x \in Peers :
            m.votes[s][x] = IF s = n.round /\ x = q THEN b ELSE n.votes[s][x]
    BY <1>1, InsertVoteReady
<1>. HIDE DEF m
<1>3. Genuine(m, H, P)
    BY <1>2 DEF Sound, Genuine
<1>4. AllSupported(m, H, P)
    BY <1>2 DEF Sound, AllSupported, NotarizedRounds
<1>5. LET k == CheckRoundEnd(p, m)
      IN  Sound(k, H, P) /\ k.proposals = n.proposals /\ n.round <= k.round
    BY <1>2, <1>3, <1>4, CheckRoundEndSound
<1>6. CountBlockVote(p, n, q, b) \in {n, CheckRoundEnd(p, m)}
    BY DEF CountBlockVote, m
<1>7. n.round <= n.round
    BY <1>1, RoundsAreNaturals
<1>. QED
    BY <1>5, <1>6, <1>7

\* process_vote_response on a vote.
LEMMA ProcessVoteSound ==
    ASSUME NEW p \in Peers, NEW q \in Peers, NEW n, NEW b \in Block,
           NEW H \in SUBSET Peers, NEW P, Sound(n, H, P),
           n.round # MaxRound,
           q \in H => P[q][RoundOf(b)] = b
    PROVE  LET k == ProcessVote(p, n, q, b)
           IN  Sound(k, H, P) /\ k.proposals = n.proposals /\ n.round <= k.round
<1>1. n.round <= n.round
    BY RoundsAreNaturals DEF Sound, WellFormed, ConsState
<1>2. CASE RoundOf(b) = n.round /\ n.proposals[n.round] \in {NoBlock, b}
    BY <1>2, CountBlockVoteSound DEF ProcessVote
<1>3. CASE ~(RoundOf(b) = n.round /\ n.proposals[n.round] \in {NoBlock, b})
    BY <1>1, <1>3 DEF ProcessVote
<1>. QED
    BY <1>2, <1>3

\* process_vote_response on a proposal: it is stored only where there was none,
\* and only a leader's vote comes with it.
LEMMA ProcessProposalSound ==
    ASSUME NEW p \in Peers, NEW q \in Peers, NEW n, NEW b \in Block,
           NEW H \in SUBSET Peers, NEW P \in [Peers -> [Rounds -> OptBlock]],
           P[p] = n.proposals, Sound(n, H, P),
           n.round # MaxRound,
           q \in H /\ q # p => P[q][RoundOf(b)] = b
    PROVE  LET k == ProcessProposal(p, n, q, b)
           IN  /\ Sound(k, H, [P EXCEPT ![p] = k.proposals])
               /\ \A r \in Rounds : n.proposals[r] # NoBlock => k.proposals[r] = n.proposals[r]
               /\ n.round <= k.round
<1>1. n \in ConsState /\ n.round \in Rounds /\ WellFormed(n) /\ n.round <= n.round
    BY RoundsAreNaturals DEF Sound, WellFormed, ConsState
<1>2. CASE /\ RoundOf(b) = n.round /\ q = Leader[n.round]
           /\ DoesDirectlyExtend(b, LatestNotarized(n))
           /\ n.proposals[n.round] = NoBlock
  <2> DEFINE m  == InsertBlockProposal(n, b)
             P2 == [P EXCEPT ![p] = m.proposals]
  <2>1. /\ m \in ConsState
        /\ m.round = n.round /\ m.notarized = n.notarized /\ m.dummies = n.dummies
        /\ m.proposals = [n.proposals EXCEPT ![n.round] = b]
        /\ \A r \in Rounds, x \in Peers :
             m.votes[r][x] = IF r = n.round /\ n.votes[r][x] # b THEN NoBlock ELSE n.votes[r][x]
    BY <1>1, <1>2, InsertProposalFields
  <2>2. m.proposals \in [Rounds -> OptBlock] /\ n.proposals \in [Rounds -> OptBlock]
    BY <1>1, <2>1 DEF ConsState
  <2>3. ProcessProposal(p, n, q, b) = CountBlockVote(p, m, q, b)
    BY <1>2 DEF ProcessProposal
  <2>. HIDE DEF m
  <2>4. m.proposals[n.round] = b /\ \A r \in Rounds : r # n.round => m.proposals[r] = n.proposals[r]
    BY <1>1, <2>1, <2>2
  <2>5. P2[p] = m.proposals /\ \A x \in Peers : x # p => P2[x] = P[x]
    BY <2>2
  <2>. HIDE DEF P2
  <2>6. Grows(H, P, P2)
    BY <1>2, <2>4, <2>5 DEF Grows
  <2>7. Sound(n, H, P2)
    BY <2>6, SoundGrows
  <2>8. Genuine(m, H, P2)
    BY <2>1, <2>7 DEF Sound, Genuine
  <2>9. AllSupported(m, H, P2)
    BY <2>1, <2>7 DEF Sound, AllSupported, NotarizedRounds
  <2>10. WellFormed(m)
    <3>1. Labelled(m)
      BY <1>1, <1>2, <2>1, <2>4 DEF WellFormed, Labelled
    <3>2. \A r \in Rounds : r # n.round /\ Untouched(n, r) => Untouched(m, r)
      BY <2>1, <2>4 DEF Untouched, BlockVoters
    <3>3. \A r \in Rounds : n.round < r => r # n.round
      BY <1>1, RoundsAreNaturals
    <3>4. VotesMatchProposal(m)
      BY <1>1, <2>1, <2>4 DEF VotesMatchProposal
    <3>. QED
      BY <1>1, <2>1, <3>1, <3>2, <3>3, <3>4 DEF WellFormed
  <2>11. q \in H => P2[q][m.round] = b
    BY <1>2, <2>1, <2>4, <2>5
  <2>12. LET k == CountBlockVote(p, m, q, b)
         IN  Sound(k, H, P2) /\ k.proposals = m.proposals /\ m.round <= k.round
    <3>1. Sound(m, H, P2)
      BY <2>8, <2>9, <2>10 DEF Sound
    <3>2. m.round # MaxRound /\ m.proposals[m.round] \in {NoBlock, b}
      BY <2>1, <2>4
    <3>. QED
      BY <2>11, <3>1, <3>2, CountBlockVoteSound
  <2>. QED
    BY <1>2, <2>1, <2>3, <2>4, <2>12 DEF P2
<1>3. CASE ~(/\ RoundOf(b) = n.round /\ q = Leader[n.round]
             /\ DoesDirectlyExtend(b, LatestNotarized(n))
             /\ n.proposals[n.round] = NoBlock)
  <2>1. ProcessProposal(p, n, q, b) = n
    BY <1>3 DEF ProcessProposal
  <2>2. [P EXCEPT ![p] = n.proposals] = P
    OBVIOUS
  <2>. QED
    BY <1>1, <2>1, <2>2
<1>. QED
    BY <1>2, <1>3

\* Dummy votes of the current round are filed.
LEMMA InsertDummyReady ==
    ASSUME NEW qs \in SUBSET Peers, NEW n, WellFormed(n), n.round # MaxRound
    PROVE  LET m == InsertDummyVotes(n, n.round, qs)
           IN  BeforeRoundEnd(m) /\ m \in ConsState /\ SameChain(n, m)
<1> DEFINE m == InsertDummyVotes(n, n.round, qs)
<1>1. n \in ConsState /\ n.round \in Rounds
    BY DEF WellFormed, ConsState
<1>a. /\ m \in ConsState /\ SameChain(n, m)
      /\ m.dummies = [n.dummies EXCEPT ![n.round] = @ \cup qs]
    BY <1>1, InsertDummyFields
<1>. HIDE DEF m
<1>2. /\ m \in ConsState /\ SameChain(n, m)
      /\ \A r \in Rounds : r # n.round => m.dummies[r] = n.dummies[r]
    BY <1>1, <1>a DEF ConsState
<1>3. \A r \in Rounds : r # n.round /\ Untouched(n, r) => Untouched(m, r)
    BY <1>2 DEF Untouched, BlockVoters, SameChain
<1>4. \A r \in Rounds : n.round < r => r # n.round
    BY <1>1, RoundsAreNaturals
<1>5. BeforeRoundEnd(m)
    BY <1>1, <1>2, <1>3, <1>4
    DEF WellFormed, BeforeRoundEnd, SameChain, Labelled, VotesMatchProposal
<1>. QED
    BY <1>2, <1>5 DEF m

\* They keep a peer sound.
LEMMA InsertDummySound ==
    ASSUME NEW p \in Peers, NEW qs \in SUBSET Peers, NEW n,
           NEW H \in SUBSET Peers, NEW P, Sound(n, H, P), n.round # MaxRound
    PROVE  LET k == CheckRoundEnd(p, InsertDummyVotes(n, n.round, qs))
           IN  Sound(k, H, P) /\ k.proposals = n.proposals /\ n.round <= k.round
<1> DEFINE m == InsertDummyVotes(n, n.round, qs)
<1>1. BeforeRoundEnd(m) /\ SameChain(n, m)
    BY InsertDummyReady DEF Sound
<1>. HIDE DEF m
<1>2. Genuine(m, H, P) /\ AllSupported(m, H, P)
    BY <1>1 DEF Sound, Genuine, AllSupported, NotarizedRounds, SameChain
<1>. QED
    BY <1>1, <1>2, CheckRoundEndSound DEF SameChain, m

\* process_vote_response on a dummy vote.
LEMMA ProcessDummyVoteSound ==
    ASSUME NEW p \in Peers, NEW q \in Peers, NEW n,
           NEW H \in SUBSET Peers, NEW P, Sound(n, H, P), n.round # MaxRound
    PROVE  LET k == ProcessDummyVote(p, n, q)
           IN  Sound(k, H, P) /\ k.proposals = n.proposals /\ n.round <= k.round
<1>1. n.round <= n.round
    BY RoundsAreNaturals DEF Sound, WellFormed, ConsState
<1>2. {q} \in SUBSET Peers
    OBVIOUS
<1>3. ProcessDummyVote(p, n, q) \in {n, CheckRoundEnd(p, InsertDummyVotes(n, n.round, {q}))}
    BY DEF ProcessDummyVote
<1>. QED
    BY <1>1, <1>2, <1>3, InsertDummySound

\* process_notarized_block_response on a notarized dummy.
LEMMA ProcessNotarizedDummySound ==
    ASSUME NEW p \in Peers, NEW qs \in SUBSET Peers, NEW n,
           NEW H \in SUBSET Peers, NEW P, Sound(n, H, P), n.round # MaxRound
    PROVE  LET k == ProcessNotarizedDummy(p, n, qs)
           IN  Sound(k, H, P) /\ k.proposals = n.proposals /\ n.round <= k.round
<1>1. n.round <= n.round
    BY RoundsAreNaturals DEF Sound, WellFormed, ConsState
<1>2. ProcessNotarizedDummy(p, n, qs) \in {n, CheckRoundEnd(p, InsertDummyVotes(n, n.round, qs))}
    BY DEF ProcessNotarizedDummy
<1>. QED
    BY <1>1, <1>2, InsertDummySound

\* Deleting a notarized block leaves the tables in order.
LEMMA DeleteNotarizedReady ==
    ASSUME NEW n, NEW r \in Rounds, WellFormed(n)
    PROVE  LET m == DeleteNotarizedBlock(n, r)
           IN  /\ WellFormed(m)
               /\ m.round = n.round /\ m.proposals = n.proposals /\ m.votes = n.votes
               /\ \A x \in Rounds : m.notarized[x] = IF x = r THEN NoBlock ELSE n.notarized[x]
<1> DEFINE m == DeleteNotarizedBlock(n, r)
<1>1. n \in ConsState /\ n.round \in Rounds
    BY DEF WellFormed, ConsState
<1>2. /\ m \in ConsState
      /\ m.round = n.round /\ m.proposals = n.proposals
      /\ m.votes = n.votes /\ m.dummies = n.dummies
      /\ m.notarized = [n.notarized EXCEPT ![r] = NoBlock]
    BY <1>1, DeleteNotarizedFields
<1>. HIDE DEF m
<1>3. \A x \in Rounds : m.notarized[x] = IF x = r THEN NoBlock ELSE n.notarized[x]
    BY <1>1, <1>2 DEF ConsState
<1>4. \A x \in Rounds : Untouched(n, x) => Untouched(m, x)
    BY <1>2, <1>3 DEF Untouched, BlockVoters
<1>5. WellFormed(m)
    BY <1>1, <1>2, <1>3, <1>4 DEF WellFormed, Labelled, VotesMatchProposal
<1>. QED
    BY <1>2, <1>3, <1>5 DEF m

\* It leaves a peer sound.
LEMMA DeleteNotarizedSound ==
    ASSUME NEW n, NEW r \in Rounds, NEW H \in SUBSET Peers, NEW P, Sound(n, H, P)
    PROVE  Sound(DeleteNotarizedBlock(n, r), H, P)
<1> DEFINE m == DeleteNotarizedBlock(n, r)
<1>1. /\ WellFormed(m)
      /\ m.round = n.round /\ m.proposals = n.proposals /\ m.votes = n.votes
      /\ \A x \in Rounds : m.notarized[x] = IF x = r THEN NoBlock ELSE n.notarized[x]
    BY DeleteNotarizedReady DEF Sound
<1>. HIDE DEF m
<1>2. Genuine(m, H, P) /\ AllSupported(m, H, P)
    BY <1>1 DEF Sound, Genuine, AllSupported, NotarizedRounds
<1>. QED
    BY <1>1, <1>2 DEF Sound, m

\* A notarized block with a threshold of signatures is filed.
LEMMA InsertNotarizedReady ==
    ASSUME NEW n, WellFormed(n), NEW b \in Block, NEW sigs \in [Peers -> OptBlock],
           RoundOf(b) # MaxRound
    PROVE  LET m == InsertNotarizedWithVotes(n, b, sigs)
           IN  /\ BeforeRoundEnd(m) /\ m \in ConsState
               /\ m.round = n.round /\ m.proposals = n.proposals
               /\ \A r \in Rounds : m.notarized[r] = IF r = RoundOf(b) THEN b ELSE n.notarized[r]
               /\ \A r \in Rounds, q \in Peers :
                    /\ r # RoundOf(b) => m.votes[r][q] = n.votes[r][q]
                    /\ m.votes[RoundOf(b)][q] \in {NoBlock, b}
                    /\ m.votes[RoundOf(b)][q] = b <=> sigs[q] # NoBlock \/ n.votes[RoundOf(b)][q] = b
<1> DEFINE i == InsertNotarizedBlock(n, b)
           m == InsertNotarizedWithVotes(n, b, sigs)
           rb == RoundOf(b)
<1>1. n \in ConsState /\ n.round \in Rounds /\ rb \in Rounds /\ b # NoBlock
    BY BlockRound DEF WellFormed, ConsState, Block
<1>2. /\ i \in ConsState
      /\ i.round = n.round /\ i.proposals = n.proposals /\ i.dummies = n.dummies
      /\ i.notarized = [n.notarized EXCEPT ![rb] = b]
      /\ \A r \in Rounds, q \in Peers :
            i.votes[r][q] = IF r = rb /\ n.votes[r][q] # b THEN NoBlock ELSE n.votes[r][q]
    BY <1>1, InsertNotarizedFields
<1>3. m = [i EXCEPT !.votes[rb] = [q \in Peers |-> IF sigs[q] # NoBlock THEN b ELSE @[q]]]
    BY DEF InsertNotarizedWithVotes
<1>. HIDE DEF i, m, rb
<1>4. /\ m.round = i.round /\ m.proposals = i.proposals
      /\ m.notarized = i.notarized /\ m.dummies = i.dummies
      /\ m.votes = [i.votes EXCEPT ![rb] = [q \in Peers |-> IF sigs[q] # NoBlock THEN b ELSE @[q]]]
    BY <1>2, <1>3 DEF ConsState
<1>5. m \in ConsState
  <2>1. [q \in Peers |-> IF sigs[q] # NoBlock THEN b ELSE i.votes[rb][q]] \in [Peers -> OptBlock]
    BY <1>1, <1>2 DEF ConsState, Block
  <2>. QED
    BY <1>1, <1>2, <1>3, <2>1 DEF ConsState
<1>6. \A r \in Rounds, q \in Peers :
        /\ r # rb => m.votes[r][q] = n.votes[r][q]
        /\ m.votes[rb][q] \in {NoBlock, b}
        /\ m.votes[rb][q] = b <=> sigs[q] # NoBlock \/ n.votes[rb][q] = b
    BY <1>1, <1>2, <1>4 DEF ConsState
<1>7. \A r \in Rounds : m.notarized[r] = IF r = rb THEN b ELSE n.notarized[r]
    BY <1>1, <1>2, <1>4 DEF ConsState
<1>8. m.round = n.round /\ m.proposals = n.proposals /\ m.dummies = n.dummies
    BY <1>2, <1>4
<1>9. BeforeRoundEnd(m)
  <2>1. Labelled(m)
    BY <1>1, <1>7, <1>8 DEF WellFormed, Labelled, rb
  <2>2. \A r \in Rounds : r # rb /\ Untouched(n, r) => Untouched(m, r)
    BY <1>6, <1>7, <1>8 DEF Untouched, BlockVoters
  <2>3. rb \in NotarizedRounds(m) /\ rb # MaxRound
    BY <1>1, <1>7 DEF NotarizedRounds, rb
  <2>4. \A r \in Rounds : (\A x \in NotarizedRounds(m) : x < r) => r # rb
    BY <1>1, <2>3, RoundsAreNaturals
  <2>5. \A r \in Rounds :
            r = MaxRound \/ (m.round < r /\ \A x \in NotarizedRounds(m) : x < r)
                => Untouched(m, r)
    BY <1>1, <1>8, <2>2, <2>3, <2>4 DEF WellFormed
  <2>6. (\A x \in NotarizedRounds(m) : x < m.round) => VotesMatchProposal(m)
    BY <1>1, <1>6, <1>8, <2>4 DEF WellFormed, VotesMatchProposal
  <2>. QED
    BY <1>5, <2>1, <2>5, <2>6 DEF BeforeRoundEnd
<1>. QED
    BY <1>5, <1>6, <1>7, <1>8, <1>9 DEF m, rb

\* The signatures of the peers in H being genuine, that keeps a peer sound.
LEMMA InsertNotarizedSound ==
    ASSUME NEW p \in Peers, NEW n, NEW b \in Block, NEW sigs \in [Peers -> OptBlock],
           NEW H \in SUBSET Peers, NEW P, Sound(n, H, P),
           RoundOf(b) # MaxRound, VerifySigs(b, sigs),
           \A x \in H : sigs[x] \in {NoBlock, P[x][RoundOf(b)]}
    PROVE  LET k == CheckRoundEnd(p, InsertNotarizedWithVotes(n, b, sigs))
           IN  Sound(k, H, P) /\ k.proposals = n.proposals /\ n.round <= k.round
<1> DEFINE m == InsertNotarizedWithVotes(n, b, sigs)
           rb == RoundOf(b)
<1>1. WellFormed(n) /\ rb \in Rounds /\ b # NoBlock
    BY BlockRound DEF Sound, Block
<1>2. /\ BeforeRoundEnd(m) /\ m \in ConsState
      /\ m.round = n.round /\ m.proposals = n.proposals
      /\ \A r \in Rounds : m.notarized[r] = IF r = rb THEN b ELSE n.notarized[r]
      /\ \A r \in Rounds, q \in Peers :
            /\ r # rb => m.votes[r][q] = n.votes[r][q]
            /\ m.votes[rb][q] \in {NoBlock, b}
            /\ m.votes[rb][q] = b <=> sigs[q] # NoBlock \/ n.votes[rb][q] = b
    BY <1>1, InsertNotarizedReady
<1>. HIDE DEF m, rb
<1>3. Genuine(m, H, P)
  <2>. SUFFICES ASSUME NEW q \in H, NEW r \in Rounds
                PROVE  m.votes[r][q] \in {NoBlock, P[q][r]}
    BY DEF Genuine
  <2>1. n.votes[r][q] \in {NoBlock, P[q][r]}
    BY DEF Sound, Genuine
  <2>2. CASE r # rb
    BY <1>2, <2>1, <2>2
  <2>3. CASE r = rb
    <3>1. sigs[q] # NoBlock => sigs[q] = b
      BY DEF VerifySigs
    <3>. QED
      BY <1>1, <1>2, <2>1, <2>3, <3>1 DEF rb
  <2>. QED
    BY <2>2, <2>3
<1>4. AllSupported(m, H, P)
  <2>. SUFFICES ASSUME NEW r \in NotarizedRounds(m)
                PROVE  Supported(m.notarized[r], r, H, P)
    BY DEF AllSupported
  <2>0. r \in Rounds
    BY DEF NotarizedRounds
  <2>1. CASE r # rb
    BY <1>2, <2>0, <2>1 DEF Sound, AllSupported, NotarizedRounds
  <2>2. CASE r = rb
    <3> DEFINE S == {q \in Peers : sigs[q] # NoBlock}
    <3>1. S \in SUBSET Peers /\ T <= Cardinality(S)
      BY DEF VerifySigs
    <3>2. \A q \in S \cap H : P[q][r] = b
      BY <2>2 DEF VerifySigs, rb
    <3>3. m.notarized[r] = b
      BY <1>2, <2>0, <2>2
    <3>. HIDE DEF S
    <3>. QED
      BY <3>1, <3>2, <3>3 DEF Supported
  <2>. QED
    BY <2>1, <2>2
<1>. QED
    BY <1>2, <1>3, <1>4, CheckRoundEndSound DEF m

\* process_notarized_block_response on a block.
LEMMA ProcessNotarizedBlockSound ==
    ASSUME NEW p \in Peers, NEW n, NEW b \in Block, NEW sigs \in [Peers -> OptBlock],
           NEW H \in SUBSET Peers, NEW P, Sound(n, H, P),
           RoundOf(b) # MaxRound,
           \A x \in H : sigs[x] \in {NoBlock, P[x][RoundOf(b)]}
    PROVE  LET k == ProcessNotarizedBlock(p, n, b, sigs)
           IN  Sound(k, H, P) /\ k.proposals = n.proposals /\ n.round <= k.round
<1> DEFINE latest == LatestNotarized(n)
           d == DeleteNotarizedBlock(n, RoundOf(latest))
<1>1. n \in ConsState /\ n.round \in Rounds /\ n.round \in Int /\ n.round <= n.round
    BY RoundsAreNaturals DEF Sound, WellFormed, ConsState
<1>2. latest = NoBlock \/ latest \in Block
    BY <1>1, PrevNotarized DEF LatestNotarized
<1>3. \/ ProcessNotarizedBlock(p, n, b, sigs) = n
      \/ /\ VerifySigs(b, sigs)
         /\ ProcessNotarizedBlock(p, n, b, sigs)
                = CheckRoundEnd(p, InsertNotarizedWithVotes(n, b, sigs))
      \/ /\ VerifySigs(b, sigs) /\ latest # NoBlock
         /\ ProcessNotarizedBlock(p, n, b, sigs)
                = CheckRoundEnd(p, InsertNotarizedWithVotes(d, b, sigs))
    BY DEF ProcessNotarizedBlock
<1>. HIDE DEF latest
<1>4. latest # NoBlock => RoundOf(latest) \in Rounds
    BY <1>2, BlockRound
<1>5. latest # NoBlock => Sound(d, H, P) /\ d.round = n.round /\ d.proposals = n.proposals
    BY <1>1, <1>4, DeleteNotarizedSound, DeleteNotarizedFields
<1>. HIDE DEF d
<1>6. CASE ProcessNotarizedBlock(p, n, b, sigs) = n
    BY <1>1, <1>6
<1>7. CASE VerifySigs(b, sigs) /\ ProcessNotarizedBlock(p, n, b, sigs)
                = CheckRoundEnd(p, InsertNotarizedWithVotes(n, b, sigs))
    BY <1>7, InsertNotarizedSound
<1>8. CASE /\ VerifySigs(b, sigs) /\ latest # NoBlock
           /\ ProcessNotarizedBlock(p, n, b, sigs)
                = CheckRoundEnd(p, InsertNotarizedWithVotes(d, b, sigs))
    BY <1>5, <1>8, InsertNotarizedSound
<1>. QED
    BY <1>3, <1>6, <1>7, <1>8

\* A finality vote keeps a peer sound.
LEMMA FinalityVoteSound ==
    ASSUME NEW n, NEW q \in Peers, NEW v \in Rounds,
           NEW H \in SUBSET Peers, NEW P, Sound(n, H, P)
    PROVE  LET k == UpdatePeerFinalityVoteRound(n, q, v)
           IN  Sound(k, H, P) /\ SameChain(n, k)
<1>1. n \in ConsState
    BY DEF Sound, WellFormed
<1>. QED
    BY <1>1, FinalityVoteFields, SameChainSound

\* The round after the latest notarized block is a round.
LEMMA LatestIsARound ==
    ASSUME NEW n, WellFormed(n)
    PROVE  RoundAfter(LatestNotarized(n)) \in Rounds
<1>1. n \in ConsState /\ n.round \in Rounds /\ n.round \in Int
    BY RoundsAreNaturals DEF WellFormed, ConsState
<1>2. CASE LatestNotarized(n) = NoBlock
    BY <1>2, RoundsAreNaturals DEF RoundAfter
<1>3. CASE LatestNotarized(n) # NoBlock
  <2>1. PICK x \in NotarizedRounds(n) :
            LatestNotarized(n) = n.notarized[x] /\ LatestNotarized(n) \in Block /\ x < n.round
    BY <1>1, <1>3, PrevNotarized DEF LatestNotarized
  <2>2. RoundAfter(LatestNotarized(n)) = x + 1 /\ x \in Rounds
    BY <1>1, <2>1, BlockRound DEF WellFormed, Labelled, NotarizedRounds
  <2>. QED
    BY <1>1, <2>1, <2>2, RoundsAreNaturals
<1>. QED
    BY <1>2, <1>3

\* Opening the database again keeps a peer sound.
LEMMA OpenInternalSound ==
    ASSUME NEW p \in Peers, NEW n, NEW H \in SUBSET Peers, NEW P, Sound(n, H, P)
    PROVE  LET k == OpenInternal(p, n)
           IN  Sound(k, H, P) /\ k.proposals = n.proposals /\ n.round <= k.round
<1> DEFINE self == RoundAfter(LatestNotarized(n))
           m == [n EXCEPT !.timeout = FALSE, !.finConsTx = n.finCons, !.finSelfTx = self]
           k == UpdatePeerFinalityVoteRound(m, p, self)
<1>1. n \in ConsState /\ n.round \in Rounds /\ n.round \in Int /\ WellFormed(n)
    BY RoundsAreNaturals DEF Sound, WellFormed, ConsState
<1>2. self \in Rounds
    BY <1>1, LatestIsARound
<1>. HIDE DEF self
<1>3. m \in ConsState /\ SameChain(n, m) /\ m.dummies = n.dummies
    BY <1>1, <1>2 DEF ConsState, SameChain
<1>4. OpenInternal(p, n) = CheckRoundEnd(p, k)
    BY DEF OpenInternal, self
<1>. HIDE DEF m
<1>5. Sound(m, H, P)
    BY <1>3, SameChainSound
<1>6. Sound(k, H, P) /\ SameChain(m, k)
    BY <1>2, <1>5, FinalityVoteSound
<1>. HIDE DEF k
<1>7. BeforeRoundEnd(k)
    BY <1>6, WellFormedBeforeRoundEnd DEF Sound
<1>8. Sound(CheckRoundEnd(p, k), H, P)
      /\ CheckRoundEnd(p, k).proposals = k.proposals /\ k.round <= CheckRoundEnd(p, k).round
    BY <1>6, <1>7, CheckRoundEndSound DEF Sound
<1>. QED
    BY <1>3, <1>4, <1>6, <1>8 DEF SameChain

\* A new database is sound.
LEMMA InitTablesSound ==
    ASSUME NEW H \in SUBSET Peers, NEW P
    PROVE  Sound(InitTables, H, P)
<1>1. InitTables \in ConsState
    BY RoundsAreNaturals DEF InitTables, ConsState, OptBlock, NoBlock, NoVote
<1>2. WellFormed(InitTables)
    BY <1>1, RoundsAreNaturals
    DEF InitTables, WellFormed, Labelled, Untouched, BlockVoters, VotesMatchProposal
<1>3. Genuine(InitTables, H, P) /\ AllSupported(InitTables, H, P)
    BY DEF InitTables, Genuine, AllSupported, NotarizedRounds
<1>. QED
    BY <1>2, <1>3 DEF Sound

-----------------------------------------------------------------------------
(***************************************************************************)
(* What a peer has reached, and what stands behind it.                     *)
(***************************************************************************)
\* Some notarized block is of the round before v, or later.
Reaches(n, v) == v = 0 \/ \E x \in NotarizedRounds(n) : v <= x + 1

\* The rows kept for a notarized block are its notarization.
VotesKept(n) == \A r \in NotarizedRounds(n) : VerifySigs(n.notarized[r], n.votes[r])

\* The first notarized block has no parent; as long as there is none, no
\* proposal has one.
FirstIsFirst(n) ==
    /\ NotarizedRounds(n) = {} =>
         \A r \in Rounds : n.proposals[r] # NoBlock => Len(n.proposals[r]) = 1
    /\ NotarizedRounds(n) # {} =>
         \E x \in NotarizedRounds(n) :
            Len(n.notarized[x]) = 1 /\ \A y \in NotarizedRounds(n) : x <= y

Grounded(n) == VotesKept(n) /\ Reaches(n, n.finSelfTx) /\ FirstIsFirst(n)

\* From n to k, a peer goes back in nothing.
Onward(n, k) ==
    /\ n.round <= k.round
    /\ n.finSelfTx <= k.finSelfTx
    /\ \A x \in NotarizedRounds(n) : \E y \in NotarizedRounds(k) : x <= y

\* With s[q] the own finality vote of q: enough peers of H vote for v that any
\* threshold of peers has one of them.
BackedBy(v, H, s) == T <= Cardinality({q \in H : v <= s[q]}) + Cardinality(Peers \ H)

\* What n knows of the finality votes of the peers in H, and made of them.
FinalityFrom(n, H, s) ==
    /\ \A q \in H : n.finVotes[q] <= s[q]
    /\ BackedBy(n.finCons, H, s) /\ BackedBy(n.finConsTx, H, s)

\* The finality fields of k come from those of n and from p's own vote.
FinalityKept(p, n, k) ==
    \A H \in SUBSET Peers, s \in [Peers -> Rounds] :
        FinalityFrom(n, H, s) /\ k.finSelfTx <= s[p] => FinalityFrom(k, H, s)

\* What every transaction of p does.
Advances(p, n, k) == Grounded(k) /\ Onward(n, k) /\ FinalityKept(p, n, k)

\* Notarized blocks are below the current round.
LEMMA NotarizedBelow ==
    ASSUME NEW n, WellFormed(n), NEW x \in NotarizedRounds(n)
    PROVE  /\ x \in Rounds /\ x < n.round /\ x # MaxRound
           /\ n.notarized[x] \in Block /\ RoundOf(n.notarized[x]) = x
<1>1. n \in ConsState /\ x \in Rounds /\ n.round \in Rounds /\ n.notarized[x] # NoBlock
    BY DEF WellFormed, ConsState, NotarizedRounds
<1>2. ~(n.round < x) /\ x # n.round /\ x # MaxRound
    BY <1>1 DEF WellFormed, Untouched
<1>. QED
    BY <1>1, <1>2, RoundsAreNaturals DEF WellFormed, Labelled, ConsState, Block

\* What is reached, in terms of the latest notarized block.
LEMMA LatestReached ==
    ASSUME NEW n, WellFormed(n), NEW v \in Nat
    PROVE  Reaches(n, v) <=> v <= RoundAfter(LatestNotarized(n))
<1> DEFINE b == LatestNotarized(n)
<1>1. n \in ConsState /\ n.round \in Int
    BY RoundsAreNaturals DEF WellFormed, ConsState
<1>2. CASE b = NoBlock
  <2>1. NotarizedRounds(n) = {}
    <3>1. \A x \in NotarizedRounds(n) : x < n.round /\ n.notarized[x] # NoBlock
      BY NotarizedBelow DEF NotarizedRounds
    <3>. QED
      BY <1>1, <1>2, <3>1, PrevNotarized DEF LatestNotarized, Block
  <2>. QED
    BY <1>2, <2>1 DEF Reaches, RoundAfter
<1>3. CASE b # NoBlock
  <2>1. PICK x \in NotarizedRounds(n) :
            /\ b = n.notarized[x] /\ b \in Block
            /\ \A y \in NotarizedRounds(n) : y < n.round => y <= x
    BY <1>1, <1>3, PrevNotarized DEF LatestNotarized
  <2>2. RoundAfter(b) = x + 1 /\ x \in Nat
    BY <2>1, NotarizedBelow, BlockRound, RoundsAreNaturals
  <2>3. \A y \in NotarizedRounds(n) : y <= x /\ y \in Nat
    BY <2>1, NotarizedBelow, RoundsAreNaturals
  <2>. QED
    BY <2>1, <2>2, <2>3 DEF Reaches
<1>. QED
    BY <1>2, <1>3

\* What was reached stays reached.
LEMMA OnwardReaches ==
    ASSUME NEW n, NEW k, NotarizedRounds(n) \subseteq Nat, NotarizedRounds(k) \subseteq Nat,
           \A x \in NotarizedRounds(n) : \E y \in NotarizedRounds(k) : x <= y,
           NEW v \in Nat, Reaches(n, v)
    PROVE  Reaches(k, v)
<1>1. CASE v = 0
    BY <1>1 DEF Reaches
<1>2. CASE v # 0
  <2>1. PICK x \in NotarizedRounds(n) : v <= x + 1
    BY <1>2 DEF Reaches
  <2>2. PICK y \in NotarizedRounds(k) : x <= y
    OBVIOUS
  <2>3. x \in Nat /\ y \in Nat /\ v <= y + 1
    BY <2>1, <2>2
  <2>. QED
    BY <2>2, <2>3 DEF Reaches
<1>. QED
    BY <1>1, <1>2

\* The latest notarized block never gets older.
LEMMA OnwardLatest ==
    ASSUME NEW n, NEW k, WellFormed(n), WellFormed(k), Onward(n, k)
    PROVE  RoundAfter(LatestNotarized(n)) <= RoundAfter(LatestNotarized(k))
<1>1. RoundAfter(LatestNotarized(n)) \in Nat
    BY LatestIsARound, RoundsAreNaturals
<1>2. Reaches(n, RoundAfter(LatestNotarized(n)))
    BY <1>1, LatestReached
<1>3. NotarizedRounds(n) \subseteq Nat /\ NotarizedRounds(k) \subseteq Nat
    BY RoundsAreNaturals DEF NotarizedRounds
<1>4. Reaches(k, RoundAfter(LatestNotarized(n)))
    BY <1>1, <1>2, <1>3, OnwardReaches DEF Onward
<1>. QED
    BY <1>1, <1>4, LatestReached

\* Advancing the round keeps all votes, notarized blocks and finality fields.
LEMMA AdvanceRoundKeeps ==
    ASSUME NEW n, BeforeRoundEnd(n), NEW m, m = AdvanceRound(n)
    PROVE  /\ \A r \in Rounds, q \in Peers : m.votes[r][q] = n.votes[r][q]
           /\ \A r \in NotarizedRounds(n) : m.notarized[r] = n.notarized[r]
           /\ m.finVotes = n.finVotes /\ m.finCons = n.finCons
           /\ m.finConsTx = n.finConsTx /\ m.finSelfTx = n.finSelfTx
           /\ \A r \in NotarizedRounds(m) : r \notin NotarizedRounds(n) =>
                /\ r = n.round /\ m.notarized[r] = n.proposals[r]
                /\ m.round = n.round + 1
                /\ \A x \in NotarizedRounds(n) : x < n.round
                /\ HasProposalQuorum(n) /\ VotesMatchProposal(n)
<1> DEFINE h == RoundAfter(GetPrevNotarizedBlock(n, MaxRound + 1))
<1>1. h \in Rounds /\ \A x \in NotarizedRounds(n) : x < h
    BY HighestNotarized
<1>2. n \in ConsState /\ n.round \in Rounds /\ Labelled(n)
    BY DEF BeforeRoundEnd, ConsState
<1>. HIDE DEF h
<1>3. CASE n.round < h
  <2>1. m = [n EXCEPT !.round = h]
    BY <1>3 DEF AdvanceRound, h
  <2>. QED
    BY <1>1, <1>2, <2>1 DEF ConsState, NotarizedRounds
<1>4. CASE ~(n.round < h) /\ HasProposalQuorum(n)
  <2> DEFINE b == n.proposals[n.round]
             k == InsertNotarizedBlock(n, b)
  <2>1. b \in Block /\ RoundOf(b) = n.round
    BY <1>2, <1>4 DEF HasProposalQuorum, Labelled, ConsState, Block
  <2>2. \A x \in NotarizedRounds(n) : x < n.round
    BY <1>1, <1>2, <1>4, RoundsAreNaturals DEF NotarizedRounds
  <2>3. VotesMatchProposal(n)
    BY <2>2 DEF BeforeRoundEnd
  <2>4. /\ k \in ConsState
        /\ k.round = n.round /\ k.proposals = n.proposals /\ k.dummies = n.dummies
        /\ k.notarized = [n.notarized EXCEPT ![n.round] = b]
        /\ \A r \in Rounds, q \in Peers :
             k.votes[r][q] = IF r = n.round /\ n.votes[r][q] # b THEN NoBlock ELSE n.votes[r][q]
    BY <1>2, <2>1, InsertNotarizedFields
  <2>5. \A q \in Peers : n.votes[n.round][q] \in {NoBlock, b}
    BY <1>4, <2>3 DEF VotesMatchProposal, HasProposalQuorum
  <2>6. \A r \in Rounds, q \in Peers : k.votes[r][q] = n.votes[r][q]
    BY <2>4, <2>5
  <2>7. /\ k.finVotes = n.finVotes /\ k.finCons = n.finCons
        /\ k.finConsTx = n.finConsTx /\ k.finSelfTx = n.finSelfTx
    BY <1>2 DEF InsertNotarizedBlock, ConsState
  <2>8. m = [k EXCEPT !.round = @ + 1]
    BY <1>4 DEF AdvanceRound, h
  <2>9. \A r \in Rounds : k.notarized[r] = IF r = n.round THEN b ELSE n.notarized[r]
    BY <1>2, <2>4 DEF ConsState
  <2>. HIDE DEF k
  <2>10. /\ m.votes = k.votes /\ m.notarized = k.notarized /\ m.round = n.round + 1
         /\ m.finVotes = k.finVotes /\ m.finCons = k.finCons
         /\ m.finConsTx = k.finConsTx /\ m.finSelfTx = k.finSelfTx
    BY <2>4, <2>8 DEF ConsState
  <2>11. \A r \in NotarizedRounds(n) : r \in Rounds /\ r # n.round
    BY <1>2, <2>2, RoundsAreNaturals DEF NotarizedRounds
  <2>12. \A r \in NotarizedRounds(n) : m.notarized[r] = n.notarized[r]
    BY <2>9, <2>10, <2>11
  <2>13. \A r \in NotarizedRounds(m) : r \notin NotarizedRounds(n) => r = n.round /\ m.notarized[r] = b
    BY <2>9, <2>10 DEF NotarizedRounds
  <2>. QED
    BY <1>4, <2>2, <2>3, <2>6, <2>7, <2>10, <2>12, <2>13
<1>5. CASE ~(n.round < h) /\ ~HasProposalQuorum(n)
  <2>1. m = n \/ m = [n EXCEPT !.round = @ + 1]
    BY <1>5 DEF AdvanceRound, h
  <2>. QED
    BY <1>2, <2>1 DEF ConsState, NotarizedRounds
<1>. QED
    BY <1>3, <1>4, <1>5

\* The block a proposal quorum notarizes has a threshold of votes and no others.
LEMMA QuorumVerifies ==
    ASSUME NEW n, HasProposalQuorum(n), VotesMatchProposal(n), NEW rows,
           \A q \in Peers : rows[q] = n.votes[n.round][q]
    PROVE  VerifySigs(n.proposals[n.round], rows)
<1>1. {q \in Peers : rows[q] # NoBlock} = BlockVoters(n, n.round)
    BY DEF BlockVoters
<1>. QED
    BY <1>1 DEF HasProposalQuorum, VotesMatchProposal, VerifySigs

\* Advancing the round keeps a peer's blocks grounded.
LEMMA AdvanceRoundGrounded ==
    ASSUME NEW n, BeforeRoundEnd(n), Grounded(n), NEW m, m = AdvanceRound(n)
    PROVE  Grounded(m) /\ Onward(n, m)
<1>1. /\ \A r \in Rounds, q \in Peers : m.votes[r][q] = n.votes[r][q]
      /\ \A r \in NotarizedRounds(n) : m.notarized[r] = n.notarized[r]
      /\ m.finSelfTx = n.finSelfTx
      /\ \A r \in NotarizedRounds(m) : r \notin NotarizedRounds(n) =>
            /\ r = n.round /\ m.notarized[r] = n.proposals[r]
            /\ m.round = n.round + 1
            /\ \A x \in NotarizedRounds(n) : x < n.round
            /\ HasProposalQuorum(n) /\ VotesMatchProposal(n)
    BY AdvanceRoundKeeps
<1>2. m.proposals = n.proposals /\ n.round <= m.round
    BY AdvanceRoundEffect
<1>3. n.round \in Rounds /\ NotarizedRounds(n) \subseteq Rounds /\ NotarizedRounds(m) \subseteq Rounds
      /\ n.finSelfTx \in Nat /\ NotarizedRounds(n) \subseteq NotarizedRounds(m)
    BY <1>1, RoundsAreNaturals DEF BeforeRoundEnd, ConsState, NotarizedRounds
<1>4. VotesKept(m)
  <2>. SUFFICES ASSUME NEW r \in NotarizedRounds(m)
                PROVE  VerifySigs(m.notarized[r], m.votes[r])
    BY DEF VotesKept
  <2>1. CASE r \in NotarizedRounds(n)
    <3>1. VerifySigs(n.notarized[r], n.votes[r]) /\ m.notarized[r] = n.notarized[r]
      BY <1>1, <2>1 DEF Grounded, VotesKept
    <3>2. {q \in Peers : m.votes[r][q] # NoBlock} = {q \in Peers : n.votes[r][q] # NoBlock}
      BY <1>1, <1>3
    <3>. QED
      BY <1>1, <1>3, <3>1, <3>2 DEF VerifySigs
  <2>2. CASE r \notin NotarizedRounds(n)
    BY <1>1, <1>3, <2>2, QuorumVerifies
  <2>. QED
    BY <2>1, <2>2
<1>5. \A x \in NotarizedRounds(n) : \E y \in NotarizedRounds(m) : x <= y
    BY <1>3, RoundsAreNaturals
<1>6. Reaches(m, m.finSelfTx)
    BY <1>1, <1>3, <1>5, OnwardReaches, RoundsAreNaturals DEF Grounded
<1>7. FirstIsFirst(m)
  <2>1. CASE NotarizedRounds(n) = {}
    BY <1>1, <1>2, <1>3, <2>1, RoundsAreNaturals
    DEF Grounded, FirstIsFirst, HasProposalQuorum
  <2>2. CASE NotarizedRounds(n) # {}
    <3>1. PICK x \in NotarizedRounds(n) :
            Len(n.notarized[x]) = 1 /\ \A y \in NotarizedRounds(n) : x <= y
      BY <2>2 DEF Grounded, FirstIsFirst
    <3>2. \A y \in NotarizedRounds(m) : x <= y
      BY <1>1, <1>3, <3>1, RoundsAreNaturals
    <3>. QED
      BY <1>1, <1>3, <3>1, <3>2 DEF FirstIsFirst
  <2>. QED
    BY <2>1, <2>2
<1>8. n.finSelfTx <= m.finSelfTx
    BY <1>1, <1>3
<1>. QED
    BY <1>2, <1>4, <1>5, <1>6, <1>7, <1>8 DEF Grounded, Onward

\* The finality consensus has a threshold of votes.
LEMMA SortedHasVoters ==
    ASSUME NEW n \in ConsState
    PROVE  T <= Cardinality(FinalityVoters(n, SortedVoteAtMaxFaulty(n)))
<1> DEFINE V == {v \in Rounds : T <= Cardinality(FinalityVoters(n, v))}
<1>1. 0 \in V
  <2>1. FinalityVoters(n, 0) = Peers
    BY DEF FinalityVoters
  <2>. QED
    BY <2>1, QuorumSize, RoundsAreNaturals
<1>2. V \in SUBSET (0 .. MaxRound)
    BY RoundsAreNaturals
<1>3. Max(V) \in V
  <2>. HIDE DEF V
  <2>. QED
    BY <1>1, <1>2, MaxOfNaturals, RoundsAreNaturals
<1>. QED
    BY <1>3 DEF SortedVoteAtMaxFaulty

\* A finality consensus made of votes that the peers in H really reached is
\* backed by them.
LEMMA SortedIsBacked ==
    ASSUME NEW n \in ConsState, NEW H \in SUBSET Peers, NEW s \in [Peers -> Rounds],
           \A q \in H : n.finVotes[q] <= s[q]
    PROVE  BackedBy(SortedVoteAtMaxFaulty(n), H, s)
<1> DEFINE v == SortedVoteAtMaxFaulty(n)
           A == FinalityVoters(n, v)
           B == {q \in H : v <= s[q]}
           Z == Peers \ H
<1>1. v \in Rounds /\ T <= Cardinality(A)
    BY FinalityIsARound, SortedHasVoters
<1>2. A \in SUBSET Peers /\ B \in SUBSET Peers /\ Z \in SUBSET Peers
    BY DEF FinalityVoters
<1>3. A \subseteq B \cup Z
  <2>. SUFFICES ASSUME NEW q \in A, q \in H PROVE v <= s[q]
    BY <1>2
  <2>1. q \in Peers /\ s[q] \in Nat /\ v \in Nat
    BY <1>1, <1>2, RoundsAreNaturals
  <2>2. v = 0 \/ v <= n.finVotes[q]
    BY DEF FinalityVoters
  <2>3. n.finVotes[q] <= s[q] /\ n.finVotes[q] \in Int
    BY <2>1, RoundsAreNaturals DEF ConsState, NoVote
  <2>. QED
    BY <2>1, <2>2, <2>3
<1>. HIDE DEF v, A, B, Z
<1>4. IsFiniteSet(A) /\ IsFiniteSet(B) /\ IsFiniteSet(Z) /\ IsFiniteSet(B \cup Z)
    BY <1>2, PeersAssumption, FS_Subset
<1>5. Cardinality(A) <= Cardinality(B \cup Z)
    BY <1>3, <1>4, FS_Subset
<1>6. /\ Cardinality(B \cup Z) = Cardinality(B) + Cardinality(Z) - Cardinality(B \cap Z)
      /\ Cardinality(A) \in Nat /\ Cardinality(B) \in Nat /\ Cardinality(Z) \in Nat
      /\ Cardinality(B \cap Z) \in Nat /\ Cardinality(B \cup Z) \in Nat
    BY <1>4, FS_Union, FS_CardinalityType, FS_Intersection
<1>7. T <= Cardinality(B) + Cardinality(Z)
    BY <1>1, <1>5, <1>6, QuorumSize
<1>. QED
    BY <1>7 DEF BackedBy, v, B, Z

\* A vote that q really cast, or that of a peer outside H, keeps what n knows.
LEMMA FinalityVoteFrom ==
    ASSUME NEW n \in ConsState, NEW q \in Peers, NEW v \in Rounds,
           NEW H \in SUBSET Peers, NEW s \in [Peers -> Rounds],
           FinalityFrom(n, H, s), q \in H => v <= s[q]
    PROVE  FinalityFrom(UpdatePeerFinalityVoteRound(n, q, v), H, s)
<1> DEFINE k == [n EXCEPT !.finVotes[q] = v]
           m == RecalculateFinalityConsensus(k)
           new == SortedVoteAtMaxFaulty(k)
<1>1. /\ k \in ConsState /\ k.finVotes = [n.finVotes EXCEPT ![q] = v]
      /\ k.finCons = n.finCons /\ k.finConsTx = n.finConsTx
    BY DEF ConsState
<1>2. \A x \in H : k.finVotes[x] <= s[x]
    BY <1>1 DEF FinalityFrom, ConsState
<1>3. UpdatePeerFinalityVoteRound(n, q, v) \in {k, m}
    BY DEF UpdatePeerFinalityVoteRound
<1>. HIDE DEF k
<1>4. FinalityFrom(k, H, s)
    BY <1>1, <1>2 DEF FinalityFrom
<1>5. BackedBy(new, H, s)
    BY <1>1, <1>2, SortedIsBacked
<1>6. /\ m.finVotes = k.finVotes /\ m.finCons = new
      /\ m.finConsTx \in {k.finConsTx, new}
    BY <1>1 DEF RecalculateFinalityConsensus, PruneDummyVotes, ConsState
<1>. HIDE DEF m, new
<1>7. FinalityFrom(m, H, s)
    BY <1>4, <1>5, <1>6 DEF FinalityFrom
<1>. QED
    BY <1>3, <1>4, <1>7

\* Where check_round_end changes the finality fields, it is by p's vote for the
\* round it enters, past a notarized block.
LEMMA CheckRoundEndCases ==
    ASSUME NEW p \in Peers, NEW n, BeforeRoundEnd(n), NEW m, m = AdvanceRound(n),
           NEW k, k = CheckRoundEnd(p, n)
    PROVE  /\ k \in ConsState /\ SameChain(m, k)
           /\ \/ /\ k.finVotes = n.finVotes /\ k.finCons = n.finCons
                 /\ k.finConsTx = n.finConsTx /\ k.finSelfTx = n.finSelfTx
              \/ \E s \in ConsState :
                 /\ k = UpdatePeerFinalityVoteRound(s, p, m.round)
                 /\ m.round - 1 \in NotarizedRounds(m)
                 /\ s.finVotes = n.finVotes /\ s.finCons = n.finCons
                 /\ s.finConsTx = n.finConsTx
                 /\ s.finSelfTx = m.round /\ k.finSelfTx = m.round
<1>1. m \in ConsState /\ n.round <= m.round /\ (m.round = n.round => m = n) /\ m.round \in Rounds
    BY AdvanceRoundEffect DEF ConsState
<1>2. n \in ConsState /\ n.round \in Rounds
    BY DEF BeforeRoundEnd, ConsState
<1>3. /\ m.finVotes = n.finVotes /\ m.finCons = n.finCons
      /\ m.finConsTx = n.finConsTx /\ m.finSelfTx = n.finSelfTx
    BY AdvanceRoundKeeps
<1> DEFINE t == [m EXCEPT !.timeout = NeedsATimeout(m)]
           u == [n EXCEPT !.timeout = @ \/ NeedsATimeout(n)]
           s == [t EXCEPT !.finSelfTx = t.round]
<1>4. NeedsATimeout(m) \in BOOLEAN /\ NeedsATimeout(n) \in BOOLEAN
    BY DEF NeedsATimeout
<1>5. /\ t \in ConsState /\ SameChain(m, t)
      /\ t.finVotes = n.finVotes /\ t.finCons = n.finCons
      /\ t.finConsTx = n.finConsTx /\ t.finSelfTx = n.finSelfTx
    BY <1>1, <1>3, <1>4 DEF ConsState, SameChain
<1>6. /\ s \in ConsState /\ SameChain(m, s) /\ s.round = m.round
      /\ s.finVotes = n.finVotes /\ s.finCons = n.finCons
      /\ s.finConsTx = n.finConsTx /\ s.finSelfTx = m.round
    BY <1>1, <1>3, <1>4 DEF ConsState, SameChain
<1>7. m = n => /\ u \in ConsState /\ SameChain(m, u)
               /\ u.finVotes = n.finVotes /\ u.finCons = n.finCons
               /\ u.finConsTx = n.finConsTx /\ u.finSelfTx = n.finSelfTx
    BY <1>1, <1>2, <1>4 DEF ConsState, SameChain
<1>8. \/ m = n /\ k = u
      \/ k = t
      \/ /\ m.round # n.round /\ m.notarized[m.round - 1] # NoBlock
         /\ k = UpdatePeerFinalityVoteRound(s, p, m.round)
    BY <1>1 DEF CheckRoundEnd, VoteFinalitySelf
<1>. HIDE DEF t, u, s
<1>9. CASE m = n /\ k = u
    BY <1>7, <1>9
<1>10. CASE k = t
    BY <1>5, <1>10
<1>11. CASE /\ m.round # n.round /\ m.notarized[m.round - 1] # NoBlock
            /\ k = UpdatePeerFinalityVoteRound(s, p, m.round)
  <2>1. k \in ConsState /\ SameChain(s, k) /\ k.finSelfTx = m.round
    BY <1>1, <1>6, <1>11, FinalityVoteFields
  <2>2. m.round - 1 \in Rounds
    BY <1>1, <1>2, <1>11, RoundsAreNaturals
  <2>3. m.round - 1 \in NotarizedRounds(m)
    BY <1>11, <2>2 DEF NotarizedRounds
  <2>. QED
    BY <1>6, <1>11, <2>1, <2>3 DEF SameChain
<1>. QED
    BY <1>8, <1>9, <1>10, <1>11

\* check_round_end takes nothing back and leaves everything grounded.
LEMMA CheckRoundEndAdvances ==
    ASSUME NEW p \in Peers, NEW n, BeforeRoundEnd(n), Grounded(n)
    PROVE  Advances(p, n, CheckRoundEnd(p, n))
<1> DEFINE m == AdvanceRound(n)
           k == CheckRoundEnd(p, n)
<1>1. Grounded(m) /\ Onward(n, m) /\ m.finSelfTx = n.finSelfTx
    BY AdvanceRoundGrounded, AdvanceRoundKeeps
<1>2. n \in ConsState /\ m \in ConsState /\ m.round \in Rounds
    BY AdvanceRoundEffect DEF BeforeRoundEnd, ConsState
<1>3. /\ k \in ConsState /\ SameChain(m, k)
      /\ \/ /\ k.finVotes = n.finVotes /\ k.finCons = n.finCons
            /\ k.finConsTx = n.finConsTx /\ k.finSelfTx = n.finSelfTx
         \/ \E s \in ConsState :
            /\ k = UpdatePeerFinalityVoteRound(s, p, m.round)
            /\ m.round - 1 \in NotarizedRounds(m)
            /\ s.finVotes = n.finVotes /\ s.finCons = n.finCons
            /\ s.finConsTx = n.finConsTx
            /\ s.finSelfTx = m.round /\ k.finSelfTx = m.round
    BY CheckRoundEndCases
<1>4. \A x \in NotarizedRounds(m) : x \in Nat /\ x + 1 <= m.round
  <2>1. /\ \A r \in Rounds : m.round < r => Untouched(m, r)
        /\ m.notarized[m.round] = NoBlock
    <3>2. m.round # n.round => \A r \in Rounds : m.round <= r => Untouched(m, r)
      BY AdvanceRoundEffect
    <3>3. m.round = n.round => m = n /\ \A x \in NotarizedRounds(n) : x < n.round
      BY AdvanceRoundEffect
    <3>. HIDE DEF m
    <3>4. CASE m.round = n.round
      BY <1>2, <3>3, <3>4, RoundsAreNaturals DEF BeforeRoundEnd, NotarizedRounds
    <3>5. CASE m.round # n.round
      BY <1>2, <3>2, <3>5, RoundsAreNaturals DEF Untouched
    <3>. QED
      BY <3>4, <3>5
  <2>. HIDE DEF m
  <2>. QED
    BY <1>2, <2>1, RoundsAreNaturals DEF Untouched, NotarizedRounds
<1>. HIDE DEF m, k
<1>5. NotarizedRounds(k) = NotarizedRounds(m) /\ k.notarized = m.notarized
      /\ k.votes = m.votes /\ k.proposals = m.proposals /\ k.round = m.round
    BY <1>3 DEF SameChain, NotarizedRounds
<1>6. n.finSelfTx \in Nat /\ k.finSelfTx \in Nat /\ m.round \in Nat
    BY <1>2, <1>3, RoundsAreNaturals DEF ConsState
<1>7. VotesKept(k) /\ FirstIsFirst(k)
    BY <1>1, <1>5 DEF Grounded, VotesKept, FirstIsFirst
<1>8. n.finSelfTx <= m.round
    BY <1>1, <1>4, <1>6 DEF Grounded, Reaches
<1>9. Reaches(k, k.finSelfTx) /\ n.finSelfTx <= k.finSelfTx
  <2>1. CASE k.finSelfTx = n.finSelfTx
    BY <1>1, <1>5, <1>6, <2>1 DEF Grounded, Reaches
  <2>2. CASE m.round - 1 \in NotarizedRounds(m) /\ k.finSelfTx = m.round
    BY <1>5, <1>6, <1>8, <2>2 DEF Reaches
  <2>. QED
    BY <1>3, <2>1, <2>2
<1>10. Onward(n, k)
    BY <1>1, <1>5, <1>9 DEF Onward
<1>11. FinalityKept(p, n, k)
  <2>. SUFFICES ASSUME NEW H \in SUBSET Peers, NEW s \in [Peers -> Rounds],
                       FinalityFrom(n, H, s), k.finSelfTx <= s[p]
                PROVE  FinalityFrom(k, H, s)
    BY DEF FinalityKept
  <2>1. CASE /\ k.finVotes = n.finVotes /\ k.finCons = n.finCons /\ k.finConsTx = n.finConsTx
    BY <2>1 DEF FinalityFrom
  <2>2. ASSUME NEW z \in ConsState,
               k = UpdatePeerFinalityVoteRound(z, p, m.round), k.finSelfTx = m.round,
               z.finVotes = n.finVotes, z.finCons = n.finCons, z.finConsTx = n.finConsTx
        PROVE  FinalityFrom(k, H, s)
    <3>1. FinalityFrom(z, H, s)
      BY <2>2 DEF FinalityFrom
    <3>. QED
      BY <1>2, <2>2, <3>1, FinalityVoteFrom
  <2>. QED
    BY <1>3, <2>1, <2>2
<1>. QED
    BY <1>7, <1>9, <1>10, <1>11 DEF Advances, Grounded, k

\* The finality fields are the same.
SameFinality(n, m) ==
    /\ m.finVotes = n.finVotes /\ m.finCons = n.finCons
    /\ m.finConsTx = n.finConsTx /\ m.finSelfTx = n.finSelfTx

\* A transaction that does nothing.
LEMMA AdvancesStays ==
    ASSUME NEW p \in Peers, NEW n \in ConsState, Grounded(n)
    PROVE  Advances(p, n, n)
<1>1. n.round \in Nat /\ n.finSelfTx \in Nat /\ NotarizedRounds(n) \subseteq Nat
    BY RoundsAreNaturals DEF ConsState, NotarizedRounds
<1>2. Onward(n, n)
    BY <1>1 DEF Onward
<1>. QED
    BY <1>2 DEF Advances, FinalityKept

\* Table writes and then the end of the round.
LEMMA AdvancesAfter ==
    ASSUME NEW p \in Peers, NEW n \in ConsState, NEW m \in ConsState, NEW k \in ConsState,
           m.round = n.round, SameFinality(n, m), Advances(p, m, k),
           \A x \in NotarizedRounds(n) : \E y \in NotarizedRounds(m) : x <= y
    PROVE  Advances(p, n, k)
<1>1. /\ NotarizedRounds(n) \subseteq Nat /\ NotarizedRounds(m) \subseteq Nat
      /\ NotarizedRounds(k) \subseteq Nat
    BY RoundsAreNaturals DEF NotarizedRounds
<1>2. \A x \in NotarizedRounds(n) : \E y \in NotarizedRounds(k) : x <= y
  <2>. TAKE x \in NotarizedRounds(n)
  <2>1. PICK y \in NotarizedRounds(m) : x <= y
    OBVIOUS
  <2>2. PICK z \in NotarizedRounds(k) : y <= z
    BY DEF Advances, Onward
  <2>3. x \in Nat /\ y \in Nat /\ z \in Nat
    BY <1>1
  <2>4. x <= z
    BY <2>1, <2>2, <2>3
  <2>. QED
    BY <2>4
<1>3. Onward(n, k)
    BY <1>2 DEF Advances, Onward, SameFinality
<1>4. FinalityKept(p, n, k)
    BY DEF Advances, FinalityKept, FinalityFrom, SameFinality
<1>. QED
    BY <1>3, <1>4 DEF Advances

\* A block vote of the current round changes no notarization.
LEMMA CountBlockVoteAdvances ==
    ASSUME NEW p \in Peers, NEW q \in Peers, NEW n, WellFormed(n), Grounded(n), NEW b \in Block,
           n.round # MaxRound, n.proposals[n.round] \in {NoBlock, b}
    PROVE  Advances(p, n, CountBlockVote(p, n, q, b))
<1> DEFINE m == InsertBlockVote(n, n.round, q, b)
<1>1. n \in ConsState /\ n.round \in Rounds
    BY DEF WellFormed, ConsState
<1>2. /\ BeforeRoundEnd(m) /\ m \in ConsState
      /\ m.round = n.round /\ m.proposals = n.proposals /\ m.notarized = n.notarized
      /\ \A s \in Rounds, x \in Peers :
            m.votes[s][x] = IF s = n.round /\ x = q THEN b ELSE n.votes[s][x]
    BY InsertVoteReady
<1>3. SameFinality(n, m)
    BY <1>1 DEF InsertBlockVote, SameFinality, ConsState
<1>4. CountBlockVote(p, n, q, b) \in {n, CheckRoundEnd(p, m)}
    BY DEF CountBlockVote
<1>. HIDE DEF m
<1>5. NotarizedRounds(m) = NotarizedRounds(n)
    BY <1>2 DEF NotarizedRounds
<1>6. VotesKept(m)
  <2>. SUFFICES ASSUME NEW r \in NotarizedRounds(n)
                PROVE  VerifySigs(m.notarized[r], m.votes[r])
    BY <1>5 DEF VotesKept
  <2>1. r \in Rounds /\ r # n.round
    BY NotarizedBelow, <1>1, RoundsAreNaturals
  <2>2. \A x \in Peers : m.votes[r][x] = n.votes[r][x]
    BY <1>2, <2>1
  <2>3. {x \in Peers : m.votes[r][x] # NoBlock} = {x \in Peers : n.votes[r][x] # NoBlock}
    BY <2>2
  <2>. QED
    BY <1>2, <2>2, <2>3 DEF Grounded, VotesKept, VerifySigs
<1>7. Grounded(m)
    BY <1>2, <1>3, <1>5, <1>6 DEF Grounded, Reaches, FirstIsFirst, SameFinality
<1>8. Advances(p, m, CheckRoundEnd(p, m)) /\ CheckRoundEnd(p, m) \in ConsState
    BY <1>2, <1>7, CheckRoundEndAdvances, CheckRoundEndCases
<1>9. \A x \in NotarizedRounds(n) : x <= x /\ x \in NotarizedRounds(m)
    BY <1>5, RoundsAreNaturals DEF NotarizedRounds
<1>10. Advances(p, n, CheckRoundEnd(p, m))
    BY <1>1, <1>2, <1>3, <1>8, <1>9, AdvancesAfter
<1>. QED
    BY <1>1, <1>4, <1>10, AdvancesStays

\* process_vote_response on a vote.
LEMMA ProcessVoteAdvances ==
    ASSUME NEW p \in Peers, NEW q \in Peers, NEW n, WellFormed(n), Grounded(n), NEW b \in Block,
           n.round # MaxRound
    PROVE  Advances(p, n, ProcessVote(p, n, q, b))
<1>1. n \in ConsState
    BY DEF WellFormed
<1>2. CASE RoundOf(b) = n.round /\ n.proposals[n.round] \in {NoBlock, b}
    BY <1>2, CountBlockVoteAdvances DEF ProcessVote
<1>3. CASE ~(RoundOf(b) = n.round /\ n.proposals[n.round] \in {NoBlock, b})
    BY <1>1, <1>3, AdvancesStays DEF ProcessVote
<1>. QED
    BY <1>2, <1>3

\* A proposal of the current round is filed where there was none.
LEMMA InsertProposalReady ==
    ASSUME NEW n, WellFormed(n), NEW b \in Block, RoundOf(b) = n.round, n.round # MaxRound,
           n.proposals[n.round] = NoBlock
    PROVE  LET m == InsertBlockProposal(n, b)
           IN  /\ WellFormed(m) /\ m \in ConsState /\ SameFinality(n, m)
               /\ m.round = n.round /\ m.notarized = n.notarized
               /\ m.proposals = [n.proposals EXCEPT ![n.round] = b]
               /\ \A r \in Rounds, x \in Peers :
                    m.votes[r][x] = IF r = n.round /\ n.votes[r][x] # b
                                    THEN NoBlock ELSE n.votes[r][x]
<1> DEFINE m == InsertBlockProposal(n, b)
<1>1. n \in ConsState /\ n.round \in Rounds
    BY DEF WellFormed, ConsState
<1>2. /\ m \in ConsState
      /\ m.round = n.round /\ m.notarized = n.notarized /\ m.dummies = n.dummies
      /\ m.proposals = [n.proposals EXCEPT ![n.round] = b]
      /\ \A r \in Rounds, x \in Peers :
           m.votes[r][x] = IF r = n.round /\ n.votes[r][x] # b THEN NoBlock ELSE n.votes[r][x]
    BY <1>1, InsertProposalFields
<1>3. SameFinality(n, m)
    BY <1>1 DEF InsertBlockProposal, SameFinality, ConsState
<1>. HIDE DEF m
<1>4. m.proposals[n.round] = b /\ \A r \in Rounds : r # n.round => m.proposals[r] = n.proposals[r]
    BY <1>1, <1>2 DEF ConsState
<1>5. Labelled(m)
    BY <1>1, <1>2, <1>4 DEF WellFormed, Labelled
<1>6. \A r \in Rounds : r # n.round /\ Untouched(n, r) => Untouched(m, r)
    BY <1>2, <1>4 DEF Untouched, BlockVoters
<1>7. \A r \in Rounds : n.round < r => r # n.round
    BY <1>1, RoundsAreNaturals
<1>8. VotesMatchProposal(m)
    BY <1>1, <1>2, <1>4 DEF VotesMatchProposal
<1>9. WellFormed(m)
    BY <1>1, <1>2, <1>5, <1>6, <1>7, <1>8 DEF WellFormed
<1>. QED
    BY <1>2, <1>3, <1>9 DEF m

\* process_vote_response on a proposal: without notarized blocks it has no parent.
LEMMA ProcessProposalAdvances ==
    ASSUME NEW p \in Peers, NEW q \in Peers, NEW n, WellFormed(n), Grounded(n), NEW b \in Block,
           n.round # MaxRound
    PROVE  Advances(p, n, ProcessProposal(p, n, q, b))
<1>1. n \in ConsState /\ n.round \in Rounds
    BY DEF WellFormed, ConsState
<1>2. CASE /\ RoundOf(b) = n.round /\ q = Leader[n.round]
           /\ DoesDirectlyExtend(b, LatestNotarized(n))
           /\ n.proposals[n.round] = NoBlock
  <2> DEFINE m == InsertBlockProposal(n, b)
             k == CountBlockVote(p, m, q, b)
  <2>1. /\ WellFormed(m) /\ m \in ConsState /\ SameFinality(n, m)
        /\ m.round = n.round /\ m.notarized = n.notarized
        /\ m.proposals = [n.proposals EXCEPT ![n.round] = b]
        /\ \A r \in Rounds, x \in Peers :
             m.votes[r][x] = IF r = n.round /\ n.votes[r][x] # b THEN NoBlock ELSE n.votes[r][x]
    BY <1>2, InsertProposalReady
  <2>2. ProcessProposal(p, n, q, b) = k
    BY <1>2 DEF ProcessProposal
  <2>. HIDE DEF m
  <2>3. m.proposals[n.round] = b /\ \A r \in Rounds : r # n.round => m.proposals[r] = n.proposals[r]
    BY <1>1, <2>1 DEF ConsState
  <2>4. NotarizedRounds(m) = NotarizedRounds(n)
    BY <2>1 DEF NotarizedRounds
  <2>5. VotesKept(m)
    <3>. SUFFICES ASSUME NEW r \in NotarizedRounds(n)
                  PROVE  VerifySigs(m.notarized[r], m.votes[r])
      BY <2>4 DEF VotesKept
    <3>1. r \in Rounds /\ r # n.round
      BY NotarizedBelow, <1>1, RoundsAreNaturals
    <3>2. \A x \in Peers : m.votes[r][x] = n.votes[r][x]
      BY <2>1, <3>1
    <3>3. {x \in Peers : m.votes[r][x] # NoBlock} = {x \in Peers : n.votes[r][x] # NoBlock}
      BY <3>2
    <3>. QED
      BY <2>1, <3>2, <3>3 DEF Grounded, VotesKept, VerifySigs
  <2>6. FirstIsFirst(m)
    <3>1. CASE NotarizedRounds(n) = {}
      <4>1. LatestNotarized(n) = NoBlock
        BY <3>1 DEF LatestNotarized, GetPrevNotarizedBlock
      <4>2. Len(NoBlock) = 0
        BY DEF NoBlock
      <4>3. Len(b) = 1
        BY <1>2, <4>1, <4>2 DEF DoesDirectlyExtend
      <4>. QED
        BY <2>3, <2>4, <3>1, <4>3 DEF Grounded, FirstIsFirst
    <3>2. CASE NotarizedRounds(n) # {}
      BY <2>1, <2>4, <3>2 DEF Grounded, FirstIsFirst
    <3>. QED
      BY <3>1, <3>2
  <2>7. Grounded(m)
    BY <2>1, <2>4, <2>5, <2>6 DEF Grounded, Reaches, SameFinality
  <2>8. m.round # MaxRound /\ m.proposals[m.round] \in {NoBlock, b}
    BY <2>1, <2>3
  <2>9. Advances(p, m, k)
    BY <2>1, <2>7, <2>8, CountBlockVoteAdvances
  <2>10. k \in ConsState
    <3> DEFINE i == InsertBlockVote(m, m.round, q, b)
    <3>1. k \in {m, CheckRoundEnd(p, i)}
      BY DEF CountBlockVote
    <3>2. BeforeRoundEnd(i)
      BY <2>1, <2>8, InsertVoteReady
    <3>. HIDE DEF i, k
    <3>. QED
      BY <2>1, <3>1, <3>2, CheckRoundEndCases
  <2>11. \A x \in NotarizedRounds(n) : x <= x /\ x \in NotarizedRounds(m)
    BY <2>4, RoundsAreNaturals DEF NotarizedRounds
  <2>. HIDE DEF k
  <2>. QED
    BY <1>1, <2>1, <2>2, <2>9, <2>10, <2>11, AdvancesAfter
<1>3. CASE ~(/\ RoundOf(b) = n.round /\ q = Leader[n.round]
             /\ DoesDirectlyExtend(b, LatestNotarized(n))
             /\ n.proposals[n.round] = NoBlock)
    BY <1>1, <1>3, AdvancesStays DEF ProcessProposal
<1>. QED
    BY <1>2, <1>3

\* Dummy votes change no notarization.
LEMMA InsertDummyAdvances ==
    ASSUME NEW p \in Peers, NEW qs \in SUBSET Peers, NEW n, WellFormed(n), Grounded(n),
           n.round # MaxRound
    PROVE  Advances(p, n, CheckRoundEnd(p, InsertDummyVotes(n, n.round, qs)))
<1> DEFINE m == InsertDummyVotes(n, n.round, qs)
<1>1. n \in ConsState
    BY DEF WellFormed
<1>2. BeforeRoundEnd(m) /\ m \in ConsState /\ SameChain(n, m)
    BY InsertDummyReady
<1>3. SameFinality(n, m)
    BY <1>1 DEF InsertDummyVotes, SameFinality, ConsState
<1>. HIDE DEF m
<1>4. NotarizedRounds(m) = NotarizedRounds(n)
    BY <1>2 DEF NotarizedRounds, SameChain
<1>5. Grounded(m)
    BY <1>2, <1>3, <1>4 DEF Grounded, VotesKept, Reaches, FirstIsFirst, SameFinality, SameChain
<1>6. Advances(p, m, CheckRoundEnd(p, m)) /\ CheckRoundEnd(p, m) \in ConsState
    BY <1>2, <1>5, CheckRoundEndAdvances, CheckRoundEndCases
<1>7. \A x \in NotarizedRounds(n) : x <= x /\ x \in NotarizedRounds(m)
    BY <1>4, RoundsAreNaturals DEF NotarizedRounds
<1>8. Advances(p, n, CheckRoundEnd(p, m))
    BY <1>1, <1>2, <1>3, <1>6, <1>7, AdvancesAfter DEF SameChain
<1>. QED
    BY <1>8 DEF m

\* A notarized block above all others is filed, after a deletion or not.
LEMMA InsertNotarizedAdvances ==
    ASSUME NEW p \in Peers, NEW n, WellFormed(n), Grounded(n),
           NEW d, WellFormed(d), SameFinality(n, d), d.round = n.round, VotesKept(d),
           NotarizedRounds(d) \subseteq NotarizedRounds(n),
           NEW b \in Block, NEW sigs \in [Peers -> OptBlock],
           RoundOf(b) # MaxRound, VerifySigs(b, sigs),
           \A x \in NotarizedRounds(n) : x < RoundOf(b),
           \/ NotarizedRounds(d) = {} /\ Len(b) = 1
           \/ \E x \in NotarizedRounds(d) :
                Len(d.notarized[x]) = 1 /\ \A y \in NotarizedRounds(d) : x <= y
    PROVE  Advances(p, n, CheckRoundEnd(p, InsertNotarizedWithVotes(d, b, sigs)))
<1> DEFINE m == InsertNotarizedWithVotes(d, b, sigs)
           rb == RoundOf(b)
<1>1. /\ n \in ConsState /\ d \in ConsState /\ rb \in Rounds /\ b # NoBlock
      /\ NotarizedRounds(n) \subseteq Nat /\ NotarizedRounds(d) \subseteq Rounds /\ rb \in Nat
    BY BlockRound, RoundsAreNaturals DEF WellFormed, Block, NotarizedRounds
<1>2. /\ BeforeRoundEnd(m) /\ m \in ConsState
      /\ m.round = d.round /\ m.proposals = d.proposals
      /\ \A r \in Rounds : m.notarized[r] = IF r = rb THEN b ELSE d.notarized[r]
      /\ \A r \in Rounds, q \in Peers :
            /\ r # rb => m.votes[r][q] = d.votes[r][q]
            /\ m.votes[rb][q] \in {NoBlock, b}
            /\ m.votes[rb][q] = b <=> sigs[q] # NoBlock \/ d.votes[rb][q] = b
    BY InsertNotarizedReady
<1>3. SameFinality(n, m)
  <2>1. SameFinality(d, InsertNotarizedBlock(d, b)) /\ InsertNotarizedBlock(d, b) \in ConsState
    BY <1>1, InsertNotarizedFields DEF InsertNotarizedBlock, SameFinality, ConsState
  <2>2. SameFinality(InsertNotarizedBlock(d, b), m)
    <3> DEFINE i == InsertNotarizedBlock(d, b)
    <3>. HIDE DEF i
    <3>1. i \in ConsState /\ m = [i EXCEPT !.votes[rb] =
                [q \in Peers |-> IF sigs[q] # NoBlock THEN b ELSE @[q]]]
      BY <2>1 DEF InsertNotarizedWithVotes, i
    <3>2. SameFinality(i, m)
      BY <3>1 DEF SameFinality, ConsState
    <3>. QED
      BY <3>2 DEF i
  <2>. QED
    BY <2>1, <2>2 DEF SameFinality
<1>. HIDE DEF m, rb
<1>4. NotarizedRounds(m) = NotarizedRounds(d) \cup {rb}
    BY <1>1, <1>2 DEF NotarizedRounds
<1>5. \A x \in NotarizedRounds(n) : x <= rb
    BY <1>1 DEF rb
<1>6. \A x \in NotarizedRounds(d) : x # rb /\ x \in Rounds /\ m.notarized[x] = d.notarized[x] /\ x <= rb
  <2>1. \A x \in NotarizedRounds(d) : x \in NotarizedRounds(n) /\ x \in Rounds /\ x < rb /\ x \in Nat
    BY <1>1, RoundsAreNaturals DEF rb
  <2>2. \A x \in NotarizedRounds(d) : x # rb /\ x <= rb
    BY <1>1, <2>1
  <2>. QED
    BY <1>2, <2>1, <2>2
<1>7. VotesKept(m)
  <2>. SUFFICES ASSUME NEW r \in NotarizedRounds(m)
                PROVE  VerifySigs(m.notarized[r], m.votes[r])
    BY DEF VotesKept
  <2>1. CASE r = rb
    <3> DEFINE A == {q \in Peers : sigs[q] # NoBlock}
               B == {q \in Peers : m.votes[r][q] # NoBlock}
    <3>1. A \subseteq B
      BY <1>1, <1>2, <2>1
    <3>2. A \in SUBSET Peers /\ B \in SUBSET Peers
      OBVIOUS
    <3>3. T <= Cardinality(A)
      BY DEF VerifySigs
    <3>. HIDE DEF A, B
    <3>4. IsFiniteSet(A) /\ IsFiniteSet(B)
      BY <3>2, PeersAssumption, FS_Subset
    <3>5. Cardinality(A) <= Cardinality(B) /\ Cardinality(A) \in Nat /\ Cardinality(B) \in Nat
      BY <3>1, <3>4, FS_Subset, FS_CardinalityType
    <3>6. T <= Cardinality(B)
      BY <3>3, <3>5, QuorumSize
    <3>. QED
      BY <1>1, <1>2, <2>1, <3>6 DEF VerifySigs, B
  <2>2. CASE r # rb
    <3>1. r \in NotarizedRounds(d) /\ r \in Rounds /\ m.notarized[r] = d.notarized[r]
      BY <1>4, <1>6, <2>2
    <3>2. \A q \in Peers : m.votes[r][q] = d.votes[r][q]
      BY <1>2, <2>2, <3>1
    <3>3. {q \in Peers : m.votes[r][q] # NoBlock} = {q \in Peers : d.votes[r][q] # NoBlock}
      BY <3>2
    <3>. QED
      BY <3>1, <3>2, <3>3 DEF VotesKept, VerifySigs
  <2>. QED
    BY <2>1, <2>2
<1>8. FirstIsFirst(m)
  <2>0. m.notarized[rb] = b
    BY <1>1, <1>2
  <2>1. CASE NotarizedRounds(d) = {} /\ Len(b) = 1
    BY <1>1, <1>4, <2>0, <2>1 DEF FirstIsFirst
  <2>2. CASE \E x \in NotarizedRounds(d) :
                Len(d.notarized[x]) = 1 /\ \A y \in NotarizedRounds(d) : x <= y
    BY <1>4, <1>6, <2>2 DEF FirstIsFirst
  <2>. QED
    BY <2>1, <2>2
<1>9. \A x \in NotarizedRounds(n) : \E y \in NotarizedRounds(m) : x <= y
    BY <1>4, <1>5
<1>10. Reaches(m, m.finSelfTx)
  <2>1. n.finSelfTx \in Nat /\ NotarizedRounds(m) \subseteq Nat
    BY <1>1, RoundsAreNaturals DEF ConsState, NotarizedRounds
  <2>. QED
    BY <1>1, <1>3, <1>9, <2>1, OnwardReaches DEF Grounded, SameFinality
<1>11. Grounded(m)
    BY <1>7, <1>8, <1>10 DEF Grounded
<1>12. Advances(p, m, CheckRoundEnd(p, m)) /\ CheckRoundEnd(p, m) \in ConsState
    BY <1>2, <1>11, CheckRoundEndAdvances, CheckRoundEndCases
<1>13. Advances(p, n, CheckRoundEnd(p, m))
    BY <1>1, <1>2, <1>3, <1>9, <1>12, AdvancesAfter
<1>. QED
    BY <1>13 DEF m

\* The latest notarized block and the one before it, as
\* process_notarized_block_response reads them.
LEMMA LatestTwo ==
    ASSUME NEW n, WellFormed(n)
    PROVE  LET latest == LatestNotarized(n)
               second == GetPrevNotarizedBlock(n, RoundOf(latest))
           IN  /\ latest = NoBlock => NotarizedRounds(n) = {}
               /\ latest # NoBlock =>
                    /\ RoundOf(latest) \in NotarizedRounds(n) /\ latest \in Block
                    /\ n.notarized[RoundOf(latest)] = latest
                    /\ \A y \in NotarizedRounds(n) : y <= RoundOf(latest)
                    /\ second = NoBlock => \A y \in NotarizedRounds(n) : y = RoundOf(latest)
                    /\ second # NoBlock =>
                        /\ RoundOf(second) \in NotarizedRounds(n) /\ second \in Block
                        /\ n.notarized[RoundOf(second)] = second
                        /\ RoundOf(second) < RoundOf(latest)
                        /\ \A y \in NotarizedRounds(n) :
                             y = RoundOf(latest) \/ y <= RoundOf(second)
<1> DEFINE latest == LatestNotarized(n)
           second == GetPrevNotarizedBlock(n, RoundOf(latest))
<1>1. n \in ConsState /\ n.round \in Int
    BY RoundsAreNaturals DEF WellFormed, ConsState
<1>2. \A x \in NotarizedRounds(n) :
        /\ x \in Nat /\ x < n.round
        /\ n.notarized[x] \in Block /\ RoundOf(n.notarized[x]) = x /\ n.notarized[x] # NoBlock
    BY NotarizedBelow, RoundsAreNaturals DEF Block
<1>3. CASE latest = NoBlock
    BY <1>1, <1>2, <1>3, PrevNotarized DEF LatestNotarized
<1>4. CASE latest # NoBlock
  <2>1. PICK x \in NotarizedRounds(n) :
            /\ latest = n.notarized[x] /\ latest \in Block
            /\ \A y \in NotarizedRounds(n) : y < n.round => y <= x
    BY <1>1, <1>4, PrevNotarized DEF LatestNotarized
  <2>2. RoundOf(latest) = x /\ x \in Int
    BY <1>2, <2>1
  <2>. HIDE DEF latest
  <2>3. CASE second = NoBlock
    <3>1. \A y \in NotarizedRounds(n) : ~(y < x)
      BY <1>1, <1>2, <2>2, <2>3, PrevNotarized
    <3>. QED
      BY <1>2, <1>4, <2>1, <2>2, <2>3, <3>1 DEF latest
  <2>4. CASE second # NoBlock
    <3>1. PICK z \in NotarizedRounds(n) :
            /\ second = n.notarized[z] /\ second \in Block /\ z < x
            /\ \A y \in NotarizedRounds(n) : y < x => y <= z
      BY <1>1, <2>2, <2>4, PrevNotarized
    <3>2. RoundOf(second) = z
      BY <1>2, <3>1
    <3>. HIDE DEF second
    <3>3. \A y \in NotarizedRounds(n) : y = x \/ y <= z
      BY <1>2, <2>1, <3>1
    <3>. QED
      BY <1>2, <1>4, <2>1, <2>2, <2>4, <3>1, <3>2, <3>3 DEF latest, second
  <2>. QED
    BY <2>3, <2>4
<1>. QED
    BY <1>3, <1>4

\* process_vote_response on a dummy vote.
LEMMA ProcessDummyVoteAdvances ==
    ASSUME NEW p \in Peers, NEW q \in Peers, NEW n, WellFormed(n), Grounded(n),
           n.round # MaxRound
    PROVE  Advances(p, n, ProcessDummyVote(p, n, q))
<1>1. n \in ConsState /\ {q} \in SUBSET Peers
    BY DEF WellFormed
<1>2. ProcessDummyVote(p, n, q) \in {n, CheckRoundEnd(p, InsertDummyVotes(n, n.round, {q}))}
    BY DEF ProcessDummyVote
<1>3. Advances(p, n, CheckRoundEnd(p, InsertDummyVotes(n, n.round, {q})))
    BY <1>1, InsertDummyAdvances
<1>. QED
    BY <1>1, <1>2, <1>3, AdvancesStays

\* process_notarized_block_response on a notarized dummy.
LEMMA ProcessNotarizedDummyAdvances ==
    ASSUME NEW p \in Peers, NEW qs \in SUBSET Peers, NEW n, WellFormed(n), Grounded(n),
           n.round # MaxRound
    PROVE  Advances(p, n, ProcessNotarizedDummy(p, n, qs))
<1>1. n \in ConsState
    BY DEF WellFormed
<1>2. ProcessNotarizedDummy(p, n, qs) \in {n, CheckRoundEnd(p, InsertDummyVotes(n, n.round, qs))}
    BY DEF ProcessNotarizedDummy
<1>. QED
    BY <1>1, <1>2, InsertDummyAdvances, AdvancesStays

\* process_notarized_block_response on a block: a rewind replaces the latest
\* notarized block by a later one.
LEMMA ProcessNotarizedBlockAdvances ==
    ASSUME NEW p \in Peers, NEW n, WellFormed(n), Grounded(n),
           NEW b \in Block, NEW sigs \in [Peers -> OptBlock], RoundOf(b) # MaxRound
    PROVE  Advances(p, n, ProcessNotarizedBlock(p, n, b, sigs))
<1> DEFINE latest == LatestNotarized(n)
           second == GetPrevNotarizedBlock(n, RoundOf(latest))
           d == DeleteNotarizedBlock(n, RoundOf(latest))
<1>1. n \in ConsState /\ RoundOf(b) \in Nat /\ NotarizedRounds(n) \subseteq Nat
    BY BlockRound, RoundsAreNaturals DEF WellFormed, NotarizedRounds
<1>2. /\ latest = NoBlock => NotarizedRounds(n) = {}
      /\ latest # NoBlock =>
            /\ RoundOf(latest) \in NotarizedRounds(n) /\ latest \in Block
            /\ n.notarized[RoundOf(latest)] = latest
            /\ \A y \in NotarizedRounds(n) : y <= RoundOf(latest)
            /\ second = NoBlock => \A y \in NotarizedRounds(n) : y = RoundOf(latest)
            /\ second # NoBlock =>
                /\ RoundOf(second) \in NotarizedRounds(n) /\ second \in Block
                /\ n.notarized[RoundOf(second)] = second
                /\ RoundOf(second) < RoundOf(latest)
                /\ \A y \in NotarizedRounds(n) :
                     y = RoundOf(latest) \/ y <= RoundOf(second)
    BY LatestTwo
<1>3. \/ ProcessNotarizedBlock(p, n, b, sigs) = n
      \/ /\ VerifySigs(b, sigs) /\ ~(RoundOf(b) < RoundAfter(latest))
         /\ DoesDirectlyExtend(b, latest)
         /\ ProcessNotarizedBlock(p, n, b, sigs)
                = CheckRoundEnd(p, InsertNotarizedWithVotes(n, b, sigs))
      \/ /\ VerifySigs(b, sigs) /\ ~(RoundOf(b) < RoundAfter(latest))
         /\ latest # NoBlock /\ DoesDirectlyExtend(b, second)
         /\ ProcessNotarizedBlock(p, n, b, sigs)
                = CheckRoundEnd(p, InsertNotarizedWithVotes(d, b, sigs))
    BY DEF ProcessNotarizedBlock
<1>. HIDE DEF second
<1>4. ~(RoundOf(b) < RoundAfter(latest)) => \A x \in NotarizedRounds(n) : x < RoundOf(b)
  <2>. HIDE DEF latest
  <2>. QED
    BY <1>1, <1>2, BlockRound, RoundsAreNaturals
<1>5. latest # NoBlock =>
        /\ WellFormed(d) /\ d.round = n.round /\ d.votes = n.votes
        /\ \A x \in Rounds : d.notarized[x] = IF x = RoundOf(latest) THEN NoBlock ELSE n.notarized[x]
        /\ SameFinality(n, d)
  <2>. SUFFICES ASSUME latest # NoBlock
                PROVE  /\ WellFormed(d) /\ d.round = n.round /\ d.votes = n.votes
                       /\ \A x \in Rounds :
                            d.notarized[x] = IF x = RoundOf(latest) THEN NoBlock ELSE n.notarized[x]
                       /\ SameFinality(n, d)
    OBVIOUS
  <2>. HIDE DEF latest
  <2>1. RoundOf(latest) \in Rounds
    BY <1>2, BlockRound
  <2>2. SameFinality(n, d)
    BY <1>1 DEF DeleteNotarizedBlock, SameFinality, ConsState
  <2>. QED
    BY <2>1, <2>2, DeleteNotarizedReady
<1>. HIDE DEF latest, d
<1>6. Len(NoBlock) = 0
    BY DEF NoBlock
<1>7. CASE ProcessNotarizedBlock(p, n, b, sigs) = n
    BY <1>1, <1>7, AdvancesStays
<1>8. CASE /\ VerifySigs(b, sigs) /\ ~(RoundOf(b) < RoundAfter(latest))
           /\ DoesDirectlyExtend(b, latest)
           /\ ProcessNotarizedBlock(p, n, b, sigs)
                = CheckRoundEnd(p, InsertNotarizedWithVotes(n, b, sigs))
  <2>1. SameFinality(n, n) /\ VotesKept(n)
    BY DEF SameFinality, Grounded
  <2>2. NotarizedRounds(n) = {} => Len(b) = 1
    BY <1>2, <1>6, <1>8 DEF DoesDirectlyExtend
  <2>3. \/ NotarizedRounds(n) = {} /\ Len(b) = 1
        \/ \E x \in NotarizedRounds(n) :
                Len(n.notarized[x]) = 1 /\ \A y \in NotarizedRounds(n) : x <= y
    BY <2>2 DEF Grounded, FirstIsFirst
  <2>4. Advances(p, n, CheckRoundEnd(p, InsertNotarizedWithVotes(n, b, sigs)))
    BY <1>4, <1>8, <2>1, <2>3, InsertNotarizedAdvances
  <2>. QED
    BY <1>8, <2>4
<1>9. CASE /\ VerifySigs(b, sigs) /\ ~(RoundOf(b) < RoundAfter(latest))
           /\ latest # NoBlock /\ DoesDirectlyExtend(b, second)
           /\ ProcessNotarizedBlock(p, n, b, sigs)
                = CheckRoundEnd(p, InsertNotarizedWithVotes(d, b, sigs))
  <2>1. NotarizedRounds(d) = NotarizedRounds(n) \ {RoundOf(latest)}
    BY <1>5, <1>9 DEF NotarizedRounds
  <2>2. \A x \in NotarizedRounds(d) : d.notarized[x] = n.notarized[x]
    BY <1>5, <1>9, <2>1 DEF NotarizedRounds
  <2>3. VotesKept(d)
    BY <1>5, <1>9, <2>1, <2>2 DEF Grounded, VotesKept
  <2>4. \/ NotarizedRounds(d) = {} /\ Len(b) = 1
        \/ \E x \in NotarizedRounds(d) :
                Len(d.notarized[x]) = 1 /\ \A y \in NotarizedRounds(d) : x <= y
    <3>1. CASE second = NoBlock
      BY <1>2, <1>6, <1>9, <2>1, <3>1 DEF DoesDirectlyExtend
    <3>2. CASE second # NoBlock
      <4>1. PICK x \in NotarizedRounds(n) :
                Len(n.notarized[x]) = 1 /\ \A y \in NotarizedRounds(n) : x <= y
        BY <1>2, <1>9 DEF Grounded, FirstIsFirst
      <4>2. x # RoundOf(latest)
        BY <1>1, <1>2, <1>9, <3>2, <4>1
      <4>. QED
        BY <2>1, <2>2, <4>1, <4>2
    <3>. QED
      BY <3>1, <3>2
  <2>5. NotarizedRounds(d) \subseteq NotarizedRounds(n)
    BY <2>1
  <2>6. Advances(p, n, CheckRoundEnd(p, InsertNotarizedWithVotes(d, b, sigs)))
    BY <1>4, <1>5, <1>9, <2>3, <2>4, <2>5, InsertNotarizedAdvances
  <2>. QED
    BY <1>9, <2>6
<1>. QED
    BY <1>3, <1>7, <1>8, <1>9

\* A finality vote changes no block.
LEMMA FinalityVoteGrounded ==
    ASSUME NEW n \in ConsState, Grounded(n), NEW q \in Peers, NEW v \in Rounds
    PROVE  LET k == UpdatePeerFinalityVoteRound(n, q, v)
           IN  Grounded(k) /\ Onward(n, k)
<1> DEFINE k == UpdatePeerFinalityVoteRound(n, q, v)
<1>1. SameChain(n, k) /\ k.finSelfTx = n.finSelfTx
    BY FinalityVoteFields
<1>. HIDE DEF k
<1>2. NotarizedRounds(k) = NotarizedRounds(n)
    BY <1>1 DEF NotarizedRounds, SameChain
<1>3. n.round \in Nat /\ n.finSelfTx \in Nat /\ NotarizedRounds(n) \subseteq Nat
    BY RoundsAreNaturals DEF ConsState, NotarizedRounds
<1>4. Grounded(k)
    BY <1>1, <1>2 DEF Grounded, VotesKept, Reaches, FirstIsFirst, SameChain
<1>5. Onward(n, k)
    BY <1>1, <1>2, <1>3 DEF Onward, SameChain
<1>. QED
    BY <1>4, <1>5 DEF k

\* Opening the database: the own finality vote becomes the round past the
\* latest notarized block, which is no lower than the one it replaces.
LEMMA OpenInternalAdvances ==
    ASSUME NEW p \in Peers, NEW n, WellFormed(n), Grounded(n)
    PROVE  Advances(p, n, OpenInternal(p, n))
<1> DEFINE self == RoundAfter(LatestNotarized(n))
           m == [n EXCEPT !.timeout = FALSE, !.finConsTx = n.finCons, !.finSelfTx = self]
           k == UpdatePeerFinalityVoteRound(m, p, self)
           e == CheckRoundEnd(p, k)
<1>1. n \in ConsState
    BY DEF WellFormed
<1>2. self \in Rounds /\ self \in Nat /\ n.finSelfTx \in Nat
    BY <1>1, LatestIsARound, RoundsAreNaturals DEF ConsState
<1>3. Reaches(n, self) /\ n.finSelfTx <= self
    BY <1>2, LatestReached DEF Grounded
<1>4. OpenInternal(p, n) = e
    BY DEF OpenInternal
<1>. HIDE DEF self
<1>5. /\ m \in ConsState /\ SameChain(n, m) /\ m.dummies = n.dummies
      /\ m.finVotes = n.finVotes /\ m.finCons = n.finCons
      /\ m.finConsTx = n.finCons /\ m.finSelfTx = self
    BY <1>1, <1>2 DEF ConsState, SameChain
<1>. HIDE DEF m
<1>6. NotarizedRounds(m) = NotarizedRounds(n)
    BY <1>5 DEF NotarizedRounds, SameChain
<1>7. Grounded(m)
    BY <1>3, <1>5, <1>6 DEF Grounded, VotesKept, Reaches, FirstIsFirst, SameChain
<1>8. /\ k \in ConsState /\ SameChain(m, k) /\ k.finSelfTx = self
      /\ \A r \in Rounds : k.dummies[r] \subseteq m.dummies[r]
    BY <1>2, <1>5, FinalityVoteFields
<1>9. Grounded(k)
    BY <1>2, <1>5, <1>7, FinalityVoteGrounded
<1>10. BeforeRoundEnd(k)
  <2>1. \A r \in Rounds : Untouched(n, r) => Untouched(k, r)
    BY <1>5, <1>8 DEF Untouched, BlockVoters, SameChain
  <2>2. WellFormed(k)
    BY <1>5, <1>8, <2>1 DEF WellFormed, Labelled, VotesMatchProposal, SameChain
  <2>. QED
    BY <2>2, WellFormedBeforeRoundEnd
<1>11. \A H \in SUBSET Peers, s \in [Peers -> Rounds] :
            FinalityFrom(n, H, s) /\ self <= s[p] => FinalityFrom(k, H, s)
  <2>. SUFFICES ASSUME NEW H \in SUBSET Peers, NEW s \in [Peers -> Rounds],
                       FinalityFrom(n, H, s), self <= s[p]
                PROVE  FinalityFrom(k, H, s)
    OBVIOUS
  <2>1. FinalityFrom(m, H, s)
    BY <1>5 DEF FinalityFrom
  <2>. QED
    BY <1>2, <1>5, <2>1, FinalityVoteFrom
<1>. HIDE DEF k
<1>12. Advances(p, k, e) /\ e \in ConsState
    BY <1>9, <1>10, CheckRoundEndAdvances, CheckRoundEndCases
<1>. HIDE DEF e
<1>13. e.finSelfTx \in Nat /\ self <= e.finSelfTx /\ n.round <= e.round
       /\ \A x \in NotarizedRounds(n) : \E y \in NotarizedRounds(e) : x <= y
    BY <1>5, <1>6, <1>8, <1>12, RoundsAreNaturals
    DEF Advances, Onward, ConsState, SameChain, NotarizedRounds
<1>14. Onward(n, e)
    BY <1>2, <1>3, <1>13 DEF Onward
<1>15. FinalityKept(p, n, e)
  <2>. SUFFICES ASSUME NEW H \in SUBSET Peers, NEW s \in [Peers -> Rounds],
                       FinalityFrom(n, H, s), e.finSelfTx <= s[p]
                PROVE  FinalityFrom(e, H, s)
    BY DEF FinalityKept
  <2>1. self <= s[p]
    BY <1>2, <1>13, RoundsAreNaturals
  <2>. QED
    BY <1>11, <1>12, <2>1 DEF Advances, FinalityKept
<1>. QED
    BY <1>4, <1>12, <1>14, <1>15 DEF Advances

\* A new database has nothing to be grounded.
LEMMA InitTablesGrounded == Grounded(InitTables)
<1>1. NotarizedRounds(InitTables) = {}
    BY DEF InitTables, NotarizedRounds
<1>. QED
    BY <1>1 DEF Grounded, VotesKept, Reaches, FirstIsFirst, InitTables

\* Nor does it claim finality of anything.
LEMMA InitTablesFinality ==
    ASSUME NEW H \in SUBSET Peers, NEW s \in [Peers -> Rounds]
    PROVE  FinalityFrom(InitTables, H, s)
<1>1. \A q \in Peers : NoVote <= s[q] /\ 0 <= s[q]
    BY RoundsAreNaturals DEF NoVote
<1>2. {q \in H : 0 <= s[q]} = H
    BY <1>1
<1>3. T <= Cardinality(H) + Cardinality(Peers \ H)
  <2>1. IsFiniteSet(H) /\ Cardinality(Peers \ H) = Cardinality(Peers) - Cardinality(Peers \cap H)
    BY PeersAssumption, FS_Subset, FS_Difference
  <2>2. Peers \cap H = H /\ Cardinality(H) \in Nat
    BY <2>1, FS_CardinalityType
  <2>3. Cardinality(Peers \ H) = Cardinality(Peers) - Cardinality(H)
    BY <2>1, <2>2
  <2>4. T <= Cardinality(Peers) /\ Cardinality(Peers) \in Nat
    BY QuorumSize
  <2>. QED
    BY <2>2, <2>3, <2>4
<1>4. BackedBy(0, H, s)
    BY <1>2, <1>3 DEF BackedBy
<1>. QED
    BY <1>1, <1>4 DEF FinalityFrom, InitTables

-----------------------------------------------------------------------------
(***************************************************************************)
(* Chains.                                                                 *)
(***************************************************************************)
\* Later notarized blocks are longer.
Rising(n) ==
    \A x, y \in NotarizedRounds(n) : x < y => Len(n.notarized[x]) < Len(n.notarized[y])

\* A stored proposal extends a notarized block of an earlier round, or is first.
Anchored(n) ==
    \A r \in Rounds : n.proposals[r] # NoBlock =>
        \/ DoesDirectlyExtend(n.proposals[r], NoBlock)
        \/ \E x \in NotarizedRounds(n) :
            x < r /\ DoesDirectlyExtend(n.proposals[r], n.notarized[x])

\* Each notarized block extends the one before it.
Chained(n) ==
    \A r \in NotarizedRounds(n) :
        DoesDirectlyExtend(n.notarized[r], GetPrevNotarizedBlock(n, r))

\* n has c notarized, and stored no shorter proposal since.
Keeps(n, c) ==
    /\ n.notarized[RoundOf(c)] = c
    /\ \A r \in Rounds : RoundOf(c) < r =>
        n.proposals[r] = NoBlock \/ Len(c) < Len(n.proposals[r])

\* What a transaction that deletes nothing does to the blocks of n: at most one
\* block, of A, is adopted on top of the latest one, and at most one, the
\* proposal of n's round, is notarized by a quorum, above all others.
Builds(n, k, A) ==
    /\ \A r \in NotarizedRounds(n) : k.notarized[r] = n.notarized[r]
    /\ \A r \in Rounds : k.proposals[r] # n.proposals[r] =>
        /\ r = n.round /\ n.proposals[r] = NoBlock
        /\ DoesDirectlyExtend(k.proposals[r], LatestNotarized(n))
    /\ \A r \in NotarizedRounds(k) \ NotarizedRounds(n) :
        /\ \A x \in NotarizedRounds(n) : x < r
        /\ \/ /\ k.notarized[r] \in A
              /\ DoesDirectlyExtend(k.notarized[r], LatestNotarized(n))
              /\ \A y \in NotarizedRounds(k) \ NotarizedRounds(n) : r <= y
           \/ /\ r = n.round /\ k.notarized[r] = k.proposals[r]
              /\ \A y \in NotarizedRounds(k) : y <= r

\* check_round_end keeps the blocks, and may notarize the round's proposal.
LEMMA CheckRoundEndBlocks ==
    ASSUME NEW p \in Peers, NEW n, BeforeRoundEnd(n)
    PROVE  LET k == CheckRoundEnd(p, n)
           IN  /\ k.proposals = n.proposals
               /\ \A r \in NotarizedRounds(n) : k.notarized[r] = n.notarized[r]
               /\ \A r \in NotarizedRounds(k) \ NotarizedRounds(n) :
                    /\ r = n.round /\ k.notarized[r] = n.proposals[r]
                    /\ \A x \in NotarizedRounds(n) : x < r
<1> DEFINE m == AdvanceRound(n)
           k == CheckRoundEnd(p, n)
<1>1. SameChain(m, k)
    BY CheckRoundEndCases
<1>2. /\ \A r \in NotarizedRounds(n) : m.notarized[r] = n.notarized[r]
      /\ \A r \in NotarizedRounds(m) : r \notin NotarizedRounds(n) =>
            /\ r = n.round /\ m.notarized[r] = n.proposals[r]
            /\ \A x \in NotarizedRounds(n) : x < n.round
    BY AdvanceRoundKeeps
<1>3. m.proposals = n.proposals
    BY AdvanceRoundEffect
<1>. HIDE DEF m, k
<1>4. NotarizedRounds(k) = NotarizedRounds(m)
    BY <1>1 DEF SameChain, NotarizedRounds
<1>5. /\ k.proposals = n.proposals
      /\ \A r \in NotarizedRounds(n) : k.notarized[r] = n.notarized[r]
      /\ \A r \in NotarizedRounds(k) \ NotarizedRounds(n) :
            /\ r = n.round /\ k.notarized[r] = n.proposals[r]
            /\ \A x \in NotarizedRounds(n) : x < r
    BY <1>1, <1>2, <1>3, <1>4 DEF SameChain
<1>. QED
    BY <1>5 DEF k

\* A transaction that does nothing.
LEMMA BuildsStays ==
    ASSUME NEW n, NEW k, SameChain(n, k), NEW A
    PROVE  Builds(n, k, A)
BY DEF Builds, SameChain, NotarizedRounds

\* Votes are filed, and then the round may end.
LEMMA BuildsAfter ==
    ASSUME NEW p \in Peers, NEW n \in ConsState, NEW i, BeforeRoundEnd(i),
           i.round = n.round, i.notarized = n.notarized,
           \A r \in Rounds : i.proposals[r] # n.proposals[r] =>
                /\ r = n.round /\ n.proposals[r] = NoBlock
                /\ DoesDirectlyExtend(i.proposals[r], LatestNotarized(n)),
           NEW A
    PROVE  Builds(n, CheckRoundEnd(p, i), A)
<1> DEFINE k == CheckRoundEnd(p, i)
<1>1. /\ k.proposals = i.proposals
      /\ \A r \in NotarizedRounds(i) : k.notarized[r] = i.notarized[r]
      /\ \A r \in NotarizedRounds(k) \ NotarizedRounds(i) :
            /\ r = i.round /\ k.notarized[r] = i.proposals[r]
            /\ \A x \in NotarizedRounds(i) : x < r
    BY CheckRoundEndBlocks
<1>2. NotarizedRounds(i) = NotarizedRounds(n)
    BY DEF NotarizedRounds
<1>. HIDE DEF k
<1>3. \A r \in NotarizedRounds(k) \ NotarizedRounds(n) :
        \A y \in NotarizedRounds(k) : y <= r
    BY <1>1, <1>2, RoundsAreNaturals DEF NotarizedRounds
<1>4. Builds(n, k, A)
    BY <1>1, <1>2, <1>3 DEF Builds
<1>. QED
    BY <1>4 DEF k

\* Counting a vote, with or without a new proposal.
LEMMA CountBlockVoteBuilds ==
    ASSUME NEW p \in Peers, NEW q \in Peers, NEW n \in ConsState,
           NEW i, WellFormed(i), NEW b \in Block,
           i.round # MaxRound, i.proposals[i.round] \in {NoBlock, b},
           i.round = n.round, i.notarized = n.notarized,
           \A r \in Rounds : i.proposals[r] # n.proposals[r] =>
                /\ r = n.round /\ n.proposals[r] = NoBlock
                /\ DoesDirectlyExtend(i.proposals[r], LatestNotarized(n)),
           NEW A
    PROVE  Builds(n, CountBlockVote(p, i, q, b), A)
<1> DEFINE m == InsertBlockVote(i, i.round, q, b)
<1>1. /\ BeforeRoundEnd(m)
      /\ m.round = i.round /\ m.proposals = i.proposals /\ m.notarized = i.notarized
    BY InsertVoteReady
<1>2. CountBlockVote(p, i, q, b) \in {i, CheckRoundEnd(p, m)}
    BY DEF CountBlockVote
<1>. HIDE DEF m
<1>3. Builds(n, i, A)
    BY DEF Builds, NotarizedRounds
<1>4. Builds(n, CheckRoundEnd(p, m), A)
    BY <1>1, BuildsAfter
<1>. QED
    BY <1>2, <1>3, <1>4

\* process_vote_response on a vote.
LEMMA ProcessVoteBuilds ==
    ASSUME NEW p \in Peers, NEW q \in Peers, NEW n, WellFormed(n), NEW b \in Block,
           n.round # MaxRound, NEW A
    PROVE  Builds(n, ProcessVote(p, n, q, b), A)
<1>1. n \in ConsState /\ SameChain(n, n)
    BY DEF WellFormed, SameChain
<1>2. CASE RoundOf(b) = n.round /\ n.proposals[n.round] \in {NoBlock, b}
    BY <1>1, <1>2, CountBlockVoteBuilds DEF ProcessVote
<1>3. CASE ~(RoundOf(b) = n.round /\ n.proposals[n.round] \in {NoBlock, b})
    BY <1>1, <1>3, BuildsStays DEF ProcessVote
<1>. QED
    BY <1>2, <1>3

\* process_vote_response on a proposal.
LEMMA ProcessProposalBuilds ==
    ASSUME NEW p \in Peers, NEW q \in Peers, NEW n, WellFormed(n), NEW b \in Block,
           n.round # MaxRound, NEW A
    PROVE  Builds(n, ProcessProposal(p, n, q, b), A)
<1>1. n \in ConsState /\ n.round \in Rounds /\ SameChain(n, n)
    BY DEF WellFormed, ConsState, SameChain
<1>2. CASE /\ RoundOf(b) = n.round /\ q = Leader[n.round]
           /\ DoesDirectlyExtend(b, LatestNotarized(n))
           /\ n.proposals[n.round] = NoBlock
  <2> DEFINE i == InsertBlockProposal(n, b)
  <2>1. /\ WellFormed(i) /\ i.round = n.round /\ i.notarized = n.notarized
        /\ i.proposals = [n.proposals EXCEPT ![n.round] = b]
    BY <1>2, InsertProposalReady
  <2>2. ProcessProposal(p, n, q, b) = CountBlockVote(p, i, q, b)
    BY <1>2 DEF ProcessProposal
  <2>. HIDE DEF i
  <2>3. i.proposals[n.round] = b /\ \A r \in Rounds : r # n.round => i.proposals[r] = n.proposals[r]
    BY <1>1, <2>1 DEF ConsState
  <2>4. \A r \in Rounds : i.proposals[r] # n.proposals[r] =>
            /\ r = n.round /\ n.proposals[r] = NoBlock
            /\ DoesDirectlyExtend(i.proposals[r], LatestNotarized(n))
    BY <1>2, <2>3
  <2>5. i.round # MaxRound /\ i.proposals[i.round] \in {NoBlock, b}
    BY <2>1, <2>3
  <2>6. WellFormed(i) /\ i.round = n.round /\ i.notarized = n.notarized
    BY <2>1
  <2>7. Builds(n, CountBlockVote(p, i, q, b), A)
    BY <1>1, <2>4, <2>5, <2>6, CountBlockVoteBuilds
  <2>. QED
    BY <2>2, <2>7
<1>3. CASE ~(/\ RoundOf(b) = n.round /\ q = Leader[n.round]
             /\ DoesDirectlyExtend(b, LatestNotarized(n))
             /\ n.proposals[n.round] = NoBlock)
    BY <1>1, <1>3, BuildsStays DEF ProcessProposal
<1>. QED
    BY <1>2, <1>3

\* Dummy votes, one or a threshold of them.
LEMMA ProcessDummiesBuilds ==
    ASSUME NEW p \in Peers, NEW n, WellFormed(n), n.round # MaxRound, NEW A
    PROVE  /\ \A q \in Peers : Builds(n, ProcessDummyVote(p, n, q), A)
           /\ \A qs \in SUBSET Peers : Builds(n, ProcessNotarizedDummy(p, n, qs), A)
<1>1. n \in ConsState /\ Builds(n, n, A)
    BY BuildsStays DEF WellFormed, SameChain
<1>2. ASSUME NEW qs \in SUBSET Peers
      PROVE  Builds(n, CheckRoundEnd(p, InsertDummyVotes(n, n.round, qs)), A)
  <2> DEFINE i == InsertDummyVotes(n, n.round, qs)
  <2>1. BeforeRoundEnd(i) /\ SameChain(n, i)
    BY InsertDummyReady
  <2>. HIDE DEF i
  <2>2. Builds(n, CheckRoundEnd(p, i), A)
    BY <1>1, <2>1, BuildsAfter DEF SameChain
  <2>. QED
    BY <2>2 DEF i
<1>3. \A q \in Peers : {q} \in SUBSET Peers
    OBVIOUS
<1>. QED
    BY <1>1, <1>2, <1>3 DEF ProcessDummyVote, ProcessNotarizedDummy

\* process_notarized_block_response on a block that is longer than the latest
\* one, so that there is nothing to rewind.
LEMMA ProcessNotarizedBlockBuilds ==
    ASSUME NEW p \in Peers, NEW n, WellFormed(n), Rising(n),
           NEW b \in Block, NEW sigs \in [Peers -> OptBlock], RoundOf(b) # MaxRound,
           VerifySigs(b, sigs) =>
                \A x \in NotarizedRounds(n) : x < RoundOf(b) => Len(n.notarized[x]) < Len(b)
    PROVE  Builds(n, ProcessNotarizedBlock(p, n, b, sigs), {b})
<1> DEFINE latest == LatestNotarized(n)
           second == GetPrevNotarizedBlock(n, RoundOf(latest))
           d == DeleteNotarizedBlock(n, RoundOf(latest))
           i == InsertNotarizedWithVotes(n, b, sigs)
           k == CheckRoundEnd(p, i)
<1>1. /\ n \in ConsState /\ RoundOf(b) \in Nat /\ RoundOf(b) \in Rounds /\ b # NoBlock
      /\ NotarizedRounds(n) \subseteq Nat /\ Len(b) \in Nat
    BY BlockRound, RoundsAreNaturals DEF WellFormed, NotarizedRounds, Block
<1>2. /\ latest = NoBlock => NotarizedRounds(n) = {}
      /\ latest # NoBlock =>
            /\ RoundOf(latest) \in NotarizedRounds(n) /\ latest \in Block
            /\ n.notarized[RoundOf(latest)] = latest
            /\ \A y \in NotarizedRounds(n) : y <= RoundOf(latest)
            /\ second # NoBlock =>
                /\ RoundOf(second) \in NotarizedRounds(n) /\ second \in Block
                /\ n.notarized[RoundOf(second)] = second
                /\ RoundOf(second) < RoundOf(latest)
    BY LatestTwo
<1>3. \/ ProcessNotarizedBlock(p, n, b, sigs) = n
      \/ /\ VerifySigs(b, sigs) /\ ~(RoundOf(b) < RoundAfter(latest))
         /\ DoesDirectlyExtend(b, latest)
         /\ ProcessNotarizedBlock(p, n, b, sigs) = k
      \/ /\ VerifySigs(b, sigs) /\ ~(RoundOf(b) < RoundAfter(latest))
         /\ latest # NoBlock /\ DoesDirectlyExtend(b, second)
    BY DEF ProcessNotarizedBlock
<1>. HIDE DEF second
<1>4. ~(RoundOf(b) < RoundAfter(latest)) => \A x \in NotarizedRounds(n) : x < RoundOf(b)
  <2>. HIDE DEF latest
  <2>. QED
    BY <1>1, <1>2, BlockRound, RoundsAreNaturals
<1>5. CASE ProcessNotarizedBlock(p, n, b, sigs) = n
    BY <1>5, BuildsStays DEF SameChain
<1>6. CASE /\ VerifySigs(b, sigs) /\ ~(RoundOf(b) < RoundAfter(latest))
           /\ latest # NoBlock /\ DoesDirectlyExtend(b, second)
  <2>. HIDE DEF latest
  <2>1. Len(latest) < Len(b) /\ Len(latest) \in Nat /\ Len(latest) >= 1
    BY <1>2, <1>4, <1>6, BlockRound
  <2>2. Len(b) = Len(second) + 1
    BY <1>6 DEF DoesDirectlyExtend
  <2>3. CASE second = NoBlock
    <3>1. Len(second) = 0
      BY <2>3 DEF NoBlock
    <3>. QED
      BY <2>1, <2>2, <3>1
  <2>4. CASE second # NoBlock
    <3>1. Len(second) < Len(latest) /\ Len(second) \in Nat
      BY <1>2, <1>6, <2>4, BlockRound DEF Rising
    <3>. QED
      BY <1>1, <2>1, <2>2, <3>1
  <2>. QED
    BY <2>3, <2>4
<1>7. CASE /\ VerifySigs(b, sigs) /\ ~(RoundOf(b) < RoundAfter(latest))
           /\ DoesDirectlyExtend(b, latest)
           /\ ProcessNotarizedBlock(p, n, b, sigs) = k
  <2>1. /\ BeforeRoundEnd(i) /\ i.round = n.round /\ i.proposals = n.proposals
        /\ \A r \in Rounds : i.notarized[r] = IF r = RoundOf(b) THEN b ELSE n.notarized[r]
    BY InsertNotarizedReady
  <2>. HIDE DEF i
  <2>2. /\ k.proposals = i.proposals
        /\ \A r \in NotarizedRounds(i) : k.notarized[r] = i.notarized[r]
        /\ \A r \in NotarizedRounds(k) \ NotarizedRounds(i) :
            /\ r = i.round /\ k.notarized[r] = i.proposals[r]
            /\ \A x \in NotarizedRounds(i) : x < r
    BY <2>1, CheckRoundEndBlocks
  <2>. HIDE DEF k
  <2>3. NotarizedRounds(i) = NotarizedRounds(n) \cup {RoundOf(b)}
    BY <1>1, <2>1 DEF NotarizedRounds
  <2>4. \A x \in NotarizedRounds(n) : x < RoundOf(b) /\ x # RoundOf(b) /\ x \in Rounds
    BY <1>1, <1>4, <1>7 DEF NotarizedRounds
  <2>5. \A r \in NotarizedRounds(n) : k.notarized[r] = n.notarized[r]
    BY <2>1, <2>2, <2>3, <2>4
  <2>6. k.notarized[RoundOf(b)] = b
    BY <1>1, <2>1, <2>2, <2>3
  <2>7. NotarizedRounds(k) \subseteq Nat /\ NotarizedRounds(i) \subseteq Nat
    BY RoundsAreNaturals DEF NotarizedRounds
  <2>8. ASSUME NEW r \in NotarizedRounds(k) \ NotarizedRounds(n)
        PROVE  /\ \A x \in NotarizedRounds(n) : x < r
               /\ \/ /\ k.notarized[r] \in {b}
                     /\ DoesDirectlyExtend(k.notarized[r], LatestNotarized(n))
                     /\ \A y \in NotarizedRounds(k) \ NotarizedRounds(n) : r <= y
                  \/ /\ r = n.round /\ k.notarized[r] = k.proposals[r]
                     /\ \A y \in NotarizedRounds(k) : y <= r
    <3>1. CASE r = RoundOf(b)
      <4>1. \A y \in NotarizedRounds(k) \ NotarizedRounds(n) : r <= y
        BY <1>1, <2>2, <2>3, <2>7, <3>1
      <4>2. k.notarized[r] \in {b} /\ DoesDirectlyExtend(k.notarized[r], LatestNotarized(n))
        BY <1>7, <2>6, <3>1
      <4>. QED
        BY <2>4, <3>1, <4>1, <4>2
    <3>2. CASE r # RoundOf(b)
      <4>1. r \in NotarizedRounds(k) \ NotarizedRounds(i)
        BY <2>3, <3>2
      <4>2. /\ r = n.round /\ k.notarized[r] = k.proposals[r]
            /\ \A x \in NotarizedRounds(i) : x < r
        BY <2>1, <2>2, <4>1
      <4>3. \A y \in NotarizedRounds(k) : y <= r
        BY <2>1, <2>2, <2>7, <4>2
      <4>. QED
        BY <2>3, <4>2, <4>3
    <3>. QED
      BY <3>1, <3>2
  <2>9. Builds(n, k, {b})
    BY <2>1, <2>2, <2>5, <2>8 DEF Builds
  <2>. QED
    BY <1>7, <2>9
<1>. QED
    BY <1>3, <1>5, <1>6, <1>7

\* Opening the database again.
LEMMA OpenInternalBuilds ==
    ASSUME NEW p \in Peers, NEW n, WellFormed(n), NEW A
    PROVE  Builds(n, OpenInternal(p, n), A)
<1> DEFINE self == RoundAfter(LatestNotarized(n))
           m == [n EXCEPT !.timeout = FALSE, !.finConsTx = n.finCons, !.finSelfTx = self]
           i == UpdatePeerFinalityVoteRound(m, p, self)
<1>1. n \in ConsState /\ self \in Rounds
    BY LatestIsARound DEF WellFormed
<1>2. OpenInternal(p, n) = CheckRoundEnd(p, i)
    BY DEF OpenInternal
<1>. HIDE DEF self
<1>3. m \in ConsState /\ SameChain(n, m) /\ m.dummies = n.dummies
    BY <1>1 DEF ConsState, SameChain
<1>. HIDE DEF m
<1>4. i \in ConsState /\ SameChain(m, i) /\ \A r \in Rounds : i.dummies[r] \subseteq m.dummies[r]
    BY <1>1, <1>3, FinalityVoteFields
<1>. HIDE DEF i
<1>5. BeforeRoundEnd(i)
  <2>1. \A r \in Rounds : Untouched(n, r) => Untouched(i, r)
    BY <1>3, <1>4 DEF Untouched, BlockVoters, SameChain
  <2>2. WellFormed(i)
    BY <1>3, <1>4, <2>1 DEF WellFormed, Labelled, VotesMatchProposal, SameChain
  <2>. QED
    BY <2>2, WellFormedBeforeRoundEnd
<1>. QED
    BY <1>1, <1>2, <1>3, <1>4, <1>5, BuildsAfter DEF SameChain

\* A chain whose blocks are the proposals the peer stored itself: each extends a
\* notarized block, and no other than the one before it has the right length.
LEMMA ChainedByLength ==
    ASSUME NEW n, WellFormed(n), Rising(n), Anchored(n),
           \A r \in NotarizedRounds(n) : n.proposals[r] = n.notarized[r]
    PROVE  Chained(n)
<1>. SUFFICES ASSUME NEW r \in NotarizedRounds(n)
              PROVE  DoesDirectlyExtend(n.notarized[r], GetPrevNotarizedBlock(n, r))
    BY DEF Chained
<1> DEFINE b == n.notarized[r]
           prev == GetPrevNotarizedBlock(n, r)
<1>1. /\ n \in ConsState /\ r \in Int /\ r \in Rounds /\ n.proposals[r] = b
      /\ b \in Block /\ Len(b) \in Nat /\ n.proposals[r] # NoBlock
    BY NotarizedBelow, BlockRound, RoundsAreNaturals DEF WellFormed, Block
<1>2. \A x \in NotarizedRounds(n) :
        x \in Nat /\ Len(n.notarized[x]) \in Nat /\ Len(n.notarized[x]) >= 1
    BY NotarizedBelow, BlockRound, RoundsAreNaturals
<1>3. \/ prev = NoBlock /\ \A x \in NotarizedRounds(n) : ~(x < r)
      \/ \E x \in NotarizedRounds(n) :
            /\ prev = n.notarized[x] /\ prev \in Block /\ x < r
            /\ \A y \in NotarizedRounds(n) : y < r => y <= x
    BY <1>1, PrevNotarized
<1>4. \/ DoesDirectlyExtend(b, NoBlock)
      \/ \E x \in NotarizedRounds(n) : x < r /\ DoesDirectlyExtend(b, n.notarized[x])
    BY <1>1 DEF Anchored
<1>. HIDE DEF b, prev
<1>5. CASE DoesDirectlyExtend(b, NoBlock)
  <2>1. Len(b) = 1
    BY <1>5 DEF DoesDirectlyExtend, NoBlock
  <2>2. ASSUME NEW x \in NotarizedRounds(n), x < r PROVE FALSE
    <3>1. Len(n.notarized[x]) < Len(b)
      BY <2>2 DEF Rising, b
    <3>. QED
      BY <1>2, <2>1, <3>1
  <2>. QED
    BY <1>3, <1>5, <2>2 DEF b, prev
<1>6. CASE \E x \in NotarizedRounds(n) : x < r /\ DoesDirectlyExtend(b, n.notarized[x])
  <2>1. PICK x \in NotarizedRounds(n) : x < r /\ DoesDirectlyExtend(b, n.notarized[x])
    BY <1>6
  <2>2. PICK y \in NotarizedRounds(n) :
            /\ prev = n.notarized[y] /\ y < r
            /\ \A z \in NotarizedRounds(n) : z < r => z <= y
    BY <1>3, <2>1
  <2>3. Len(b) = Len(n.notarized[x]) + 1
    BY <2>1 DEF DoesDirectlyExtend
  <2>4. Len(n.notarized[y]) < Len(b)
    BY <2>2 DEF Rising, b
  <2>5. ~(x < y)
    <3>. SUFFICES ASSUME x < y PROVE FALSE
      OBVIOUS
    <3>1. Len(n.notarized[x]) < Len(n.notarized[y])
      BY DEF Rising
    <3>. QED
      BY <1>2, <2>3, <2>4, <3>1
  <2>6. x = y
    BY <1>2, <2>1, <2>2, <2>5
  <2>. QED
    BY <2>1, <2>2, <2>6 DEF b, prev
<1>. QED
    BY <1>4, <1>5, <1>6

\* A new proposal is stored on top of the latest notarized block.
LEMMA BuildsAnchored ==
    ASSUME NEW n, WellFormed(n), Anchored(n), NEW k, NEW A, Builds(n, k, A)
    PROVE  Anchored(k)
<1>. SUFFICES ASSUME NEW r \in Rounds, k.proposals[r] # NoBlock
              PROVE  \/ DoesDirectlyExtend(k.proposals[r], NoBlock)
                     \/ \E x \in NotarizedRounds(k) :
                            x < r /\ DoesDirectlyExtend(k.proposals[r], k.notarized[x])
    BY DEF Anchored
<1>1. \A x \in NotarizedRounds(n) : x \in NotarizedRounds(k) /\ k.notarized[x] = n.notarized[x]
    BY DEF Builds, NotarizedRounds
<1>2. CASE k.proposals[r] = n.proposals[r]
    BY <1>1, <1>2 DEF Anchored
<1>3. CASE k.proposals[r] # n.proposals[r]
  <2>1. r = n.round /\ DoesDirectlyExtend(k.proposals[r], LatestNotarized(n))
    BY <1>3 DEF Builds
  <2>2. n \in ConsState /\ n.round \in Int
    BY RoundsAreNaturals DEF WellFormed, ConsState
  <2>3. \/ LatestNotarized(n) = NoBlock
        \/ \E x \in NotarizedRounds(n) : LatestNotarized(n) = n.notarized[x] /\ x < n.round
    BY <2>2, PrevNotarized DEF LatestNotarized
  <2>. QED
    BY <1>1, <2>1, <2>3
<1>. QED
    BY <1>2, <1>3

\* What a peer kept it keeps.
LEMMA BuildsKeeps ==
    ASSUME NEW n, WellFormed(n), Rising(n), NEW k, NEW A, Builds(n, k, A),
           NEW c \in Block, Keeps(n, c)
    PROVE  Keeps(k, c)
<1>1. RoundOf(c) \in Rounds /\ c # NoBlock /\ n.notarized[RoundOf(c)] = c
    BY BlockRound DEF Keeps, Block
<1>2. RoundOf(c) \in NotarizedRounds(n)
    BY <1>1 DEF NotarizedRounds
<1>3. k.notarized[RoundOf(c)] = c
    BY <1>1, <1>2 DEF Builds
<1>4. ASSUME NEW r \in Rounds, RoundOf(c) < r, k.proposals[r] # n.proposals[r]
      PROVE  Len(c) < Len(k.proposals[r])
  <2> DEFINE latest == LatestNotarized(n)
  <2>1. DoesDirectlyExtend(k.proposals[r], latest)
    BY <1>4 DEF Builds
  <2>2. /\ latest # NoBlock
        /\ RoundOf(latest) \in NotarizedRounds(n) /\ latest \in Block
        /\ n.notarized[RoundOf(latest)] = latest
        /\ \A y \in NotarizedRounds(n) : y <= RoundOf(latest)
    BY <1>2, LatestTwo
  <2>. HIDE DEF latest
  <2>3. Len(latest) \in Nat /\ Len(c) \in Nat /\ RoundOf(latest) \in Nat /\ RoundOf(c) \in Nat
    BY <2>2, BlockRound, RoundsAreNaturals
  <2>4. Len(c) <= Len(latest)
    <3>1. CASE RoundOf(c) < RoundOf(latest)
      BY <1>1, <1>2, <2>2, <2>3, <3>1 DEF Rising
    <3>2. CASE RoundOf(c) = RoundOf(latest)
      BY <1>1, <2>2, <2>3, <3>2
    <3>. QED
      BY <1>2, <2>2, <2>3, <3>1, <3>2
  <2>5. Len(k.proposals[r]) = Len(latest) + 1
    BY <2>1 DEF DoesDirectlyExtend
  <2>. QED
    BY <2>3, <2>4, <2>5
<1>. QED
    BY <1>3, <1>4 DEF Keeps

\* What a peer notarizes it adopted, or it keeps it from then on.
LEMMA BuildsOwn ==
    ASSUME NEW n, WellFormed(n), NEW k, WellFormed(k), NEW A, Builds(n, k, A),
           NEW r \in NotarizedRounds(k) \ NotarizedRounds(n), k.notarized[r] \notin A
    PROVE  Keeps(k, k.notarized[r])
<1>1. r \in Rounds /\ RoundOf(k.notarized[r]) = r
    BY NotarizedBelow
<1>2. r = n.round
    BY DEF Builds
<1>3. \A x \in Rounds : r < x => n.proposals[x] = NoBlock
    BY <1>2 DEF WellFormed, Untouched
<1>4. \A x \in Rounds : r < x => x # n.round
    BY <1>1, <1>2, RoundsAreNaturals
<1>5. \A x \in Rounds : r < x => k.proposals[x] = NoBlock
    BY <1>3, <1>4 DEF Builds
<1>. QED
    BY <1>1, <1>5 DEF Keeps

-----------------------------------------------------------------------------
(***************************************************************************)
(* Between transactions no round is left that could have ended.            *)
(***************************************************************************)
\* There is no quorum that check_round_end would act on.
Settled(n) == ~HasProposalQuorum(n) /\ ~HasDummyQuorum(n)

\* No votes are no quorum, and fewer dummy votes are not one either.
LEMMA FewerVotes ==
    /\ \A n : n.dummies[n.round] = {} => ~HasDummyQuorum(n)
    /\ \A n, k : /\ n \in ConsState /\ SameChain(n, k) /\ Settled(n)
                 /\ k.dummies[n.round] \subseteq n.dummies[n.round]
                 => Settled(k)
<1>1. T \in Nat /\ 1 <= T /\ Cardinality({}) = 0
    BY QuorumSize, FS_EmptySet
<1>2. ASSUME NEW n, NEW k, n \in ConsState, SameChain(n, k), Settled(n),
             k.dummies[n.round] \subseteq n.dummies[n.round]
      PROVE  Settled(k)
  <2>1. ~HasProposalQuorum(k)
    BY <1>2 DEF SameChain, Settled, HasProposalQuorum, BlockVoters
  <2>2. n.dummies[n.round] \in SUBSET Peers
    BY <1>2 DEF ConsState
  <2>3. IsFiniteSet(n.dummies[n.round])
    BY <2>2, PeersAssumption, FS_Subset
  <2>4. /\ IsFiniteSet(k.dummies[n.round])
        /\ Cardinality(k.dummies[n.round]) <= Cardinality(n.dummies[n.round])
    BY <1>2, <2>3, FS_Subset
  <2>5. Cardinality(k.dummies[n.round]) \in Nat /\ Cardinality(n.dummies[n.round]) \in Nat
    BY <2>3, <2>4, FS_CardinalityType
  <2>6. ~(T <= Cardinality(k.dummies[n.round]))
    BY <1>1, <1>2, <2>4, <2>5 DEF Settled, HasDummyQuorum
  <2>. QED
    BY <1>2, <2>1, <2>6 DEF Settled, HasDummyQuorum, SameChain
<1>3. \A n : n.dummies[n.round] = {} => ~HasDummyQuorum(n)
    BY <1>1 DEF HasDummyQuorum
<1>. QED
    BY <1>2, <1>3

\* check_round_end acts on every quorum there is.
LEMMA CheckRoundEndSettled ==
    ASSUME NEW p \in Peers, NEW n, BeforeRoundEnd(n)
    PROVE  Settled(CheckRoundEnd(p, n))
<1> DEFINE m == AdvanceRound(n)
           k == CheckRoundEnd(p, n)
           t == [m EXCEPT !.timeout = NeedsATimeout(m)]
           s == [t EXCEPT !.finSelfTx = t.round]
<1>1. m.round # n.round => \A r \in Rounds : m.round <= r => Untouched(m, r)
    BY AdvanceRoundEffect
<1>2. n \in ConsState /\ n.round \in Nat /\ m \in ConsState /\ m.round \in Rounds
    BY AdvanceRoundEffect, RoundsAreNaturals DEF BeforeRoundEnd, ConsState
<1>3. CASE m.round = n.round
  <2>1. Settled(n)
    <3>1. HasProposalQuorum(n) =>
            m.round = n.round + 1 \/ n.round < m.round
      <4>1. n.proposals[n.round] \in Block \/ ~HasProposalQuorum(n)
        BY <1>2, RoundsAreNaturals DEF HasProposalQuorum, ConsState, Block
      <4>2. n.proposals[n.round] \in Block =>
                InsertNotarizedBlock(n, n.proposals[n.round]).round = n.round
        BY <1>2, InsertNotarizedFields
      <4>3. n.proposals[n.round] \in Block =>
                InsertNotarizedBlock(n, n.proposals[n.round]) \in ConsState
        BY <1>2, InsertNotarizedFields
      <4>. QED
        BY <1>2, <4>1, <4>2, <4>3 DEF AdvanceRound, ConsState
    <3>2. ~HasProposalQuorum(n)
      BY <1>2, <1>3, <3>1
    <3>3. HasDummyQuorum(n) => m.round = n.round + 1 \/ n.round < m.round
      BY <1>2, <3>2 DEF AdvanceRound, ConsState
    <3>. QED
      BY <1>2, <1>3, <3>2, <3>3 DEF Settled
  <2>2. k = [n EXCEPT !.timeout = @ \/ NeedsATimeout(n)]
    BY <1>3 DEF CheckRoundEnd
  <2>3. SameChain(n, k) /\ k.dummies = n.dummies
    BY <1>2, <2>2 DEF SameChain, ConsState
  <2>. HIDE DEF k
  <2>4. Settled(k)
    BY <1>2, <2>1, <2>3, FewerVotes
  <2>. QED
    BY <2>4 DEF k
<1>4. CASE m.round # n.round
  <2>1. Untouched(m, m.round)
    BY <1>1, <1>2, <1>4, RoundsAreNaturals
  <2>2. NeedsATimeout(m) \in BOOLEAN
    BY DEF NeedsATimeout
  <2>3. /\ t \in ConsState /\ SameChain(m, t) /\ t.dummies = m.dummies
        /\ s \in ConsState /\ SameChain(m, s) /\ s.dummies = m.dummies
    BY <1>2, <2>2 DEF ConsState, SameChain
  <2>4. k = t \/ k = UpdatePeerFinalityVoteRound(s, p, s.round)
    BY <1>2, <1>4, <2>3 DEF CheckRoundEnd, VoteFinalitySelf, SameChain
  <2>. HIDE DEF k, t, s, m
  <2>5. SameChain(m, k) /\ k.dummies[m.round] \subseteq m.dummies[m.round]
    <3>1. CASE k = t
      BY <2>3, <3>1
    <3>2. CASE k = UpdatePeerFinalityVoteRound(s, p, s.round)
      <4>1. s.round \in Rounds /\ s.round = m.round
        BY <1>2, <2>3 DEF SameChain
      <4>2. SameChain(s, k) /\ \A r \in Rounds : k.dummies[r] \subseteq s.dummies[r]
        BY <2>3, <3>2, <4>1, FinalityVoteFields
      <4>. QED
        BY <2>3, <4>1, <4>2 DEF SameChain
    <3>. QED
      BY <2>4, <3>1, <3>2
  <2>6. Settled(m)
    BY <2>1, FewerVotes DEF Settled, HasProposalQuorum, Untouched
  <2>7. Settled(k)
    BY <1>2, <2>5, <2>6, FewerVotes
  <2>. QED
    BY <2>7 DEF k
<1>. QED
    BY <1>3, <1>4

\* Nor is there anything to act on when the database is opened again.
LEMMA OpenInternalSettled ==
    ASSUME NEW p \in Peers, NEW n, WellFormed(n), Settled(n)
    PROVE  LET k == OpenInternal(p, n)
           IN  Settled(k) /\ k.round = n.round
<1> DEFINE self == RoundAfter(LatestNotarized(n))
           m == [n EXCEPT !.timeout = FALSE, !.finConsTx = n.finCons, !.finSelfTx = self]
           i == UpdatePeerFinalityVoteRound(m, p, self)
           k == CheckRoundEnd(p, i)
<1>1. n \in ConsState /\ self \in Rounds /\ n.round \in Rounds
    BY LatestIsARound DEF WellFormed, ConsState
<1>2. OpenInternal(p, n) = k
    BY DEF OpenInternal
<1>. HIDE DEF self
<1>3. m \in ConsState /\ SameChain(n, m) /\ m.dummies = n.dummies
    BY <1>1 DEF ConsState, SameChain
<1>. HIDE DEF m
<1>4. i \in ConsState /\ SameChain(m, i) /\ \A r \in Rounds : i.dummies[r] \subseteq m.dummies[r]
    BY <1>1, <1>3, FinalityVoteFields
<1>. HIDE DEF i
<1>5. SameChain(n, i) /\ i.dummies[n.round] \subseteq n.dummies[n.round]
    BY <1>1, <1>3, <1>4 DEF SameChain
<1>6. Settled(i)
    BY <1>1, <1>5, FewerVotes
<1>7. BeforeRoundEnd(i)
  <2>1. \A r \in Rounds : Untouched(n, r) => Untouched(i, r)
    BY <1>3, <1>4 DEF Untouched, BlockVoters, SameChain
  <2>2. WellFormed(i)
    BY <1>3, <1>4, <2>1 DEF WellFormed, Labelled, VotesMatchProposal, SameChain
  <2>. QED
    BY <2>2, WellFormedBeforeRoundEnd
<1>8. AdvanceRound(i) = i
  <2> DEFINE h == RoundAfter(GetPrevNotarizedBlock(i, MaxRound + 1))
  <2>1. h \in Rounds /\ (h # 0 => h - 1 \in NotarizedRounds(i))
    BY <1>7, HighestNotarized
  <2>2. \A x \in NotarizedRounds(i) : x < i.round
    BY <1>5, NotarizedBelow DEF SameChain, NotarizedRounds
  <2>3. ~(i.round < h)
    <3>. HIDE DEF h
    <3>. QED
      BY <1>1, <1>5, <2>1, <2>2, RoundsAreNaturals DEF SameChain
  <2>. QED
    BY <1>6, <2>3 DEF AdvanceRound, Settled
<1>9. k.round = n.round
    BY <1>5, <1>7, <1>8, CheckRoundEndCases DEF SameChain
<1>. QED
    BY <1>2, <1>7, <1>9, CheckRoundEndSettled

\* Votes, dummy votes and notarized blocks are each followed by check_round_end.
LEMMA HandlersSettled ==
    ASSUME NEW p \in Peers, NEW n, WellFormed(n), n.round # MaxRound, Settled(n)
    PROVE  /\ \A q \in Peers, b \in Block : Settled(ProcessVote(p, n, q, b))
           /\ \A q \in Peers : Settled(ProcessDummyVote(p, n, q))
           /\ \A qs \in SUBSET Peers : Settled(ProcessNotarizedDummy(p, n, qs))
           /\ \A b \in Block, sigs \in [Peers -> OptBlock] :
                RoundOf(b) # MaxRound => Settled(ProcessNotarizedBlock(p, n, b, sigs))
<1>1. ASSUME NEW q \in Peers, NEW b \in Block
      PROVE  Settled(ProcessVote(p, n, q, b))
  <2>1. CASE n.proposals[n.round] \in {NoBlock, b}
    <3>1. BeforeRoundEnd(InsertBlockVote(n, n.round, q, b))
      BY <2>1, InsertVoteReady
    <3>2. Settled(CheckRoundEnd(p, InsertBlockVote(n, n.round, q, b)))
      BY <3>1, CheckRoundEndSettled
    <3>. QED
      BY <3>2 DEF ProcessVote, CountBlockVote
  <2>2. CASE n.proposals[n.round] \notin {NoBlock, b}
    BY <2>2 DEF ProcessVote
  <2>. QED
    BY <2>1, <2>2
<1>2. ASSUME NEW qs \in SUBSET Peers
      PROVE  Settled(CheckRoundEnd(p, InsertDummyVotes(n, n.round, qs)))
  <2>1. BeforeRoundEnd(InsertDummyVotes(n, n.round, qs))
    BY InsertDummyReady
  <2>. QED
    BY <2>1, CheckRoundEndSettled
<1>3. \A q \in Peers : {q} \in SUBSET Peers
    OBVIOUS
<1>4. /\ \A q \in Peers : Settled(ProcessDummyVote(p, n, q))
      /\ \A qs \in SUBSET Peers : Settled(ProcessNotarizedDummy(p, n, qs))
    BY <1>2, <1>3 DEF ProcessDummyVote, ProcessNotarizedDummy
<1>5. ASSUME NEW b \in Block, NEW sigs \in [Peers -> OptBlock], RoundOf(b) # MaxRound
      PROVE  Settled(ProcessNotarizedBlock(p, n, b, sigs))
  <2> DEFINE latest == LatestNotarized(n)
             d == DeleteNotarizedBlock(n, RoundOf(latest))
  <2>1. latest # NoBlock => WellFormed(d)
    <3>1. latest # NoBlock => RoundOf(latest) \in Rounds
      BY LatestTwo DEF NotarizedRounds
    <3>. QED
      BY <3>1, DeleteNotarizedReady
  <2>2. \/ ProcessNotarizedBlock(p, n, b, sigs) = n
        \/ ProcessNotarizedBlock(p, n, b, sigs) = CheckRoundEnd(p, InsertNotarizedWithVotes(n, b, sigs))
        \/ /\ latest # NoBlock
           /\ ProcessNotarizedBlock(p, n, b, sigs) = CheckRoundEnd(p, InsertNotarizedWithVotes(d, b, sigs))
    BY DEF ProcessNotarizedBlock
  <2>. HIDE DEF latest, d
  <2>3. /\ BeforeRoundEnd(InsertNotarizedWithVotes(n, b, sigs))
        /\ latest # NoBlock => BeforeRoundEnd(InsertNotarizedWithVotes(d, b, sigs))
    BY <1>5, <2>1, InsertNotarizedReady
  <2>4. /\ Settled(CheckRoundEnd(p, InsertNotarizedWithVotes(n, b, sigs)))
        /\ latest # NoBlock => Settled(CheckRoundEnd(p, InsertNotarizedWithVotes(d, b, sigs)))
    BY <2>3, CheckRoundEndSettled
  <2>. QED
    BY <2>2, <2>4
<1>. QED
    BY <1>1, <1>4, <1>5

\* A proposal is not, when its sender's vote is recorded already; but then p's
\* own vote is still missing, which is enough when a threshold is everyone.
LEMMA ProcessProposalSettled ==
    ASSUME NEW p \in Peers, NEW n, WellFormed(n), n.round # MaxRound, Settled(n),
           T = Cardinality(Peers),
           n.proposals[n.round] = NoBlock => n.votes[n.round][p] = NoBlock,
           NEW q \in Peers, NEW b \in Block
    PROVE  Settled(ProcessProposal(p, n, q, b))
<1> DEFINE i == InsertBlockProposal(n, b)
<1>1. \/ ProcessProposal(p, n, q, b) = n
      \/ /\ RoundOf(b) = n.round /\ n.proposals[n.round] = NoBlock
         /\ ProcessProposal(p, n, q, b) = CountBlockVote(p, i, q, b)
    BY DEF ProcessProposal
<1>2. CASE /\ RoundOf(b) = n.round /\ n.proposals[n.round] = NoBlock
           /\ ProcessProposal(p, n, q, b) = CountBlockVote(p, i, q, b)
  <2>1. n \in ConsState /\ n.round \in Rounds
    BY DEF WellFormed, ConsState
  <2>2. /\ WellFormed(i) /\ i.round = n.round
        /\ i.proposals = [n.proposals EXCEPT ![n.round] = b]
        /\ \A r \in Rounds, x \in Peers :
            i.votes[r][x] = IF r = n.round /\ n.votes[r][x] # b THEN NoBlock ELSE n.votes[r][x]
    BY <1>2, InsertProposalReady
  <2>3. i.dummies = n.dummies
    BY <2>1, InsertProposalFields
  <2>. HIDE DEF i
  <2>4. i.proposals[i.round] = b /\ i.votes[i.round][p] = NoBlock
    BY <1>2, <2>1, <2>2 DEF ConsState
  <2>5. Settled(i)
    <3>1. BlockVoters(i, i.round) \subseteq Peers /\ p \notin BlockVoters(i, i.round)
      BY <2>4 DEF BlockVoters
    <3>2. /\ Cardinality(BlockVoters(i, i.round)) <= Cardinality(Peers)
          /\ Cardinality(BlockVoters(i, i.round)) = Cardinality(Peers)
                => BlockVoters(i, i.round) = Peers
          /\ Cardinality(BlockVoters(i, i.round)) \in Nat
      BY <3>1, PeersAssumption, FS_Subset, FS_CardinalityType
    <3>3. ~(T <= Cardinality(BlockVoters(i, i.round)))
      BY <3>1, <3>2, QuorumSize
    <3>4. ~HasDummyQuorum(i)
      BY <2>2, <2>3 DEF Settled, HasDummyQuorum
    <3>. QED
      BY <3>3, <3>4 DEF Settled, HasProposalQuorum
  <2>6. BeforeRoundEnd(InsertBlockVote(i, i.round, q, b))
    BY <2>2, <2>4, InsertVoteReady
  <2>7. Settled(CheckRoundEnd(p, InsertBlockVote(i, i.round, q, b)))
    BY <2>6, CheckRoundEndSettled
  <2>. QED
    BY <1>2, <2>5, <2>7 DEF CountBlockVote
<1>. QED
    BY <1>1, <1>2

-----------------------------------------------------------------------------
(***************************************************************************)
(* THE FEDERATION                                                          *)
(***************************************************************************)
-----------------------------------------------------------------------------
(***************************************************************************)
(* Tasks and replies.                                                      *)
(***************************************************************************)
\* Requests that were not answered yet are well typed.
LEMMA RequestTypes ==
    /\ NoBlock \in OptBlock /\ NoSigs \in [Peers -> OptBlock]
    /\ \A st \in {"open", "done"} : Cert(st) \in CertRpc /\ Cert(st).st = st
    /\ \A st \in {"any", "dummy", "none", "dummyVote"} : Ask(st) \in VoteRpc /\ Ask(st).st = st
<1>1. NoBlock \in OptBlock
    BY DEF NoBlock, OptBlock
<1>. QED
    BY <1>1 DEF NoSigs, Cert, CertRpc, Ask, VoteRpc

\* A round starts with no reply on its way.
LEMMA StartRoundGenuine ==
    ASSUME NEW p \in Peers, NEW n, WellFormed(n), NEW P
    PROVE  StartRound(p, n) \in TaskState /\ RepliesGenuine(StartRound(p, n), P)
<1> DEFINE t == StartRound(p, n)
<1>1. RoundAfter(LatestNotarized(n)) \in Rounds
    BY LatestIsARound
<1>2. /\ t.voteRpc \in [Peers -> VoteRpc]
      /\ \A q \in Peers : t.voteRpc[q].st \in {"any", "dummy", "none"}
    BY RequestTypes DEF StartRound
<1>3. /\ t.certRpc \in [Peers -> CertRpc]
      /\ \A q \in Peers : t.certRpc[q].st \in {"open", "done"}
    BY RequestTypes DEF StartRound
<1>4. t \in TaskState
  <2>1. t.generate \in BOOLEAN /\ t.draft \in OptBlock /\ t.reqMin \in Rounds
    BY <1>1, RequestTypes DEF StartRound
  <2>2. t = [reqMin |-> t.reqMin, voteRpc |-> t.voteRpc, certRpc |-> t.certRpc,
             generate |-> t.generate, draft |-> t.draft]
    BY DEF StartRound
  <2>. HIDE DEF t
  <2>. QED
    BY <1>2, <1>3, <2>1, <2>2 DEF TaskState
<1>. HIDE DEF t
<1>5. RepliesGenuine(t, P)
    BY <1>2, <1>3 DEF RepliesGenuine
<1>. QED
    BY <1>4, <1>5 DEF t

\* A reply on its way keeps its meaning when a peer stores another proposal.
LEMMA RepliesGrow ==
    ASSUME NEW t, NEW P, NEW P2, RepliesGenuine(t, P), Grows(Honest, P, P2)
    PROVE  RepliesGenuine(t, P2)
<1>1. \A b \in Block : RoundOf(b) \in Rounds /\ b # NoBlock
    BY BlockRound DEF Block
<1>. QED
    BY <1>1 DEF RepliesGenuine, Grows

-----------------------------------------------------------------------------
(***************************************************************************)
(* One peer steps.                                                         *)
(***************************************************************************)
\* The invariant, one peer at a time.
LEMMA InvOfPeer ==
    ASSUME Inv, NEW p \in Peers
    PROVE  /\ Sound(cons[p], Honest, Proposals)
           /\ cons[p] \in ConsState /\ cons[p].round \in Rounds
           /\ Proposals[p] = cons[p].proposals
           /\ Proposals \in [Peers -> [Rounds -> OptBlock]]
           /\ task[p] \in TaskState /\ RepliesGenuine(task[p], Proposals)
           /\ app[p] \in AppState /\ LogOfBlocks(app[p].log)
<1>1. cons \in [Peers -> ConsState] /\ task \in [Peers -> TaskState] /\ app \in [Peers -> AppState]
    BY DEF Inv, TypeOK
<1>2. Proposals \in [Peers -> [Rounds -> OptBlock]] /\ Proposals[p] = cons[p].proposals
    BY <1>1 DEF Proposals, ConsState
<1>3. cons[p].round \in Rounds
    BY <1>1 DEF ConsState
<1>. QED
    BY <1>1, <1>2, <1>3 DEF Inv, VotesAreGenuine, Sound

\* A step of p that leaves p sound keeps the invariant and all stored proposals.
LEMMA PeerStep ==
    ASSUME Inv, NEW p \in Honest, NEW c, NEW t \in TaskState,
           cons' = [cons EXCEPT ![p] = c], task' = [task EXCEPT ![p] = t],
           app' \in [Peers -> AppState], \A q \in Peers : LogOfBlocks(app'[q].log),
           restarts' \in [Peers -> 0 .. MaxRestarts], UNCHANGED pins,
           Sound(c, Honest, [Proposals EXCEPT ![p] = c.proposals]),
           \A r \in Rounds : cons[p].proposals[r] # NoBlock
                                => c.proposals[r] = cons[p].proposals[r],
           RepliesGenuine(t, Proposals) \/ RepliesGenuine(t, Proposals')
    PROVE  Inv' /\ Grows(Peers, Proposals, Proposals')
<1>1. /\ cons \in [Peers -> ConsState] /\ task \in [Peers -> TaskState]
      /\ p \in Peers /\ c \in ConsState /\ Honest \in SUBSET Peers
    BY DEF Inv, TypeOK, Honest, Sound, WellFormed
<1>2. /\ cons' \in [Peers -> ConsState] /\ task' \in [Peers -> TaskState]
      /\ cons'[p] = c /\ task'[p] = t
      /\ \A q \in Peers : q # p => cons'[q] = cons[q] /\ task'[q] = task[q]
    BY <1>1
<1>3. Proposals' = [Proposals EXCEPT ![p] = c.proposals]
    BY <1>1, <1>2 DEF Proposals
<1>4. Grows(Peers, Proposals, Proposals')
    BY <1>1, <1>2 DEF Grows, Proposals
<1>5. Grows(Honest, Proposals, Proposals')
    BY <1>1, <1>4 DEF Grows
<1>6. ASSUME NEW q \in Peers
      PROVE  Sound(cons'[q], Honest, Proposals') /\ RepliesGenuine(task'[q], Proposals')
  <2>1. CASE q = p
    BY <1>2, <1>3, <1>5, <2>1, RepliesGrow
  <2>2. CASE q # p
    <3>1. Sound(cons[q], Honest, Proposals) /\ RepliesGenuine(task[q], Proposals)
      BY InvOfPeer
    <3>2. Sound(cons[q], Honest, Proposals')
      BY <1>1, <1>5, <3>1, SoundGrows
    <3>. QED
      BY <1>2, <1>5, <2>2, <3>1, <3>2, RepliesGrow
  <2>. QED
    BY <2>1, <2>2
<1>7. TypeOK'
    BY <1>2 DEF Inv, TypeOK
<1>8. VotesAreGenuine'
    BY <1>6 DEF VotesAreGenuine, Sound
<1>. QED
    BY <1>4, <1>7, <1>8 DEF Inv

\* A step of p's tasks alone: a request answered, a draft made.
LEMMA TaskStep ==
    ASSUME Inv, NEW p \in Honest, NEW t \in TaskState, task' = [task EXCEPT ![p] = t],
           UNCHANGED <<cons, app, restarts, pins>>, RepliesGenuine(t, Proposals)
    PROVE  Inv' /\ Grows(Peers, Proposals, Proposals')
<1> DEFINE c == cons[p]
<1>1. p \in Peers
    BY DEF Honest
<1>2. /\ Sound(c, Honest, Proposals) /\ Proposals[p] = c.proposals
      /\ Proposals \in [Peers -> [Rounds -> OptBlock]]
    BY <1>1, InvOfPeer
<1>3. [Proposals EXCEPT ![p] = c.proposals] = Proposals
    BY <1>1, <1>2
<1>4. cons' = [cons EXCEPT ![p] = c]
    BY <1>1 DEF Inv, TypeOK
<1>5. app' \in [Peers -> AppState] /\ restarts' \in [Peers -> 0 .. MaxRestarts]
    BY DEF Inv, TypeOK
<1>6. \A q \in Peers : LogOfBlocks(app'[q].log)
    BY InvOfPeer
<1>. QED
    BY <1>2, <1>3, <1>4, <1>5, <1>6, PeerStep

\* A transaction of p in its round, followed by what the round's loop does.
LEMMA CommitStep ==
    ASSUME Inv, NEW p \in Honest, NEW m, NEW t \in TaskState, Commit(p, m, t),
           RepliesGenuine(t, Proposals),
           Sound(m, Honest, [Proposals EXCEPT ![p] = m.proposals]),
           \A r \in Rounds : cons[p].proposals[r] # NoBlock
                                => m.proposals[r] = cons[p].proposals[r]
    PROVE  Inv' /\ Grows(Peers, Proposals, Proposals')
<1> DEFINE c == IF PinsHold(p, cons[p], m) THEN m ELSE cons[p]
           s == IF c.round # cons[p].round THEN StartRound(p, c) ELSE t
<1>1. p \in Peers
    BY DEF Honest
<1>2. /\ cons' = [cons EXCEPT ![p] = c] /\ task' = [task EXCEPT ![p] = s]
      /\ UNCHANGED <<app, restarts, pins>>
    BY DEF Commit
<1>3. /\ Sound(cons[p], Honest, Proposals) /\ Proposals[p] = cons[p].proposals
      /\ Proposals \in [Peers -> [Rounds -> OptBlock]]
    BY <1>1, InvOfPeer
<1>4. [Proposals EXCEPT ![p] = cons[p].proposals] = Proposals
    BY <1>1, <1>3
<1>5. c = m \/ c = cons[p]
    OBVIOUS
<1>. HIDE DEF c
<1>6. /\ Sound(c, Honest, [Proposals EXCEPT ![p] = c.proposals])
      /\ \A r \in Rounds : cons[p].proposals[r] # NoBlock
                                => c.proposals[r] = cons[p].proposals[r]
    BY <1>3, <1>4, <1>5
<1>7. StartRound(p, c) \in TaskState /\ RepliesGenuine(StartRound(p, c), Proposals)
    BY <1>1, <1>6, StartRoundGenuine DEF Sound
<1>8. s \in TaskState /\ RepliesGenuine(s, Proposals)
    BY <1>7
<1>. HIDE DEF s
<1>9. app' \in [Peers -> AppState] /\ restarts' \in [Peers -> 0 .. MaxRestarts]
    BY <1>2 DEF Inv, TypeOK
<1>10. \A q \in Peers : LogOfBlocks(app'[q].log)
    BY <1>2, InvOfPeer
<1>. QED
    BY <1>2, <1>6, <1>8, <1>9, <1>10, PeerStep

-----------------------------------------------------------------------------
(***************************************************************************)
(* One lemma per action.                                                   *)
(***************************************************************************)
\* What a running peer's handlers may rely on.
LEMMA RunningPeer ==
    ASSUME Inv, NEW p, Running(p)
    PROVE  /\ p \in Honest /\ p \in Peers /\ Honest \in SUBSET Peers
           /\ cons[p].round # MaxRound
           /\ [Proposals EXCEPT ![p] = cons[p].proposals] = Proposals
<1>1. p \in Honest /\ p \in Peers /\ Honest \in SUBSET Peers
    BY DEF Running, Honest
<1>2. cons[p].round # MaxRound
  <2>1. cons[p].round \in Nat /\ cons[p].round < MaxRound
    BY <1>1, InvOfPeer, RoundsAreNaturals DEF Running
  <2>. QED
    BY <2>1
<1>3. Proposals[p] = cons[p].proposals /\ Proposals \in [Peers -> [Rounds -> OptBlock]]
    BY <1>1, InvOfPeer
<1>. QED
    BY <1>1, <1>2, <1>3

\* A handler that stores no proposal.
LEMMA HandlerStep ==
    ASSUME Inv, NEW p, Running(p), NEW m, NEW t \in TaskState, Commit(p, m, t),
           RepliesGenuine(t, Proposals), Sound(m, Honest, Proposals),
           m.proposals = cons[p].proposals
    PROVE  Inv' /\ Grows(Peers, Proposals, Proposals')
BY RunningPeer, CommitStep

\* A draft is a block of the round.
LEMMA GenerateProposalInv ==
    ASSUME Inv, NEW p, NEW x \in Payloads, GenerateProposal(p, x)
    PROVE  Inv' /\ Grows(Peers, Proposals, Proposals')
<1> DEFINE b == NewBlock(LatestNotarized(cons[p]), cons[p].round, x)
           t == [task[p] EXCEPT !.generate = FALSE, !.draft = b]
<1>1. Running(p) /\ task' = [task EXCEPT ![p].generate = FALSE, ![p].draft = b]
      /\ UNCHANGED <<cons, app, restarts, pins>>
    BY DEF GenerateProposal
<1>2. p \in Honest /\ p \in Peers
    BY <1>1, RunningPeer
<1>3. /\ cons[p] \in ConsState /\ cons[p].round \in Rounds
      /\ task[p] \in TaskState /\ RepliesGenuine(task[p], Proposals)
    BY <1>2, InvOfPeer
<1>4. LatestNotarized(cons[p]) \in OptBlock
  <2>1. cons[p].round \in Int
    BY <1>3, RoundsAreNaturals
  <2>. QED
    BY <1>3, <2>1, PrevNotarized, RequestTypes DEF LatestNotarized, Block
<1>5. b \in OptBlock
    BY <1>3, <1>4, NewBlockType DEF Block
<1>6. task' = [task EXCEPT ![p] = t]
    BY <1>1, <1>2 DEF Inv, TypeOK
<1>. HIDE DEF b
<1>7. t \in TaskState /\ t.voteRpc = task[p].voteRpc /\ t.certRpc = task[p].certRpc
    BY <1>3, <1>5 DEF TaskState
<1>. HIDE DEF t
<1>8. RepliesGenuine(t, Proposals)
    BY <1>3, <1>7 DEF RepliesGenuine
<1>. QED
    BY <1>1, <1>2, <1>6, <1>7, <1>8, TaskStep

\* The leader's own proposal, also when its draft went stale.
LEMMA VoteSelfProposalInv ==
    ASSUME Inv, NEW p, VoteSelfProposal(p)
    PROVE  Inv' /\ Grows(Peers, Proposals, Proposals')
<1> DEFINE t == [task[p] EXCEPT !.draft = NoBlock]
           m == ProcessProposal(p, cons[p], p, task[p].draft)
<1>1. Running(p) /\ task[p].draft # NoBlock /\ Commit(p, m, t)
    BY DEF VoteSelfProposal
<1>2. p \in Honest /\ p \in Peers /\ Honest \in SUBSET Peers /\ cons[p].round # MaxRound
    BY <1>1, RunningPeer
<1>3. /\ Sound(cons[p], Honest, Proposals) /\ Proposals[p] = cons[p].proposals
      /\ Proposals \in [Peers -> [Rounds -> OptBlock]]
      /\ task[p] \in TaskState /\ RepliesGenuine(task[p], Proposals)
    BY <1>2, InvOfPeer
<1>4. task[p].draft \in Block
    BY <1>1, <1>3 DEF TaskState, Block
<1>5. t \in TaskState /\ t.voteRpc = task[p].voteRpc /\ t.certRpc = task[p].certRpc
    BY <1>3, RequestTypes DEF TaskState
<1>6. /\ Sound(m, Honest, [Proposals EXCEPT ![p] = m.proposals])
      /\ \A r \in Rounds : cons[p].proposals[r] # NoBlock
                                => m.proposals[r] = cons[p].proposals[r]
    BY <1>2, <1>3, <1>4, ProcessProposalSound
<1>. HIDE DEF t, m
<1>7. RepliesGenuine(t, Proposals)
    BY <1>3, <1>5 DEF RepliesGenuine
<1>. QED
    BY <1>1, <1>2, <1>5, <1>6, <1>7, CommitStep

\* A vote for the stored proposal.
LEMMA VoteSelfInv ==
    ASSUME Inv, NEW p, VoteSelf(p)
    PROVE  Inv' /\ Grows(Peers, Proposals, Proposals')
<1> DEFINE n == cons[p]
           b == n.proposals[n.round]
           m == ProcessVote(p, n, p, b)
<1>1. Running(p) /\ b # NoBlock /\ Commit(p, m, task[p])
    BY DEF VoteSelf
<1>2. p \in Honest /\ p \in Peers /\ Honest \in SUBSET Peers /\ n.round # MaxRound
    BY <1>1, RunningPeer
<1>3. /\ Sound(n, Honest, Proposals) /\ Proposals[p] = n.proposals
      /\ n \in ConsState /\ n.round \in Rounds
      /\ task[p] \in TaskState /\ RepliesGenuine(task[p], Proposals)
    BY <1>2, InvOfPeer
<1>4. b \in Block /\ RoundOf(b) = n.round
    BY <1>1, <1>3 DEF ConsState, Block, Sound, WellFormed, Labelled
<1>5. Proposals[p][RoundOf(b)] = b
    BY <1>3, <1>4
<1>. HIDE DEF n, b
<1>6. Sound(m, Honest, Proposals) /\ m.proposals = n.proposals
    BY <1>2, <1>3, <1>4, <1>5, ProcessVoteSound
<1>. HIDE DEF m
<1>. QED
    BY <1>1, <1>3, <1>6, HandlerStep DEF n

\* A dummy vote after the timeout.
LEMMA VoteSelfTimeoutInv ==
    ASSUME Inv, NEW p, VoteSelfTimeout(p)
    PROVE  Inv' /\ Grows(Peers, Proposals, Proposals')
<1> DEFINE m == ProcessDummyVote(p, cons[p], p)
<1>1. Running(p) /\ Commit(p, m, task[p])
    BY DEF VoteSelfTimeout
<1>2. p \in Peers /\ Honest \in SUBSET Peers /\ cons[p].round # MaxRound
    BY <1>1, RunningPeer
<1>3. /\ Sound(cons[p], Honest, Proposals)
      /\ task[p] \in TaskState /\ RepliesGenuine(task[p], Proposals)
    BY <1>2, InvOfPeer
<1>4. Sound(m, Honest, Proposals) /\ m.proposals = cons[p].proposals
    BY <1>2, <1>3, ProcessDummyVoteSound
<1>. HIDE DEF m
<1>. QED
    BY <1>1, <1>3, <1>4, HandlerStep

\* A reply to a vote request that is genuine.
LEMMA SetVoteRpcInv ==
    ASSUME Inv, NEW p \in Honest, NEW q \in Peers, NEW rpc \in VoteRpc, SetVoteRpc(p, q, rpc),
           rpc.st \in {"vote", "proposal"} =>
                /\ rpc.block \in Block
                /\ q \in Honest => rpc.block = Proposals[q][RoundOf(rpc.block)]
    PROVE  Inv' /\ Grows(Peers, Proposals, Proposals')
<1> DEFINE t == [task[p] EXCEPT !.voteRpc[q] = rpc]
<1>1. p \in Peers
    BY DEF Honest
<1>2. task[p] \in TaskState /\ RepliesGenuine(task[p], Proposals)
    BY <1>1, InvOfPeer
<1>3. task' = [task EXCEPT ![p] = t] /\ UNCHANGED <<cons, app, restarts, pins>>
    BY <1>1 DEF SetVoteRpc, Inv, TypeOK
<1>4. /\ t \in TaskState /\ t.certRpc = task[p].certRpc
      /\ t.voteRpc = [task[p].voteRpc EXCEPT ![q] = rpc]
    BY <1>2 DEF TaskState
<1>5. \A x \in Peers : t.voteRpc[x] = IF x = q THEN rpc ELSE task[p].voteRpc[x]
    BY <1>2, <1>4 DEF TaskState
<1>. HIDE DEF t
<1>6. RepliesGenuine(t, Proposals)
    BY <1>2, <1>4, <1>5 DEF RepliesGenuine
<1>. QED
    BY <1>3, <1>4, <1>6, TaskStep

\* A reply to a notarized block request that is genuine.
LEMMA SetCertRpcInv ==
    ASSUME Inv, NEW p \in Honest, NEW q \in Peers, NEW rpc \in CertRpc, SetCertRpc(p, q, rpc),
           rpc.st = "block" =>
                /\ rpc.block \in Block
                /\ RoundOf(rpc.block) # MaxRound
                /\ \A x \in Honest : rpc.sigs[x] \in {NoBlock, Proposals[x][RoundOf(rpc.block)]}
    PROVE  Inv' /\ Grows(Peers, Proposals, Proposals')
<1> DEFINE t == [task[p] EXCEPT !.certRpc[q] = rpc]
<1>1. p \in Peers
    BY DEF Honest
<1>2. task[p] \in TaskState /\ RepliesGenuine(task[p], Proposals)
    BY <1>1, InvOfPeer
<1>3. task' = [task EXCEPT ![p] = t] /\ UNCHANGED <<cons, app, restarts, pins>>
    BY <1>1 DEF SetCertRpc, Inv, TypeOK
<1>4. /\ t \in TaskState /\ t.voteRpc = task[p].voteRpc
      /\ t.certRpc = [task[p].certRpc EXCEPT ![q] = rpc]
    BY <1>2 DEF TaskState
<1>5. \A x \in Peers : t.certRpc[x] = IF x = q THEN rpc ELSE task[p].certRpc[x]
    BY <1>2, <1>4 DEF TaskState
<1>. HIDE DEF t
<1>6. RepliesGenuine(t, Proposals)
    BY <1>2, <1>4, <1>5 DEF RepliesGenuine
<1>. QED
    BY <1>3, <1>4, <1>6, TaskStep

\* An honest peer answers with its dummy vote or the vote it recorded.
LEMMA HandleWaitVoteInv ==
    ASSUME Inv, NEW p, NEW q \in Peers, HandleWaitVote(p, q)
    PROVE  Inv' /\ Grows(Peers, Proposals, Proposals')
<1> DEFINE r == cons[p].round
           b == cons[q].votes[r][q]
           rpc == [st |-> IF q = Leader[r] THEN "proposal" ELSE "vote", block |-> b]
<1>1. Running(p) /\ q \in Honest
    BY DEF HandleWaitVote
<1>2. p \in Honest /\ p \in Peers
    BY <1>1, RunningPeer
<1>3. r \in Rounds
    BY <1>2, InvOfPeer
<1>4. Sound(cons[q], Honest, Proposals) /\ cons[q] \in ConsState
      /\ Proposals[q] = cons[q].proposals
    BY InvOfPeer
<1>5. CASE SetVoteRpc(p, q, Ask("dummyVote"))
    BY <1>2, <1>5, RequestTypes, SetVoteRpcInv
<1>6. CASE q \in BlockVoters(cons[q], r) /\ SetVoteRpc(p, q, rpc)
  <2>1. b \in Block /\ b = Proposals[q][r]
    BY <1>1, <1>3, <1>4, <1>6 DEF BlockVoters, ConsState, Block, Sound, Genuine
  <2>2. RoundOf(b) = r
    BY <1>3, <1>4, <2>1 DEF Sound, WellFormed, Labelled, Block
  <2>3. rpc \in VoteRpc /\ rpc.block = b
    BY <2>1 DEF VoteRpc, Block
  <2>. HIDE DEF rpc, b
  <2>. QED
    BY <1>2, <1>6, <2>1, <2>2, <2>3, SetVoteRpcInv
<1>. QED
    BY <1>5, <1>6 DEF HandleWaitVote, GetVote

\* A vote reply is applied.
LEMMA ProcessVoteResponseInv ==
    ASSUME Inv, NEW p, NEW q \in Peers, ProcessVoteResponse(p, q)
    PROVE  Inv' /\ Grows(Peers, Proposals, Proposals')
<1> DEFINE n   == cons[p]
           rpc == task[p].voteRpc[q]
           asked(st) == [task[p] EXCEPT !.voteRpc[q] = Ask(st)]
<1>1. Running(p)
    BY DEF ProcessVoteResponse
<1>2. p \in Honest /\ p \in Peers /\ Honest \in SUBSET Peers /\ n.round # MaxRound
    BY <1>1, RunningPeer
<1>3. /\ Sound(n, Honest, Proposals) /\ Proposals[p] = n.proposals
      /\ Proposals \in [Peers -> [Rounds -> OptBlock]]
      /\ task[p] \in TaskState /\ RepliesGenuine(task[p], Proposals)
    BY <1>2, InvOfPeer
<1>4. ASSUME NEW st \in {"none", "dummy"}
      PROVE  asked(st) \in TaskState /\ RepliesGenuine(asked(st), Proposals)
  <2> DEFINE a == Ask(st)
             t == [task[p] EXCEPT !.voteRpc[q] = a]
  <2>1. a \in VoteRpc /\ a.st = st
    BY RequestTypes
  <2>. HIDE DEF a
  <2>2. /\ t \in TaskState /\ t.certRpc = task[p].certRpc
        /\ t.voteRpc = [task[p].voteRpc EXCEPT ![q] = a]
    BY <1>3, <2>1 DEF TaskState
  <2>. HIDE DEF t
  <2>3. \A x \in Peers : t.voteRpc[x] = IF x = q THEN a ELSE task[p].voteRpc[x]
    BY <1>3, <2>2 DEF TaskState
  <2>4. RepliesGenuine(t, Proposals)
    BY <1>3, <2>1, <2>2, <2>3 DEF RepliesGenuine
  <2>. QED
    BY <2>2, <2>4 DEF t, a
<1>5. rpc.st \in {"vote", "proposal"} =>
        rpc.block \in Block /\ (q \in Honest => rpc.block = Proposals[q][RoundOf(rpc.block)])
    BY <1>3 DEF RepliesGenuine
<1>6. CASE rpc.st = "dummyVote" /\ Commit(p, ProcessDummyVote(p, n, q), asked("none"))
  <2> DEFINE m == ProcessDummyVote(p, n, q)
  <2>1. Sound(m, Honest, Proposals) /\ m.proposals = n.proposals
    BY <1>2, <1>3, ProcessDummyVoteSound
  <2>. HIDE DEF m, asked
  <2>. QED
    BY <1>1, <1>4, <1>6, <2>1, HandlerStep DEF m
<1>7. CASE rpc.st = "vote" /\ Commit(p, ProcessVote(p, n, q, rpc.block), asked("dummy"))
  <2> DEFINE b == rpc.block
             m == ProcessVote(p, n, q, b)
  <2>1. b \in Block /\ (q \in Honest => Proposals[q][RoundOf(b)] = b)
    BY <1>5, <1>7
  <2>. HIDE DEF b, n, asked
  <2>2. Sound(m, Honest, Proposals) /\ m.proposals = n.proposals
    BY <1>2, <1>3, <2>1, ProcessVoteSound
  <2>. HIDE DEF m
  <2>. QED
    BY <1>1, <1>4, <1>7, <2>2, HandlerStep DEF m, n, b
<1>8. CASE rpc.st = "proposal" /\ Commit(p, ProcessProposal(p, n, q, rpc.block), asked("dummy"))
  <2> DEFINE b == rpc.block
             m == ProcessProposal(p, n, q, b)
  <2>1. b \in Block /\ (q \in Honest => Proposals[q][RoundOf(b)] = b)
    BY <1>5, <1>8
  <2>. HIDE DEF b, n, asked, rpc
  <2>2. LET k == ProcessProposal(p, n, q, b)
        IN  /\ Sound(k, Honest, [Proposals EXCEPT ![p] = k.proposals])
            /\ \A r \in Rounds : n.proposals[r] # NoBlock => k.proposals[r] = n.proposals[r]
            /\ n.round <= k.round
    <3>1. q \in Honest /\ q # p => Proposals[q][RoundOf(b)] = b
      BY <2>1
    <3>2. b \in Block
      BY <2>1
    <3>. QED
      BY <1>2, <1>3, <3>1, <3>2, ProcessProposalSound, Zenon
  <2>. HIDE DEF m
  <2>. QED
    BY <1>2, <1>4, <1>8, <2>2, CommitStep DEF m, n, b, rpc
<1>. QED
    BY <1>6, <1>7, <1>8 DEF ProcessVoteResponse

\* An honest peer answers with a notarized block and the votes it recorded for
\* it, or with dummy votes.
LEMMA HandleWaitNotarizedBlockInv ==
    ASSUME Inv, NEW p, NEW q \in Peers, HandleWaitNotarizedBlock(p, q)
    PROVE  Inv' /\ Grows(Peers, Proposals, Proposals')
<1> DEFINE r == cons[p].round
           b == GetNextNotarizedBlock(cons[q], task[p].reqMin)
           blk == CertBlock(b, cons[q].votes[RoundOf(b)])
           dum == CertDummies(cons[q].dummies[r])
<1>1. Running(p) /\ q \in Honest
    BY DEF HandleWaitNotarizedBlock
<1>2. p \in Honest /\ p \in Peers
    BY <1>1, RunningPeer
<1>3. r \in Rounds /\ task[p] \in TaskState
    BY <1>2, InvOfPeer
<1>4. Sound(cons[q], Honest, Proposals) /\ cons[q] \in ConsState
    BY InvOfPeer
<1>5. CASE b # NoBlock /\ SetCertRpc(p, q, blk)
  <2>1. task[p].reqMin \in Int
    BY <1>3, RoundsAreNaturals DEF TaskState
  <2>2. PICK x \in NotarizedRounds(cons[q]) : b = cons[q].notarized[x] /\ b \in Block
    BY <1>4, <1>5, <2>1, NextNotarized
  <2>3. RoundOf(b) = x /\ x \in Rounds /\ x # MaxRound
    BY <1>4, <2>2 DEF Sound, WellFormed, Labelled, Untouched, NotarizedRounds
  <2>4. cons[q].votes[x] \in [Peers -> OptBlock]
    BY <1>4, <2>3 DEF ConsState
  <2>. HIDE DEF b
  <2>5. blk \in CertRpc /\ blk.block = b /\ blk.sigs = cons[q].votes[x]
    BY <2>2, <2>3, <2>4 DEF CertBlock, CertRpc, Block
  <2>. HIDE DEF blk
  <2>6. \A y \in Honest : cons[q].votes[x][y] \in {NoBlock, Proposals[y][x]}
    BY <1>4, <2>3 DEF Sound, Genuine
  <2>. QED
    BY <1>2, <1>5, <2>2, <2>3, <2>5, <2>6, SetCertRpcInv
<1>6. CASE SetCertRpc(p, q, dum)
  <2>1. dum \in CertRpc /\ dum.st = "dummies"
    BY <1>3, <1>4, RequestTypes DEF CertDummies, CertRpc, ConsState
  <2>. HIDE DEF dum
  <2>. QED
    BY <1>2, <1>6, <2>1, SetCertRpcInv
<1>. QED
    BY <1>5, <1>6 DEF HandleWaitNotarizedBlock, GetNotarizedBlockResp

\* A notarized block or dummy is applied.
LEMMA ProcessNotarizedBlockResponseInv ==
    ASSUME Inv, NEW p, NEW q \in Peers, ProcessNotarizedBlockResponse(p, q)
    PROVE  Inv' /\ Grows(Peers, Proposals, Proposals')
<1> DEFINE n   == cons[p]
           rpc == task[p].certRpc[q]
           a   == Cert("done")
           t   == [task[p] EXCEPT !.certRpc[q] = a]
<1>1. Running(p)
    BY DEF ProcessNotarizedBlockResponse
<1>2. p \in Honest /\ p \in Peers /\ Honest \in SUBSET Peers /\ n.round # MaxRound
    BY <1>1, RunningPeer
<1>3. /\ Sound(n, Honest, Proposals)
      /\ task[p] \in TaskState /\ RepliesGenuine(task[p], Proposals)
    BY <1>2, InvOfPeer
<1>4. a \in CertRpc /\ a.st = "done"
    BY RequestTypes
<1>5. t \in TaskState /\ RepliesGenuine(t, Proposals)
  <2>. HIDE DEF a
  <2>1. /\ t \in TaskState /\ t.voteRpc = task[p].voteRpc
        /\ t.certRpc = [task[p].certRpc EXCEPT ![q] = a]
    BY <1>3, <1>4 DEF TaskState
  <2>. HIDE DEF t
  <2>2. \A x \in Peers : t.certRpc[x] = IF x = q THEN a ELSE task[p].certRpc[x]
    BY <1>3, <2>1 DEF TaskState
  <2>3. RepliesGenuine(t, Proposals)
    BY <1>3, <1>4, <2>1, <2>2 DEF RepliesGenuine
  <2>. QED
    BY <2>1, <2>3
<1>6. rpc \in CertRpc
    BY <1>3 DEF TaskState
<1>7. CASE rpc.st = "block" /\ Commit(p, ProcessNotarizedBlock(p, n, rpc.block, rpc.sigs), t)
  <2> DEFINE m == ProcessNotarizedBlock(p, n, rpc.block, rpc.sigs)
  <2>1. /\ rpc.block \in Block /\ RoundOf(rpc.block) # MaxRound
        /\ \A x \in Honest : rpc.sigs[x] \in {NoBlock, Proposals[x][RoundOf(rpc.block)]}
    BY <1>3, <1>7 DEF RepliesGenuine
  <2>2. rpc.sigs \in [Peers -> OptBlock]
    BY <1>6 DEF CertRpc
  <2>3. Sound(m, Honest, Proposals) /\ m.proposals = n.proposals
    BY <1>2, <1>3, <2>1, <2>2, ProcessNotarizedBlockSound
  <2>. HIDE DEF m, t
  <2>. QED
    BY <1>1, <1>5, <1>7, <2>3, HandlerStep DEF m
<1>8. CASE rpc.st = "dummies" /\ Commit(p, ProcessNotarizedDummy(p, n, rpc.dummies), t)
  <2> DEFINE qs == rpc.dummies
             m  == ProcessNotarizedDummy(p, n, qs)
  <2>1. qs \in SUBSET Peers
    BY <1>6 DEF CertRpc
  <2>. HIDE DEF qs, n, t
  <2>2. Sound(m, Honest, Proposals) /\ m.proposals = n.proposals
    BY <1>2, <1>3, <2>1, ProcessNotarizedDummySound
  <2>. HIDE DEF m
  <2>. QED
    BY <1>1, <1>5, <1>8, <2>2, HandlerStep DEF m, n, qs
<1>. QED
    BY <1>7, <1>8 DEF ProcessNotarizedBlockResponse

\* A finality vote of an honest or a faulty peer is recorded.
LEMMA SetFinalityVoteInv ==
    ASSUME Inv, NEW p \in Honest, NEW q \in Peers, NEW v \in Rounds, SetFinalityVote(p, q, v)
    PROVE  Inv' /\ Grows(Peers, Proposals, Proposals')
<1> DEFINE c == UpdatePeerFinalityVoteRound(cons[p], q, v)
<1>1. p \in Peers /\ Honest \in SUBSET Peers
    BY DEF Honest
<1>2. /\ Sound(cons[p], Honest, Proposals) /\ Proposals[p] = cons[p].proposals
      /\ Proposals \in [Peers -> [Rounds -> OptBlock]]
      /\ task[p] \in TaskState /\ RepliesGenuine(task[p], Proposals)
    BY <1>1, InvOfPeer
<1>3. Sound(c, Honest, Proposals) /\ c.proposals = cons[p].proposals
    BY <1>1, <1>2, FinalityVoteSound DEF SameChain
<1>4. cons' = [cons EXCEPT ![p] = c] /\ UNCHANGED <<task, app, restarts, pins>>
    BY DEF SetFinalityVote
<1>. HIDE DEF c
<1>5. [Proposals EXCEPT ![p] = c.proposals] = Proposals
    BY <1>1, <1>2, <1>3
<1>6. task' = [task EXCEPT ![p] = task[p]]
    BY <1>1, <1>4 DEF Inv, TypeOK
<1>7. app' \in [Peers -> AppState] /\ restarts' \in [Peers -> 0 .. MaxRestarts]
    BY <1>4 DEF Inv, TypeOK
<1>8. \A x \in Peers : LogOfBlocks(app'[x].log)
    BY <1>4, InvOfPeer
<1>. QED
    BY <1>2, <1>3, <1>4, <1>5, <1>6, <1>7, <1>8, PeerStep

\* The application moves on.
LEMMA AckAndWaitNextBlockInv ==
    ASSUME Inv, NEW p, AckAndWaitNextBlock(p)
    PROVE  Inv' /\ Grows(Peers, Proposals, Proposals')
<1> DEFINE n == cons[p]
           b == GetNextNotarizedBlock(n, app[p].ack)
           taken == [ack |-> RoundOf(b) + 1, log |-> Append(app[p].log, b)]
           acked == [app[p] EXCEPT !.ack = RoundOf(b)]
<1>1. p \in Honest /\ p \in Peers /\ b # NoBlock /\ UNCHANGED <<cons, task, restarts, pins>>
    BY DEF AckAndWaitNextBlock, Honest
<1>2. /\ Sound(n, Honest, Proposals) /\ n \in ConsState /\ Proposals[p] = n.proposals
      /\ Proposals \in [Peers -> [Rounds -> OptBlock]]
      /\ task[p] \in TaskState /\ RepliesGenuine(task[p], Proposals)
      /\ app[p] \in AppState /\ LogOfBlocks(app[p].log)
    BY <1>1, InvOfPeer
<1>3. app[p].ack \in Int
    BY <1>2, RoundsAreNaturals DEF AppState
<1>4. PICK x \in NotarizedRounds(n) : b = n.notarized[x] /\ b \in Block
    BY <1>1, <1>2, <1>3, NextNotarized
<1>5. RoundOf(b) = x /\ x \in Rounds /\ x # MaxRound
    BY <1>2, <1>4 DEF Sound, WellFormed, Labelled, Untouched, NotarizedRounds
<1>6. RoundOf(b) + 1 \in Rounds
    BY <1>5, RoundsAreNaturals
<1>7. \/ app' = [app EXCEPT ![p] = taken]
      \/ app' = [app EXCEPT ![p] = acked]
    BY <1>1 DEF AckAndWaitNextBlock, Inv, TypeOK
<1>. HIDE DEF b
<1>8. taken \in AppState /\ LogOfBlocks(taken.log)
  <2>1. app[p].log \in Seq(OptBlock) /\ b \in OptBlock
    BY <1>2, <1>4 DEF AppState, Block
  <2>2. taken.log \in Seq(OptBlock)
    BY <2>1, AppendProperties
  <2>3. LogOfBlocks(taken.log)
    <3>1. \A i \in DOMAIN taken.log :
            (i \in DOMAIN app[p].log /\ taken.log[i] = app[p].log[i]) \/ taken.log[i] = b
      BY <2>1, AppendProperties, LenProperties
    <3>. QED
      BY <1>2, <1>4, <1>5, <3>1 DEF LogOfBlocks
  <2>. QED
    BY <1>6, <2>2, <2>3 DEF AppState
<1>9. acked \in AppState /\ acked.log = app[p].log
    BY <1>2, <1>5 DEF AppState
<1>. HIDE DEF taken, acked
<1>10. app \in [Peers -> AppState]
    BY DEF Inv, TypeOK
<1>11. app' \in [Peers -> AppState] /\ \A q \in Peers : LogOfBlocks(app'[q].log)
  <2>1. \A q \in Peers : LogOfBlocks(app[q].log)
    BY InvOfPeer
  <2>. QED
    BY <1>1, <1>2, <1>7, <1>8, <1>9, <1>10, <2>1
<1>12. cons' = [cons EXCEPT ![p] = n] /\ task' = [task EXCEPT ![p] = task[p]]
    BY <1>1 DEF Inv, TypeOK
<1>13. restarts' \in [Peers -> 0 .. MaxRestarts]
    BY <1>1 DEF Inv, TypeOK
<1>14. [Proposals EXCEPT ![p] = n.proposals] = Proposals
    BY <1>1, <1>2
<1>. HIDE DEF n
<1>. QED
    BY <1>1, <1>2, <1>11, <1>12, <1>13, <1>14, PeerStep DEF n

\* A peer stops and opens its database again.
LEMMA RestartInv ==
    ASSUME Inv, NEW p, Restart(p)
    PROVE  Inv' /\ Grows(Peers, Proposals, Proposals')
<1> DEFINE c == OpenInternal(p, cons[p])
           t == StartRound(p, c)
           log == app[p].log
           k == IF log = <<>> THEN 0 ELSE RoundAfter(log[Len(log)])
<1>1. /\ p \in Honest /\ p \in Peers /\ Honest \in SUBSET Peers
      /\ restarts[p] < MaxRestarts
      /\ cons' = [cons EXCEPT ![p] = c] /\ task' = [task EXCEPT ![p] = t]
      /\ app' = [app EXCEPT ![p].ack = k]
      /\ restarts' = [restarts EXCEPT ![p] = @ + 1] /\ UNCHANGED pins
    BY DEF Restart, Honest
<1>2. /\ Sound(cons[p], Honest, Proposals) /\ Proposals[p] = cons[p].proposals
      /\ Proposals \in [Peers -> [Rounds -> OptBlock]]
      /\ app[p] \in AppState /\ LogOfBlocks(log)
    BY <1>1, InvOfPeer
<1>3. Sound(c, Honest, Proposals) /\ c.proposals = cons[p].proposals
    BY <1>1, <1>2, OpenInternalSound
<1>. HIDE DEF c
<1>4. t \in TaskState /\ RepliesGenuine(t, Proposals)
    BY <1>1, <1>3, StartRoundGenuine DEF Sound
<1>. HIDE DEF t
<1>5. [Proposals EXCEPT ![p] = c.proposals] = Proposals
    BY <1>1, <1>2, <1>3
<1>6. k \in Rounds
  <2>1. CASE log = <<>>
    BY <2>1, RoundsAreNaturals
  <2>2. CASE log # <<>>
    <3>1. log \in Seq(OptBlock)
      BY <1>2 DEF AppState
    <3>. HIDE DEF log
    <3>2. Len(log) \in DOMAIN log
      BY <2>2, <3>1, LenProperties, EmptySeq
    <3>3. log[Len(log)] \in Block /\ RoundOf(log[Len(log)]) # MaxRound
      BY <1>2, <3>2 DEF LogOfBlocks
    <3>4. RoundAfter(log[Len(log)]) = RoundOf(log[Len(log)]) + 1 /\ RoundOf(log[Len(log)]) \in Rounds
      BY <3>3, BlockRound
    <3>. QED
      BY <2>2, <3>3, <3>4, RoundsAreNaturals
  <2>. QED
    BY <2>1, <2>2
<1>. HIDE DEF k
<1>7. app' = [app EXCEPT ![p] = [app[p] EXCEPT !.ack = k]]
    BY <1>1 DEF Inv, TypeOK
<1>8. [app[p] EXCEPT !.ack = k] \in AppState /\ [app[p] EXCEPT !.ack = k].log = log
    BY <1>2, <1>6 DEF AppState
<1>9. app' \in [Peers -> AppState] /\ \A q \in Peers : LogOfBlocks(app'[q].log)
  <2> DEFINE e == [app[p] EXCEPT !.ack = k]
  <2>1. \A q \in Peers : LogOfBlocks(app[q].log)
    BY InvOfPeer
  <2>2. app \in [Peers -> AppState]
    BY DEF Inv, TypeOK
  <2>. HIDE DEF e
  <2>. QED
    BY <1>1, <1>2, <1>7, <1>8, <2>1, <2>2 DEF e
<1>10. restarts' \in [Peers -> 0 .. MaxRestarts]
  <2>1. restarts \in [Peers -> 0 .. MaxRestarts] /\ restarts[p] + 1 \in 0 .. MaxRestarts
    BY <1>1, BoundsAssumption DEF Inv, TypeOK
  <2>. QED
    BY <1>1, <2>1
<1>. QED
    BY <1>1, <1>2, <1>3, <1>4, <1>5, <1>9, <1>10, PeerStep

\* What a faulty peer makes up is a block of the round it claims.
LEMMA ByzBlocksType ==
    ASSUME Inv, NEW r \in Rounds, NEW b \in ByzBlocks(r)
    PROVE  b \in Block /\ RoundOf(b) = r
<1>1. PICK x \in Payloads,
           prev \in {NoBlock} \cup {GetPrevNotarizedBlock(cons[q], r) : q \in Honest} :
                b = NewBlock(prev, r, x)
    BY DEF ByzBlocks
<1>2. prev \in OptBlock
  <2>1. CASE prev = NoBlock
    BY <2>1, RequestTypes
  <2>2. CASE prev # NoBlock
    <3>1. PICK q \in Honest : prev = GetPrevNotarizedBlock(cons[q], r)
      BY <1>1, <2>2
    <3>2. cons[q] \in ConsState /\ r \in Int
      BY InvOfPeer, RoundsAreNaturals DEF Honest
    <3>. QED
      BY <2>2, <3>1, <3>2, PrevNotarized DEF Block
  <2>. QED
    BY <2>1, <2>2
<1>. QED
    BY <1>1, <1>2, NewBlockType

\* A faulty peer answers a vote request.
LEMMA ByzVoteInv ==
    ASSUME Inv, NEW p, NEW q \in Peers, ByzVote(p, q)
    PROVE  Inv' /\ Grows(Peers, Proposals, Proposals')
<1>1. Running(p) /\ q \in Byz /\ q \notin Honest
    BY DEF ByzVote, Honest
<1>2. p \in Honest /\ p \in Peers
    BY <1>1, RunningPeer
<1>3. cons[p].round \in Rounds
    BY <1>2, InvOfPeer
<1>4. CASE SetVoteRpc(p, q, Ask("dummyVote"))
    BY <1>2, <1>4, RequestTypes, SetVoteRpcInv
<1>5. ASSUME NEW b \in ByzBlocks(cons[p].round), NEW st \in {"vote", "proposal"},
             SetVoteRpc(p, q, [st |-> st, block |-> b])
      PROVE  Inv' /\ Grows(Peers, Proposals, Proposals')
  <2> DEFINE rpc == [st |-> st, block |-> b]
  <2>1. b \in Block
    BY <1>3, ByzBlocksType
  <2>2. rpc \in VoteRpc /\ rpc.block \in Block
    BY <2>1 DEF VoteRpc, Block
  <2>3. SetVoteRpc(p, q, rpc)
    BY <1>5
  <2>. HIDE DEF rpc
  <2>. QED
    BY <1>1, <1>2, <2>2, <2>3, SetVoteRpcInv
<1>. QED
    BY <1>4, <1>5 DEF ByzVote

\* A faulty peer puts a notarization together.
LEMMA ByzCertInv ==
    ASSUME Inv, NEW p, NEW q \in Peers, ByzCert(p, q)
    PROVE  Inv' /\ Grows(Peers, Proposals, Proposals')
<1> DEFINE seen(r, b) == [x \in Peers |->
                IF x \in Byz \/ \E h \in Honest : cons[h].votes[r][x] = b THEN b ELSE NoBlock]
           qs == Byz \cup {x \in Honest : \E h \in Honest : x \in cons[h].dummies[cons[p].round]}
<1>1. Running(p) /\ q \in Byz
    BY DEF ByzCert
<1>2. p \in Honest /\ p \in Peers
    BY <1>1, RunningPeer
<1>3. ASSUME NEW r \in 0 .. MaxRound - 1, NEW b \in ByzBlocks(r),
             SetCertRpc(p, q, CertBlock(b, seen(r, b)))
      PROVE  Inv' /\ Grows(Peers, Proposals, Proposals')
  <2> DEFINE sigs == seen(r, b)
             rpc  == CertBlock(b, sigs)
  <2>1. r \in Rounds /\ r # MaxRound
    BY RoundsAreNaturals
  <2>2. b \in Block /\ RoundOf(b) = r /\ b # NoBlock
    BY <2>1, ByzBlocksType DEF Block
  <2>3. sigs \in [Peers -> OptBlock]
    BY <2>2, RequestTypes DEF Block
  <2>4. \A x \in Honest : sigs[x] \in {NoBlock, Proposals[x][r]}
    <3>. TAKE x \in Honest
    <3>1. x \in Peers /\ x \notin Byz
      BY DEF Honest
    <3>2. CASE \E h \in Honest : cons[h].votes[r][x] = b
      <4>1. PICK h \in Honest : cons[h].votes[r][x] = b
        BY <3>2
      <4>2. Genuine(cons[h], Honest, Proposals)
        BY InvOfPeer DEF Sound, Honest
      <4>. QED
        BY <2>1, <2>2, <3>1, <4>1, <4>2 DEF Genuine
    <3>3. CASE ~\E h \in Honest : cons[h].votes[r][x] = b
      BY <3>1, <3>3
    <3>. QED
      BY <3>2, <3>3
  <2>. HIDE DEF sigs
  <2>5. rpc \in CertRpc /\ rpc.block = b /\ rpc.sigs = sigs
    BY <2>2, <2>3 DEF CertBlock, CertRpc, Block
  <2>6. SetCertRpc(p, q, rpc)
    BY <1>3 DEF sigs
  <2>. HIDE DEF rpc
  <2>. QED
    BY <1>2, <2>1, <2>2, <2>4, <2>5, <2>6, SetCertRpcInv
<1>4. CASE SetCertRpc(p, q, CertDummies(qs))
  <2> DEFINE rpc == CertDummies(qs)
  <2>1. qs \in SUBSET Peers
    BY ByzAssumption DEF Honest
  <2>. HIDE DEF qs
  <2>2. rpc \in CertRpc /\ rpc.st = "dummies"
    BY <2>1, RequestTypes DEF CertDummies, CertRpc
  <2>. HIDE DEF rpc
  <2>. QED
    BY <1>2, <1>4, <2>2, SetCertRpcInv DEF rpc
<1>. QED
    BY <1>3, <1>4 DEF ByzCert

-----------------------------------------------------------------------------
(***************************************************************************)
(* The theorems.                                                           *)
(***************************************************************************)
\* New databases satisfy the invariant.
LEMMA InitInv == Init => Inv
<1>. SUFFICES ASSUME Init PROVE Inv
    OBVIOUS
<1>1. Honest \in SUBSET Peers
    BY DEF Honest
<1>2. ASSUME NEW p \in Peers
      PROVE  /\ Sound(cons[p], Honest, Proposals)
             /\ task[p] \in TaskState /\ RepliesGenuine(task[p], Proposals)
  <2>1. cons[p] = OpenInternal(p, InitTables) /\ task[p] = StartRound(p, InitTables)
    BY DEF Init
  <2>2. Sound(InitTables, Honest, Proposals)
    BY <1>1, InitTablesSound
  <2>3. Sound(OpenInternal(p, InitTables), Honest, Proposals)
    BY <1>1, <2>2, OpenInternalSound
  <2>. QED
    BY <2>1, <2>2, <2>3, StartRoundGenuine DEF Sound
<1>3. \A p \in Peers : app[p] = [ack |-> 0, log |-> <<>>]
    BY DEF Init
<1>4. [ack |-> 0, log |-> <<>>] \in AppState /\ LogOfBlocks(<<>>)
  <2>1. <<>> \in Seq(OptBlock)
    OBVIOUS
  <2>2. DOMAIN <<>> = {}
    OBVIOUS
  <2>3. LogOfBlocks(<<>>)
    BY <2>2 DEF LogOfBlocks
  <2>. QED
    BY <2>1, <2>3, RoundsAreNaturals DEF AppState
<1>5. TypeOK
  <2>1. cons \in [Peers -> ConsState]
    BY <1>2 DEF Init, Sound, WellFormed
  <2>2. task \in [Peers -> TaskState]
    BY <1>2 DEF Init
  <2>3. app \in [Peers -> AppState]
    BY <1>4 DEF Init
  <2>4. restarts \in [Peers -> 0 .. MaxRestarts]
    BY BoundsAssumption DEF Init
  <2>5. pins \in [Peers -> SUBSET Block]
    BY PinnedAssumption DEF Init
  <2>. QED
    BY <2>1, <2>2, <2>3, <2>4, <2>5 DEF TypeOK
<1>6. VotesAreGenuine
  <2>1. \A p \in Peers : LogOfBlocks(app[p].log)
    BY <1>3, <1>4
  <2>. QED
    BY <1>2, <2>1 DEF VotesAreGenuine, Sound
<1>. QED
    BY <1>5, <1>6 DEF Inv

\* Every step keeps the invariant and the stored proposals.
LEMMA NextInv ==
    ASSUME Inv, [Next]_vars
    PROVE  Inv' /\ Grows(Peers, Proposals, Proposals')
<1>1. CASE UNCHANGED vars
  <2>1. Inv'
    BY <1>1 DEF vars, Inv, TypeOK, VotesAreGenuine, Proposals
  <2>2. Proposals' = Proposals
    BY <1>1 DEF vars, Proposals
  <2>. QED
    BY <2>1, <2>2 DEF Grows
<1>2. ASSUME NEW p \in Peers, NEW x \in Payloads, GenerateProposal(p, x)
      PROVE  Inv' /\ Grows(Peers, Proposals, Proposals')
    BY <1>2, GenerateProposalInv
<1>3. ASSUME NEW p \in Peers,
             \/ VoteSelfProposal(p) \/ VoteSelf(p) \/ VoteSelfTimeout(p)
             \/ AckAndWaitNextBlock(p) \/ Restart(p)
      PROVE  Inv' /\ Grows(Peers, Proposals, Proposals')
    BY <1>3, VoteSelfProposalInv, VoteSelfInv, VoteSelfTimeoutInv, AckAndWaitNextBlockInv, RestartInv
<1>4. ASSUME NEW p \in Peers, NEW q \in Peers,
             \/ HandleWaitVote(p, q) \/ ProcessVoteResponse(p, q)
             \/ HandleWaitNotarizedBlock(p, q) \/ ProcessNotarizedBlockResponse(p, q)
             \/ ByzVote(p, q) \/ ByzCert(p, q)
      PROVE  Inv' /\ Grows(Peers, Proposals, Proposals')
    BY <1>4, HandleWaitVoteInv, ProcessVoteResponseInv, HandleWaitNotarizedBlockInv,
       ProcessNotarizedBlockResponseInv, ByzVoteInv, ByzCertInv
<1>5. ASSUME NEW p \in Peers, NEW q \in Peers, PeerFinalityVoteQuery(p, q)
      PROVE  Inv' /\ Grows(Peers, Proposals, Proposals')
  <2>1. cons[q].finSelfTx \in Rounds
    BY InvOfPeer DEF ConsState
  <2>. QED
    BY <1>5, <2>1, SetFinalityVoteInv DEF PeerFinalityVoteQuery
<1>6. ASSUME NEW p \in Peers, NEW q \in Peers, ByzFinalityVote(p, q)
      PROVE  Inv' /\ Grows(Peers, Proposals, Proposals')
    BY <1>6, SetFinalityVoteInv DEF ByzFinalityVote
<1>. QED
    BY <1>1, <1>2, <1>3, <1>4, <1>5, <1>6 DEF Next

\* The invariant holds in every reachable state, whatever the faulty peers
\* send, however replies are delayed and whenever peers restart.
THEOREM Invariance == Spec => []Inv
<1>1. Inv /\ [Next]_vars => Inv'
    BY NextInv
<1>. QED
    BY InitInv, <1>1, PTL DEF Spec

\* Tables, channels, tasks and logs keep their types.
THEOREM TypeCorrectness == Spec => []TypeOK
<1>1. Inv => TypeOK
    BY DEF Inv
<1>. QED
    BY Invariance, <1>1, PTL

\* An honest peer signs at most one block of a round: wherever a vote of it is
\* recorded, it is for the one proposal the peer stored.
THEOREM VotesUnique == Spec => []OneVotePerRound
<1>1. Inv => OneVotePerRound
  <2>. SUFFICES ASSUME Inv, NEW p \in Honest, NEW q \in Honest, NEW r \in Rounds
                PROVE  cons[p].votes[r][q] \in {NoBlock, cons[q].proposals[r]}
    BY DEF OneVotePerRound
  <2>1. p \in Peers /\ q \in Peers
    BY DEF Honest
  <2>2. Genuine(cons[p], Honest, Proposals) /\ Proposals[q] = cons[q].proposals
    BY <2>1, InvOfPeer DEF Sound
  <2>. QED
    BY <2>2 DEF Genuine
<1>. QED
    BY Invariance, <1>1, PTL

\* Two peers never notarize different blocks of a round: both notarizations
\* need a threshold, so some honest peer is behind both, and it stored one
\* proposal.  The panic "Consensus failure" of process_notarized_block_response
\* is unreachable with at most max_faulty faulty peers.
THEOREM NotarizationUnique == Spec => []NotarizedUnique
<1>1. Inv => NotarizedUnique
  <2>. SUFFICES ASSUME Inv, NEW p \in Honest, NEW q \in Honest, NEW r \in Rounds,
                       cons[p].notarized[r] # NoBlock, cons[q].notarized[r] # NoBlock
                PROVE  cons[p].notarized[r] = cons[q].notarized[r]
    BY DEF NotarizedUnique
  <2>1. p \in Peers /\ q \in Peers
    BY DEF Honest
  <2>2. /\ Supported(cons[p].notarized[r], r, Honest, Proposals)
        /\ Supported(cons[q].notarized[r], r, Honest, Proposals)
    BY <2>1, InvOfPeer DEF Sound, AllSupported, NotarizedRounds
  <2>3. PICK A \in SUBSET Peers : /\ T <= Cardinality(A)
                                  /\ \A x \in A \cap Honest : Proposals[x][r] = cons[p].notarized[r]
    BY <2>2 DEF Supported
  <2>4. PICK B \in SUBSET Peers : /\ T <= Cardinality(B)
                                  /\ \A x \in B \cap Honest : Proposals[x][r] = cons[q].notarized[r]
    BY <2>2 DEF Supported
  <2>5. PICK x \in A \cap B : x \notin Byz
    BY <2>3, <2>4, ByzAssumption, QuorumsMeet
  <2>6. x \in Honest
    BY <2>5 DEF Honest
  <2>. QED
    BY <2>3, <2>4, <2>5, <2>6
<1>. QED
    BY Invariance, <1>1, PTL

\* check_round_end never skips over rows of a later round.
THEOREM NothingIsAhead == Spec => []NothingAhead
<1>1. Inv => NothingAhead
  <2>. SUFFICES ASSUME Inv, NEW p \in Honest
                PROVE  /\ cons[p].notarized[cons[p].round] = NoBlock
                       /\ \A r \in Rounds : cons[p].round < r => Untouched(cons[p], r)
    BY DEF NothingAhead, Untouched
  <2>1. WellFormed(cons[p])
    BY InvOfPeer DEF Sound, Honest
  <2>. QED
    BY <2>1 DEF WellFormed
<1>. QED
    BY Invariance, <1>1, PTL

\* No step replaces or loses a stored proposal, the one fact that keeps a peer
\* from signing two blocks of a round across delays and restarts.
THEOREM ProposalsAreFixed == Spec => ProposalsFixed
<1>1. Inv /\ [Next]_vars =>
        \A p \in Honest, r \in Rounds :
            cons[p].proposals[r] # NoBlock => cons'[p].proposals[r] = cons[p].proposals[r]
  <2>. SUFFICES ASSUME Inv, [Next]_vars, NEW p \in Honest, NEW r \in Rounds,
                       cons[p].proposals[r] # NoBlock
                PROVE  cons'[p].proposals[r] = cons[p].proposals[r]
    OBVIOUS
  <2>1. Grows(Peers, Proposals, Proposals') /\ p \in Peers
    BY NextInv DEF Honest
  <2>. QED
    BY <2>1 DEF Grows, Proposals
<1>. QED
    BY Invariance, <1>1, PTL DEF Spec, ProposalsFixed

-----------------------------------------------------------------------------
(***************************************************************************)
(* The kinds of steps there are, as far as the tables, the requests for    *)
(* notarized blocks and the application are concerned.                     *)
(***************************************************************************)
\* One handler takes the tables of p to m.
Handled(p, m) ==
    \/ \E q \in Peers, b \in Block :
        /\ q \in Honest => b = Proposals[q][RoundOf(b)]
        /\ m = ProcessVote(p, cons[p], q, b)
    \/ \E q \in Peers, b \in Block :
        /\ q \in Honest /\ q # p => b = Proposals[q][RoundOf(b)]
        /\ m = ProcessProposal(p, cons[p], q, b)
    \/ \E q \in Peers : m = ProcessDummyVote(p, cons[p], q)
    \/ \E q \in Peers : LET rpc == task[p].certRpc[q]
       IN  rpc.st = "block" /\ m = ProcessNotarizedBlock(p, cons[p], rpc.block, rpc.sigs)
    \/ \E qs \in SUBSET Peers : m = ProcessNotarizedDummy(p, cons[p], qs)

\* The tasks of p are those of the same round; blocks handed to it by an honest
\* peer are that peer's next notarized ones, or were handed to it before.
SameRound(p, t) ==
    /\ t.reqMin = task[p].reqMin
    /\ \A q \in Honest : t.certRpc[q].st = "block" =>
        \/ t.certRpc[q] = task[p].certRpc[q]
        \/ LET b == GetNextNotarizedBlock(cons[q], t.reqMin)
           IN  b # NoBlock /\ t.certRpc[q] = CertBlock(b, cons[q].votes[RoundOf(b)])

\* A step of p's tasks, a transaction of its round, and a finality vote.
Tasks(p, t) ==
    /\ task' = [task EXCEPT ![p] = t] /\ SameRound(p, t) /\ UNCHANGED <<cons, app, pins>>
Handles(p, m, t) ==
    Running(p) /\ Commit(p, m, t) /\ SameRound(p, t) /\ Handled(p, m)
HearsFinality(p, q, v) ==
    SetFinalityVote(p, q, v) /\ (q \in Honest => q # p /\ v = cons[q].finSelfTx)

StepKind ==
    \/ UNCHANGED <<cons, task, app, pins>>
    \/ \E p \in Honest : \E t \in TaskState : Tasks(p, t)
    \/ \E p \in Honest : \E m \in ConsState, t \in TaskState : Handles(p, m, t)
    \/ \E p \in Honest : \E q \in Peers, v \in Rounds : HearsFinality(p, q, v)
    \/ \E p \in Honest : AckAndWaitNextBlock(p) \/ Restart(p)

\* A reply to a notarized block request.
LEMMA SetCertRpcKind ==
    ASSUME Inv, NEW p \in Honest, NEW q \in Peers, NEW rpc \in CertRpc, SetCertRpc(p, q, rpc),
           q \in Honest /\ rpc.st = "block" =>
                LET b == GetNextNotarizedBlock(cons[q], task[p].reqMin)
                IN  b # NoBlock /\ rpc = CertBlock(b, cons[q].votes[RoundOf(b)])
    PROVE  StepKind
<1> DEFINE t == [task[p] EXCEPT !.certRpc[q] = rpc]
<1>1. p \in Peers
    BY DEF Honest
<1>2. task[p] \in TaskState
    BY <1>1, InvOfPeer
<1>3. task' = [task EXCEPT ![p] = t] /\ UNCHANGED <<cons, app, pins>>
    BY <1>1 DEF SetCertRpc, Inv, TypeOK
<1>4. /\ t \in TaskState /\ t.reqMin = task[p].reqMin
      /\ t.certRpc = [task[p].certRpc EXCEPT ![q] = rpc]
    BY <1>2 DEF TaskState
<1>5. \A x \in Peers : t.certRpc[x] = IF x = q THEN rpc ELSE task[p].certRpc[x]
    BY <1>2, <1>4 DEF TaskState
<1>. HIDE DEF t
<1>6. SameRound(p, t)
    BY <1>4, <1>5 DEF SameRound, Honest
<1>. QED
    BY <1>3, <1>4, <1>6 DEF StepKind, Tasks

\* Tasks that differ only in drafts and votes are of the same round.
LEMMA SameRoundKept ==
    ASSUME NEW p, NEW t, t.reqMin = task[p].reqMin, t.certRpc = task[p].certRpc
    PROVE  SameRound(p, t)
BY DEF SameRound

\* A vote reply, or none, is on its way.
LEMMA SetVoteRpcKept ==
    ASSUME Inv, NEW p \in Peers, NEW q \in Peers, NEW rpc \in VoteRpc
    PROVE  LET t == [task[p] EXCEPT !.voteRpc[q] = rpc]
           IN  t \in TaskState /\ SameRound(p, t)
<1> DEFINE t == [task[p] EXCEPT !.voteRpc[q] = rpc]
<1>1. task[p] \in TaskState
    BY InvOfPeer
<1>2. t \in TaskState /\ t.reqMin = task[p].reqMin /\ t.certRpc = task[p].certRpc
    BY <1>1 DEF TaskState
<1>. HIDE DEF t
<1>3. SameRound(p, t)
    BY <1>2, SameRoundKept
<1>. QED
    BY <1>2, <1>3 DEF t

\* So a step that only sets one is a step of tasks.
LEMMA SetVoteRpcKind ==
    ASSUME Inv, NEW p \in Honest, NEW q \in Peers, NEW rpc \in VoteRpc, SetVoteRpc(p, q, rpc)
    PROVE  StepKind
<1> DEFINE t == [task[p] EXCEPT !.voteRpc[q] = rpc]
<1>1. p \in Peers
    BY DEF Honest
<1>2. task' = [task EXCEPT ![p] = t] /\ UNCHANGED <<cons, app, pins>>
    BY <1>1 DEF SetVoteRpc, Inv, TypeOK
<1>3. t \in TaskState /\ SameRound(p, t)
    BY <1>1, SetVoteRpcKept
<1>. HIDE DEF t
<1>. QED
    BY <1>2, <1>3 DEF StepKind, Tasks

\* What a handler leaves are tables again.
LEMMA HandledType ==
    ASSUME Inv, NEW p, Running(p), NEW m, Handled(p, m)
    PROVE  m \in ConsState
<1> DEFINE n == cons[p]
<1>1. p \in Honest /\ p \in Peers /\ Honest \in SUBSET Peers /\ n.round # MaxRound
    BY RunningPeer
<1>2. /\ Sound(n, Honest, Proposals) /\ Proposals[p] = n.proposals
      /\ Proposals \in [Peers -> [Rounds -> OptBlock]]
      /\ task[p] \in TaskState /\ RepliesGenuine(task[p], Proposals)
    BY <1>1, InvOfPeer
<1>. HIDE DEF n
<1>3. ASSUME NEW q \in Peers, NEW b \in Block, q \in Honest => b = Proposals[q][RoundOf(b)],
             m = ProcessVote(p, n, q, b)
      PROVE  Sound(m, Honest, Proposals)
    BY <1>1, <1>2, <1>3, ProcessVoteSound
<1>4. ASSUME NEW q \in Peers, NEW b \in Block,
             q \in Honest /\ q # p => b = Proposals[q][RoundOf(b)],
             m = ProcessProposal(p, n, q, b)
      PROVE  Sound(m, Honest, [Proposals EXCEPT ![p] = m.proposals])
  <2>1. LET k == ProcessProposal(p, n, q, b)
        IN  /\ Sound(k, Honest, [Proposals EXCEPT ![p] = k.proposals])
            /\ \A r \in Rounds : n.proposals[r] # NoBlock => k.proposals[r] = n.proposals[r]
            /\ n.round <= k.round
    BY <1>1, <1>2, <1>4, ProcessProposalSound, Zenon
  <2>. QED
    BY <1>4, <2>1
<1>5. ASSUME NEW q \in Peers, m = ProcessDummyVote(p, n, q)
      PROVE  Sound(m, Honest, Proposals)
    BY <1>1, <1>2, <1>5, ProcessDummyVoteSound
<1>6. ASSUME NEW q \in Peers, task[p].certRpc[q].st = "block",
             m = ProcessNotarizedBlock(p, n, task[p].certRpc[q].block, task[p].certRpc[q].sigs)
      PROVE  Sound(m, Honest, Proposals)
  <2> DEFINE b == task[p].certRpc[q].block
             sigs == task[p].certRpc[q].sigs
  <2>1. /\ b \in Block /\ RoundOf(b) # MaxRound
        /\ \A x \in Honest : sigs[x] \in {NoBlock, Proposals[x][RoundOf(b)]}
    BY <1>2, <1>6 DEF RepliesGenuine
  <2>2. sigs \in [Peers -> OptBlock]
    BY <1>2 DEF TaskState, CertRpc
  <2>3. m = ProcessNotarizedBlock(p, n, b, sigs)
    BY <1>6
  <2>. HIDE DEF b, sigs
  <2>. QED
    BY <1>1, <1>2, <2>1, <2>2, <2>3, ProcessNotarizedBlockSound
<1>7. ASSUME NEW qs \in SUBSET Peers, m = ProcessNotarizedDummy(p, n, qs)
      PROVE  Sound(m, Honest, Proposals)
    BY <1>1, <1>2, <1>7, ProcessNotarizedDummySound
<1>. QED
    BY <1>3, <1>4, <1>5, <1>6, <1>7 DEF Handled, Sound, WellFormed, n

\* Every transaction of a round is one.
LEMMA HandlesKind ==
    ASSUME Inv, NEW p, Running(p), NEW m, Handled(p, m), NEW t \in TaskState, SameRound(p, t),
           Commit(p, m, t)
    PROVE  StepKind
<1>1. p \in Honest /\ m \in ConsState
    BY RunningPeer, HandledType
<1>. QED
    BY <1>1 DEF StepKind, Handles

\* Every step of the specification is of one of these kinds.
LEMMA StepKinds ==
    ASSUME Inv, [Next]_vars
    PROVE  StepKind
<1>0. Honest \in SUBSET Peers
    BY DEF Honest
<1>1. CASE UNCHANGED vars
    BY <1>1 DEF vars, StepKind
<1>2. ASSUME NEW p \in Peers, NEW x \in Payloads, GenerateProposal(p, x)
      PROVE  StepKind
  <2> DEFINE b == NewBlock(LatestNotarized(cons[p]), cons[p].round, x)
             t == [task[p] EXCEPT !.generate = FALSE, !.draft = b]
  <2>1. p \in Honest /\ task' \in [Peers -> TaskState] /\ UNCHANGED <<cons, app, pins>>
        /\ task' = [task EXCEPT ![p].generate = FALSE, ![p].draft = b]
    BY <1>2, GenerateProposalInv DEF GenerateProposal, Running, Inv, TypeOK
  <2>2. task' = [task EXCEPT ![p] = t] /\ task'[p] = t
    BY <1>2, <2>1 DEF Inv, TypeOK
  <2>3. task[p] \in TaskState
    BY InvOfPeer
  <2>. HIDE DEF b
  <2>4. t.reqMin = task[p].reqMin /\ t.certRpc = task[p].certRpc
    BY <2>3 DEF TaskState
  <2>5. t \in TaskState
    BY <2>1, <2>2
  <2>. HIDE DEF t
  <2>6. SameRound(p, t)
    BY <2>4, SameRoundKept
  <2>. QED
    BY <2>1, <2>2, <2>5, <2>6 DEF StepKind, Tasks
<1>3. ASSUME NEW p \in Peers, VoteSelfProposal(p)
      PROVE  StepKind
  <2> DEFINE t == [task[p] EXCEPT !.draft = NoBlock]
             b == task[p].draft
             m == ProcessProposal(p, cons[p], p, b)
  <2>1. Running(p) /\ Commit(p, m, t) /\ b # NoBlock
    BY <1>3 DEF VoteSelfProposal
  <2>2. task[p] \in TaskState
    BY InvOfPeer
  <2>3. b \in Block
    BY <2>1, <2>2 DEF TaskState, Block
  <2>4. t \in TaskState /\ t.reqMin = task[p].reqMin /\ t.certRpc = task[p].certRpc
    BY <2>2, RequestTypes DEF TaskState
  <2>5. Handled(p, m)
    BY <2>3 DEF Handled
  <2>. HIDE DEF m, t
  <2>. QED
    BY <2>1, <2>4, <2>5, SameRoundKept, HandlesKind
<1>4. ASSUME NEW p \in Peers, VoteSelf(p)
      PROVE  StepKind
  <2> DEFINE n == cons[p]
             b == n.proposals[n.round]
             m == ProcessVote(p, n, p, b)
  <2>1. Running(p) /\ Commit(p, m, task[p]) /\ b # NoBlock
    BY <1>4 DEF VoteSelf
  <2>2. /\ task[p] \in TaskState /\ n \in ConsState /\ n.round \in Rounds
        /\ Sound(n, Honest, Proposals) /\ Proposals[p] = n.proposals
    BY InvOfPeer
  <2>3. b \in Block /\ RoundOf(b) = n.round
    BY <2>1, <2>2 DEF ConsState, Block, Sound, WellFormed, Labelled
  <2>4. b = Proposals[p][RoundOf(b)]
    BY <2>2, <2>3
  <2>5. Handled(p, m)
    <3>. HIDE DEF b
    <3>. QED
      BY <2>3, <2>4 DEF Handled
  <2>6. SameRound(p, task[p])
    BY SameRoundKept
  <2>. HIDE DEF m
  <2>. QED
    BY <2>1, <2>2, <2>5, <2>6, HandlesKind
<1>5. ASSUME NEW p \in Peers, VoteSelfTimeout(p)
      PROVE  StepKind
  <2> DEFINE m == ProcessDummyVote(p, cons[p], p)
  <2>1. Running(p) /\ Commit(p, m, task[p])
    BY <1>5 DEF VoteSelfTimeout
  <2>2. task[p] \in TaskState /\ SameRound(p, task[p])
    BY InvOfPeer, SameRoundKept
  <2>3. Handled(p, m)
    BY DEF Handled
  <2>. HIDE DEF m
  <2>. QED
    BY <2>1, <2>2, <2>3, HandlesKind
<1>6. ASSUME NEW p \in Peers, NEW q \in Peers, HandleWaitVote(p, q) \/ ByzVote(p, q)
      PROVE  StepKind
  <2>1. p \in Honest /\ cons \in [Peers -> ConsState]
    BY <1>6 DEF HandleWaitVote, ByzVote, Running, Inv, TypeOK
  <2>2. PICK rpc : SetVoteRpc(p, q, rpc)
    BY <1>6 DEF HandleWaitVote, ByzVote
  <2>3. task'[p].voteRpc[q] = rpc
    <3>1. task[p] \in TaskState /\ task \in [Peers -> TaskState]
      BY InvOfPeer DEF Inv, TypeOK
    <3>. QED
      BY <2>2, <3>1 DEF SetVoteRpc, TaskState
  <2>4. task' \in [Peers -> TaskState]
    BY <1>6, HandleWaitVoteInv, ByzVoteInv DEF Inv, TypeOK
  <2>5. rpc \in VoteRpc
    BY <2>3, <2>4 DEF TaskState
  <2>. QED
    BY <2>1, <2>2, <2>5, SetVoteRpcKind
<1>7. ASSUME NEW p \in Peers, NEW q \in Peers, ProcessVoteResponse(p, q)
      PROVE  StepKind
  <2> DEFINE rpc == task[p].voteRpc[q]
             asked(st) == [task[p] EXCEPT !.voteRpc[q] = Ask(st)]
  <2>1. Running(p)
    BY <1>7 DEF ProcessVoteResponse
  <2>2. /\ asked("none") \in TaskState /\ SameRound(p, asked("none"))
        /\ asked("dummy") \in TaskState /\ SameRound(p, asked("dummy"))
    BY RequestTypes, SetVoteRpcKept
  <2>3. rpc.st \in {"vote", "proposal"} =>
            rpc.block \in Block /\ (q \in Honest => rpc.block = Proposals[q][RoundOf(rpc.block)])
    BY InvOfPeer DEF RepliesGenuine
  <2>4. \/ Commit(p, ProcessDummyVote(p, cons[p], q), asked("none"))
        \/ rpc.st = "vote" /\ Commit(p, ProcessVote(p, cons[p], q, rpc.block), asked("dummy"))
        \/ rpc.st = "proposal" /\ Commit(p, ProcessProposal(p, cons[p], q, rpc.block), asked("dummy"))
    BY <1>7 DEF ProcessVoteResponse
  <2>. HIDE DEF asked, rpc
  <2>5. Handled(p, ProcessDummyVote(p, cons[p], q))
    BY DEF Handled
  <2>6. rpc.st = "vote" => Handled(p, ProcessVote(p, cons[p], q, rpc.block))
    BY <2>3 DEF Handled
  <2>7. rpc.st = "proposal" => Handled(p, ProcessProposal(p, cons[p], q, rpc.block))
    BY <2>3 DEF Handled
  <2>. QED
    BY <2>1, <2>2, <2>4, <2>5, <2>6, <2>7, HandlesKind
<1>8. ASSUME NEW p \in Peers, NEW q \in Peers, HandleWaitNotarizedBlock(p, q)
      PROVE  StepKind
  <2> DEFINE b == GetNextNotarizedBlock(cons[q], task[p].reqMin)
             blk == CertBlock(b, cons[q].votes[RoundOf(b)])
             dum == CertDummies(cons[q].dummies[cons[p].round])
  <2>1. p \in Honest /\ ((b # NoBlock /\ SetCertRpc(p, q, blk)) \/ SetCertRpc(p, q, dum))
    BY <1>8 DEF HandleWaitNotarizedBlock, GetNotarizedBlockResp, Running
  <2>2. PICK rpc : /\ SetCertRpc(p, q, rpc)
                   /\ (b # NoBlock /\ rpc = blk) \/ rpc = dum
    BY <2>1
  <2>3. task'[p].certRpc[q] = rpc
    <3>1. task[p] \in TaskState /\ task \in [Peers -> TaskState]
      BY InvOfPeer DEF Inv, TypeOK
    <3>. QED
      BY <2>2, <3>1 DEF SetCertRpc, TaskState
  <2>4. task' \in [Peers -> TaskState]
    BY <1>8, HandleWaitNotarizedBlockInv DEF Inv, TypeOK
  <2>5. rpc \in CertRpc
    BY <2>3, <2>4 DEF TaskState
  <2>6. dum.st = "dummies"
    BY DEF CertDummies
  <2>7. rpc.st = "block" => b # NoBlock /\ rpc = CertBlock(b, cons[q].votes[RoundOf(b)])
    BY <2>2, <2>6
  <2>. QED
    BY <2>1, <2>2, <2>5, <2>7, SetCertRpcKind
<1>9. ASSUME NEW p \in Peers, NEW q \in Peers, ByzCert(p, q)
      PROVE  StepKind
  <2>1. p \in Honest /\ q \notin Honest
    BY <1>9 DEF ByzCert, Running, Honest
  <2>2. PICK rpc : SetCertRpc(p, q, rpc)
    BY <1>9 DEF ByzCert
  <2>3. task'[p].certRpc[q] = rpc
    <3>1. task[p] \in TaskState /\ task \in [Peers -> TaskState]
      BY InvOfPeer DEF Inv, TypeOK
    <3>. QED
      BY <2>2, <3>1 DEF SetCertRpc, TaskState
  <2>4. task' \in [Peers -> TaskState]
    BY <1>9, ByzCertInv DEF Inv, TypeOK
  <2>5. rpc \in CertRpc
    BY <2>3, <2>4 DEF TaskState
  <2>. QED
    BY <2>1, <2>2, <2>5, SetCertRpcKind
<1>10. ASSUME NEW p \in Peers, NEW q \in Peers, ProcessNotarizedBlockResponse(p, q)
       PROVE  StepKind
  <2> DEFINE rpc == task[p].certRpc[q]
             a == Cert("done")
             t == [task[p] EXCEPT !.certRpc[q] = a]
  <2>1. Running(p)
    BY <1>10 DEF ProcessNotarizedBlockResponse
  <2>2. task[p] \in TaskState
    BY InvOfPeer
  <2>3. a \in CertRpc /\ a.st = "done"
    BY RequestTypes
  <2>4. \/ rpc.st = "block" /\ Commit(p, ProcessNotarizedBlock(p, cons[p], rpc.block, rpc.sigs), t)
        \/ Commit(p, ProcessNotarizedDummy(p, cons[p], rpc.dummies), t)
    BY <1>10 DEF ProcessNotarizedBlockResponse
  <2>. HIDE DEF a
  <2>5. /\ t \in TaskState /\ t.reqMin = task[p].reqMin
        /\ t.certRpc = [task[p].certRpc EXCEPT ![q] = a]
    BY <2>2, <2>3 DEF TaskState
  <2>. HIDE DEF t
  <2>6. \A x \in Peers : t.certRpc[x] = IF x = q THEN a ELSE task[p].certRpc[x]
    BY <2>2, <2>5 DEF TaskState
  <2>7. SameRound(p, t)
    BY <1>0, <2>3, <2>5, <2>6 DEF SameRound
  <2>8. rpc.st = "block" => Handled(p, ProcessNotarizedBlock(p, cons[p], rpc.block, rpc.sigs))
    BY DEF Handled
  <2>9. rpc.dummies \in SUBSET Peers
    BY <2>2 DEF TaskState, CertRpc
  <2>10. Handled(p, ProcessNotarizedDummy(p, cons[p], rpc.dummies))
    BY <2>9 DEF Handled
  <2>. HIDE DEF rpc
  <2>. QED
    BY <2>1, <2>4, <2>5, <2>7, <2>8, <2>10, HandlesKind
<1>11. ASSUME NEW p \in Peers, NEW q \in Peers, PeerFinalityVoteQuery(p, q)
       PROVE  StepKind
  <2>1. cons[q].finSelfTx \in Rounds
    BY InvOfPeer DEF ConsState
  <2>. QED
    BY <1>11, <2>1 DEF PeerFinalityVoteQuery, StepKind, HearsFinality
<1>12. ASSUME NEW p \in Peers, NEW q \in Peers, ByzFinalityVote(p, q)
       PROVE  StepKind
    BY <1>12 DEF ByzFinalityVote, StepKind, HearsFinality, Honest
<1>13. ASSUME NEW p \in Peers, AckAndWaitNextBlock(p) \/ Restart(p)
       PROVE  StepKind
    BY <1>13 DEF AckAndWaitNextBlock, Restart, StepKind
<1>. QED
    BY <1>1, <1>2, <1>3, <1>4, <1>5, <1>6, <1>7, <1>8, <1>9, <1>10, <1>11, <1>12, <1>13 DEF Next

-----------------------------------------------------------------------------
(***************************************************************************)
(* What every peer has reached.                                            *)
(***************************************************************************)
\* The own finality votes of the peers.
Own == [q \in Peers |-> cons[q].finSelfTx]

\* Every peer's notarized blocks keep their notarizations and reach as far as
\* its own finality vote and its requests say, what it takes for final is
\* backed by the honest peers' own votes, and blocks are handed out from the
\* first one on.
Reached ==
    /\ \A p \in Peers :
        /\ Grounded(cons[p])
        /\ Reaches(cons[p], task[p].reqMin)
        /\ FinalityFrom(cons[p], Honest, Own)
    /\ FirstBlockComesFirst

\* Votes for the finality of later rounds back what is final no less.
LEMMA FinalityGrows ==
    ASSUME NEW n, NEW s \in [Peers -> Rounds], NEW s2 \in [Peers -> Rounds],
           \A q \in Peers : s[q] <= s2[q], n \in ConsState,
           FinalityFrom(n, Honest, s)
    PROVE  FinalityFrom(n, Honest, s2)
<1>0. Honest \in SUBSET Peers /\ \A q \in Peers : s[q] \in Nat /\ s2[q] \in Nat
    BY RoundsAreNaturals DEF Honest
<1>1. \A q \in Honest : n.finVotes[q] <= s2[q]
  <2>. TAKE q \in Honest
  <2>1. n.finVotes[q] \in Int /\ n.finVotes[q] <= s[q] /\ s[q] <= s2[q]
    BY <1>0, RoundsAreNaturals DEF FinalityFrom, ConsState, NoVote
  <2>. QED
    BY <1>0, <2>1
<1>2. ASSUME NEW v \in Nat, BackedBy(v, Honest, s)
      PROVE  BackedBy(v, Honest, s2)
  <2> DEFINE A == {q \in Honest : v <= s[q]}
             B == {q \in Honest : v <= s2[q]}
  <2>1. A \subseteq B /\ B \in SUBSET Peers
    BY <1>0
  <2>2. T <= Cardinality(A) + Cardinality(Peers \ Honest)
    BY <1>2 DEF BackedBy
  <2>. HIDE DEF A, B
  <2>3. IsFiniteSet(B) /\ IsFiniteSet(Peers \ Honest)
    BY <2>1, PeersAssumption, FS_Subset
  <2>4. IsFiniteSet(A) /\ Cardinality(A) <= Cardinality(B)
    BY <2>1, <2>3, FS_Subset
  <2>5. Cardinality(A) \in Nat /\ Cardinality(B) \in Nat /\ Cardinality(Peers \ Honest) \in Nat
    BY <2>3, <2>4, FS_CardinalityType
  <2>6. T <= Cardinality(B) + Cardinality(Peers \ Honest)
    BY <2>2, <2>4, <2>5, QuorumSize
  <2>. QED
    BY <2>6 DEF BackedBy, B
<1>3. n.finCons \in Nat /\ n.finConsTx \in Nat
    BY RoundsAreNaturals DEF ConsState
<1>. QED
    BY <1>1, <1>2, <1>3 DEF FinalityFrom

\* A peer without notarized blocks has no latest one, and the other way round.
LEMMA NothingNotarized ==
    ASSUME NEW n, WellFormed(n)
    PROVE  LatestNotarized(n) = NoBlock <=> NotarizedRounds(n) = {}
<1>1. LatestNotarized(n) = NoBlock => NotarizedRounds(n) = {}
    BY LatestTwo
<1>2. NotarizedRounds(n) = {} => LatestNotarized(n) = NoBlock
    BY DEF LatestNotarized, GetPrevNotarizedBlock
<1>. QED
    BY <1>1, <1>2

\* A step of p's tables and tasks keeps what was reached.
LEMMA ReachedStep ==
    ASSUME Inv, Inv', Reached, NEW p \in Honest, NEW c, NEW t,
           cons' = [cons EXCEPT ![p] = c], task' = [task EXCEPT ![p] = t],
           Grounded(c), Onward(cons[p], c), Reaches(c, t.reqMin),
           FinalityFrom(cons[p], Honest, Own') => FinalityFrom(c, Honest, Own'),
           \A q \in Honest : t.certRpc[q].st = "block" =>
                \/ t.certRpc[q] = task[p].certRpc[q]
                \/ LatestNotarized(c) = NoBlock => DoesDirectlyExtend(t.certRpc[q].block, NoBlock)
    PROVE  Reached' /\ \A q \in Peers : Onward(cons[q], cons'[q])
<1>1. /\ cons \in [Peers -> ConsState] /\ cons' \in [Peers -> ConsState]
      /\ task \in [Peers -> TaskState] /\ p \in Peers /\ Honest \in SUBSET Peers
    BY DEF Inv, TypeOK, Honest
<1>2. /\ cons'[p] = c /\ task'[p] = t
      /\ \A q \in Peers : q # p => cons'[q] = cons[q] /\ task'[q] = task[q]
    BY <1>1
<1>3. Own \in [Peers -> Rounds] /\ Own' \in [Peers -> Rounds]
    BY <1>1 DEF Own, ConsState
<1>4. \A q \in Peers : Onward(cons[q], cons[q])
    BY <1>1, AdvancesStays DEF Reached, Advances
<1>5. \A q \in Peers : Onward(cons[q], cons'[q])
    BY <1>2, <1>4
<1>6. \A q \in Peers : Own[q] <= Own'[q]
    BY <1>1, <1>5 DEF Own, Onward
<1>7. ASSUME NEW q \in Peers
      PROVE  /\ Grounded(cons'[q]) /\ Reaches(cons'[q], task'[q].reqMin)
             /\ FinalityFrom(cons'[q], Honest, Own')
  <2>1. FinalityFrom(cons[q], Honest, Own')
    BY <1>1, <1>3, <1>6, FinalityGrows DEF Reached
  <2>2. CASE q = p
    BY <1>2, <2>1, <2>2
  <2>3. CASE q # p
    BY <1>2, <2>1, <2>3 DEF Reached
  <2>. QED
    BY <2>2, <2>3
<1>8. WellFormed(cons[p]) /\ WellFormed(c)
  <2>1. WellFormed(cons[p]) /\ WellFormed(cons'[p])
    BY <1>1 DEF Inv, VotesAreGenuine
  <2>. QED
    BY <1>2, <2>1
<1>9. LatestNotarized(c) = NoBlock => LatestNotarized(cons[p]) = NoBlock
    BY <1>8, NothingNotarized DEF Onward
<1>10. FirstBlockComesFirst'
  <2>. SUFFICES ASSUME NEW x \in Honest, NEW y \in Honest,
                       task'[x].certRpc[y].st = "block", LatestNotarized(cons'[x]) = NoBlock
                PROVE  DoesDirectlyExtend(task'[x].certRpc[y].block, NoBlock)
    BY DEF FirstBlockComesFirst
  <2>1. CASE x = p
    BY <1>2, <1>9, <2>1 DEF Reached, FirstBlockComesFirst
  <2>2. CASE x # p
    BY <1>1, <1>2, <2>2 DEF Reached, FirstBlockComesFirst
  <2>. QED
    BY <2>1, <2>2
<1>. QED
    BY <1>5, <1>7, <1>10 DEF Reached

\* The first block an honest peer hands out from round 0 on has no parent.
LEMMA HandedOut ==
    ASSUME Inv, Reached, NEW p \in Honest, NEW q \in Honest,
           NEW b, b = GetNextNotarizedBlock(cons[q], task[p].reqMin), b # NoBlock,
           LatestNotarized(cons[p]) = NoBlock
    PROVE  DoesDirectlyExtend(b, NoBlock)
<1>1. p \in Peers /\ q \in Peers
    BY DEF Honest
<1>2. /\ WellFormed(cons[p]) /\ WellFormed(cons[q]) /\ cons[q] \in ConsState
      /\ task[p] \in TaskState
    BY <1>1, InvOfPeer DEF Sound
<1>3. NotarizedRounds(cons[p]) = {}
    BY <1>2, NothingNotarized
<1>4. task[p].reqMin = 0
    BY <1>1, <1>3 DEF Reached, Reaches
<1>5. PICK x \in NotarizedRounds(cons[q]) :
        /\ b = cons[q].notarized[x] /\ b \in Block
        /\ \A y \in NotarizedRounds(cons[q]) : 0 <= y => x <= y
    BY <1>2, <1>4, NextNotarized
<1>6. \A y \in NotarizedRounds(cons[q]) : y \in Nat
    BY RoundsAreNaturals DEF NotarizedRounds
<1>7. PICK y \in NotarizedRounds(cons[q]) :
        Len(cons[q].notarized[y]) = 1 /\ \A z \in NotarizedRounds(cons[q]) : y <= z
    BY <1>1, <1>5 DEF Reached, Grounded, FirstIsFirst
<1>8. x = y
  <2>1. x \in Nat /\ y \in Nat /\ x <= y /\ y <= x
    BY <1>5, <1>6, <1>7
  <2>. QED
    BY <2>1
<1>9. Len(b) = 1 /\ b \in Seq(Link)
    BY <1>5, <1>7, <1>8 DEF Block, OptBlock
<1>10. Len(NoBlock) = 0 /\ SubSeq(b, 1, 0) = NoBlock
    BY <1>9, SubSeqEmpty DEF NoBlock
<1>. QED
    BY <1>9, <1>10 DEF DoesDirectlyExtend

\* A handler keeps a peer grounded and takes nothing back.
LEMMA HandledAdvances ==
    ASSUME Inv, Reached, NEW p, Running(p), NEW m, Handled(p, m)
    PROVE  Advances(p, cons[p], m)
<1> DEFINE n == cons[p]
<1>1. p \in Honest /\ p \in Peers /\ n.round # MaxRound
    BY RunningPeer
<1>2. /\ WellFormed(n) /\ task[p] \in TaskState /\ RepliesGenuine(task[p], Proposals)
    BY <1>1, InvOfPeer DEF Sound
<1>3. Grounded(n)
    BY <1>1 DEF Reached
<1>. HIDE DEF n
<1>4. ASSUME NEW q \in Peers, task[p].certRpc[q].st = "block"
      PROVE  Advances(p, n, ProcessNotarizedBlock(p, n, task[p].certRpc[q].block, task[p].certRpc[q].sigs))
  <2>1. task[p].certRpc[q].block \in Block /\ RoundOf(task[p].certRpc[q].block) # MaxRound
    BY <1>2, <1>4 DEF RepliesGenuine
  <2>2. task[p].certRpc[q].sigs \in [Peers -> OptBlock]
    BY <1>2 DEF TaskState, CertRpc
  <2>. QED
    BY <1>1, <1>2, <1>3, <2>1, <2>2, ProcessNotarizedBlockAdvances
<1>5. CASE \E q \in Peers, b \in Block : m = ProcessVote(p, n, q, b)
    BY <1>1, <1>2, <1>3, <1>5, ProcessVoteAdvances DEF n
<1>6. CASE \E q \in Peers, b \in Block : m = ProcessProposal(p, n, q, b)
    BY <1>1, <1>2, <1>3, <1>6, ProcessProposalAdvances DEF n
<1>7. CASE \E q \in Peers : m = ProcessDummyVote(p, n, q)
    BY <1>1, <1>2, <1>3, <1>7, ProcessDummyVoteAdvances DEF n
<1>8. CASE \E qs \in SUBSET Peers : m = ProcessNotarizedDummy(p, n, qs)
    BY <1>1, <1>2, <1>3, <1>8, ProcessNotarizedDummyAdvances DEF n
<1>. QED
    BY <1>4, <1>5, <1>6, <1>7, <1>8 DEF Handled, n

\* A round's tasks start with the request that was reached, and no replies.
LEMMA StartRoundReached ==
    ASSUME NEW p \in Peers, NEW n, WellFormed(n)
    PROVE  /\ Reaches(n, StartRound(p, n).reqMin)
           /\ \A q \in Peers : StartRound(p, n).certRpc[q].st # "block"
<1>1. RoundAfter(LatestNotarized(n)) \in Nat
    BY LatestIsARound, RoundsAreNaturals
<1>2. Reaches(n, RoundAfter(LatestNotarized(n)))
    BY <1>1, LatestReached
<1>3. StartRound(p, n).reqMin = RoundAfter(LatestNotarized(n))
    BY DEF StartRound
<1>4. \A q \in Peers : StartRound(p, n).certRpc[q] = Cert(IF q = p THEN "done" ELSE "open")
    BY DEF StartRound
<1>5. Cert("done").st = "done" /\ Cert("open").st = "open"
    BY RequestTypes
<1>. QED
    BY <1>2, <1>3, <1>4, <1>5

\* What a transaction of p does to the finality p sees.
LEMMA AdvancesFinality ==
    ASSUME Inv, Inv', NEW p \in Honest, NEW c, cons' = [cons EXCEPT ![p] = c],
           Advances(p, cons[p], c), FinalityFrom(cons[p], Honest, Own')
    PROVE  FinalityFrom(c, Honest, Own')
<1>1. /\ cons \in [Peers -> ConsState] /\ cons' \in [Peers -> ConsState]
      /\ p \in Peers /\ Honest \in SUBSET Peers
    BY DEF Inv, TypeOK, Honest
<1>2. cons'[p] = c /\ c \in ConsState
    BY <1>1
<1>3. Own' \in [Peers -> Rounds] /\ Own'[p] = c.finSelfTx
    BY <1>1, <1>2 DEF Own, ConsState
<1>4. c.finSelfTx <= Own'[p]
    BY <1>2, <1>3, RoundsAreNaturals DEF ConsState
<1>. QED
    BY <1>1, <1>3, <1>4 DEF Advances, FinalityKept

\* Every step keeps what was reached and takes no peer back.
LEMMA NextReached ==
    ASSUME Inv, Reached, [Next]_vars
    PROVE  Reached' /\ \A q \in Peers : Onward(cons[q], cons'[q])
<1>1. Inv' /\ StepKind
    BY NextInv, StepKinds
<1>2. /\ cons \in [Peers -> ConsState] /\ task \in [Peers -> TaskState]
      /\ Honest \in SUBSET Peers
    BY DEF Inv, TypeOK, Honest
<1>3. CASE UNCHANGED <<cons, task, app, pins>>
  <2>1. Reached'
    BY <1>3 DEF Reached, Own, FirstBlockComesFirst
  <2>2. \A q \in Peers : Onward(cons[q], cons[q])
    BY <1>2, AdvancesStays DEF Reached, Advances
  <2>. QED
    BY <1>3, <2>1, <2>2
<1>4. ASSUME NEW p \in Honest, NEW t \in TaskState, Tasks(p, t)
      PROVE  Reached' /\ \A q \in Peers : Onward(cons[q], cons'[q])
  <2>1. /\ cons' = [cons EXCEPT ![p] = cons[p]] /\ task' = [task EXCEPT ![p] = t]
        /\ SameRound(p, t)
    BY <1>2, <1>4 DEF Tasks
  <2>2. /\ Grounded(cons[p]) /\ Onward(cons[p], cons[p]) /\ Reaches(cons[p], t.reqMin)
    BY <1>2, <2>1, AdvancesStays DEF Reached, Advances, SameRound
  <2>3. \A q \in Honest : t.certRpc[q].st = "block" =>
            \/ t.certRpc[q] = task[p].certRpc[q]
            \/ LatestNotarized(cons[p]) = NoBlock => DoesDirectlyExtend(t.certRpc[q].block, NoBlock)
    <3>. SUFFICES ASSUME NEW q \in Honest, LatestNotarized(cons[p]) = NoBlock,
                         GetNextNotarizedBlock(cons[q], t.reqMin) # NoBlock,
                         t.certRpc[q] = CertBlock(GetNextNotarizedBlock(cons[q], t.reqMin),
                            cons[q].votes[RoundOf(GetNextNotarizedBlock(cons[q], t.reqMin))])
                  PROVE  DoesDirectlyExtend(t.certRpc[q].block, NoBlock)
      BY <2>1 DEF SameRound
    <3>1. t.certRpc[q].block = GetNextNotarizedBlock(cons[q], task[p].reqMin)
      BY <2>1 DEF CertBlock, SameRound
    <3>. QED
      BY <2>1, <3>1, HandedOut DEF SameRound
  <2>. QED
    BY <1>1, <2>1, <2>2, <2>3, ReachedStep
<1>5. ASSUME NEW p \in Honest, NEW m \in ConsState, NEW t \in TaskState, Handles(p, m, t)
      PROVE  Reached' /\ \A q \in Peers : Onward(cons[q], cons'[q])
  <2> DEFINE c == IF PinsHold(p, cons[p], m) THEN m ELSE cons[p]
             u == IF c.round # cons[p].round THEN StartRound(p, c) ELSE t
  <2>1. /\ cons' = [cons EXCEPT ![p] = c] /\ task' = [task EXCEPT ![p] = u]
        /\ SameRound(p, t) /\ Running(p) /\ Handled(p, m)
    BY <1>5 DEF Handles, Commit
  <2>2. Advances(p, cons[p], m) /\ Advances(p, cons[p], cons[p])
    BY <1>2, <2>1, HandledAdvances, AdvancesStays DEF Reached
  <2>3. Advances(p, cons[p], c) /\ c \in ConsState
    BY <1>2, <2>2
  <2>. HIDE DEF c
  <2>4. WellFormed(c) /\ p \in Peers
    <3>1. cons'[p] = c
      BY <1>2, <2>1
    <3>. QED
      BY <1>1, <1>2, <3>1 DEF Inv, VotesAreGenuine
  <2>5. Grounded(c) /\ Onward(cons[p], c)
    BY <2>3 DEF Advances
  <2>6. /\ Reaches(c, u.reqMin)
        /\ \A q \in Honest : u.certRpc[q].st = "block" =>
            \/ u.certRpc[q] = task[p].certRpc[q]
            \/ LatestNotarized(c) = NoBlock => DoesDirectlyExtend(u.certRpc[q].block, NoBlock)
    <3>1. CASE u = StartRound(p, c)
      BY <1>2, <2>4, <3>1, StartRoundReached
    <3>2. CASE u = t
      <4>1. Reaches(cons[p], t.reqMin) /\ t.reqMin \in Nat
        BY <2>1, <2>4, RoundsAreNaturals DEF Reached, SameRound, TaskState
      <4>2. NotarizedRounds(cons[p]) \subseteq Nat /\ NotarizedRounds(c) \subseteq Nat
        BY RoundsAreNaturals DEF NotarizedRounds
      <4>3. Reaches(c, t.reqMin)
        BY <2>5, <4>1, <4>2, OnwardReaches DEF Onward
      <4>4. LatestNotarized(c) = NoBlock => LatestNotarized(cons[p]) = NoBlock
        BY <2>4, <2>5, InvOfPeer, NothingNotarized DEF Onward, Sound
      <4>5. ASSUME NEW q \in Honest, LatestNotarized(c) = NoBlock,
                   GetNextNotarizedBlock(cons[q], t.reqMin) # NoBlock,
                   t.certRpc[q] = CertBlock(GetNextNotarizedBlock(cons[q], t.reqMin),
                        cons[q].votes[RoundOf(GetNextNotarizedBlock(cons[q], t.reqMin))])
            PROVE  DoesDirectlyExtend(t.certRpc[q].block, NoBlock)
        <5>1. t.certRpc[q].block = GetNextNotarizedBlock(cons[q], task[p].reqMin)
          BY <2>1, <4>5 DEF CertBlock, SameRound
        <5>. QED
          BY <2>1, <4>4, <4>5, <5>1, HandedOut DEF SameRound
      <4>. QED
        BY <2>1, <3>2, <4>3, <4>5 DEF SameRound
    <3>. QED
      BY <3>1, <3>2
  <2>. HIDE DEF u
  <2>7. FinalityFrom(cons[p], Honest, Own') => FinalityFrom(c, Honest, Own')
    BY <1>1, <2>1, <2>3, AdvancesFinality
  <2>. QED
    BY <1>1, <2>1, <2>5, <2>6, <2>7, ReachedStep
<1>6. ASSUME NEW p \in Honest, NEW q \in Peers, NEW v \in Rounds, HearsFinality(p, q, v)
      PROVE  Reached' /\ \A x \in Peers : Onward(cons[x], cons'[x])
  <2> DEFINE c == UpdatePeerFinalityVoteRound(cons[p], q, v)
  <2>1. /\ cons' = [cons EXCEPT ![p] = c] /\ task' = [task EXCEPT ![p] = task[p]]
        /\ p \in Peers /\ (q \in Honest => q # p /\ v = cons[q].finSelfTx)
    BY <1>2, <1>6 DEF HearsFinality, SetFinalityVote
  <2>2. Grounded(c) /\ Onward(cons[p], c) /\ c \in ConsState
    BY <1>2, <2>1, FinalityVoteGrounded, FinalityVoteFields DEF Reached
  <2>3. Reaches(c, task[p].reqMin)
    <3>1. Reaches(cons[p], task[p].reqMin) /\ task[p].reqMin \in Nat
      BY <1>2, <2>1, RoundsAreNaturals DEF Reached, TaskState
    <3>2. NotarizedRounds(cons[p]) \subseteq Nat /\ NotarizedRounds(c) \subseteq Nat
      BY RoundsAreNaturals DEF NotarizedRounds
    <3>. HIDE DEF c
    <3>. QED
      BY <2>2, <3>1, <3>2, OnwardReaches DEF Onward
  <2>4. FinalityFrom(cons[p], Honest, Own') => FinalityFrom(c, Honest, Own')
    <3>1. Own' \in [Peers -> Rounds]
      BY <1>1 DEF Own, Inv, TypeOK, ConsState
    <3>2. q \in Honest => v <= Own'[q]
      <4>. SUFFICES ASSUME q \in Honest PROVE v <= Own'[q]
        OBVIOUS
      <4>1. cons'[q] = cons[q] /\ v = cons[q].finSelfTx /\ v \in Nat
        BY <1>2, <2>1, RoundsAreNaturals
      <4>. QED
        BY <4>1 DEF Own
    <3>. QED
      BY <1>2, <2>1, <3>1, <3>2, FinalityVoteFrom
  <2>. HIDE DEF c
  <2>. QED
    BY <1>1, <2>1, <2>2, <2>3, <2>4, ReachedStep
<1>7. ASSUME NEW p \in Honest, AckAndWaitNextBlock(p)
      PROVE  Reached' /\ \A q \in Peers : Onward(cons[q], cons'[q])
  <2>1. UNCHANGED <<cons, task>>
    BY <1>7 DEF AckAndWaitNextBlock
  <2>2. Reached'
    BY <2>1 DEF Reached, Own, FirstBlockComesFirst
  <2>3. \A q \in Peers : Onward(cons[q], cons[q])
    BY <1>2, AdvancesStays DEF Reached, Advances
  <2>. QED
    BY <2>1, <2>2, <2>3
<1>8. ASSUME NEW p \in Honest, Restart(p)
      PROVE  Reached' /\ \A q \in Peers : Onward(cons[q], cons'[q])
  <2> DEFINE c == OpenInternal(p, cons[p])
             t == StartRound(p, c)
  <2>1. cons' = [cons EXCEPT ![p] = c] /\ task' = [task EXCEPT ![p] = t] /\ p \in Peers
    BY <1>2, <1>8 DEF Restart
  <2>2. WellFormed(cons[p]) /\ Grounded(cons[p])
    BY <2>1, InvOfPeer DEF Sound, Reached
  <2>3. Advances(p, cons[p], c)
    BY <2>1, <2>2, OpenInternalAdvances
  <2>. HIDE DEF c
  <2>4. WellFormed(c)
    <3>1. cons'[p] = c
      BY <1>2, <2>1
    <3>. QED
      BY <1>1, <2>1, <3>1 DEF Inv, VotesAreGenuine
  <2>5. Reaches(c, t.reqMin) /\ \A q \in Honest : t.certRpc[q].st # "block"
    BY <1>2, <2>1, <2>4, StartRoundReached
  <2>. HIDE DEF t
  <2>6. FinalityFrom(cons[p], Honest, Own') => FinalityFrom(c, Honest, Own')
    BY <1>1, <2>1, <2>3, AdvancesFinality
  <2>. QED
    BY <1>1, <2>1, <2>3, <2>5, <2>6, ReachedStep DEF Advances
<1>. QED
    BY <1>1, <1>3, <1>4, <1>5, <1>6, <1>7, <1>8 DEF StepKind

\* New databases have reached nothing.
LEMMA InitReached == Init => Reached
<1>. SUFFICES ASSUME Init PROVE Reached
    OBVIOUS
<1>1. Inv /\ Honest \in SUBSET Peers
    BY InitInv DEF Honest
<1>2. Own \in [Peers -> Rounds]
    BY <1>1 DEF Inv, TypeOK, Own, ConsState
<1>3. WellFormed(InitTables) /\ Grounded(InitTables)
    BY <1>1, InitTablesSound, InitTablesGrounded DEF Sound
<1>4. ASSUME NEW p \in Peers
      PROVE  /\ Grounded(cons[p]) /\ Reaches(cons[p], task[p].reqMin)
             /\ FinalityFrom(cons[p], Honest, Own)
  <2>1. cons[p] = OpenInternal(p, InitTables) /\ task[p] = StartRound(p, InitTables)
    BY DEF Init
  <2>2. Advances(p, InitTables, OpenInternal(p, InitTables))
    BY <1>3, OpenInternalAdvances
  <2>3. task[p].reqMin = 0
    <3>1. LatestNotarized(InitTables) = NoBlock
      BY DEF InitTables, LatestNotarized, GetPrevNotarizedBlock, NotarizedRounds
    <3>. QED
      BY <2>1, <3>1 DEF StartRound, RoundAfter
  <2>4. FinalityFrom(InitTables, Honest, Own)
    BY <1>1, <1>2, InitTablesFinality
  <2>5. cons[p].finSelfTx <= Own[p]
    BY <1>1, RoundsAreNaturals DEF Own, Inv, TypeOK, ConsState
  <2>6. FinalityFrom(cons[p], Honest, Own)
    BY <1>1, <1>2, <2>1, <2>2, <2>4, <2>5 DEF Advances, FinalityKept
  <2>. QED
    BY <2>1, <2>2, <2>3, <2>6 DEF Advances, Reaches
<1>5. \A p \in Peers, q \in Peers : task[p].certRpc[q].st # "block"
    BY <1>3, StartRoundReached DEF Init
<1>. QED
    BY <1>1, <1>4, <1>5 DEF Reached, FirstBlockComesFirst

\* Both invariants together.
LEMMA ReachedAlways == Spec => [](Inv /\ Reached)
<1>1. Inv /\ Reached /\ [Next]_vars => Inv' /\ Reached'
    BY NextInv, NextReached
<1>. QED
    BY InitInv, InitReached, <1>1, PTL DEF Spec

\* A peer can always serve the notarization of a notarized block it has: a
\* threshold of votes for it and no others, whatever was rewound or adopted.
THEOREM NotarizationsKept == Spec => []NotarizedHasVotes
<1>1. Inv /\ Reached => NotarizedHasVotes
    BY DEF NotarizedHasVotes, Reached, Grounded, VotesKept, NotarizedRounds, Honest
<1>. QED
    BY ReachedAlways, <1>1, PTL

\* ack_and_wait_next_block always finds the block that the peer's own finality
\* vote promises: a rewind replaces the latest notarized block by a later one.
THEOREM FinalBlocksAvailable == Spec => []FinalBlockAvailable
<1>1. Inv /\ Reached => FinalBlockAvailable
  <2>. SUFFICES ASSUME Inv, Reached, NEW p \in Honest, app[p].ack < cons[p].finSelfTx
                PROVE  GetNextNotarizedBlock(cons[p], app[p].ack) # NoBlock
    BY DEF FinalBlockAvailable
  <2>1. /\ p \in Peers /\ cons[p] \in ConsState /\ app[p].ack \in Nat
        /\ cons[p].finSelfTx \in Nat
    BY InvOfPeer, RoundsAreNaturals DEF Honest, ConsState, AppState
  <2>2. PICK x \in NotarizedRounds(cons[p]) : cons[p].finSelfTx <= x + 1
    BY <2>1 DEF Reached, Grounded, Reaches
  <2>3. app[p].ack <= x
    BY <2>1, <2>2, RoundsAreNaturals DEF NotarizedRounds
  <2>. QED
    BY <2>1, <2>3, NextNotarized DEF Block
<1>. QED
    BY ReachedAlways, <1>1, PTL

\* What a peer takes for final is backed by honest peers that really voted for
\* it, enough of them to be in every threshold, whatever the faulty peers claim.
THEOREM FinalityIsBacked == Spec => []FinalityBacked
<1>1. Inv /\ Reached => FinalityBacked
  <2>. SUFFICES ASSUME Inv, Reached, NEW p \in Honest
                PROVE  T - Cardinality(Byz)
                        <= Cardinality({q \in Honest : cons[p].finConsTx <= cons[q].finSelfTx})
    BY DEF FinalityBacked
  <2> DEFINE A == {q \in Honest : cons[p].finConsTx <= cons[q].finSelfTx}
  <2>1. p \in Peers /\ Peers \ Honest = Byz /\ \A q \in Honest : q \in Peers
    BY ByzAssumption DEF Honest
  <2>2. BackedBy(cons[p].finConsTx, Honest, Own)
    BY <2>1 DEF Reached, FinalityFrom
  <2>3. {q \in Honest : cons[p].finConsTx <= Own[q]} = A
    BY <2>1 DEF Own
  <2>4. T <= Cardinality(A) + Cardinality(Byz)
    BY <2>1, <2>2, <2>3 DEF BackedBy
  <2>5. Cardinality(A) \in Nat /\ Cardinality(Byz) \in Nat
    <3>1. A \in SUBSET Peers /\ Byz \in SUBSET Peers
      BY <2>1, ByzAssumption
    <3>. HIDE DEF A
    <3>. QED
      BY <3>1, PeersAssumption, FS_Subset, FS_CardinalityType
  <2>. HIDE DEF A
  <2>6. T - Cardinality(Byz) <= Cardinality(A)
    BY <2>4, <2>5, QuorumSize
  <2>. QED
    BY <2>6 DEF A
<1>. QED
    BY ReachedAlways, <1>1, PTL

\* A peer that runs this code never hands a block with a parent to a peer that
\* has none: the panic "Must have latest notarized" of
\* process_notarized_block_response is not reached by honest replies.
THEOREM FirstBlocksFirst == Spec => []FirstBlockComesFirst
<1>1. Inv /\ Reached => FirstBlockComesFirst
    BY DEF Reached
<1>. QED
    BY ReachedAlways, <1>1, PTL

\* No step takes a peer back in its round, its latest notarized block or its
\* own finality vote.
THEOREM PeersNeverGoBack == Spec => NeverBack
<1>1. Inv /\ Reached /\ Inv' /\ [Next]_vars =>
        \A p \in Honest : cons'[p] # cons[p] =>
            /\ cons[p].round <= cons'[p].round
            /\ RoundAfter(LatestNotarized(cons[p])) <= RoundAfter(LatestNotarized(cons'[p]))
            /\ cons[p].finSelfTx <= cons'[p].finSelfTx
  <2>. SUFFICES ASSUME Inv, Reached, Inv', [Next]_vars, NEW p \in Honest
                PROVE  /\ cons[p].round <= cons'[p].round
                       /\ RoundAfter(LatestNotarized(cons[p]))
                            <= RoundAfter(LatestNotarized(cons'[p]))
                       /\ cons[p].finSelfTx <= cons'[p].finSelfTx
    OBVIOUS
  <2>1. p \in Peers
    BY DEF Honest
  <2>2. Onward(cons[p], cons'[p])
    BY <2>1, NextReached
  <2>3. WellFormed(cons[p]) /\ WellFormed(cons'[p])
    BY <2>1 DEF Inv, VotesAreGenuine
  <2>4. RoundAfter(LatestNotarized(cons[p])) <= RoundAfter(LatestNotarized(cons'[p]))
    BY <2>2, <2>3, OnwardLatest
  <2>. QED
    BY <2>2, <2>4 DEF Onward
<1>. QED
    BY ReachedAlways, <1>1, PTL DEF Spec, NeverBack

-----------------------------------------------------------------------------
(***************************************************************************)
(* Federations of up to three peers, which tolerate no faulty one (F = 0). *)
(* There a notarized block is a proposal that every peer stored.  In a     *)
(* larger federation the statements of this part are false: a notarized    *)
(* block can be rewound (finding_finality).                                *)
(***************************************************************************)
\* Some peer of tables C keeps c on its chain.
Witnessed(C, c) == \E w \in Peers : Keeps(C[w], c)

\* Every peer of tables C stored b as the proposal of its round.
StoredByAll(C, b) == \A q \in Peers : C[q].proposals[RoundOf(b)] = b

\* The application follows the chain of n: it processed it block by block, and
\* has acknowledged no notarized block that it did not process.
Followed(n, a) ==
    /\ Reaches(n, a.ack)
    /\ \A i \in DOMAIN a.log :
        /\ Len(a.log[i]) = i
        /\ n.notarized[RoundOf(a.log[i])] = a.log[i]
        /\ RoundOf(a.log[i]) < a.ack
    /\ \A r \in NotarizedRounds(n) : r < a.ack => Len(n.notarized[r]) <= Len(a.log)

\* Every peer extends notarized blocks only, every notarized block, be it on its
\* way, is kept by some peer, and applications follow.
Aligned ==
    \A p \in Peers :
        /\ Anchored(cons[p])
        /\ \A r \in NotarizedRounds(cons[p]) : Witnessed(cons, cons[p].notarized[r])
        /\ \A q \in Peers : task[p].certRpc[q].st = "block" =>
                                Witnessed(cons, task[p].certRpc[q].block)
        /\ Followed(cons[p], app[p])

\* A threshold is everyone, and everyone is honest.
LEMMA ThresholdIsAll ==
    ASSUME F = 0
    PROVE  /\ Honest = Peers
           /\ \A S \in SUBSET Peers : T <= Cardinality(S) => S = Peers
<1>1. T = Cardinality(Peers) /\ Cardinality(Peers) \in Nat
    BY QuorumSize
<1>2. Honest = Peers
  <2>1. IsFiniteSet(Byz) /\ Cardinality(Byz) \in Nat /\ Cardinality(Byz) <= 0
    BY ByzAssumption, PeersAssumption, FS_Subset, FS_CardinalityType
  <2>2. Byz = {}
    BY <2>1, FS_EmptySet
  <2>. QED
    BY <2>2 DEF Honest
<1>3. ASSUME NEW S \in SUBSET Peers, T <= Cardinality(S)
      PROVE  S = Peers
  <2>1. Cardinality(S) <= Cardinality(Peers) /\ (Cardinality(S) = Cardinality(Peers) => S = Peers)
        /\ Cardinality(S) \in Nat
    BY PeersAssumption, FS_Subset, FS_CardinalityType
  <2>. QED
    BY <1>1, <1>3, <2>1
<1>. QED
    BY <1>2, <1>3

\* A notarized block was stored by every peer.
LEMMA NotarizedByAll ==
    ASSUME F = 0, NEW C, NEW P, \A q \in Peers : P[q] = C[q].proposals,
           NEW n, WellFormed(n), AllSupported(n, Honest, P), NEW r \in NotarizedRounds(n)
    PROVE  StoredByAll(C, n.notarized[r])
<1>1. RoundOf(n.notarized[r]) = r
    BY NotarizedBelow
<1>2. PICK S \in SUBSET Peers :
        T <= Cardinality(S) /\ \A q \in S \cap Honest : P[q][r] = n.notarized[r]
    BY DEF AllSupported, Supported
<1>3. S = Peers /\ Honest = Peers
    BY <1>2, ThresholdIsAll
<1>. QED
    BY <1>1, <1>2, <1>3 DEF StoredByAll

\* So was a block on its way with a threshold of signatures.
LEMMA VerifiedByAll ==
    ASSUME F = 0, NEW C, NEW b \in Block, NEW sigs, VerifySigs(b, sigs),
           \A x \in Honest : sigs[x] \in {NoBlock, C[x].proposals[RoundOf(b)]}
    PROVE  StoredByAll(C, b)
<1>1. Honest = Peers /\ {q \in Peers : sigs[q] # NoBlock} = Peers
    BY ThresholdIsAll DEF VerifySigs
<1>2. \A q \in Peers : sigs[q] = b /\ b # NoBlock
    BY <1>1 DEF VerifySigs, Block
<1>. QED
    BY <1>1, <1>2 DEF StoredByAll

\* A block that everyone stored is longer than every earlier one that some peer
\* keeps.
LEMMA StoredIsLonger ==
    ASSUME NEW C, NEW c, Witnessed(C, c), NEW b \in Block, StoredByAll(C, b),
           RoundOf(c) < RoundOf(b)
    PROVE  Len(c) < Len(b)
<1>1. RoundOf(b) \in Rounds /\ b # NoBlock
    BY BlockRound DEF Block
<1>. QED
    BY <1>1 DEF Witnessed, Keeps, StoredByAll

\* Hence a peer's notarized blocks are a chain.
LEMMA ChainOfPeer ==
    ASSUME NEW C, NEW p \in Peers, WellFormed(C[p]), Anchored(C[p]),
           \A r \in NotarizedRounds(C[p]) :
                /\ Witnessed(C, C[p].notarized[r])
                /\ StoredByAll(C, C[p].notarized[r])
    PROVE  Rising(C[p]) /\ Chained(C[p])
<1> DEFINE n == C[p]
<1>1. \A r \in NotarizedRounds(n) : RoundOf(n.notarized[r]) = r /\ n.notarized[r] \in Block
    BY NotarizedBelow
<1>2. Rising(n)
    BY <1>1, StoredIsLonger DEF Rising
<1>3. \A r \in NotarizedRounds(n) : n.proposals[r] = n.notarized[r]
    BY <1>1 DEF StoredByAll
<1>. QED
    BY <1>2, <1>3, ChainedByLength

\* The invariants, one peer at a time.
LEMMA AlignedPeer ==
    ASSUME F = 0, Inv, Aligned, NEW p \in Peers
    PROVE  /\ WellFormed(cons[p]) /\ Rising(cons[p]) /\ Chained(cons[p]) /\ Anchored(cons[p])
           /\ \A r \in NotarizedRounds(cons[p]) :
                /\ Witnessed(cons, cons[p].notarized[r])
                /\ StoredByAll(cons, cons[p].notarized[r])
<1>1. /\ WellFormed(cons[p]) /\ Anchored(cons[p])
      /\ AllSupported(cons[p], Honest, Proposals)
      /\ \A q \in Peers : Proposals[q] = cons[q].proposals
      /\ \A r \in NotarizedRounds(cons[p]) : Witnessed(cons, cons[p].notarized[r])
    BY DEF Inv, VotesAreGenuine, Proposals, Aligned
<1>2. \A r \in NotarizedRounds(cons[p]) : StoredByAll(cons, cons[p].notarized[r])
    BY <1>1, NotarizedByAll
<1>. QED
    BY <1>1, <1>2, ChainOfPeer

\* When a peer only builds, what was kept by some peer stays so, and so does what
\* the peer notarizes.
LEMMA WitnessStep ==
    ASSUME NEW C \in [Peers -> ConsState], NEW p \in Peers, NEW c \in ConsState, NEW A,
           \A q \in Peers : WellFormed(C[q]),
           \A q \in Peers : \A r \in NotarizedRounds(C[q]) : Witnessed(C, C[q].notarized[r]),
           Rising(C[p]), WellFormed(c), Builds(C[p], c, A),
           \A a \in A : a \in Block /\ Witnessed(C, a)
    PROVE  LET D == [C EXCEPT ![p] = c]
           IN  /\ \A a \in Block : Witnessed(C, a) => Witnessed(D, a)
               /\ \A q \in Peers : \A r \in NotarizedRounds(D[q]) :
                    Witnessed(D, D[q].notarized[r])
<1> DEFINE D == [C EXCEPT ![p] = c]
<1>1. D[p] = c /\ \A q \in Peers : q # p => D[q] = C[q]
    OBVIOUS
<1>. HIDE DEF D
<1>2. ASSUME NEW a \in Block, Witnessed(C, a)
      PROVE  Witnessed(D, a)
  <2>1. PICK w \in Peers : Keeps(C[w], a)
    BY <1>2 DEF Witnessed
  <2>2. Keeps(D[w], a)
    BY <1>1, <2>1, BuildsKeeps
  <2>. QED
    BY <2>2 DEF Witnessed
<1>3. ASSUME NEW q \in Peers, NEW r \in NotarizedRounds(C[q])
      PROVE  Witnessed(D, C[q].notarized[r])
    BY <1>2, NotarizedBelow
<1>4. ASSUME NEW r \in NotarizedRounds(c)
      PROVE  Witnessed(D, c.notarized[r])
  <2>1. CASE r \in NotarizedRounds(C[p])
    BY <1>3, <2>1 DEF Builds
  <2>2. CASE r \notin NotarizedRounds(C[p]) /\ c.notarized[r] \in A
    BY <1>2, <2>2
  <2>3. CASE r \notin NotarizedRounds(C[p]) /\ c.notarized[r] \notin A
    BY <1>1, <2>3, BuildsOwn DEF Witnessed
  <2>. QED
    BY <2>1, <2>2, <2>3
<1>5. \A q \in Peers : \A r \in NotarizedRounds(D[q]) : Witnessed(D, D[q].notarized[r])
    BY <1>1, <1>3, <1>4
<1>. QED
    BY <1>2, <1>5 DEF D

\* The application of a peer that only builds still follows: what is notarized
\* now is later than what it acknowledged.
LEMMA FollowedBuilds ==
    ASSUME NEW n, WellFormed(n), NEW k, NEW A, Builds(n, k, A),
           NEW a \in AppState, LogOfBlocks(a.log), Followed(n, a)
    PROVE  Followed(k, a)
<1>1. \A x \in NotarizedRounds(n) : x \in NotarizedRounds(k) /\ k.notarized[x] = n.notarized[x]
    BY DEF Builds, NotarizedRounds
<1>2. Reaches(k, a.ack)
    BY <1>1 DEF Followed, Reaches
<1>3. \A i \in DOMAIN a.log :
        RoundOf(a.log[i]) \in NotarizedRounds(n)
    BY BlockRound DEF Followed, LogOfBlocks, NotarizedRounds, Block
<1>4. \A i \in DOMAIN a.log :
        /\ Len(a.log[i]) = i
        /\ k.notarized[RoundOf(a.log[i])] = a.log[i]
        /\ RoundOf(a.log[i]) < a.ack
    BY <1>1, <1>3 DEF Followed
<1>5. a.ack \in Nat /\ NotarizedRounds(n) \subseteq Nat /\ NotarizedRounds(k) \subseteq Nat
    BY RoundsAreNaturals DEF AppState, NotarizedRounds
<1>6. \A r \in NotarizedRounds(k) : r < a.ack => r \in NotarizedRounds(n)
    BY <1>5 DEF Builds, Followed, Reaches
<1>. QED
    BY <1>1, <1>2, <1>4, <1>6 DEF Followed

\* The next notarized block is the next of the application's log.
LEMMA FollowedAck ==
    ASSUME NEW n, WellFormed(n), Rising(n), Chained(n),
           NEW a \in AppState, LogOfBlocks(a.log), Followed(n, a),
           NEW b, b = GetNextNotarizedBlock(n, a.ack), b # NoBlock
    PROVE  /\ Followed(n, [ack |-> RoundOf(b) + 1, log |-> Append(a.log, b)])
           /\ Followed(n, [ack |-> RoundOf(b), log |-> a.log])
<1>1. /\ n \in ConsState /\ a.ack \in Nat /\ a.log \in Seq(OptBlock) /\ Len(a.log) \in Nat
      /\ DOMAIN a.log = 1 .. Len(a.log)
    BY RoundsAreNaturals, LenProperties DEF WellFormed, AppState
<1>2. PICK x \in NotarizedRounds(n) :
        /\ b = n.notarized[x] /\ b \in Block /\ a.ack <= x
        /\ \A y \in NotarizedRounds(n) : a.ack <= y => x <= y
    BY <1>1, NextNotarized
<1>3. RoundOf(b) = x /\ x \in Nat /\ b \in OptBlock /\ Len(b) \in Nat
    BY <1>2, NotarizedBelow, BlockRound, RoundsAreNaturals DEF Block
<1>4. \A y \in NotarizedRounds(n) :
        /\ y \in Nat /\ Len(n.notarized[y]) \in Nat /\ Len(n.notarized[y]) >= 1
        /\ n.notarized[y] \in Block /\ RoundOf(n.notarized[y]) = y
        /\ y < x <=> y < a.ack
    BY <1>1, <1>2, <1>3, NotarizedBelow, BlockRound, RoundsAreNaturals
<1> DEFINE prev == GetPrevNotarizedBlock(n, x)
<1>5. DoesDirectlyExtend(b, prev)
    BY <1>2 DEF Chained
<1>6. \/ prev = NoBlock /\ \A y \in NotarizedRounds(n) : ~(y < x)
      \/ \E y \in NotarizedRounds(n) :
            /\ prev = n.notarized[y] /\ prev \in Block /\ y < x
            /\ \A z \in NotarizedRounds(n) : z < x => z <= y
  <2>1. n \in ConsState /\ x \in Int
    BY <1>1, <1>3
  <2>. QED
    BY <2>1, PrevNotarized
<1>. HIDE DEF prev
<1>7. \A i \in DOMAIN a.log :
        /\ Len(a.log[i]) = i /\ RoundOf(a.log[i]) \in NotarizedRounds(n)
        /\ n.notarized[RoundOf(a.log[i])] = a.log[i] /\ RoundOf(a.log[i]) < x
    BY <1>1, <1>2, <1>3, <1>4, BlockRound, RoundsAreNaturals
    DEF Followed, LogOfBlocks, NotarizedRounds, Block
<1>8. Len(prev) = Len(a.log)
  <2>1. CASE prev = NoBlock
    <3>1. Len(a.log) = 0
      <4>. SUFFICES ASSUME Len(a.log) # 0 PROVE FALSE
        OBVIOUS
      <4>1. 1 \in DOMAIN a.log
        BY <1>1
      <4>. QED
        BY <1>4, <1>6, <1>7, <2>1, <4>1 DEF Block
    <3>. QED
      BY <2>1, <3>1 DEF NoBlock
  <2>2. CASE prev # NoBlock
    <3>1. PICK y \in NotarizedRounds(n) :
            /\ prev = n.notarized[y] /\ y < x
            /\ \A z \in NotarizedRounds(n) : z < x => z <= y
      BY <1>6, <2>2
    <3>2. Len(prev) <= Len(a.log) /\ Len(prev) \in Nat /\ Len(prev) >= 1
      BY <1>4, <3>1 DEF Followed
    <3> DEFINE e == a.log[Len(a.log)]
    <3>3. /\ Len(e) = Len(a.log) /\ RoundOf(e) \in NotarizedRounds(n)
          /\ n.notarized[RoundOf(e)] = e /\ RoundOf(e) < x
      BY <1>1, <1>7, <3>2
    <3>. HIDE DEF e
    <3>4. Len(e) <= Len(prev)
      <4>1. RoundOf(e) <= y /\ RoundOf(e) \in Nat /\ y \in Nat
        BY <1>4, <3>1, <3>3
      <4>2. CASE RoundOf(e) = y
        BY <1>1, <3>1, <3>3, <4>2
      <4>3. CASE RoundOf(e) < y
        BY <1>1, <3>1, <3>2, <3>3, <4>3 DEF Rising
      <4>. QED
        BY <4>1, <4>2, <4>3
    <3>. QED
      BY <1>1, <3>2, <3>3, <3>4
  <2>. QED
    BY <2>1, <2>2
<1>9. Len(b) = Len(a.log) + 1
    BY <1>5, <1>8 DEF DoesDirectlyExtend
<1>10. \A r \in NotarizedRounds(n) : r < x => Len(n.notarized[r]) <= Len(a.log)
    BY <1>4 DEF Followed
<1>11. Followed(n, [ack |-> RoundOf(b), log |-> a.log])
  <2>1. Reaches(n, x)
    BY <1>2, <1>3 DEF Reaches
  <2>. QED
    BY <1>3, <1>7, <1>10, <2>1 DEF Followed
<1>12. Followed(n, [ack |-> RoundOf(b) + 1, log |-> Append(a.log, b)])
  <2> DEFINE l == Append(a.log, b)
  <2>1. /\ l \in Seq(OptBlock) /\ Len(l) = Len(a.log) + 1 /\ DOMAIN l = 1 .. Len(a.log) + 1
        /\ l[Len(a.log) + 1] = b /\ \A i \in 1 .. Len(a.log) : l[i] = a.log[i]
    BY <1>1, <1>3, AppendProperties, LenProperties
  <2>. HIDE DEF l
  <2>2. Reaches(n, x + 1)
    BY <1>2, <1>3 DEF Reaches
  <2>3. ASSUME NEW i \in DOMAIN l
        PROVE  Len(l[i]) = i /\ n.notarized[RoundOf(l[i])] = l[i] /\ RoundOf(l[i]) < x + 1
    <3>1. CASE i = Len(a.log) + 1
      BY <1>2, <1>3, <1>9, <2>1, <3>1
    <3>2. CASE i \in 1 .. Len(a.log)
      <4>1. l[i] = a.log[i] /\ RoundOf(a.log[i]) \in Nat /\ RoundOf(a.log[i]) < x
        BY <1>1, <1>4, <1>7, <2>1, <3>2
      <4>. QED
        BY <1>1, <1>3, <1>7, <3>2, <4>1
    <3>. QED
      BY <1>1, <2>1, <3>1, <3>2
  <2>4. ASSUME NEW r \in NotarizedRounds(n), r < x + 1
        PROVE  Len(n.notarized[r]) <= Len(l)
    <3>1. CASE r = x
      BY <1>2, <1>3, <1>9, <2>1, <3>1
    <3>2. CASE r < x
      BY <1>1, <1>4, <1>10, <2>1, <3>2
    <3>. QED
      BY <1>3, <1>4, <2>4, <3>1, <3>2
  <2>5. Followed(n, [ack |-> x + 1, log |-> l])
    BY <2>2, <2>3, <2>4 DEF Followed
  <2>. QED
    BY <1>3, <2>5 DEF l
<1>. QED
    BY <1>11, <1>12

\* A restarted application resumes after the last block it processed.
LEMMA FollowedRestart ==
    ASSUME NEW n, WellFormed(n), Rising(n),
           NEW a \in AppState, LogOfBlocks(a.log), Followed(n, a)
    PROVE  LET ack == IF a.log = <<>> THEN 0 ELSE RoundAfter(a.log[Len(a.log)])
           IN  Followed(n, [a EXCEPT !.ack = ack])
<1> DEFINE ack == IF a.log = <<>> THEN 0 ELSE RoundAfter(a.log[Len(a.log)])
           d == [a EXCEPT !.ack = ack]
           e == a.log[Len(a.log)]
<1>1. a.log \in Seq(OptBlock) /\ Len(a.log) \in Nat /\ DOMAIN a.log = 1 .. Len(a.log)
    BY LenProperties DEF AppState
<1>2. d.ack = ack /\ d.log = a.log
    BY DEF AppState
<1>. HIDE DEF d
<1>3. \A y \in NotarizedRounds(n) : y \in Nat /\ Len(n.notarized[y]) \in Nat
    BY NotarizedBelow, BlockRound, RoundsAreNaturals
<1>4. \A i \in DOMAIN a.log :
        /\ Len(a.log[i]) = i /\ RoundOf(a.log[i]) \in NotarizedRounds(n)
        /\ n.notarized[RoundOf(a.log[i])] = a.log[i] /\ a.log[i] \in Block
    BY BlockRound DEF Followed, LogOfBlocks, NotarizedRounds, Block
<1>5. CASE a.log = <<>>
  <2>1. d.ack = 0
    BY <1>2, <1>5
  <2>2. DOMAIN d.log = {}
    BY <1>1, <1>2, <1>5
  <2>. QED
    BY <1>3, <2>1, <2>2 DEF Followed, Reaches, d
<1>6. CASE a.log # <<>>
  <2>1. Len(a.log) \in DOMAIN a.log /\ Len(a.log) >= 1
    BY <1>1, <1>6, EmptySeq
  <2>2. /\ Len(e) = Len(a.log) /\ RoundOf(e) \in NotarizedRounds(n)
        /\ n.notarized[RoundOf(e)] = e /\ e \in Block /\ RoundOf(e) \in Nat
    BY <1>3, <1>4, <2>1
  <2>3. d.ack = RoundOf(e) + 1
    BY <1>2, <1>6, <2>2, BlockRound
  <2>. HIDE DEF e, ack
  <2>4. Reaches(n, d.ack)
    BY <2>2, <2>3 DEF Reaches
  <2>5. ASSUME NEW i \in DOMAIN a.log
        PROVE  RoundOf(a.log[i]) < d.ack
    <3>1. ~(RoundOf(e) < RoundOf(a.log[i]))
      <4>. SUFFICES ASSUME RoundOf(e) < RoundOf(a.log[i]) PROVE FALSE
        OBVIOUS
      <4>1. Len(e) < Len(a.log[i])
        BY <1>4, <2>2 DEF Rising
      <4>. QED
        BY <1>1, <1>4, <2>2, <4>1
    <3>. QED
      BY <1>3, <1>4, <2>2, <2>3, <3>1
  <2>6. ASSUME NEW r \in NotarizedRounds(n), r < d.ack
        PROVE  Len(n.notarized[r]) <= Len(a.log)
    <3>1. CASE r = RoundOf(e)
      BY <1>1, <2>2, <3>1
    <3>2. CASE r < RoundOf(e)
      <4>1. Len(n.notarized[r]) < Len(e)
        BY <2>2, <3>2 DEF Rising
      <4>. QED
        BY <1>1, <1>3, <2>2, <4>1
    <3>. QED
      BY <1>3, <2>2, <2>3, <2>6, <3>1, <3>2
  <2>7. Followed(n, d)
    BY <1>2, <1>4, <2>4, <2>5, <2>6 DEF Followed
  <2>. QED
    BY <2>7 DEF d, ack
<1>. QED
    BY <1>5, <1>6

\* A step in which p's tables only build, and its application follows.
LEMMA AlignedStep ==
    ASSUME F = 0, Inv, Inv', Aligned, NEW p \in Peers, NEW c, NEW t, NEW A,
           cons' = [cons EXCEPT ![p] = c], task' = [task EXCEPT ![p] = t],
           Builds(cons[p], c, A), \A a \in A : a \in Block /\ Witnessed(cons, a),
           \A q \in Peers : t.certRpc[q].st = "block" => Witnessed(cons, t.certRpc[q].block),
           Rising(c) => Followed(c, app'[p]), \A q \in Peers : q # p => app'[q] = app[q]
    PROVE  Aligned'
<1>1. /\ cons \in [Peers -> ConsState] /\ cons' \in [Peers -> ConsState]
      /\ task \in [Peers -> TaskState] /\ task' \in [Peers -> TaskState]
    BY DEF Inv, TypeOK
<1>2. /\ cons'[p] = c /\ task'[p] = t
      /\ \A q \in Peers : q # p => cons'[q] = cons[q] /\ task'[q] = task[q]
    BY <1>1
<1>3. /\ \A q \in Peers : WellFormed(cons[q])
      /\ \A q \in Peers : WellFormed(cons'[q])
    BY DEF Inv, VotesAreGenuine
<1>4. /\ \A q \in Peers : Anchored(cons[q])
      /\ \A q \in Peers : \A r \in NotarizedRounds(cons[q]) :
            Witnessed(cons, cons[q].notarized[r])
    BY DEF Aligned
<1>5. c \in ConsState /\ WellFormed(c) /\ Rising(cons[p])
    BY <1>1, <1>2, <1>3, AlignedPeer
<1>6. /\ \A a \in Block : Witnessed(cons, a) => Witnessed(cons', a)
      /\ \A q \in Peers : \A r \in NotarizedRounds(cons'[q]) :
            Witnessed(cons', cons'[q].notarized[r])
    BY <1>1, <1>3, <1>4, <1>5, WitnessStep
<1>7. \A q \in Peers : Anchored(cons'[q])
  <2>1. Anchored(c)
    BY <1>3, <1>4, BuildsAnchored
  <2>. QED
    BY <1>2, <1>4, <2>1
<1>8. ASSUME NEW x \in Peers, NEW q \in Peers, task'[x].certRpc[q].st = "block"
      PROVE  Witnessed(cons', task'[x].certRpc[q].block)
  <2>1. task'[x].certRpc[q].block \in Block
    BY <1>8 DEF Inv, VotesAreGenuine, RepliesGenuine
  <2>2. Witnessed(cons, task'[x].certRpc[q].block)
    BY <1>2, <1>8 DEF Aligned
  <2>. QED
    BY <1>6, <2>1, <2>2
<1>9. Rising(c)
  <2>1. /\ AllSupported(c, Honest, Proposals')
        /\ \A q \in Peers : Proposals'[q] = cons'[q].proposals
    BY <1>2 DEF Inv, VotesAreGenuine, Proposals
  <2>2. \A r \in NotarizedRounds(c) : StoredByAll(cons', c.notarized[r])
    BY <1>5, <2>1, NotarizedByAll
  <2>3. WellFormed(cons'[p]) /\ Anchored(cons'[p])
        /\ \A r \in NotarizedRounds(cons'[p]) :
            /\ Witnessed(cons', cons'[p].notarized[r])
            /\ StoredByAll(cons', cons'[p].notarized[r])
    BY <1>2, <1>3, <1>6, <1>7, <2>2
  <2>4. Rising(cons'[p])
    BY <2>3, ChainOfPeer
  <2>. QED
    BY <1>2, <2>4
<1>10. \A q \in Peers : Followed(cons'[q], app'[q])
    BY <1>2, <1>9 DEF Aligned
<1>. QED
    BY <1>6, <1>7, <1>8, <1>10 DEF Aligned

\* A handler only builds: with F = 0 it has nothing to rewind.
LEMMA HandledBuilds ==
    ASSUME F = 0, Inv, Aligned, NEW p, Running(p), NEW m, Handled(p, m)
    PROVE  \E A : Builds(cons[p], m, A) /\ \A a \in A : a \in Block /\ Witnessed(cons, a)
<1> DEFINE n == cons[p]
<1>1. p \in Honest /\ p \in Peers /\ n.round # MaxRound
    BY RunningPeer
<1>2. /\ WellFormed(n) /\ task[p] \in TaskState /\ RepliesGenuine(task[p], Proposals)
    BY <1>1, InvOfPeer DEF Sound
<1>3. /\ Rising(n)
      /\ \A r \in NotarizedRounds(n) : Witnessed(cons, n.notarized[r])
    BY <1>1, AlignedPeer
<1>4. ASSUME NEW q \in Peers, task[p].certRpc[q].st = "block",
             m = ProcessNotarizedBlock(p, n, task[p].certRpc[q].block, task[p].certRpc[q].sigs)
      PROVE  \E A : Builds(n, m, A) /\ \A a \in A : a \in Block /\ Witnessed(cons, a)
  <2> DEFINE b == task[p].certRpc[q].block
             sigs == task[p].certRpc[q].sigs
  <2>1. /\ b \in Block /\ RoundOf(b) # MaxRound
        /\ \A x \in Honest : sigs[x] \in {NoBlock, Proposals[x][RoundOf(b)]}
    BY <1>2, <1>4 DEF RepliesGenuine
  <2>2. sigs \in [Peers -> OptBlock]
    BY <1>2 DEF TaskState, CertRpc
  <2>3. Witnessed(cons, b)
    BY <1>1, <1>4 DEF Aligned
  <2>4. m = ProcessNotarizedBlock(p, n, b, sigs)
    BY <1>4
  <2>. HIDE DEF n, b, sigs
  <2>5. VerifySigs(b, sigs) =>
            \A x \in NotarizedRounds(n) : x < RoundOf(b) => Len(n.notarized[x]) < Len(b)
    <3>. SUFFICES ASSUME VerifySigs(b, sigs), NEW x \in NotarizedRounds(n), x < RoundOf(b)
                  PROVE  Len(n.notarized[x]) < Len(b)
      OBVIOUS
    <3>1. StoredByAll(cons, b)
      <4>1. \A y \in Honest : sigs[y] \in {NoBlock, cons[y].proposals[RoundOf(b)]}
        BY <2>1 DEF Proposals, Honest
      <4>. QED
        BY <2>1, <4>1, VerifiedByAll
    <3>2. RoundOf(n.notarized[x]) = x
      BY <1>2, NotarizedBelow
    <3>. QED
      BY <1>3, <2>1, <3>1, <3>2, StoredIsLonger
  <2>6. Builds(n, m, {b})
    BY <1>1, <1>2, <1>3, <2>1, <2>2, <2>4, <2>5, ProcessNotarizedBlockBuilds
  <2>. QED
    BY <2>1, <2>3, <2>6
<1>. HIDE DEF n
<1>5. (\E q \in Peers, b \in Block : m = ProcessVote(p, n, q, b)) => Builds(n, m, {})
    BY <1>1, <1>2, ProcessVoteBuilds
<1>6. (\E q \in Peers, b \in Block : m = ProcessProposal(p, n, q, b)) => Builds(n, m, {})
    BY <1>1, <1>2, ProcessProposalBuilds
<1>7. (\E q \in Peers : m = ProcessDummyVote(p, n, q)) => Builds(n, m, {})
    BY <1>1, <1>2, ProcessDummiesBuilds
<1>8. (\E qs \in SUBSET Peers : m = ProcessNotarizedDummy(p, n, qs)) => Builds(n, m, {})
    BY <1>1, <1>2, ProcessDummiesBuilds
<1>9. Builds(n, m, {}) => \E A : Builds(n, m, A) /\ \A a \in A : a \in Block /\ Witnessed(cons, a)
    OBVIOUS
<1>. QED
    BY <1>4, <1>5, <1>6, <1>7, <1>8, <1>9 DEF Handled, n

\* Every step keeps the peers aligned.
LEMMA NextAligned ==
    ASSUME F = 0, Inv, Aligned, [Next]_vars
    PROVE  Aligned'
<1>1. Inv' /\ StepKind /\ Honest = Peers
    BY NextInv, StepKinds, ThresholdIsAll
<1>2. cons \in [Peers -> ConsState] /\ task \in [Peers -> TaskState] /\ app \in [Peers -> AppState]
    BY DEF Inv, TypeOK
<1>3. \A p \in Peers : WellFormed(cons[p]) /\ LogOfBlocks(app[p].log)
    BY DEF Inv, VotesAreGenuine
<1>4. CASE UNCHANGED <<cons, task, app, pins>>
    BY <1>4 DEF Aligned
<1>5. ASSUME NEW p \in Peers, NEW t \in TaskState, SameRound(p, t), NEW q \in Peers,
             t.certRpc[q].st = "block"
      PROVE  Witnessed(cons, t.certRpc[q].block)
  <2> DEFINE b == GetNextNotarizedBlock(cons[q], t.reqMin)
  <2>1. CASE t.certRpc[q] = task[p].certRpc[q]
    BY <1>5, <2>1 DEF Aligned
  <2>2. CASE b # NoBlock /\ t.certRpc[q] = CertBlock(b, cons[q].votes[RoundOf(b)])
    <3>1. cons[q] \in ConsState /\ t.reqMin \in Int
      BY <1>2, RoundsAreNaturals DEF TaskState
    <3>2. \E x \in NotarizedRounds(cons[q]) : b = cons[q].notarized[x]
      BY <2>2, <3>1, NextNotarized
    <3>3. t.certRpc[q].block = b
      BY <2>2 DEF CertBlock
    <3>. QED
      BY <3>2, <3>3 DEF Aligned
  <2>. QED
    BY <1>1, <1>5, <2>1, <2>2 DEF SameRound
<1>6. ASSUME NEW p \in Peers, NEW t \in TaskState, Tasks(p, t)
      PROVE  Aligned'
  <2>1. /\ cons' = [cons EXCEPT ![p] = cons[p]] /\ task' = [task EXCEPT ![p] = t]
        /\ SameRound(p, t) /\ app' = app
    BY <1>2, <1>6 DEF Tasks
  <2>2. PICK A : Builds(cons[p], cons[p], A) /\ \A a \in A : a \in Block /\ Witnessed(cons, a)
    <3>1. Builds(cons[p], cons[p], {})
      BY BuildsStays DEF SameChain
    <3>. QED
      BY <3>1
  <2>3. Followed(cons[p], app'[p])
    BY <2>1 DEF Aligned
  <2>4. \A q \in Peers : t.certRpc[q].st = "block" => Witnessed(cons, t.certRpc[q].block)
    BY <1>5, <2>1
  <2>5. \A q \in Peers : q # p => app'[q] = app[q]
    BY <2>1
  <2>. QED
    BY <1>1, <2>1, <2>2, <2>3, <2>4, <2>5, AlignedStep
<1>7. ASSUME NEW p \in Peers, NEW m \in ConsState, NEW t \in TaskState, Handles(p, m, t)
      PROVE  Aligned'
  <2> DEFINE c == IF PinsHold(p, cons[p], m) THEN m ELSE cons[p]
             u == IF c.round # cons[p].round THEN StartRound(p, c) ELSE t
  <2>1. /\ cons' = [cons EXCEPT ![p] = c] /\ task' = [task EXCEPT ![p] = u] /\ app' = app
        /\ SameRound(p, t) /\ Running(p) /\ Handled(p, m)
    BY <1>7 DEF Handles, Commit
  <2>2. \E A : Builds(cons[p], m, A) /\ \A a \in A : a \in Block /\ Witnessed(cons, a)
    BY <2>1, HandledBuilds
  <2>3. Builds(cons[p], cons[p], {}) /\ \A a \in {} : a \in Block /\ Witnessed(cons, a)
    BY BuildsStays DEF SameChain
  <2>4. \E A : Builds(cons[p], c, A) /\ \A a \in A : a \in Block /\ Witnessed(cons, a)
    BY <2>2, <2>3
  <2>5. PICK A : Builds(cons[p], c, A) /\ \A a \in A : a \in Block /\ Witnessed(cons, a)
    BY <2>4
  <2>6. u = t \/ u = StartRound(p, c)
    OBVIOUS
  <2>. HIDE DEF c, u
  <2>7. WellFormed(c)
    <3>1. cons'[p] = c
      BY <1>2, <2>1
    <3>. QED
      BY <1>1, <3>1 DEF Inv, VotesAreGenuine
  <2>8. \A q \in Peers : u.certRpc[q].st = "block" => Witnessed(cons, u.certRpc[q].block)
    BY <1>5, <2>1, <2>6, <2>7, StartRoundReached
  <2>9. Followed(c, app'[p]) /\ \A q \in Peers : q # p => app'[q] = app[q]
    BY <1>2, <1>3, <2>1, <2>5, FollowedBuilds DEF Aligned
  <2>. QED
    BY <1>1, <2>1, <2>5, <2>8, <2>9, AlignedStep
<1>8. ASSUME NEW p \in Peers, NEW q \in Peers, NEW v \in Rounds, HearsFinality(p, q, v)
      PROVE  Aligned'
  <2> DEFINE c == UpdatePeerFinalityVoteRound(cons[p], q, v)
  <2>1. /\ cons' = [cons EXCEPT ![p] = c] /\ task' = [task EXCEPT ![p] = task[p]] /\ app' = app
    BY <1>2, <1>8 DEF HearsFinality, SetFinalityVote
  <2>2. SameChain(cons[p], c)
    BY <1>2, FinalityVoteFields
  <2>. HIDE DEF c
  <2>3. PICK A : Builds(cons[p], c, A) /\ \A a \in A : a \in Block /\ Witnessed(cons, a)
    <3>1. Builds(cons[p], c, {})
      BY <2>2, BuildsStays
    <3>. QED
      BY <3>1
  <2>4. Followed(c, app'[p]) /\ \A x \in Peers : x # p => app'[x] = app[x]
    BY <1>2, <1>3, <2>1, <2>3, FollowedBuilds DEF Aligned
  <2>5. \A x \in Peers : task[p].certRpc[x].st = "block" => Witnessed(cons, task[p].certRpc[x].block)
    BY DEF Aligned
  <2>. QED
    BY <1>1, <2>1, <2>3, <2>4, <2>5, AlignedStep
<1>9. ASSUME NEW p \in Peers, AckAndWaitNextBlock(p)
      PROVE  Aligned'
  <2> DEFINE b == GetNextNotarizedBlock(cons[p], app[p].ack)
  <2>1. /\ UNCHANGED <<cons, task>> /\ b # NoBlock
        /\ \/ app' = [app EXCEPT ![p] = [ack |-> RoundOf(b) + 1, log |-> Append(@.log, b)]]
           \/ app' = [app EXCEPT ![p].ack = RoundOf(b)]
    BY <1>9 DEF AckAndWaitNextBlock
  <2>2. /\ Followed(cons[p], [ack |-> RoundOf(b) + 1, log |-> Append(app[p].log, b)])
        /\ Followed(cons[p], [ack |-> RoundOf(b), log |-> app[p].log])
    <3>1. WellFormed(cons[p]) /\ Rising(cons[p]) /\ Chained(cons[p])
      BY AlignedPeer
    <3>2. app[p] \in AppState /\ LogOfBlocks(app[p].log) /\ Followed(cons[p], app[p])
      BY <1>2, <1>3 DEF Aligned
    <3>. QED
      BY <2>1, <3>1, <3>2, FollowedAck
  <2>. HIDE DEF b
  <2>3. \A q \in Peers : q # p => app'[q] = app[q]
    BY <1>2, <2>1
  <2>4. \/ app'[p] = [ack |-> RoundOf(b) + 1, log |-> Append(app[p].log, b)]
        \/ app'[p] = [ack |-> RoundOf(b), log |-> app[p].log]
    <3>1. app[p] \in [ack : Rounds, log : Seq(OptBlock)]
      BY <1>2 DEF AppState
    <3>. QED
      BY <1>2, <2>1, <3>1
  <2>5. Followed(cons[p], app'[p])
    BY <2>2, <2>4
  <2>. QED
    BY <2>1, <2>3, <2>5 DEF Aligned
<1>10. ASSUME NEW p \in Peers, Restart(p)
      PROVE  Aligned'
  <2> DEFINE c == OpenInternal(p, cons[p])
             t == StartRound(p, c)
             a == app[p]
             ack == IF a.log = <<>> THEN 0 ELSE RoundAfter(a.log[Len(a.log)])
             d == [a EXCEPT !.ack = ack]
  <2>1. /\ cons' = [cons EXCEPT ![p] = c] /\ task' = [task EXCEPT ![p] = t]
        /\ app' = [app EXCEPT ![p].ack = ack]
    BY <1>10 DEF Restart
  <2>. HIDE DEF c
  <2>2. PICK A : Builds(cons[p], c, A) /\ \A x \in A : x \in Block /\ Witnessed(cons, x)
    <3>1. Builds(cons[p], c, {})
      BY <1>3, OpenInternalBuilds DEF c
    <3>. QED
      BY <3>1
  <2>3. WellFormed(c)
    <3>1. cons'[p] = c
      BY <1>2, <2>1
    <3>. QED
      BY <1>1, <3>1 DEF Inv, VotesAreGenuine
  <2>4. \A q \in Peers : t.certRpc[q].st = "block" => Witnessed(cons, t.certRpc[q].block)
    BY <2>3, StartRoundReached
  <2>. HIDE DEF t
  <2>5. a \in AppState /\ LogOfBlocks(a.log) /\ Followed(c, a)
    BY <1>2, <1>3, <2>2, FollowedBuilds DEF Aligned
  <2>6. app'[p] = d /\ \A q \in Peers : q # p => app'[q] = app[q]
    BY <1>2, <2>1
  <2>7. Rising(c) => Followed(c, d)
    BY <2>3, <2>5, FollowedRestart
  <2>. HIDE DEF a, ack, d
  <2>. QED
    BY <1>1, <2>1, <2>2, <2>4, <2>6, <2>7, AlignedStep
<1>. QED
    BY <1>1, <1>4, <1>6, <1>7, <1>8, <1>9, <1>10 DEF StepKind

\* New databases hold no block.
LEMMA InitAligned == Init => Aligned
<1>. SUFFICES ASSUME Init, NEW p \in Peers
              PROVE  /\ Anchored(cons[p])
                     /\ \A r \in NotarizedRounds(cons[p]) : Witnessed(cons, cons[p].notarized[r])
                     /\ \A q \in Peers : task[p].certRpc[q].st = "block" =>
                            Witnessed(cons, task[p].certRpc[q].block)
                     /\ Followed(cons[p], app[p])
    BY DEF Aligned
<1>1. /\ cons[p] = OpenInternal(p, InitTables) /\ task[p] = StartRound(p, InitTables)
      /\ app[p] = [ack |-> 0, log |-> <<>>]
    BY DEF Init
<1>2. Sound(InitTables, Honest, Proposals) /\ Honest \in SUBSET Peers
    BY InitTablesSound DEF Honest
<1>3. cons[p].proposals = InitTables.proposals
    BY <1>1, <1>2, OpenInternalSound
<1>4. \A r \in Rounds : InitTables.proposals[r] = NoBlock
    BY DEF InitTables
<1>5. NotarizedRounds(InitTables) = {}
    BY DEF InitTables, NotarizedRounds
<1>6. Builds(InitTables, cons[p], {})
    BY <1>1, <1>2, OpenInternalBuilds DEF Sound
<1>7. NotarizedRounds(cons[p]) = {}
    BY <1>3, <1>4, <1>5, <1>6 DEF Builds, NotarizedRounds
<1>8. \A q \in Peers : task[p].certRpc[q].st # "block"
    BY <1>1, <1>2, StartRoundReached DEF Sound
<1>9. Followed(cons[p], app[p])
    BY <1>1, <1>7 DEF Followed, Reaches
<1>. QED
    BY <1>3, <1>4, <1>7, <1>8, <1>9 DEF Anchored

\* Both invariants together.
LEMMA AlignedAlways ==
    ASSUME F = 0
    PROVE  Spec => [](Inv /\ Aligned)
<1>1. Inv /\ Aligned /\ [Next]_vars => Inv' /\ Aligned'
    BY NextInv, NextAligned
<1>. QED
    BY InitInv, InitAligned, <1>1, PTL DEF Spec

\* In a federation that tolerates no faulty peer, the notarized blocks of a peer
\* form one chain, although a peer that adopts a block of a later round may
\* have missed earlier ones (process_notarized_block_response).
THEOREM ChainsAreLinear ==
    ASSUME F = 0
    PROVE  Spec => []NotarizedChain
<1>1. Inv /\ Aligned => NotarizedChain
    BY AlignedPeer, ThresholdIsAll DEF NotarizedChain, Chained
<1>. QED
    BY AlignedAlways, <1>1, PTL

\* There, what an application has processed stays in its peer's chain.
THEOREM FinalStaysFinal ==
    ASSUME F = 0
    PROVE  Spec => []FinalIsIrreversible
<1>1. Inv /\ Aligned => FinalIsIrreversible
  <2>. SUFFICES ASSUME Inv, Aligned, NEW p \in Honest, NEW b \in Range(app[p].log)
                PROVE  cons[p].notarized[RoundOf(b)] = b
    BY DEF FinalIsIrreversible
  <2>1. PICK i \in DOMAIN app[p].log : b = app[p].log[i]
    BY DEF Range
  <2>. QED
    BY <2>1, ThresholdIsAll DEF Aligned, Followed
<1>. QED
    BY AlignedAlways, <1>1, PTL

\* And the applications of any two peers process the same blocks in the same
\* order, restarts included (ack_and_wait_next_block).
THEOREM ApplicationsAgree ==
    ASSUME F = 0
    PROVE  Spec => []LogsAgree
<1>1. ASSUME Inv, Aligned, NEW p \in Peers, NEW q \in Peers,
             NEW i \in DOMAIN app[p].log \cap DOMAIN app[q].log
      PROVE  ~(RoundOf(app[p].log[i]) < RoundOf(app[q].log[i]))
  <2> DEFINE a == app[p].log[i]
             b == app[q].log[i]
  <2>1. /\ Len(a) = i /\ cons[p].notarized[RoundOf(a)] = a /\ a \in Block
        /\ Len(b) = i /\ cons[q].notarized[RoundOf(b)] = b /\ b \in Block
    BY <1>1 DEF Aligned, Followed, Inv, VotesAreGenuine, LogOfBlocks
  <2>. HIDE DEF a, b
  <2>2. RoundOf(a) \in NotarizedRounds(cons[p]) /\ RoundOf(b) \in NotarizedRounds(cons[q])
    BY <2>1, BlockRound DEF NotarizedRounds, Block
  <2>3. Witnessed(cons, a) /\ StoredByAll(cons, b)
    BY <1>1, <2>1, <2>2, AlignedPeer
  <2>4. RoundOf(a) < RoundOf(b) => Len(a) < Len(b)
    BY <2>1, <2>3, StoredIsLonger
  <2>5. Len(a) \in Nat /\ Len(a) = Len(b)
    BY <2>1, BlockRound
  <2>. QED
    BY <2>4, <2>5 DEF a, b
<1>2. Inv /\ Aligned => LogsAgree
  <2>. SUFFICES ASSUME Inv, Aligned, NEW p \in Peers, NEW q \in Peers,
                       NEW i \in DOMAIN app[p].log \cap DOMAIN app[q].log
                PROVE  app[p].log[i] = app[q].log[i]
    BY ThresholdIsAll DEF LogsAgree
  <2> DEFINE a == app[p].log[i]
             b == app[q].log[i]
  <2>1. /\ cons[p].notarized[RoundOf(a)] = a /\ a \in Block
        /\ cons[q].notarized[RoundOf(b)] = b /\ b \in Block
    BY DEF Aligned, Followed, Inv, VotesAreGenuine, LogOfBlocks
  <2>2. ~(RoundOf(a) < RoundOf(b)) /\ ~(RoundOf(b) < RoundOf(a))
    BY <1>1
  <2>. HIDE DEF a, b
  <2>3. RoundOf(a) \in NotarizedRounds(cons[p]) /\ RoundOf(b) \in NotarizedRounds(cons[q])
    BY <2>1, BlockRound DEF NotarizedRounds, Block
  <2>4. RoundOf(a) = RoundOf(b)
    BY <2>1, <2>2, BlockRound, RoundsAreNaturals
  <2>5. StoredByAll(cons, a) /\ StoredByAll(cons, b)
    BY <2>1, <2>3, AlignedPeer
  <2>6. a = b
    BY <2>4, <2>5 DEF StoredByAll
  <2>. QED
    BY <2>6 DEF a, b
<1>. QED
    BY AlignedAlways, <1>2, PTL

-----------------------------------------------------------------------------
(***************************************************************************)
(* Pins, in federations that tolerate no faulty peer.  Only a transaction  *)
(* of a round checks the pins; a restart runs check_round_end without.     *)
(***************************************************************************)
\* No round is left that a restart could end, and the pins hold so far.
Expected == (\A p \in Peers : Settled(cons[p])) /\ PinsRespected

\* A step of p's tables that only builds and checks the rounds it ends.
LEMMA ExpectedStep ==
    ASSUME Inv, Inv', Expected, NEW p \in Peers, NEW c, NEW A,
           cons' = [cons EXCEPT ![p] = c], pins' = pins,
           Builds(cons[p], c, A), Settled(c), PinsHold(p, cons[p], c)
    PROVE  Expected'
<1>1. /\ cons \in [Peers -> ConsState] /\ cons' \in [Peers -> ConsState]
      /\ pins \in [Peers -> SUBSET Block]
    BY DEF Inv, TypeOK
<1>2. cons'[p] = c /\ \A q \in Peers : q # p => cons'[q] = cons[q]
    BY <1>1
<1>3. cons[p].round \in Nat /\ c.round \in Nat
    BY <1>1, <1>2, RoundsAreNaturals DEF ConsState
<1>4. ASSUME NEW b \in pins[p], p \in Honest, RoundOf(b) < c.round
      PROVE  c.notarized[RoundOf(b)] = b
  <2>1. RoundOf(b) \in Rounds /\ RoundOf(b) \in Nat /\ b # NoBlock
    BY <1>1, BlockRound, RoundsAreNaturals DEF Block
  <2>2. CASE RoundOf(b) < cons[p].round
    <3>1. cons[p].notarized[RoundOf(b)] = b
      BY <1>4, <2>2 DEF Expected, PinsRespected
    <3>2. RoundOf(b) \in NotarizedRounds(cons[p])
      BY <2>1, <3>1 DEF NotarizedRounds
    <3>. QED
      BY <3>1, <3>2 DEF Builds
  <2>3. CASE ~(RoundOf(b) < cons[p].round)
    <3>1. RoundOf(b) \in cons[p].round .. (c.round - 1)
      BY <1>3, <1>4, <2>1, <2>3
    <3>. QED
      BY <3>1 DEF PinsHold
  <2>. QED
    BY <2>2, <2>3
<1>5. PinsRespected'
    BY <1>2, <1>4 DEF PinsRespected, Expected, Honest
<1>6. \A q \in Peers : Settled(cons'[q])
    BY <1>2 DEF Expected
<1>. QED
    BY <1>5, <1>6 DEF Expected

\* A handler leaves no round that could have ended.
LEMMA HandledSettled ==
    ASSUME F = 0, Inv, Expected, NEW p, Running(p), NEW m, Handled(p, m)
    PROVE  Settled(m)
<1> DEFINE n == cons[p]
<1>1. p \in Honest /\ p \in Peers /\ n.round # MaxRound
    BY RunningPeer
<1>2. /\ Sound(n, Honest, Proposals) /\ Proposals[p] = n.proposals /\ n.round \in Rounds
      /\ task[p] \in TaskState /\ RepliesGenuine(task[p], Proposals)
    BY <1>1, InvOfPeer
<1>3. WellFormed(n) /\ Settled(n) /\ T = Cardinality(Peers)
    BY <1>1, <1>2, QuorumSize DEF Sound, Expected
<1>4. n.proposals[n.round] = NoBlock => n.votes[n.round][p] = NoBlock
    BY <1>1, <1>2 DEF Sound, Genuine
<1>5. \A q \in Peers : task[p].certRpc[q].st = "block" =>
        /\ task[p].certRpc[q].block \in Block /\ RoundOf(task[p].certRpc[q].block) # MaxRound
        /\ task[p].certRpc[q].sigs \in [Peers -> OptBlock]
    BY <1>2 DEF RepliesGenuine, TaskState, CertRpc
<1>. HIDE DEF n
<1>6. \A q \in Peers, b \in Block : Settled(ProcessProposal(p, n, q, b))
    BY <1>1, <1>3, <1>4, ProcessProposalSettled
<1>7. /\ \A q \in Peers, b \in Block : Settled(ProcessVote(p, n, q, b))
      /\ \A q \in Peers : Settled(ProcessDummyVote(p, n, q))
      /\ \A qs \in SUBSET Peers : Settled(ProcessNotarizedDummy(p, n, qs))
      /\ \A b \in Block, sigs \in [Peers -> OptBlock] :
            RoundOf(b) # MaxRound => Settled(ProcessNotarizedBlock(p, n, b, sigs))
    BY <1>1, <1>3, HandlersSettled
<1>. QED
    BY <1>5, <1>6, <1>7 DEF Handled, n

\* Every step keeps the pins.
LEMMA NextExpected ==
    ASSUME F = 0, Inv, Aligned, Expected, [Next]_vars
    PROVE  Expected'
<1>1. Inv' /\ StepKind /\ Honest = Peers
    BY NextInv, StepKinds, ThresholdIsAll
<1>2. cons \in [Peers -> ConsState]
    BY DEF Inv, TypeOK
<1>3. ASSUME UNCHANGED <<cons, pins>>
      PROVE  Expected'
    BY <1>3 DEF Expected, PinsRespected
<1>4. ASSUME NEW p \in Peers, NEW m \in ConsState, NEW t \in TaskState, Handles(p, m, t)
      PROVE  Expected'
  <2> DEFINE c == IF PinsHold(p, cons[p], m) THEN m ELSE cons[p]
  <2>1. /\ cons' = [cons EXCEPT ![p] = c] /\ pins' = pins
        /\ Running(p) /\ Handled(p, m)
    BY <1>4 DEF Handles, Commit
  <2>2. CASE PinsHold(p, cons[p], m)
    <3>1. PICK A : Builds(cons[p], m, A)
      BY <2>1, HandledBuilds
    <3>2. Settled(m)
      BY <2>1, HandledSettled
    <3>. QED
      BY <1>1, <2>1, <2>2, <3>1, <3>2, ExpectedStep
  <2>3. CASE ~PinsHold(p, cons[p], m)
    <3>1. UNCHANGED <<cons, pins>>
      BY <1>2, <2>1, <2>3
    <3>. QED
      BY <1>3, <3>1
  <2>. QED
    BY <2>2, <2>3
<1>5. ASSUME NEW p \in Peers, NEW c, NEW A, cons' = [cons EXCEPT ![p] = c], pins' = pins,
             Builds(cons[p], c, A), Settled(c), c.round = cons[p].round
      PROVE  Expected'
  <2>1. cons[p].round \in Int
    BY <1>2, RoundsAreNaturals DEF ConsState
  <2>2. PinsHold(p, cons[p], c)
    BY <1>5, <2>1 DEF PinsHold
  <2>. QED
    BY <1>1, <1>5, <2>2, ExpectedStep
<1>6. ASSUME NEW p \in Peers, NEW q \in Peers, NEW v \in Rounds, HearsFinality(p, q, v)
      PROVE  Expected'
  <2> DEFINE c == UpdatePeerFinalityVoteRound(cons[p], q, v)
  <2>1. cons' = [cons EXCEPT ![p] = c] /\ pins' = pins
    BY <1>6 DEF HearsFinality, SetFinalityVote
  <2>2. cons[p] \in ConsState /\ cons[p].round \in Rounds
    BY <1>2 DEF ConsState
  <2>3. SameChain(cons[p], c) /\ \A r \in Rounds : c.dummies[r] \subseteq cons[p].dummies[r]
    BY <2>2, FinalityVoteFields
  <2>. HIDE DEF c
  <2>4. Settled(c)
    BY <2>2, <2>3, FewerVotes DEF Expected
  <2>5. Builds(cons[p], c, {}) /\ c.round = cons[p].round
    BY <2>3, BuildsStays DEF SameChain
  <2>. QED
    BY <1>5, <2>1, <2>4, <2>5
<1>7. ASSUME NEW p \in Peers, Restart(p)
      PROVE  Expected'
  <2> DEFINE c == OpenInternal(p, cons[p])
  <2>1. cons' = [cons EXCEPT ![p] = c] /\ pins' = pins
    BY <1>7 DEF Restart
  <2>2. WellFormed(cons[p]) /\ Settled(cons[p])
    BY DEF Inv, VotesAreGenuine, Expected
  <2>3. Settled(c) /\ c.round = cons[p].round
    BY <2>2, OpenInternalSettled
  <2>4. Builds(cons[p], c, {})
    BY <2>2, OpenInternalBuilds
  <2>. HIDE DEF c
  <2>. QED
    BY <1>5, <2>1, <2>3, <2>4
<1>8. ASSUME NEW p \in Peers, AckAndWaitNextBlock(p)
      PROVE  Expected'
    BY <1>3, <1>8 DEF AckAndWaitNextBlock
<1>9. ASSUME NEW p \in Peers, NEW t \in TaskState, Tasks(p, t)
      PROVE  Expected'
    BY <1>3, <1>9 DEF Tasks
<1>. QED
    BY <1>1, <1>3, <1>4, <1>6, <1>7, <1>8, <1>9 DEF StepKind

\* A federation that tolerates no faulty peer: a peer told to expect a block does
\* not get past its round without it, restarts included, although they run
\* check_round_end without looking at the pins (open_internal).
THEOREM PinsAreRespected ==
    ASSUME F = 0
    PROVE  Spec => []PinsRespected
<1>1. Init => Expected
  <2>. SUFFICES ASSUME Init, NEW p \in Peers
                PROVE  Settled(cons[p]) /\ cons[p].round = 0
    <3>1. \A b \in Block : ~(RoundOf(b) < 0)
      BY BlockRound, RoundsAreNaturals
    <3>2. Init => pins \in [Peers -> SUBSET Block]
      BY InitInv DEF Inv, TypeOK
    <3>. QED
      BY <3>1, <3>2 DEF Expected, PinsRespected, Honest
  <2>1. cons[p] = OpenInternal(p, InitTables)
    BY DEF Init
  <2>2. WellFormed(InitTables)
    BY InitTablesSound DEF Sound, Honest
  <2>3. Settled(InitTables) /\ InitTables.round = 0
    <3>1. InitTables.round = 0 /\ InitTables.proposals[0] = NoBlock /\ InitTables.dummies[0] = {}
      BY RoundsAreNaturals DEF InitTables
    <3>. QED
      BY <3>1, FewerVotes DEF Settled, HasProposalQuorum
  <2>. QED
    BY <2>1, <2>2, <2>3, OpenInternalSettled
<1>2. Inv /\ Aligned /\ Expected /\ [Next]_vars => Expected'
    BY NextExpected
<1>3. Expected => PinsRespected
    BY DEF Expected
<1>. QED
    BY AlignedAlways, <1>1, <1>2, <1>3, PTL DEF Spec

=============================================================================
