---------------------------- MODULE FinalityTable ----------------------------
(***************************************************************************)
(* Finality on one node while members come and go: the finality votes the  *)
(* node heard of, the finality they amount to as the database holds it,    *)
(* and the watch channel that the application waits on                     *)
(* (crates/consensus/src/consensus/handle_finality_vote.rs).  Consensus    *)
(* models the same code for fixed members; here they change, as parameters *)
(* apply from a round.                                                     *)
(*                                                                         *)
(* `peak` is the channel's greatest value since the process started, and   *)
(* `past` what has happened: a vote for an earlier round than the one      *)
(* before it ("back"), a member that left ("left").                        *)
(***************************************************************************)
EXTENDS Integers, FiniteSets, NumPeers

CONSTANTS
    Peers,          \* every peer that is ever a member
    InitMembers,
    Faulty,         \* peers whose votes follow no rule
    Self,           \* this node's own key
    MaxVote,        \* bound: rounds that are voted for
    MaxChanges      \* bound: changes of the members

ASSUME FinalityAssumption ==
    /\ IsFiniteSet(Peers)
    /\ InitMembers \in SUBSET Peers /\ Self \in InitMembers \ Faulty
    /\ MaxVote \in Nat /\ MaxChanges \in Nat

Votes   == 0 .. MaxVote
Missing == -1

VARIABLES
    members,    \* the peers of the current round's parameters
    asked,      \* the peers that have a finality vote query task
    votes,      \* cons_finality_votes
    table,      \* cons_finality_consensus
    channel,    \* finality_consensus_tx
    peak, past, changes

vars == <<members, asked, votes, table, channel, peak, past, changes>>

TypeOK ==
    /\ members \in SUBSET Peers /\ Self \in members
    /\ asked \in SUBSET Peers
    /\ votes \in [Peers -> Votes \cup {Missing}]
    /\ table \in Votes /\ channel \in Votes /\ peak \in Votes
    /\ past \in SUBSET {"back", "left"}
    /\ changes \in 0 .. MaxChanges

Init ==
    /\ members = InitMembers /\ asked = InitMembers
    /\ votes = [p \in Peers |-> Missing]
    /\ table = 0 /\ channel = 0 /\ peak = 0
    /\ past = {} /\ changes = 0

-----------------------------------------------------------------------------
(* Operations                                                               *)

\* The members S that vote for v or a later round; a missing vote counts as 0.
Backers(vs, S, v) == {p \in S : v = 0 \/ vs[p] >= v}

\* Mutant: the members' least vote.
FinalityOfAll(vs, S) ==
    CHOOSE v \in Votes :
        /\ Backers(vs, S, v) = S
        /\ \A w \in Votes : w > v => Backers(vs, S, w) # S

\* Mutant: members that have not voted are not counted.
FinalityOfVoters(vs, S) ==
    LET voters == {p \in S : vs[p] # Missing}
    IN  CHOOSE v \in Votes :
            /\ Cardinality(Backers(vs, voters, v)) >= Threshold(Cardinality(voters))
            /\ \A w \in Votes : w > v =>
                  Cardinality(Backers(vs, voters, w)) < Threshold(Cardinality(voters))

\* The votes of the members S in ascending order, at index max_faulty: the
\* greatest round that all but max_faulty of them vote for.
FinalityOf(vs, S) ==
    CHOOSE v \in Votes :
        /\ Cardinality(Backers(vs, S, v)) >= Threshold(Cardinality(S))
        /\ \A w \in Votes : w > v => Cardinality(Backers(vs, S, w)) < Threshold(Cardinality(S))

\* recalculate_finality_consensus_tx, with `sent` in the channel: the table
\* takes the new value whatever it is, and the channel is told when it is
\* greater than the one the table had.
RecalculateFinalityConsensus(vs, sent) ==
    /\ table' = FinalityOf(vs, members)
    /\ channel' = IF FinalityOf(vs, members) > table THEN FinalityOf(vs, members) ELSE sent

\* update_peer_finality_vote_round: the vote is stored even if it goes back,
\* but only a greater one is acted on.
UpdatePeerFinalityVoteRound(p, v, sent) ==
    /\ votes' = [votes EXCEPT ![p] = v]
    /\ IF v > votes[p] THEN RecalculateFinalityConsensus([votes EXCEPT ![p] = v], sent)
       ELSE channel' = sent /\ UNCHANGED table

\* A vote of peer p arrives, or of this node itself.
FinalityVote(p, v) ==
    /\ p \in asked
    /\ p \notin Faulty => v > votes[p]
    /\ UpdatePeerFinalityVoteRound(p, v, channel)
    /\ peak' = IF channel' > peak THEN channel' ELSE peak
    /\ past' = IF v < votes[p] THEN past \cup {"back"} ELSE past
    /\ UNCHANGED <<members, asked, changes>>

\* The current round reaches one that other parameters apply from.
ChangeMembers(S) ==
    /\ changes < MaxChanges
    /\ S # members /\ Self \in S
    /\ members' = S /\ asked' = asked \cup S
    /\ past' = IF members \subseteq S THEN past ELSE past \cup {"left"}
    /\ changes' = changes + 1
    /\ UNCHANGED <<votes, table, channel, peak>>

\* Mutant: the channel is created empty.
OpenInternalFromZero(v) ==
    /\ v >= votes[Self]
    /\ UpdatePeerFinalityVoteRound(Self, v, 0)
    /\ peak' = channel'
    /\ UNCHANGED <<members, asked, past, changes>>

\* open_internal: the channel is created with the table's value, and the node's
\* own vote, which may not have been written before, is stored.
OpenInternal(v) ==
    /\ v >= votes[Self]
    /\ UpdatePeerFinalityVoteRound(Self, v, table)
    /\ peak' = channel'
    /\ UNCHANGED <<members, asked, past, changes>>

Next ==
    \/ \E p \in Peers, v \in Votes : FinalityVote(p, v)
    \/ \E S \in SUBSET Peers : ChangeMembers(S)
    \/ \E v \in Votes : OpenInternal(v)

Spec == Init /\ [][Next]_vars

\* Every correct member keeps notarizing blocks and voting past them, and its
\* votes are asked for again and again (run_round_finality_vote_query).
FairSpec ==
    /\ Spec
    /\ \A p \in Peers \ Faulty : WF_vars(\E v \in Votes : FinalityVote(p, v))

-----------------------------------------------------------------------------
(* Properties                                                               *)

\* What the database holds to be final, the application has been told of, also
\* after a restart: the channel is never behind the table, whatever order votes,
\* backward votes and changes of the members come in
\* (recalculate_finality_consensus_tx, open_internal).
ChannelCovers == table <= channel

\* While the members stay the same and nobody has voted backwards, nothing that was
\* announced as final is taken back, restarts included.
FinalityForward ==
    [][(changes' = 0 /\ "back" \notin past') => channel' >= channel]_vars

\* Finality reaches the last round the correct members vote for although
\* members join and up to max_faulty of them vote as they like, backwards too,
\* as long as nobody leaves (update_peer_finality_vote_round).
FinalityReached ==
    []("left" \notin past /\ Cardinality(members \cap Faulty) <= MaxFaulty(Cardinality(members)))
        => <>(channel = MaxVote)

\* Does not hold: the channel never goes back, "Just ignore the new, backward
\* consensus".
ChannelNeverBack == channel = peak

=============================================================================
