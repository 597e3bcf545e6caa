-------------------------------- MODULE Meta --------------------------------
(***************************************************************************)
(* The meta module (crates/modules/meta): members vote on values for keys. *)
(* `values` and `votes` are replicated tables, of which one copy stands    *)
(* for all nodes; `peers` is the set of members the application passes to  *)
(* the module; `pending[p]` are the values peer p's operator proposed; and *)
(* `pipeline` are blocks on their way to finality, oldest first.           *)
(* `wanted[p]` records every value the operator of p ever proposed, `left` *)
(* the peers that were removed.                                            *)
(*                                                                         *)
(* Some transactions open a table a second time while it is open.  Whether *)
(* the store goes along is not for this code to say, so it may or may not; *)
(* if not, every node stops with the transaction rolled back.              *)
(***************************************************************************)
EXTENDS Integers, Sequences, FiniteSets, NumPeers

CONSTANTS
    Peers, InitPeers,
    MaxKey,         \* the keys are 1 .. MaxKey
    Values,
    Absent,         \* no vote, no value
    MaxCalls,       \* bound: proposals of operators
    MaxChanges,     \* bound: changes of the set of members
    MaxPipeline     \* bound: blocks on their way

ASSUME MetaAssumption ==
    /\ IsFiniteSet(Peers) /\ InitPeers \in SUBSET Peers /\ InitPeers # {}
    /\ MaxKey \in Nat
    /\ Absent \notin Values
    /\ MaxCalls \in Nat /\ MaxChanges \in Nat /\ MaxPipeline \in Nat

Keys == 1 .. MaxKey

\* An item for a key, and the items of a block, at most one for a key, which
\* come in the order of the keys.
CItem == [op : {"propose"}, value : Values] \cup [op : {"approve"}, peer : Peers]
CItems == UNION {[K -> CItem] : K \in (SUBSET Keys) \ {{}}}
Block == [peer : Peers, items : CItems]

VARIABLES
    peers, left, values, votes, pending, pipeline,
    panicked,       \* a node met an error of the store, which it does not survive
    wanted, calls, changes

vars == <<peers, left, values, votes, pending, pipeline, panicked, wanted, calls, changes>>

OptValue == Values \cup {Absent}

TypeOK ==
    /\ peers \in SUBSET Peers /\ left \in SUBSET Peers
    /\ values \in [Keys -> OptValue]
    /\ votes \in [Keys -> [Peers -> OptValue]]
    /\ pending \in [Peers -> [Keys -> OptValue]]
    /\ pipeline \in Seq(Block)
    /\ panicked \in BOOLEAN
    /\ wanted \in [Peers -> [Keys -> SUBSET Values]]
    /\ calls \in 0 .. MaxCalls /\ changes \in 0 .. MaxChanges

Init ==
    /\ peers = InitPeers /\ left = {}
    /\ values = [k \in Keys |-> Absent]
    /\ votes = [k \in Keys |-> [p \in Peers |-> Absent]]
    /\ pending = [p \in Peers |-> [k \in Keys |-> Absent]]
    /\ pipeline = <<>>
    /\ panicked = FALSE
    /\ wanted = [p \in Peers |-> [k \in Keys |-> {}]]
    /\ calls = 0 /\ changes = 0

-----------------------------------------------------------------------------
(* Votes and what becomes of them                                           *)

Backers(table, v, S) == {p \in S : table[p] = v}

ThresholdReached(table, v, S) ==
    Cardinality(Backers(table, v, S)) >= Threshold(Cardinality(S))

\* The key takes value v: members' votes for it are dropped, and so is every
\* node's pending value for the key, whichever it is.
Agree(k, v, S, table) ==
    /\ values' = [values EXCEPT ![k] = v]
    /\ votes' = [votes EXCEPT ![k] = [p \in Peers |-> IF p \in S THEN Absent ELSE table[p]]]
    /\ pending' = [p \in Peers |-> [pending[p] EXCEPT ![k] = Absent]]

\* process_citem_vote_key_value
VoteKeyValue(k, p, v) ==
    LET recorded == [votes[k] EXCEPT ![p] = v]
    IN  IF votes[k][p] # v /\ ThresholdReached(recorded, v, peers)
        THEN Agree(k, v, peers, recorded)
        ELSE votes' = [votes EXCEPT ![k] = recorded] /\ UNCHANGED <<values, pending>>

\* Mutant: an approval is checked but not recorded as the approver's vote.
ApproveVoteUnrecorded(k, p, q) ==
    IF votes[k][q] # Absent /\ ThresholdReached(votes[k], votes[k][q], peers)
    THEN Agree(k, votes[k][q], peers, votes[k]) /\ UNCHANGED panicked
    ELSE UNCHANGED <<values, votes, pending, panicked>>

\* The store refuses to open a table twice.
Panic ==
    /\ panicked' = TRUE
    /\ UNCHANGED <<peers, left, values, votes, pending>>

\* process_citem_approve_vote: the voter takes over the vote q has now.  The
\* table of votes stays open while the vote is processed, which opens it again.
ApproveVote(k, p, q) ==
    IF votes[k][q] = Absent THEN UNCHANGED <<values, votes, pending, panicked>>
    ELSE Panic \/ (VoteKeyValue(k, p, votes[k][q]) /\ UNCHANGED panicked)

\* The keys whose votes have become sufficient with members S, left alone when
\* they have a value already.
Rechecked(S) ==
    {k \in Keys : values[k] = Absent /\ \E v \in Values : ThresholdReached(votes[k], v, S)}

QuorumValue(k, S) == CHOOSE v \in Values : ThresholdReached(votes[k], v, S)

\* The keys in K take the value that members S back.
AgreeOn(K, S) ==
    /\ values' = [k \in Keys |-> IF k \in K THEN QuorumValue(k, S) ELSE values[k]]
    /\ votes' = [k \in Keys |-> [p \in Peers |->
                    IF k \in K /\ p \in S THEN Absent ELSE votes[k][p]]]
    /\ pending' = [p \in Peers |-> [k \in Keys |->
                    IF k \in K THEN Absent ELSE pending[p][k]]]
    /\ UNCHANGED panicked

\* Mutant: only the first key whose votes have become sufficient is agreed on.
RecheckFirst(S) == AgreeOn({k \in Rechecked(S) : \A j \in Rechecked(S) : k <= j}, S)

\* recheck_consensus_after_peer_removal
RecheckConsensusAfterPeerRemoval(S) == AgreeOn(Rechecked(S), S)

-----------------------------------------------------------------------------
(* What a peer proposes (refresh_consensus_proposals_dbtx)                  *)

\* Mutant: any vote for the key is approved, whatever its value.
ItemApprovingAny(p, k) ==
    LET same == {q \in Peers : votes[k][q] # Absent}
    IN  IF same # {} THEN {[op |-> "approve", peer |-> q] : q \in same}
        ELSE {[op |-> "propose", value |-> pending[p][k]]}

\* The item for p's pending value of key k: an approval of the first vote for
\* the same value in the table's order, which is that of the public keys and
\* may be any; else the value itself.
ItemFor(p, k) ==
    LET same == {q \in Peers : votes[k][q] = pending[p][k]}
    IN  IF same # {} THEN {[op |-> "approve", peer |-> q] : q \in same}
        ELSE {[op |-> "propose", value |-> pending[p][k]]}

Proposed(p) == {k \in Keys : pending[p][k] # Absent /\ votes[k][p] # pending[p][k]}

\* One item for each of them.
ItemLists(p) ==
    {s \in [Proposed(p) -> UNION {ItemFor(p, k) : k \in Proposed(p)}] :
        \A k \in Proposed(p) : s[k] \in ItemFor(p, k)}

-----------------------------------------------------------------------------
(* Actions                                                                  *)

ProposeKeyValue(p, k, v) ==
    /\ ~panicked /\ calls < MaxCalls
    /\ pending' = [pending EXCEPT ![p][k] = v]
    /\ wanted' = [wanted EXCEPT ![p][k] = @ \cup {v}]
    /\ calls' = calls + 1
    /\ UNCHANGED <<peers, left, values, votes, pipeline, panicked, changes>>

Propose(p) ==
    /\ p \in peers /\ ~panicked
    /\ Len(pipeline) < MaxPipeline
    /\ Proposed(p) # {}
    /\ \E items \in ItemLists(p) : pipeline' = Append(pipeline, [peer |-> p, items |-> items])
    /\ UNCHANGED <<peers, left, values, votes, pending, panicked, wanted, calls, changes>>

\* The next item of the oldest block; those of a former member are ignored.
ProcessCItem ==
    /\ pipeline # <<>> /\ ~panicked
    /\ LET p == pipeline[1].peer
           items == pipeline[1].items
       IN  \E k \in DOMAIN items :
              /\ \A j \in DOMAIN items : k <= j
              /\ IF p \notin peers THEN UNCHANGED <<values, votes, pending, panicked>>
                 ELSE IF items[k].op = "propose" THEN VoteKeyValue(k, p, items[k].value) /\ UNCHANGED panicked
                 ELSE ApproveVote(k, p, items[k].peer)
              /\ pipeline' = IF DOMAIN items = {k} THEN Tail(pipeline)
                             ELSE [pipeline EXCEPT ![1].items = [j \in DOMAIN items \ {k} |-> items[j]]]
    /\ UNCHANGED <<peers, left, wanted, calls, changes>>

\* process_effects: consensus-ctrl removed a member.
RemovePeer(x) ==
    /\ ~panicked /\ changes < MaxChanges
    /\ x \in peers /\ peers # {x}
    /\ \/ /\ peers' = peers \ {x} /\ left' = left \cup {x}
          /\ RecheckConsensusAfterPeerRemoval(peers \ {x})
       \/ Rechecked(peers \ {x}) # {} /\ Panic
    /\ changes' = changes + 1
    /\ UNCHANGED <<pipeline, wanted, calls>>

\* process_effects: consensus-ctrl added a member, which this module ignores.
AddPeer(x) ==
    /\ ~panicked /\ changes < MaxChanges
    /\ x \notin peers
    /\ peers' = peers \cup {x}
    /\ changes' = changes + 1
    /\ UNCHANGED <<left, values, votes, pending, pipeline, panicked, wanted, calls>>

Next ==
    \/ \E p \in Peers, k \in Keys, v \in Values : ProposeKeyValue(p, k, v)
    \/ \E p \in Peers : Propose(p) \/ RemovePeer(p) \/ AddPeer(p)
    \/ ProcessCItem

Spec == Init /\ [][Next]_vars

\* Every member leads rounds again and again, and final blocks are processed.
FairSpec ==
    /\ Spec
    /\ WF_vars(ProcessCItem)
    /\ \A p \in Peers : SF_vars(Propose(p))

-----------------------------------------------------------------------------
(* Properties                                                               *)

\* Until a former member returns, a key without a value has no value backed by
\* a quorum of the members, however votes, removals and additions are
\* interleaved: what a removal makes sufficient is agreed on with it
\* (recheck_consensus_after_peer_removal).
NothingLeftToAgree ==
    left \cap peers = {} =>
        \A k \in Keys, v \in Values :
            values[k] = Absent => ~ThresholdReached(votes[k], v, peers)

\* Until an operator changes its mind about a key, the votes recorded for it are
\* for values their voters' operators proposed, also when they were cast by
\* approving somebody else's (process_citem_approve_vote).
VotesAreWanted ==
    \A k \in Keys : (\A p \in Peers : Cardinality(wanted[p][k]) <= 1) =>
        \A p \in Peers : votes[k][p] # Absent => votes[k][p] \in wanted[p][k]

\* A value proposed by all members, who stay and propose no other, becomes the
\* key's value (process_citem_vote_key_value and the proposals leading to it).
UnanimityDecides ==
    \A k \in Keys, v \in Values :
        <>[](peers = InitPeers /\ ~panicked /\ \A p \in InitPeers : wanted[p][k] = {v})
            => <>(values[k] = v)

\* Does not hold: no value backed by a quorum of the members waits to replace
\* another one, the module is to "Recheck all existing votes to see if any can
\* now reach consensus with the updated peer set".
EveryVoteRechecked ==
    \A k \in Keys, v \in Values :
        v # values[k] => ~ThresholdReached(votes[k], v, peers)

\* Does not hold, even with fixed members: a key's value was proposed by the
\* operators of a quorum, each of whom wrote it or "approves an existing vote by
\* another peer".
AgreedIsWanted ==
    \A k \in Keys : values[k] # Absent =>
        Cardinality({p \in peers : values[k] \in wanted[p][k]}) >= Threshold(Cardinality(peers))

\* Does not hold if the store opens a table once a transaction: no node stops at
\* an error of the store, in particular not when "A peer approves an existing
\* vote by another peer for a given key".
NobodyPanics == ~panicked

=============================================================================
