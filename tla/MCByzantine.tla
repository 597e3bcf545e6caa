----------------------------- MODULE MCByzantine -----------------------------
(***************************************************************************)
(* Four peers, of which the one that leads every round is faulty.  All of  *)
(* what it may do, in two rounds and together with everything the others   *)
(* do, is more than TLC can go through, so that a behaviour is about one   *)
(* plan of the faulty peer and about one peer, p2, and leaves out what the *)
(* plan does not need: an action constraint, which only removes            *)
(* behaviours.                                                             *)
(***************************************************************************)
EXTENDS MCFederation

\* The plan is the blocks that it signs: two of round 0, one, or one of every
\* round.  A faulty peer does not care about its pins, which stand for the plan.
ProposalOf(x) == NewBlock(NoBlock, 0, x)

Plans ==
    {{ProposalOf(x) : x \in Payloads}}
    \cup {{ProposalOf(x)} : x \in Payloads}
    \cup {{ProposalOf(x), NewBlock(ProposalOf(x), 1, x)} : x \in Payloads}

PlannedPins == {[p \in Peers |-> IF p \in Byz THEN plan ELSE {}] : plan \in Plans}

Plan == UNION {pins[q] : q \in Byz}

\* Peers that are treated alike, and payloads.
SameButTwo == Permutations({p3, p4}) \cup Permutations(Payloads)

\* What the faulty peer tells p of are blocks of the plan.
Planned(p) ==
    \A q \in Byz :
        {task'[p].voteRpc[q].block, task'[p].certRpc[q].block} \subseteq Plan \cup {NoBlock}

\* p hears of no vote of the faulty peer beside proposals; takes no notarized
\* block, and no finality vote, of the others in qs.
NoVotes(p)        == \A q \in Byz : task'[p].voteRpc[q].st # "vote"
NoCerts(p, qs)    == \A q \in qs : task'[p].certRpc[q].st \in {"open", "done"}
NoFinality(p, qs) == \A q \in qs \ {p} : cons'[p].finVotes[q] = cons[p].finVotes[q]
NoLies(p) ==
    /\ NoCerts(p, Byz) /\ NoFinality(p, Byz)
    /\ \A q \in Byz : task'[p].voteRpc[q].st # "dummyVote"

\* Nothing happens to p after round 0.
OneRound(p) ==
    /\ cons[p].round > 0 => task'[p] = task[p]
    /\ \A q \in Byz : cons'[p].finVotes[q] <= 1

\* Peers other than p2 apply a vote before they take the next.
Prompt(p) ==
    Cardinality({q \in Peers : task'[p].voteRpc[q].st \in {"vote", "proposal"}}) <= 1

\* Two blocks: either or both are proposed to every peer, and p2, which takes
\* notarized blocks of the others, hears votes for them too.
Split(p) ==
    /\ OneRound(p) /\ NoLies(p) /\ NoFinality(p, Peers)
    /\ p = p2 \/ (NoVotes(p) /\ NoCerts(p, Peers))

\* One block: p2 is given notarizations made up from the signatures that were
\* seen, or else a dummy vote and votes for the finality of any round.
Lie(p) ==
    /\ OneRound(p) /\ NoVotes(p) /\ NoCerts(p, Honest)
    /\ IF p # p2 THEN NoLies(p) /\ NoFinality(p, Peers)
       ELSE NoCerts(p, Byz) \/ \A q \in Peers \ {p} : cons'[p].finVotes[q] = NoVote

\* A block of every round: p2 hears of no vote, and catches up from the notarized
\* blocks of the others.
Late(p) ==
    /\ NoVotes(p) /\ NoLies(p)
    /\ IF p = p2 THEN \A q \in Peers : task'[p].voteRpc[q].st \notin {"vote", "proposal"}
       ELSE NoCerts(p, Peers) /\ NoFinality(p, Peers)

Bounds ==
    \A p \in Honest :
        /\ Planned(p)
        /\ p = p2 \/ Prompt(p)
        /\ IF \E b \in Plan : RoundOf(b) > 0 THEN Late(p)
           ELSE IF Cardinality(Plan) = 1 THEN Lie(p) ELSE Split(p)

=============================================================================
