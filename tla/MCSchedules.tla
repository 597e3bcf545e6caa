---------------------------- MODULE MCSchedules ----------------------------
(***************************************************************************)
(* Four honest peers, where only some replies arrive in time.  The         *)
(* schedule below is an action constraint: it names the replies that do    *)
(* arrive (who asks, who answers, what and in which of the asking peer's   *)
(* rounds) and leaves everything else to the specification.  It only       *)
(* removes behaviours, so what TLC finds is a behaviour of the system.     *)
(***************************************************************************)
EXTENDS MCFederation

Answers == {"vote", "proposal", "dummyVote", "block", "dummies"}

\* The replies that arrive are the ones listed.
Arrive(replies) ==
    \A p, q \in Peers :
        \A rpc \in {<<task[p].voteRpc[q], task'[p].voteRpc[q]>>,
                    <<task[p].certRpc[q], task'[p].certRpc[q]>>} :
            rpc[1] # rpc[2] /\ rpc[2].st \in Answers
                => <<p, q, rpc[2].st, cons[p].round>> \in replies

\* Only the peers in S learn the finality votes of others.
QueryFinality(S) ==
    \A p \in Peers \ S : \A q \in Peers \ {p} : cons'[p].finVotes[q] = cons[p].finVotes[q]

\* Timers run out in round 0 only.
TimersInRoundZero == \A p \in Peers : p \notin cons'[p].dummies[1]

\* In round 0 p1 gets a notarization and the others time out; in round 1, led
\* by p2, those others notarize.
Split ==
    {<<p1, p2, "vote", 0>>, <<p1, p3, "vote", 0>>,
     <<p2, p1, "proposal", 0>>, <<p3, p1, "proposal", 0>>}
    \cup {<<p, q, "dummyVote", 0>> : p \in {p2, p3, p4}, q \in {p2, p3, p4}}
Overtake ==
    {<<p3, p2, "proposal", 1>>, <<p4, p2, "proposal", 1>>,
     <<p2, p3, "vote", 1>>, <<p2, p4, "vote", 1>>, <<p3, p4, "vote", 1>>}

\* p1 hears of the others' finality votes before it hears of their block.
FinalitySchedule ==
    /\ Arrive(Split \cup Overtake \cup {<<p1, p2, "block", 1>>})
    /\ TimersInRoundZero
    /\ QueryFinality({p1})

=============================================================================
