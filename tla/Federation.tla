----------------------------- MODULE Federation -----------------------------
(***************************************************************************)
(* The peers of one federation running consensus rounds (crates/node).     *)
(* Every peer runs the state machine of module Consensus.  In each round   *)
(* its node opens two requests to every other peer (its vote, and the next *)
(* notarized block or dummy), proposes if it leads, votes for a proposal   *)
(* it accepted, votes dummy after a timeout, and applies the replies one   *)
(* at a time in any order; replies still open when the round ends are      *)
(* dropped.  A reply is computed in one step and applied in a later one.   *)
(* Finality votes are queried all the time, and the application takes the  *)
(* blocks that are final.                                                  *)
(*                                                                         *)
(* Peers in Byz do not run this code: they reply whatever their own key    *)
(* and the signatures they have seen allow.                                *)
(***************************************************************************)
EXTENDS Consensus

CONSTANTS
    Byz,          \* the faulty peers
    ByzReplies,   \* the requests they lie to: a subset of
                  \* {"vote", "dummy", "cert", "finality"}
    Eager,        \* peers whose modules have citems to broadcast, so that their
                  \* round timer runs without being asked to
    Patient,      \* peers whose round timer is too slow to run out
    Pinned,       \* what peers may have been told to expect when they joined: a set of
                  \* functions from peers to sets of blocks
    AppWindow,    \* CONSENSUS_PARAMS_CORE_APPLY_DELAY_BASE: how many rounds
                  \* consensus may run ahead of the application
    MaxRestarts   \* bound: restarts of one peer

ASSUME ByzAssumption == Byz \subseteq Peers /\ Cardinality(Byz) <= F
ASSUME PinnedAssumption == Pinned \subseteq [Peers -> SUBSET Block]
ASSUME BoundsAssumption == AppWindow \in Nat /\ MaxRestarts \in Nat

Honest == Peers \ Byz

VARIABLES
    cons,       \* cons[p]: the consensus tables and channels
    task,       \* task[p]: the tasks of p's current round
    app,        \* app[p]: what the application acknowledged and processed
    restarts,   \* restarts[p]: how often p was restarted
    pins        \* pins[p]: cons_blocks_pinned, the blocks p was told to expect

vars == <<cons, task, app, restarts, pins>>

\* A vote request: open for "any" vote or only for a "dummy", answered
\* ("vote", "proposal", "dummyVote"), or not open.
VoteRpc == [st : {"any", "dummy", "none", "vote", "proposal", "dummyVote"},
            block : OptBlock]

\* A notarized block request, answered once a round.
CertRpc == [st : {"open", "done", "block", "dummies"}, block : OptBlock,
            sigs : [Peers -> OptBlock], dummies : SUBSET Peers]

TaskState == [
    reqMin   : Rounds,               \* min_notarized_round of the round's requests
    voteRpc  : [Peers -> VoteRpc],
    certRpc  : [Peers -> CertRpc],
    generate : BOOLEAN,              \* generate_proposal_round_task is running
    draft    : OptBlock ]            \* the proposal it returned, not applied yet

AppState == [ack : Rounds, log : Seq(OptBlock)]

-----------------------------------------------------------------------------
NoSigs   == [q \in Peers |-> NoBlock]
Cert(st) == [st |-> st, block |-> NoBlock, sigs |-> NoSigs, dummies |-> {}]
CertBlock(b, sigs) == [st |-> "block", block |-> b, sigs |-> sigs, dummies |-> {}]
CertDummies(qs)    == [st |-> "dummies", block |-> NoBlock, sigs |-> NoSigs, dummies |-> qs]
Ask(st)  == [st |-> st, block |-> NoBlock]

\* run_consensus_round_inner: what the tasks of a round start from.
StartRound(p, n) == [
    reqMin   |-> RoundAfter(LatestNotarized(n)),
    voteRpc  |-> [q \in Peers |->
                    Ask(IF q = p \/ q \in n.dummies[n.round] THEN "none"
                        ELSE IF q \in BlockVoters(n, n.round) THEN "dummy" ELSE "any")],
    certRpc  |-> [q \in Peers |-> Cert(IF q = p THEN "done" ELSE "open")],
    generate |-> Leader[n.round] = p /\ p \notin n.dummies[n.round] \cup BlockVoters(n, n.round),
    draft    |-> NoBlock ]

\* Mutant: a round that ended with a dummy is let through.
PinsHoldIfNotarized(p, n, m) ==
    \A b \in pins[p] : RoundOf(b) \in n.round .. (m.round - 1)
                            => m.notarized[RoundOf(b)] \in {NoBlock, b}

\* Rounds that advance past a pinned block's round must have notarized it.
PinsHold(p, n, m) ==
    \A b \in pins[p] : RoundOf(b) \in n.round .. (m.round - 1)
                            => m.notarized[RoundOf(b)] = b

\* The transaction of p that takes cons[p] to m, with the round's tasks as in t
\* once its event is consumed: it rolls back on a pin mismatch, and a new round
\* starts its own tasks.
Commit(p, m, t) ==
    LET c == IF PinsHold(p, cons[p], m) THEN m ELSE cons[p]
    IN  /\ cons' = [cons EXCEPT ![p] = c]
        /\ task' = [task EXCEPT ![p] = IF c.round # cons[p].round THEN StartRound(p, c) ELSE t]
        /\ UNCHANGED <<app, restarts, pins>>

\* The round's tasks run: not past the bound, nor too far ahead of the application.
Running(p) == /\ p \in Honest
              /\ cons[p].round < MaxRound
              /\ cons[p].round < app[p].ack + AppWindow

-----------------------------------------------------------------------------
(***************************************************************************)
(* The peer's own votes.                                                   *)
(***************************************************************************)
\* The proposal is built on the latest notarized block of this moment.
GenerateProposal(p, x) ==
    /\ Running(p)
    /\ task[p].generate
    /\ task' = [task EXCEPT ![p].generate = FALSE,
                    ![p].draft = NewBlock(LatestNotarized(cons[p]), cons[p].round, x)]
    /\ UNCHANGED <<cons, app, restarts, pins>>

VoteSelfProposal(p) ==
    /\ Running(p)
    /\ task[p].draft # NoBlock
    /\ Commit(p, ProcessProposal(p, cons[p], p, task[p].draft),
                 [task[p] EXCEPT !.draft = NoBlock])

\* A peer that is not the leader votes for the proposal it stored.
VoteSelf(p) ==
    /\ Running(p)
    /\ Leader[cons[p].round] # p
    /\ cons[p].proposals[cons[p].round] # NoBlock
    /\ p \notin BlockVoters(cons[p], cons[p].round)
    /\ Commit(p, ProcessVote(p, cons[p], p, cons[p].proposals[cons[p].round]), task[p])

VoteSelfTimeout(p) ==
    /\ Running(p)
    /\ p \notin cons[p].dummies[cons[p].round]
    /\ cons[p].timeout \/ p \in Eager
    /\ p \notin Patient
    /\ Commit(p, ProcessDummyVote(p, cons[p], p), task[p])

-----------------------------------------------------------------------------
(***************************************************************************)
(* Votes of other peers.                                                   *)
(***************************************************************************)
SetVoteRpc(p, q, rpc) ==
    /\ task' = [task EXCEPT ![p].voteRpc[q] = rpc]
    /\ UNCHANGED <<cons, app, restarts, pins>>

\* The vote of peer q with tables n in round r, if any: its dummy vote before
\* its block vote, which is a proposal if q leads the round.
GetVote(n, q, r) ==
    IF q \in n.dummies[r] THEN {Ask("dummyVote")}
    ELSE IF q \in BlockVoters(n, r)
    THEN {[st |-> IF q = Leader[r] THEN "proposal" ELSE "vote", block |-> n.votes[r][q]]}
    ELSE {}

\* q answers p's vote request, once it has reached the round.
HandleWaitVote(p, q) ==
    /\ Running(p)
    /\ q \in Honest
    /\ task[p].voteRpc[q].st \in {"any", "dummy"}
    /\ cons[p].round <= cons[q].round
    /\ \E rpc \in GetVote(cons[q], q, cons[p].round) :
        /\ task[p].voteRpc[q].st = "any" \/ rpc.st = "dummyVote"
        /\ SetVoteRpc(p, q, rpc)

\* Accepted or not, a block vote is followed by a request for a dummy only.
ProcessVoteResponse(p, q) ==
    LET n   == cons[p]
        rpc == task[p].voteRpc[q]
        asked(st) == [task[p] EXCEPT !.voteRpc[q] = Ask(st)]
    IN  /\ Running(p)
        /\ \/ rpc.st = "dummyVote" /\ Commit(p, ProcessDummyVote(p, n, q), asked("none"))
           \/ rpc.st = "vote"      /\ Commit(p, ProcessVote(p, n, q, rpc.block), asked("dummy"))
           \/ rpc.st = "proposal"  /\ Commit(p, ProcessProposal(p, n, q, rpc.block), asked("dummy"))

-----------------------------------------------------------------------------
(***************************************************************************)
(* Notarized blocks and dummies of other peers.                            *)
(***************************************************************************)
SetCertRpc(p, q, rpc) ==
    /\ task' = [task EXCEPT ![p].certRpc[q] = rpc]
    /\ UNCHANGED <<cons, app, restarts, pins>>

\* The first notarized block from `min` on, else a notarized dummy of round r,
\* if tables n have either.
GetNotarizedBlockResp(n, min, r) ==
    LET b == GetNextNotarizedBlock(n, min)
    IN  IF b # NoBlock THEN {CertBlock(b, n.votes[RoundOf(b)])}
        ELSE IF T <= Cardinality(n.dummies[r]) THEN {CertDummies(n.dummies[r])}
        ELSE {}

\* q answers p's request for a notarized block, once it has reached its round.
HandleWaitNotarizedBlock(p, q) ==
    /\ Running(p)
    /\ q \in Honest
    /\ task[p].certRpc[q].st = "open"
    /\ task[p].reqMin <= cons[q].round
    /\ \E rpc \in GetNotarizedBlockResp(cons[q], task[p].reqMin, cons[p].round) :
        SetCertRpc(p, q, rpc)

\* The request is not repeated until the next round.  A reply that the process
\* panics on changes nothing; what follows is a Restart.
ProcessNotarizedBlockResponse(p, q) ==
    LET n   == cons[p]
        rpc == task[p].certRpc[q]
        t   == [task[p] EXCEPT !.certRpc[q] = Cert("done")]
    IN  /\ Running(p)
        /\ \/ /\ rpc.st = "block" /\ ~PanicsWithoutLatest(n, rpc.block, rpc.sigs)
              /\ Commit(p, ProcessNotarizedBlock(p, n, rpc.block, rpc.sigs), t)
           \/ rpc.st = "dummies" /\ Commit(p, ProcessNotarizedDummy(p, n, rpc.dummies), t)

-----------------------------------------------------------------------------
(***************************************************************************)
(* Finality votes, the application, restarts.                              *)
(***************************************************************************)
SetFinalityVote(p, q, v) ==
    /\ cons' = [cons EXCEPT ![p] = UpdatePeerFinalityVoteRound(@, q, v)]
    /\ UNCHANGED <<task, app, restarts, pins>>

\* The query waits until q's own finality vote is past the one p knows.
PeerFinalityVoteQuery(p, q) ==
    /\ p \in Honest /\ q \in Honest /\ p # q
    /\ cons[q].finSelfTx > 0
    /\ cons[p].finVotes[q] < cons[q].finSelfTx
    /\ SetFinalityVote(p, q, cons[q].finSelfTx)

\* One turn of the loop of ack_and_wait_next_block: the next notarized block
\* goes to the application if it is final, and is awaited otherwise.
AckAndWaitNextBlock(p) ==
    LET n == cons[p]
        b == GetNextNotarizedBlock(n, app[p].ack)
    IN  /\ p \in Honest
        /\ app[p].ack < n.finConsTx
        /\ app[p].ack < n.finSelfTx
        /\ b # NoBlock
        /\ IF RoundOf(b) < n.finConsTx /\ RoundOf(b) < n.finSelfTx
           THEN app' = [app EXCEPT ![p] = [ack |-> RoundOf(b) + 1, log |-> Append(@.log, b)]]
           ELSE app' = [app EXCEPT ![p].ack = RoundOf(b)]
        /\ UNCHANGED <<cons, task, restarts, pins>>

\* The process stops and opens its database again: channels, requests and
\* drafts are lost, the application resumes after the last block it processed.
Restart(p) ==
    /\ p \in Honest
    /\ restarts[p] < MaxRestarts
    /\ LET n == OpenInternal(p, cons[p])
       IN  /\ cons' = [cons EXCEPT ![p] = n]
           /\ task' = [task EXCEPT ![p] = StartRound(p, n)]
    /\ app' = [app EXCEPT ![p].ack =
                  IF app[p].log = <<>> THEN 0 ELSE RoundAfter(app[p].log[Len(app[p].log)])]
    /\ restarts' = [restarts EXCEPT ![p] = @ + 1]
    /\ UNCHANGED pins

-----------------------------------------------------------------------------
(***************************************************************************)
(* Faulty peers.                                                           *)
(***************************************************************************)
\* Blocks a faulty peer can make up for round r.
ByzBlocks(r) ==
    {NewBlock(prev, r, x) : x \in Payloads,
        prev \in {NoBlock} \cup {GetPrevNotarizedBlock(cons[q], r) : q \in Honest}}

ByzVote(p, q) ==
    LET r == cons[p].round
    IN  /\ Running(p)
        /\ q \in Byz
        /\ task[p].voteRpc[q].st \in {"any", "dummy"}
        /\ \/ "dummy" \in ByzReplies /\ SetVoteRpc(p, q, Ask("dummyVote"))
           \/ /\ "vote" \in ByzReplies
              /\ \E b \in ByzBlocks(r), st \in {"vote", "proposal"} :
                    SetVoteRpc(p, q, [st |-> st, block |-> b])

\* A notarization put together from signatures that honest peers recorded and
\* those of faulty peers.
ByzCert(p, q) ==
    /\ Running(p)
    /\ q \in Byz
    /\ "cert" \in ByzReplies
    /\ task[p].certRpc[q].st = "open"
    /\ \/ \E r \in 0 .. MaxRound - 1 : \E b \in ByzBlocks(r) :
            SetCertRpc(p, q, CertBlock(b, [x \in Peers |->
                IF x \in Byz \/ \E h \in Honest : cons[h].votes[r][x] = b THEN b ELSE NoBlock]))
       \/ SetCertRpc(p, q, CertDummies(
                Byz \cup {x \in Honest : \E h \in Honest : x \in cons[h].dummies[cons[p].round]}))

ByzFinalityVote(p, q) ==
    /\ p \in Honest /\ q \in Byz
    /\ "finality" \in ByzReplies
    /\ \E v \in Rounds : SetFinalityVote(p, q, v)

-----------------------------------------------------------------------------
Init ==
    /\ cons = [p \in Peers |-> OpenInternal(p, InitTables)]
    /\ task = [p \in Peers |-> StartRound(p, InitTables)]
    /\ app = [p \in Peers |-> [ack |-> 0, log |-> <<>>]]
    /\ restarts = [p \in Peers |-> 0]
    /\ pins \in Pinned

Next ==
    \E p \in Peers :
        \/ \E x \in Payloads : GenerateProposal(p, x)
        \/ VoteSelfProposal(p)
        \/ VoteSelf(p)
        \/ VoteSelfTimeout(p)
        \/ AckAndWaitNextBlock(p)
        \/ Restart(p)
        \/ \E q \in Peers :
            \/ HandleWaitVote(p, q)
            \/ ProcessVoteResponse(p, q)
            \/ HandleWaitNotarizedBlock(p, q)
            \/ ProcessNotarizedBlockResponse(p, q)
            \/ PeerFinalityVoteQuery(p, q)
            \/ ByzVote(p, q)
            \/ ByzCert(p, q)
            \/ ByzFinalityVote(p, q)

Spec == Init /\ [][Next]_vars

\* What a peer does sooner or later: requests are retried forever
\* (RPC_BACKOFF), timers run out, replies are applied, and a leader that has
\* citems proposes them.  Nothing of it can be repeated within a round, so that
\* a peer that keeps going gets to everything that stays possible.
Step(p) ==
    \/ p \in Eager /\ \E x \in Payloads : GenerateProposal(p, x)
    \/ VoteSelfProposal(p)
    \/ VoteSelf(p)
    \/ VoteSelfTimeout(p)
    \/ AckAndWaitNextBlock(p)
    \/ \E q \in Peers :
        \/ HandleWaitVote(p, q)
        \/ ProcessVoteResponse(p, q)
        \/ HandleWaitNotarizedBlock(p, q)
        \/ ProcessNotarizedBlockResponse(p, q)
        \/ PeerFinalityVoteQuery(p, q)

\* ENABLED <<Step(p)>>_vars, written out (for p without pins): TLC computes an
\* ENABLED far too slowly here.
Pending(p) ==
    LET n == cons[p]
        t == task[p]
    IN  \/ /\ Running(p)
           /\ \/ p \in Eager /\ t.generate
              \/ t.draft # NoBlock
              \/ /\ Leader[n.round] # p /\ n.proposals[n.round] # NoBlock
                 /\ p \notin BlockVoters(n, n.round)
              \/ /\ p \notin n.dummies[n.round] \cup Patient
                 /\ n.timeout \/ p \in Eager
              \/ \E q \in Peers :
                   \/ t.voteRpc[q].st \in {"vote", "proposal", "dummyVote"}
                   \/ t.certRpc[q].st = "dummies"
                   \/ /\ t.certRpc[q].st = "block"
                      /\ ~PanicsWithoutLatest(n, t.certRpc[q].block, t.certRpc[q].sigs)
              \/ \E q \in Honest :
                   \/ /\ t.voteRpc[q].st \in {"any", "dummy"} /\ n.round <= cons[q].round
                      /\ \E rpc \in GetVote(cons[q], q, n.round) :
                            t.voteRpc[q].st = "any" \/ rpc.st = "dummyVote"
                   \/ /\ t.certRpc[q].st = "open" /\ t.reqMin <= cons[q].round
                      /\ GetNotarizedBlockResp(cons[q], t.reqMin, n.round) # {}
        \/ \E q \in Honest \ {p} :
             cons[q].finSelfTx > 0 /\ n.finVotes[q] < cons[q].finSelfTx
        \/ /\ app[p].ack < n.finConsTx /\ app[p].ack < n.finSelfTx
           /\ GetNextNotarizedBlock(n, app[p].ack) # NoBlock

\* Weak fairness of every honest peer's steps.
Fairness == \A p \in Honest : []<>~Pending(p) \/ []<><<Step(p)>>_vars

FairSpec == Spec /\ Fairness

-----------------------------------------------------------------------------
(***************************************************************************)
(* Safety.                                                                 *)
(***************************************************************************)
\* The tables, channels, tasks and the application's log have their types.
TypeOK ==
    /\ cons \in [Peers -> ConsState]
    /\ task \in [Peers -> TaskState]
    /\ app \in [Peers -> AppState]
    /\ restarts \in [Peers -> 0 .. MaxRestarts]
    /\ pins \in [Peers -> SUBSET Block]

\* Two peers never hold different notarized blocks of one round, which is what
\* process_notarized_block_response panics on ("Consensus failure").
NotarizedUnique ==
    \A p, q \in Honest, r \in Rounds :
        {p, q} \subseteq {x \in Honest : cons[x].notarized[r] # NoBlock}
            => cons[p].notarized[r] = cons[q].notarized[r]

\* A peer that recorded a block vote of an honest peer recorded the one block
\* that peer stored as the round's proposal: an honest peer never signs two
\* blocks of a round, restarts included (cons_blocks_proposals).
OneVotePerRound ==
    \A p, q \in Honest, r \in Rounds :
        cons[p].votes[r][q] \in {NoBlock, cons[q].proposals[r]}

\* Whatever was rewound, adopted or dropped, the rows kept for a notarized
\* block are a threshold of votes for it and no others, so that they can be
\* served as its notarization (cons_blocks_notarized, cons_votes_block).
NotarizedHasVotes ==
    \A p \in Honest, r \in Rounds :
        cons[p].notarized[r] # NoBlock =>
            VerifySigs(cons[p].notarized[r], cons[p].votes[r])

\* There is nothing in the tables past the current round and no notarized
\* block for it, so check_round_end never skips over something unseen.
NothingAhead ==
    \A p \in Honest :
        /\ cons[p].notarized[cons[p].round] = NoBlock
        /\ \A r \in Rounds : cons[p].round < r =>
             /\ cons[p].proposals[r] = NoBlock /\ cons[p].notarized[r] = NoBlock
             /\ BlockVoters(cons[p], r) = {} /\ cons[p].dummies[r] = {}

\* ack_and_wait_next_block: "Must have a notarized block since own finality is
\* past this height", although notarized blocks get deleted.
FinalBlockAvailable ==
    \A p \in Honest : app[p].ack < cons[p].finSelfTx =>
        GetNextNotarizedBlock(cons[p], app[p].ack) # NoBlock

\* A peer without notarized blocks is never handed, by a peer that runs this
\* code, one with a parent, which it would panic on ("Must have latest
\* notarized" in process_notarized_block_response).
FirstBlockComesFirst ==
    \A p, q \in Honest :
        /\ task[p].certRpc[q].st = "block"
        /\ LatestNotarized(cons[p]) = NoBlock
        => DoesDirectlyExtend(task[p].certRpc[q].block, NoBlock)

\* A peer's notarized blocks form one chain, each extending the one before it.
NotarizedChain ==
    \A p \in Honest : \A r \in NotarizedRounds(cons[p]) :
        DoesDirectlyExtend(cons[p].notarized[r], GetPrevNotarizedBlock(cons[p], r))

\* What an application has processed is never reverted: it stays in the peer's
\* chain of notarized blocks.
FinalIsIrreversible ==
    \A p \in Honest : \A b \in Range(app[p].log) :
        cons[p].notarized[RoundOf(b)] = b

\* Applications of any two peers process the same sequence of blocks.
LogsAgree ==
    \A p, q \in Honest : \A i \in DOMAIN app[p].log \cap DOMAIN app[q].log :
        app[p].log[i] = app[q].log[i]

\* A round counts as final for p only while enough honest peers vote for it
\* that any threshold of peers has one of them: whatever the faulty peers
\* claim, however old the votes p knows and whoever restarted since
\* (update_peer_finality_vote_round_tx, recalculate_finality_consensus_tx).
FinalityBacked ==
    \A p \in Honest :
        T - Cardinality(Byz)
            <= Cardinality({q \in Honest : cons[p].finConsTx <= cons[q].finSelfTx})

\* Does not hold: "Finalization vote is basically round past highest notarized
\* block known to the peer" (crates/consensus/README.md; finality_self_vote_tx).
FinalityVotePastHighest ==
    \A p \in Honest : cons[p].finSelfTx = RoundAfter(LatestNotarized(cons[p]))

\* A peer told to expect a block does not get past its round without it.
PinsRespected ==
    \A p \in Honest : \A b \in pins[p] :
        RoundOf(b) < cons[p].round => cons[p].notarized[RoundOf(b)] = b

\* No step that changes a peer takes it back: neither its round, nor the round of its latest
\* notarized block, nor its own finality vote, not even a restart or a rewind
\* to another block.
NeverBack ==
    [][\A p \in Honest : cons'[p] # cons[p] =>
        /\ cons[p].round <= cons'[p].round
        /\ RoundAfter(LatestNotarized(cons[p])) <= RoundAfter(LatestNotarized(cons'[p]))
        /\ cons[p].finSelfTx <= cons'[p].finSelfTx]_vars

\* A stored proposal is never replaced or lost.
ProposalsFixed ==
    [][\A p \in Honest, r \in Rounds :
        cons[p].proposals[r] # NoBlock => cons'[p].proposals[r] = cons[p].proposals[r]]_vars

-----------------------------------------------------------------------------
(***************************************************************************)
(* Liveness, under Fairness.                                               *)
(***************************************************************************)
\* Once one peer has left a round, every peer leaves it ("the algorithm is
\* always making progress and peers converge on a common shared view",
\* crates/consensus/README.md).
NobodyLeftBehind ==
    \A r \in 0 .. MaxRound - 1 :
        (\E q \in Honest : cons[q].round > r) ~> (\A p \in Honest : cons[p].round > r)

\* A round some peer has citems for ends at every peer, whoever leads it: the
\* peer's own timer starts without a proposal, and its dummy vote starts the
\* others' (check_round_end, wait_fresh_consensus_proposal).  The last part
\* takes more than F dummy votes, so that one peer is enough only while F = 0.
RoundsEnd ==
    \A p \in Honest, r \in 0 .. MaxRound - 1 :
        (\E q \in Eager : cons[q].round = r) ~> cons[p].round > r

\* When all peers voted for the finality of a round, every application gets
\* past it (peer_finality_vote_query, ack_and_wait_next_block).
FinalityReachesApp ==
    \A p \in Honest, r \in 0 .. MaxRound - 1 :
        (\A q \in Honest : cons[q].finSelfTx > r /\ cons[q].notarized[r] # NoBlock)
            ~> app[p].ack > r

-----------------------------------------------------------------------------
(***************************************************************************)
(* Why the safety properties hold.  Stored proposals never change, so a    *)
(* vote and a notarization keep the meaning they had when they were made,  *)
(* wherever they are recorded and however long a reply was on its way.     *)
(***************************************************************************)
Proposals == [q \in Peers |-> cons[q].proposals]

\* The votes on their way to a peer with tasks t are for the proposals P of the
\* honest peers that cast them.
RepliesGenuine(t, P) ==
    /\ \A q \in Peers : LET rpc == t.voteRpc[q]
       IN  rpc.st \in {"vote", "proposal"} =>
            /\ rpc.block \in Block
            /\ q \in Honest => rpc.block = P[q][RoundOf(rpc.block)]
    /\ \A q \in Peers : LET rpc == t.certRpc[q]
       IN  rpc.st = "block" =>
            /\ rpc.block \in Block
            /\ RoundOf(rpc.block) # MaxRound
            /\ \A x \in Honest : rpc.sigs[x] \in {NoBlock, P[x][RoundOf(rpc.block)]}

\* A log holds blocks of rounds that were played.
LogOfBlocks(log) ==
    \A i \in DOMAIN log : log[i] \in Block /\ RoundOf(log[i]) # MaxRound

\* Every vote of an honest peer, recorded or on its way, is for the one proposal
\* that peer stored, and every notarized block has a threshold of peers behind
\* it (process_vote_response, process_notarized_block_response).
VotesAreGenuine ==
    \A p \in Peers :
        /\ WellFormed(cons[p])
        /\ Genuine(cons[p], Honest, Proposals)
        /\ AllSupported(cons[p], Honest, Proposals)
        /\ RepliesGenuine(task[p], Proposals)
        /\ LogOfBlocks(app[p].log)

\* The inductive invariant.
Inv == TypeOK /\ VotesAreGenuine

=============================================================================
