# Formal model of BFTE

BFTE (`crates/*`) is a Byzantine fault tolerant consensus engine: a federation of
peers agrees on a chain of blocks of consensus items (citems), and each peer's
application processes the final ones. This directory holds TLA+ modules that
model its consensus core, its application layer, its two modules and the life of
a node, TLC configurations that check them on small instances, and TLAPS proofs
of the central safety properties for instances of any size.

## 1. Inventory of the system

| Part | State it keeps | Operations | Interacts with |
| --- | --- | --- | --- |
| `consensus-core` | none (values) | block headers and their parent check, quorum sizes, signatures and notarizations, parameters and the schedule of their changes | everything |
| `consensus` | database tables `cons_*` (current round, proposals, notarized blocks, pins, block and dummy votes, finality votes, parameters), five watch channels | `process_vote_response`, `process_notarized_block_response`, `process_finality_vote_update_response`, `check_round_end`, `init`/`open`, `consensus_params_change_tx`, getters | node tasks call the handlers; channels wake the tasks |
| `node`, rounds (`run_consensus.rs`) | the `JoinSet` of a round's tasks | propose, vote for a stored proposal, vote dummy after a timeout, request votes and notarized blocks, apply the replies one by one | RPC to every peer, application gate |
| `node`, RPC (`rpc_server.rs`) | none | waits on channels, answers from tables | other peers |
| `node`, finality queries | one task per peer | repeat "your finality vote past r?" | RPC, `consensus` |
| `node`, application interface (`app_api.rs`) | acknowledged round | `ack_and_wait_next_block` | `node-app`, channels of `consensus` |
| `node`, join and invites | pins, initial parameters | fetch parameters, check the pinned block | RPC |
| `node`, connections and addresses | cached connections, addresses with timestamps | connect, push and fetch addresses | network |
| `node-app` | position (round, item), module set-up | process items in order, run module effects, change parameters | `app_api`, modules, `consensus` |
| `node-shared-modules`, `module` | the live modules | wait for fresh proposals of the modules | `node`, `node-app` |
| `modules/consensus-ctrl` | peers, modules, versions, votes on them | process votes, propose, change the peer set | `node-app` |
| `modules/meta` | votes and values by key | process votes, propose | `node-app` |
| `db`, `util-*`, `derive-secret`, UI, CLI | | storage, encoding, keys, presentation | |

What is hard here: every peer runs dozens of tasks at once, and each reply is
computed from another peer's tables at one moment and applied at a later one;
votes come before what they vote for; blocks of earlier rounds are adopted late;
a notarized block can be replaced by another branch; finality votes carry only a
round; a process can stop anywhere and rebuilds its channels from the tables;
timers run only when somebody wants the round to end; one peer in `3f + 1` may
answer anything. `PROJECT.json` lists each hazard at its line.

What makes each part correct:

* `consensus`: one notarized block per round in the whole federation; tables that
  always hold a servable notarization; one chain per peer; finality that is
  backed and never reverted; no way back, restarts included.
* `node`: rounds end, nobody is left behind, faulty answers leave no trace.
* application interface: the same blocks in the same order on every peer, none
  lost or reverted; no `expect` fails.
* `node-app`: no item skipped or out of order over crashes, none repeated but by
  one; items judged by tables that are current.
* `consensus-ctrl`, `meta`: votes that stay meaningful while members come and go,
  and no quorum without its effect.
* parameters: a round is verified with the parameters that apply to it for good.
* modules and the tasks of a round: no proposal and no change goes unnoticed, and
  nobody waits for ever.
* addresses and joining: newer addresses win and spread; a node belongs to one
  federation and runs it.

## 2. Modules

| Module | Models | State |
| --- | --- | --- |
| `NumPeers` | `num_peers.rs` | none: `MaxFaulty`, `Threshold` |
| `Chain` | `block.rs` | none: a block is the chain it commits to |
| `Consensus` | `crates/consensus` | one peer's tables and channels (`ConsState`), one operator per transaction |
| `Federation` | `run_consensus.rs`, `rpc_server.rs`, `finality_vote_query_task.rs`, `app_api.rs`, getters | all peers, the tasks of their rounds, the application's cursor, restarts, pins, faulty peers |
| `ItemLog` | what `node-app` promises | the items handed over, the blocks completed |
| `NodeApp` | `crates/node-app` | `db`: position, peer set, module configurations; `mem`: the process with its copies of them |
| `ConsensusCtrl` | `modules/consensus-ctrl` | the replicated tables, each peer's pending votes, blocks on their way |
| `Meta` | `modules/meta` | values, votes, pending values, blocks on their way |
| `ParamsSchedule` | `consensus_params.rs`, the `cons_params` tables, `consensus_params_change_tx`, the gate on rounds | the chain, how far this node notarized, knows final and processed it, the schedule, the parameters used |
| `FinalityTable` | `handle_finality_vote.rs`, over changing members | votes, table, channel |
| `PeerAddress` | `peer_address.rs`, connecting, joining by invite | address rows, what is needed, pushes on their way, the pull task |
| `NodeLifecycle` | `node.rs`, `join.rs`, `init.rs`, the requests of `node-ui-axum`, the commands of `bfte` | what the database holds, what the process holds, requests in progress |
| `SharedModules` | `node-shared-modules`, `setup_modules_to` of `node-app` | configurations, live modules, the channels, the tasks that wait |
| `MC*` | | instances for TLC |
| `*Proofs` | | lemmas and theorems |

How they fit together. `Federation` composes one `Consensus` per peer with the
network, faulty peers and the application's cursor, for fixed members.
`ParamsSchedule` and `FinalityTable` take up what `Federation` fixes, the members:
each is one node against everything the others may do. `NodeApp` starts where
`AckAndWaitNextBlock` of `Federation` ends, with final blocks in order;
`ConsensusCtrl` and `Meta` are what it hands the items to, `SharedModules` is how
their proposals come back into rounds. `NodeLifecycle` and `PeerAddress` are what
happens before and beside all that. `NodeApp` implements `ItemLog`.

### Actions

* `Federation`: `GenerateProposal`, `VoteSelfProposal`, `VoteSelf`,
  `VoteSelfTimeout` (the peer's own votes); `HandleWaitVote`,
  `HandleWaitNotarizedBlock` (another peer computes a reply);
  `ProcessVoteResponse`, `ProcessNotarizedBlockResponse` (the reply is applied in
  one transaction, with `check_round_end` and everything it calls);
  `PeerFinalityVoteQuery`, `AckAndWaitNextBlock`, `Restart`; `ByzVote`, `ByzCert`,
  `ByzFinalityVote` for peers that do not run this code.
* `NodeApp`: `Finalize` (the node has another final block), the steps of the loop
  over blocks and items (wait, set up the modules, judge, commit, reject, skip what
  was processed, end the block), each one transaction or one change of the process,
  and `Crash` between any two of them. An item is what its module makes of it:
  nothing, an error, a new peer set, a module to configure, or a new peer set
  followed by an error of a module that gets the effect.
* `ConsensusCtrl`: an operator's vote is checked (`SetPending...Vote`) and stored
  (`WritePendingVote`) in two transactions; `RecordModuleInitVersions`; `Propose`
  puts a peer's items into a block; `ProcessCItem` processes the next item of the
  oldest block, on tables that have moved on since.
* `Meta`: `ProposeKeyValue`, `Propose`, `ProcessCItem`, and the effects of
  consensus-ctrl, `RemovePeer` with its recheck and `AddPeer`. A transaction that
  opens a table which is still open may go through or stop the node (`Panic`): the
  store decides, and it is not part of this repository.
* `ParamsSchedule`: `NewBlock` (the federation), `StartRound` behind the gate,
  `EndRoundDummy`, `AdoptBlock`, `Finalize`, `AckAhead`, `ConsensusParamsChange`,
  `EndBlock`, `Restart`.
* `FinalityTable`: `FinalityVote` (of a peer or the node's own), `ChangeMembers`,
  `OpenInternal` (a restart).
* `PeerAddress`: `Start`, `Stop`, `ConsensusJoin`, `Connect` (which may find an
  address stale), `PushGossip`, `HandlePush`, `LosePush`, and the pull task step by
  step.
* `NodeLifecycle`: `Command`, `Start`, `Run`, `Crash`; `Request` to create or join,
  its steps (fetch the parameters, initialize the database, open it, set the cell,
  notify), and `GiveUp` when it fails, takes more than 30 seconds or
  its client goes away: only while it waits for the node it asks, since transactions
  run in place (`block_in_place`).
* `SharedModules`: the application sets modules up under the lock, announces it,
  acknowledges, waits and processes; `SetPendingVote` makes a module propose; the
  two tasks of a round go through `wait_fresh_consensus_proposal`.

### Abstractions, and why they are sound

* Hashes are injective and signatures cannot be forged, so a block is its chain
  and a signature is a row of the signer's votes. A payload stands for citems
  and timestamp.
* The leader of a round is a hash of the round; in the model any function.
* A transaction is atomic and durable; one that returns an error changes nothing
  (a pin mismatch rolls back, `Commit`).
* In `Federation` a `panic!` or a failed `expect` is not a step; `NotarizedUnique`,
  `FirstBlockComesFirst` and `FinalBlockAvailable` state that the ones in question do
  not happen. `FirstBlockComesFirst` is about the replies of honest peers. A faulty
  one can reply with a block that has a parent to a peer that has no block
  (`PanicsWithoutLatest`): such a reply is not applied, the process stops, and what
  follows is a `Restart`. `ParamsSchedule` takes no step that looks up parameters
  which are not stored (`Known`).
* `ack_and_wait_next_block` waits for two channels one after the other, and turns.
  Each `wait_for` tests the value a channel has and not whether it was notified, and
  with fixed members neither value goes back, so the waits of a turn are one step;
  nothing is said about wake-ups, which are those of `tokio`. `FinalityReachesApp` is about the turns: the round asked for, the
  block found after it, and both finalities.
* The loop of `check_round_end` is taken in one step (`AdvanceRound`). That needs
  tables to be empty past the current round, which is `NothingAhead`, proved.
* A finality query is answered and applied in one step: it waits for a vote past
  the one known, votes of honest peers only grow, and only the round is used.
* In `Federation` application and acknowledgement are one step; the position inside
  a block is the matter of `NodeApp`.
* The server of notarized blocks wakes up when its round changes; the model lets
  it answer whenever it has something. With two peers this makes no difference to
  liveness: whatever one adopts late the other already has.
* The tables of `ConsensusCtrl` and `Meta` are computed by every node from the same
  items in the same order, so one copy stands for all. That they are the same items
  is `LogsAgree` and `NeverSkipped`.
* An address is the time it was signed; a federation is its initial parameters; an
  instance of a module is the version it was set up as.

## 3. Runs

| Run | Instance | Checks |
| --- | --- | --- |
| `two_peers` | n = 2, three rounds led in turn, one restart each, p2 pins nothing or a block of round 1 with its parent | `TypeOK`, `NotarizedChain`, `FinalIsIrreversible`, `LogsAgree`, `FinalBlockAvailable`, `PinsRespected`, `NeverBack` |
| `two_fair` | n = 2, only p1 has citems, with fairness | `NobodyLeftBehind`, `RoundsEnd`, `FinalityReachesApp` |
| `byz` | n = 4, the leader of two rounds is faulty, with one of three plans | `NotarizedUnique`, `OneVotePerRound`, `NotarizedHasVotes`, `FinalityBacked`, `FirstBlockComesFirst` |
| `finding_finality` | n = 4 honest, a schedule | `FinalIsIrreversible` is violated |
| `app` | two peers, two modules, five kinds of blocks in rounds 0 to 2, two crashes, with fairness | `CopiesAgree`, `ScheduleAgreed`, `RepeatedByCrashOnly`, the refinement `NeverSkipped`, `EveryBlockCompleted` |
| `ctrl` | three peers, two of them members, three kinds of modules, two questions | `VotesMakeSense`, `UpgradesApplied`, `ConfigsOnlyUpgrade` |
| `meta` | three peers, two of them members, two keys, two values, two changes of members, with fairness | `NothingLeftToAgree`, `VotesAreWanted`, `UnanimityDecides` |
| `params_stable` | four members, at least three, up to two changes in a block, which then apply from one round, and in two blocks; nine rounds, a round may end without a block | `ParamsAreStable` |
| `finality` | five peers, four of them members, p4 votes as it likes, two changes of members, with fairness | `ChannelCovers`, `FinalityForward`, `FinalityReached` |
| `addr` | three nodes, the founder restarts with its clock set either way, with fairness | `OwnIsNewest`, `AddressesSpread` |
| `lifecycle` | two created and two invited federations, two requests at once, two crashes, with fairness | `ConsensusIsThere`, `OneFederation`, `StoredIsRun` |
| `shared` | two modules, three versions, blocks in rounds 0 and 3, with fairness | `ChangeNoticed`, `ItemsGetThrough`, `SetupEnds` |

What the properties say is in the comments before them; each names the code it is
about. Type invariants: `two_peers` checks that of `Federation`; those of the other
modules are part of the invariants proved (section 4), that of `SharedModules` without
its rounds.

### Bounds

`MaxRound` is the number of rounds played; three rounds with two peers already
contain a block one peer lacks, its late adoption, a proposal on either branch and
the block after it. Four peers are the least with `max_faulty = 1`, the least where
a threshold is not everybody.

`byz` is about one plan of the faulty leader and one peer, p2, at a time, and leaves
out what the plan does not need (`MCByzantine`; an action constraint only removes
behaviours). In one round the leader signs two blocks and proposes either or both to
every peer, and p2, which takes notarized blocks of the others, hears its votes
besides; or it signs one, and makes up notarizations for p2 from the signatures it
has seen, or sends p2 a dummy vote and votes for any finality; or, in two rounds, p2
hears of no vote and catches up from notarized blocks alone. The other peers apply a
vote before they take the next. Peers that are treated alike, and payloads, are
reduced by symmetry. The plan is kept in the faulty peer's `pins`, which nothing
else uses.
`finding_finality` fixes which replies arrive (`MCSchedules`).

`Patient` peers have slow timers, `Eager` ones have citems. `AppWindow` is the
code's 32 and its gate stays open within the bounds of `Federation`; the gate is the
matter of `ParamsSchedule`, where the delay is scaled down to two rounds plus the
number of members, so that changes are made, wait, apply and overlap within nine
rounds. `ctrl` is about two questions, each with bounds of its own: members that
come and go with their versions, or modules that two members add and upgrade. In
`meta` only the operators of members propose; three proposals make two keys
contested while a removal lowers the threshold. In `finality` four members become
three or five, which changes `max_faulty` in one direction and not the other, and
two rounds are enough to go back by one. In `addr` one node gets a newer address,
which overtakes the older one in pushes, pulls and at a node that joins. Two
requests at once are what a race takes, and four in total allow each to be made
again after it was given up or a crash. `CHECK_DEADLOCK FALSE` because an idle federation stops and because the
bounds are reached.

With `max_faulty = 0` (up to three peers) nothing can be notarized without
everyone, and all properties of `Federation` hold, which is proved for any such
federation. With four peers some of what the documentation promises does not hold;
see the findings.

### Fairness

`Federation`: every honest peer does not stay able to do something (`Pending`) and
do nothing for ever: requests are retried without limit (`RPC_BACKOFF`), tasks are
polled by the runtime, timers end, and a leader with citems proposes them. It is
weak fairness of the peer's whole step; since no step can be undone or repeated
within a round, a peer that keeps stepping gets to everything that stays possible.
`Pending(p)` is `ENABLED <<Step(p)>>_vars` written out; the equivalence was checked
with TLC on two peers and one round, since TLC evaluates the `ENABLED` itself too
slowly for larger instances. A peer that is not `Eager` is not required to propose,
which assumes less than the code does. Restarts and faulty answers are never
required.

`NodeApp`: the application's task is polled; new blocks and crashes are not
required, and crashes are bounded, as a node that crashes for ever gets nowhere.
`Meta`: every member leads rounds again and again, so that what it keeps wanting to
propose gets into a block (strong fairness, since it may have nothing to propose in
between), and final blocks are processed. `FinalityTable`: correct members keep
voting, and are asked again and again. `PeerAddress`: nodes are started and join;
pairs to push are drawn at random every ten seconds, so each is drawn again and
again; pushes may be lost, but the newest address of a peer, sent often enough,
arrives. `NodeLifecycle`: tasks are polled, and the user has the node started. `SharedModules`: the application and both tasks are
polled, and the other peers get to this node's blocks and vote for their finality.

### Finding

`finding_finality`. "Once at least a `threshold` amount of peers votes that certain
round, it is considered final, as there can be no alternative blocks produced that
would not strictly extend it" (`crates/consensus/README.md:97`). A finality vote is
a round, so votes of peers on another branch count too: p1 hands its block of round
0 to the application on the strength of votes for a parentless block of round 1,
and then replaces it.

### Further statements that do not hold

The modules state these properties too, marked "Does not hold". Each says what a
comment or document says; added to the configuration named, or to one with the
constants given, TLC refutes it.

| Property | Configuration | What happens |
| --- | --- | --- |
| `FinalityVotePastHighest` | `TwoPeers.cfg` | "Finalization vote is basically round past highest notarized block known to the peer" (`consensus/README.md:96`): not for a block adopted after its round, until the next one or a restart. |
| `ProcessedOnce` | `App.cfg` | "Position in the block of items that were already processed" (`node-app/src/tables.rs:6`): the position stored with an item is the one before it, so a crash repeats the item, whose effects on its module's tables are there already. |
| `QuorumActedOn` | `Ctrl.cfg` | "Threshold reached - add the peer immediately" (`consensus-ctrl/src/module.rs:528`): a removal lowers the threshold, and votes to add that become enough by it are not looked at. |
| `ProposalsAcceptable` | `Ctrl.cfg` | "clear the pending vote to stop proposing the same citem" (`:712`): the removal of the last member is refused with the deletion of the pending vote, and proposed again for ever. |
| `AgreedIsWanted` | `Meta.cfg` | "A peer approves an existing vote by another peer" (`meta/src/citem.rs:16`): an approval names a peer, which may vote for something else by the time it is processed. |
| `EveryVoteRechecked` | `Meta.cfg` | "Recheck all existing votes" (`meta/src/module.rs:276`): not for keys that have a value. |
| `NobodyPanics` | `Meta.cfg` | `process_citem_approve_vote` and the recheck open a table that is still open; `consensus-ctrl/src/module.rs:411` warns of just that. |
| `ChangeInTime` | `ParamsStable.cfg` with one member at first | The assertion of `consensus_params_change_tx`: the acknowledgement runs ahead of the position, and a block adopted over a gap puts the node further ahead; rounds without a block that are half as many in a row as the members are enough. |
| `ParamsFound` | `ParamsStable.cfg` | "Must always have params for a given hash" (`ctx.rs:204`): the changes of one block apply from the same round, the second replaces the first in the schedule and is not stored, so every node panics when it gets to that round. With debug assertions it does so at the second change already (`ctx.rs:352`). The same with three removals in blocks of their own, as the delay shrinks with the members. |
| `ChannelNeverBack` | `Finality.cfg` | "Just ignore the new, backward consensus" (`handle_finality_vote.rs:123`): the table takes it, and the next rise is compared with it. |
| `NeedNoticed` | `Addr.cfg` | "Set each time a peer address requires refreshing" (`node.rs:91`): a notification between the look at the table and the wait is lost. |
| `InitializedOnce` | `Lifecycle.cfg` | "Can't be initialized twice" (`node.rs:315`): two requests with the same invite can be. |

Where a property of a run is conditional, one of these is why: `NothingLeftToAgree`
is about members that did not leave and come back, whose old votes count again;
`VotesAreWanted` about operators that do not change their minds; `FinalityForward`
about fixed members; `RepeatedByCrashOnly` about crashes in the middle of a block.
`NotarizedChain` and `RoundsEnd` are checked with two peers. With four, a block of
an earlier round may be adopted between a proposal and its notarization, which does
not check the parent again; and one peer with citems that does not lead casts one
dummy vote, which is not more than `max_faulty` and starts nobody's timer. So
is `NobodyLeftBehind`: with four, a peer that rejected a proposal for its parent and
then got the parent from everyone has no request left in the round that would bring
it the block.

### Mutants

Next to the operators they vary, the modules define mutants (each says what it
gets wrong): the plausible bugs that show each property can fail. Nothing uses
them otherwise. `PROJECT.json` pairs each property with the mutant that breaks it.

## 4. Proofs

Proved by TLAPS for every value of the constants, under the named assumptions of
the modules: sets of peers finite where thresholds are counted, `Byz` at most
`MaxFaulty` of them, bounds natural numbers. The bounds of TLC are constants of the
specifications and any natural number in the proofs. Where a theorem needs more, the
table gives the condition.

| Theorems | Module | State |
| --- | --- | --- |
| `Invariance`, `TypeCorrectness`, `NotarizationUnique`, `VotesUnique`, `NothingIsAhead`, `ProposalsAreFixed` | `FederationProofs` | `Inv`, `TypeOK`, `NotarizedUnique`, `OneVotePerRound`, `NothingAhead`, `ProposalsFixed` |
| `NotarizationsKept`, `FinalBlocksAvailable`, `FinalityIsBacked`, `FirstBlocksFirst`, `PeersNeverGoBack` | `FederationProofs` | `NotarizedHasVotes`, `FinalBlockAvailable`, `FinalityBacked`, `FirstBlockComesFirst`, `NeverBack` |
| `ChainsAreLinear`, `FinalStaysFinal`, `ApplicationsAgree`, `PinsAreRespected`, from `F = 0` | `FederationProofs` | `NotarizedChain`, `FinalIsIrreversible`, `LogsAgree`, `PinsRespected` |
| `ItemsNeverSkipped` | `NodeAppProofs` | `NodeApp` implements `ItemLog` (`NeverSkipped`) |
| `CopiesAreCurrent`, `SchedulesAgree`, `OnlyCrashesRepeat` | `NodeAppProofs` | `CopiesAgree`, `ScheduleAgreed`, `RepeatedByCrashOnly` |
| `VotesAlwaysMakeSense`, `SomebodyAlwaysRemains`, `UpgradesAlwaysApplied`, `SingletonsStayUnique`, `ConfigsAreUpgraded` | `ConsensusCtrlProofs` | `VotesMakeSense`, `SomebodyRemains`, `UpgradesApplied`, `SingletonsOnce`, `ConfigsOnlyUpgrade` |
| `QuorumsAreNoticed`, `VotesFollowOperators` | `MetaProofs` | `NothingLeftToAgree`, `VotesAreWanted` |
| `ChannelIsNotBehind`, `FinalityIsForward` | `FinalityTableProofs` | `ChannelCovers`, `FinalityForward` |
| `OwnAddressIsNewest`, `AddressesGetNewer` | `PeerAddressProofs` | `OwnIsNewest`, `NeverOlder` |
| `ConsensusSet`, `FederationFixed` | `NodeLifecycleProofs` | `ConsensusIsThere`, `OneFederation` |
| `ChangesAreNoticed` | `FinalityTableProofs` | `ChangeNoticed` (`SharedModules`) |
| `ParamsStayStable`, from `2 * MaxGap <= MinSize` | `ParamsScheduleProofs` | `ParamsAreStable` |
| `ChangesAreInTime`, from `2 * MaxGap < MinSize` | `ParamsScheduleProofs` | `ChangeInTime` |

The arguments.

* `Federation`. Uniqueness is not inductive: a notarization adopted from a reply
  was put together by another peer some time ago, from rows it may have replaced
  since. `Inv` therefore ties everything to the one table that never changes, the
  stored proposals. `Genuine`: a block vote of an honest peer, recorded anywhere, is
  for the proposal that peer stored. `RepliesGenuine`: so is every vote on its way.
  `Supported`: behind every notarized block stand a threshold of peers, the honest
  ones among them by having stored it. `WellFormed`: blocks are filed under their
  rounds, nothing is ahead of the current round, and the votes of the current round
  are for its proposal. Since proposals only get added (`Grows`), these facts survive
  every step of everyone else; the first part of `FederationProofs` shows that each
  handler keeps them for its own peer, the second lifts that to the actions. Two
  supported blocks of a round then share an honest peer (two thresholds overlap in
  more than `MaxFaulty` peers), which stored one proposal.
* `Federation`, one peer through time (`Reached`). `StepKinds` shows that any step is
  one of a few things to the tables: tasks change, a handler runs, a finality vote is
  heard, the application acknowledges, a process restarts, or nothing. What a handler
  does is said once, by `Advances`: rounds, the latest notarized block and the own
  finality vote do not go back, and the tables stay `Grounded`: notarized blocks keep
  exactly the votes for them, and there is one below the own finality vote wherever
  the application may ask. `FinalityFrom` ties the finality a peer holds to what
  the honest peers vote for: votes it knows are no higher than their owners' own, so
  that the vote at index `max_faulty` of the sorted ones has a threshold of votes behind it.
* `Federation` without fault tolerance (`Aligned`, `Expected`). The last four
  theorems assume `F = 0`, federations of one to three peers, and are false from four
  on: there a threshold is not everybody, `finding_finality` shows a block that was
  final being replaced, and a peer may build on a branch the others left. With
  `F = 0` a threshold is everybody (`ThresholdIsAll`). So whatever is notarized
  anywhere, or on its way as a reply, was stored as a proposal by every peer
  (`StoredByAll`), and some peer that keeps it notarized stored no shorter one
  since (`Witnessed`): a proposal is only accepted if it extends the latest notarized block.
  Hence of two notarized blocks the one of the later round has the longer chain
  (`StoredIsLonger`), lengths order the blocks of a peer (`Rising`), and a block
  adopted late goes on top of the latest one and none is removed (`Builds`). The
  application's log is the chain up to its cursor (`Followed`), which gives agreement
  since the i-th block handed over has length i. `Expected` adds that between
  transactions no round is left that could have ended (`Settled`): the restart's
  `check_round_end`, which does not look at the pins, then has nothing to do.
* `NodeApp`. The mapping to `ItemLog` is the identity on the histories; what makes
  every step one of the log or a stutter is the position. `PositionInv` says what the
  stored and the live position mean in terms of the log, in the middle of a block,
  at its end and after a crash; `LogInv` that everything up to the last completed
  block is in the log and that nothing in it is past the block after that;
  `ChainOrdered` that a block is found by its round. `CopiesInv` says that a copy is
  missing or current, and `SchedInv` that the round a change is counted from is
  determined by the chain. `RepeatInv` counts how often each item was handed over:
  at most once per crash in the middle of a block, and once more only if this pass
  over its block has come to it, or the block is completed.
* `ConsensusCtrl`. `TablesGood` is kept by every kind of item on any tables, whoever
  proposed it and however stale it is; the hard part is that no upgrade is left
  undone after the removal of the one member that was not ready, which needs facts
  about the least element of a set of versions.
* `Meta`. That a vote is wanted by its voter's operator depends on items proposed
  long before: `WantedInv` says of every approval on its way that the operators of
  both peers wanted one value, which, while each wants one only, is what the approved
  vote still is. A quorum without its effect can only come from a removal, which
  rechecks, from a vote, which is counted, or from an addition; `VotersInv` says that
  only members and former ones have votes, so a new member adds none and does not
  lower the threshold.
* `FinalityTable`. `TableIsFinality` says that the table holds what the votes amount
  to. Finality as an index into sorted votes is first shown to be the greatest round
  supported by enough members, from which it follows that a higher vote does not
  lower it.
* `PeerAddress`. Rows, pushes on their way and replies on their way are all no newer
  than the owner's row, of which only the owner's start makes a newer one.
* `NodeLifecycle`. `HandlersAgree` says that a request past the initialization of
  the database is about the federation stored there, whatever the other requests and
  crashes did.
* `SharedModules`. A task that waits either sees the modules there are or has an
  announcement it has not looked at, or one is about to be made.
* `ParamsSchedule`, changes in time (`Inv`). `MaxGap` is the most rounds in a row
  that end without a block, which nothing in the code bounds, so the theorems say how
  many are too many. The acknowledgement may be a gap ahead of the position, since
  `ack_and_wait_next_block` acknowledges the next block's round before it is
  processed; the gate lets the node get the delay ahead of the acknowledgement; and a
  block adopted over a gap takes it one more gap ahead. `PositionInv` says that,
  through restarts and blocks that come while a round runs: rounds in use are less
  than two gaps and the delay ahead of the position. A change applies the delay and
  the number of members after the position, so it is in time, and leaves alone the
  parameters of all rounds before (`ChangeKeepsEarlier`), if two gaps are no more than
  the fewest members, whatever the changes are. Both conditions are exact: with one
  more round without a block TLC refutes either property (two members for
  `ChangeInTime`, three for `ParamsAreStable`, `MaxGap` 1 and 2).

Only model-checked: liveness (`NobodyLeftBehind`, `RoundsEnd`, `FinalityReachesApp`,
`EveryBlockCompleted`, `UnanimityDecides`, `FinalityReached`, `AddressesSpread`,
`StoredIsRun`, `ItemsGetThrough`, `SetupEnds`), which is out of the prover's reach.
Every invariant and every safety action property of the runs is proved.

## 5. Not modelled

* Storage (`db`, `util-db`), encodings, cryptography and key derivation, formatting
  and error helpers: transactions are atomic and durable, and signatures genuine, by
  assumption.
* Transactions of users in `process_citem.rs` (144-194): no module of the repository
  has inputs or outputs, so nothing is behind that code yet.
* Pages, sessions and passwords of the user interface; of its requests, those that
  create or join a federation are modelled.
* The connection pool, which only saves making connections again, and the other
  branches on which a leader stops waiting for citems, which only end the wait
  earlier.
* Failures of module set-up, which stop the node; the history of rounds kept for the
  user interface.
* Invites as text; a pin is a block of the joiner's `pins`.
