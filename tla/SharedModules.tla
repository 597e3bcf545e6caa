---------------------------- MODULE SharedModules ----------------------------
(***************************************************************************)
(* How the items that modules propose reach the consensus of their node:   *)
(* the application sets the modules up and replaces them, and the tasks of *)
(* a round wait for proposals of the modules there are                     *)
(* (crates/node-shared-modules/src/lib.rs, setup_modules_to of             *)
(* crates/node-app/src/lib.rs, ack_and_wait_next_block of                  *)
(* crates/node/src/app_api.rs).  They share a lock on the modules and      *)
(* watch channels: the finality, the application's acknowledgment, "the    *)
(* modules changed", and each module's own proposals.                      *)
(*                                                                         *)
(* A block has one item.  What a module proposes is either nothing or      *)
(* something, and an instance of a module is the version it was set up as. *)
(* The names of the specification start with Shared, so that a module can  *)
(* extend this one beside FinalityTable, whose channel the tasks follow.   *)
(***************************************************************************)
EXTENDS Integers, FiniteSets, FiniteSetsExt

CONSTANTS
    Ids,            \* modules; the application starts with the lowest
    Blocks,         \* rounds this node has notarized blocks of
    MaxVersion      \* bound: versions of a module

ASSUME SharedAssumption ==
    /\ Ids \subseteq Nat /\ 0 \in Ids
    /\ Blocks \subseteq Nat /\ IsFiniteSet(Blocks) /\ Blocks # {}
    /\ MaxVersion \in Nat \ {0}

\* The leader's generate_proposal_round_task and the timer of every peer.
Tasks == {"leader", "timer"}

Versions == 0 .. MaxVersion      \* 0: the module is not there
Instances == [Ids -> Versions]

\* Past every block this node has, which it votes for itself.
SelfVote == Max(Blocks) + 1

VARIABLES
    configs,        \* modules_configs of consensus-ctrl
    modules,        \* SharedModules::inner: the instances that run
    proposes,       \* per module and version: propose_citems_rx is not empty
    finality,       \* finality_consensus_rx
    ack,            \* node_app_ack_rx
    app,            \* where the application is, and the round it asks for
    wait            \* per task: where wait_fresh_consensus_proposal is

sharedVars == <<configs, modules, proposes, finality, ack, app, wait>>

AppState  == [at : {"setup", "notify", "ack", "wait", "item"}, round : 0 .. SelfVote,
              started : BOOLEAN]

\* acked: the acknowledgment is to be compared with the finality.
\* changed: update_rx holds a change that was not seen.
\* newFinality: the same of the leader's finality_consensus_rx.
\* seen: the instances whose channels the task waits on.
WaitState == [at : {"ack", "mark", "lock", "read", "stream", "done"},
              acked : BOOLEAN, changed : BOOLEAN, newFinality : BOOLEAN, seen : Instances]

SharedTypeOK ==
    /\ configs \in Instances /\ modules \in Instances
    /\ proposes \in [Ids -> [Versions -> BOOLEAN]]
    /\ finality \in 0 .. SelfVote /\ ack \in 0 .. SelfVote
    /\ app \in AppState
    /\ wait \in [Tasks -> WaitState]

NoModules == [i \in Ids |-> 0]

\* Mutant: a task waits for the next acknowledgment, whatever the last one was.
WaitingForNextAck ==
    [at |-> "ack", acked |-> FALSE, changed |-> FALSE, newFinality |-> FALSE, seen |-> NoModules]

Waiting == [at |-> "ack", acked |-> TRUE, changed |-> FALSE, newFinality |-> FALSE,
            seen |-> NoModules]

\* The application is about to set up its first module.
SharedInit ==
    /\ configs = [i \in Ids |-> IF i = 0 THEN 1 ELSE 0]
    /\ modules = NoModules
    /\ proposes = [i \in Ids |-> [v \in Versions |-> FALSE]]
    /\ finality = 0 /\ ack = 0
    /\ app = [at |-> "setup", round |-> 0, started |-> FALSE]
    /\ wait = [t \in Tasks |-> Waiting]

-----------------------------------------------------------------------------
(***************************************************************************)
(* The application.                                                        *)
(***************************************************************************)
Readers == {t \in Tasks : wait[t].at = "read"}

\* Where the application goes with the modules set up.
GoOn(a) == [a EXCEPT !.at = IF a.started THEN "item" ELSE "ack", !.started = TRUE]

\* Mutant: only a module that was not there yet counts as a change.
SetupModulesQuietly ==
    /\ app.at = "setup"
    /\ Readers = {}
    /\ modules' = configs
    /\ \E p \in [Ids -> BOOLEAN] :
        proposes' = [i \in Ids |-> [v \in Versions |->
            IF v = configs[i] /\ v # modules[i] THEN p[i] ELSE proposes[i][v]]]
    /\ app' = IF \A i \in Ids : modules[i] = 0 => configs[i] = 0
              THEN GoOn(app) ELSE [app EXCEPT !.at = "notify"]
    /\ UNCHANGED <<configs, finality, ack, wait>>

\* With the lock to itself, the application keeps the modules whose config is
\* the same and replaces the others.  A new instance may propose at once.
SetupModules ==
    /\ app.at = "setup"
    /\ Readers = {}
    /\ modules' = configs
    /\ \E p \in [Ids -> BOOLEAN] :
        proposes' = [i \in Ids |-> [v \in Versions |->
            IF v = configs[i] /\ v # modules[i] THEN p[i] ELSE proposes[i][v]]]
    /\ app' = IF modules = configs THEN GoOn(app) ELSE [app EXCEPT !.at = "notify"]
    /\ UNCHANGED <<configs, finality, ack, wait>>

\* The lock is free again by the time the change is sent.
SendChanged ==
    /\ app.at = "notify"
    /\ wait' = [t \in Tasks |-> [wait[t] EXCEPT !.changed = TRUE]]
    /\ app' = GoOn(app)
    /\ UNCHANGED <<configs, modules, proposes, finality, ack>>

AckRound ==
    /\ app.at = "ack"
    /\ ack' = app.round
    /\ wait' = [t \in Tasks |-> [wait[t] EXCEPT !.acked = TRUE]]
    /\ app' = [app EXCEPT !.at = "wait"]
    /\ UNCHANGED <<configs, modules, proposes, finality>>

\* The next block, if it is final, else the application asks for its round.
\* Before the item of a block the modules are set up if their configs may have
\* changed.
WaitNextBlock ==
    LET block == Min({b \in Blocks : app.round <= b})
    IN  /\ app.at = "wait"
        /\ app.round < finality
        /\ \/ /\ block < finality
              /\ \E at \in {"setup", "item"} :
                    /\ modules # configs => at = "setup"
                    /\ app' = [app EXCEPT !.at = at, !.round = block]
           \/ /\ finality <= block
              /\ app' = [app EXCEPT !.at = "ack", !.round = block]
        /\ UNCHANGED <<configs, modules, proposes, finality, ack, wait>>

\* An item changes what the modules propose, and may add or upgrade a module.
ProcessCItem ==
    /\ app.at = "item"
    /\ \/ UNCHANGED configs
       \/ \E i \in Ids : configs[i] < MaxVersion /\ configs' = [configs EXCEPT ![i] = @ + 1]
    /\ \E p \in [Ids -> BOOLEAN] :
        proposes' = [i \in Ids |-> [v \in Versions |->
            IF v # 0 /\ v = modules[i] THEN p[i] ELSE proposes[i][v]]]
    /\ app' = [app EXCEPT !.at = "ack", !.round = @ + 1]
    /\ UNCHANGED <<modules, finality, ack, wait>>

\* The operator has a module propose something (set_pending_*_vote,
\* propose_key_value).
SetPendingVote(i) ==
    /\ modules[i] # 0
    /\ proposes' = [proposes EXCEPT ![i][modules[i]] = TRUE]
    /\ UNCHANGED <<configs, modules, finality, ack, app, wait>>

\* Votes of other peers move the finality, up to this node's own vote.
Finalize ==
    /\ \E f \in (finality + 1) .. SelfVote : finality' = f
    /\ wait' = [wait EXCEPT !["leader"].newFinality = TRUE]
    /\ UNCHANGED <<configs, modules, proposes, ack, app>>

-----------------------------------------------------------------------------
(***************************************************************************)
(* wait_fresh_consensus_proposal.                                          *)
(***************************************************************************)
SetWait(t, w) ==
    /\ wait' = [wait EXCEPT ![t] = w]
    /\ UNCHANGED <<configs, modules, proposes, finality, ack, app>>

\* wait_for looks at the acknowledgment when it starts and when it is sent.
CheckAck(t) ==
    /\ wait[t].at = "ack" /\ wait[t].acked
    /\ SetWait(t, IF ack = finality THEN [wait[t] EXCEPT !.at = "mark"]
                  ELSE [wait[t] EXCEPT !.acked = FALSE])

MarkUnchanged(t) ==
    /\ wait[t].at = "mark"
    /\ SetWait(t, [wait[t] EXCEPT !.at = "lock", !.changed = FALSE])

\* A reader waits behind a writer that waits.
ReadLock(t) ==
    /\ wait[t].at = "lock"
    /\ app.at # "setup"
    /\ SetWait(t, [wait[t] EXCEPT !.at = "read"])

Proposing(instances) == {i \in Ids : instances[i] # 0 /\ proposes[i][instances[i]]}

\* Mutant: the task stays a reader while it waits for proposals.
ReadProposalsKeepingLock(t) ==
    /\ wait[t].at = "read"
    /\ Proposing(modules) # {}
    /\ SetWait(t, [wait[t] EXCEPT !.at = "done"])

\* The lowest module that proposes anything, else the task keeps the channels
\* and lets go of the lock.
ReadProposals(t) ==
    /\ wait[t].at = "read"
    /\ SetWait(t, IF Proposing(modules) # {} THEN [wait[t] EXCEPT !.at = "done"]
                  ELSE [wait[t] EXCEPT !.at = "stream", !.seen = modules])

\* A value that arrived is delivered even if its instance is gone by now.
StreamNext(t) ==
    /\ wait[t].at = "stream"
    /\ Proposing(wait[t].seen) # {}
    /\ SetWait(t, [wait[t] EXCEPT !.at = "done"])

\* The modules changed: start over.
ModulesChanged(t) ==
    /\ wait[t].at \in {"lock", "read", "stream"}
    /\ wait[t].changed
    /\ SetWait(t, [wait[t] EXCEPT !.at = "ack", !.acked = TRUE, !.changed = FALSE])

\* Only the leader's task starts over when the finality changes.
FinalityChanged ==
    /\ wait["leader"].newFinality
    /\ wait["leader"].at # "done"
    /\ SetWait("leader", [wait["leader"] EXCEPT !.at = "ack", !.acked = TRUE,
                                                !.newFinality = FALSE])

\* The proposal is used, and the next round waits anew.
NextRound(t) ==
    /\ wait[t].at = "done"
    /\ SetWait(t, [Waiting EXCEPT !.changed = wait[t].changed])

WaitStep(t) ==
    \/ CheckAck(t) \/ MarkUnchanged(t) \/ ReadLock(t) \/ ReadProposals(t)
    \/ StreamNext(t) \/ ModulesChanged(t) \/ NextRound(t)
    \/ t = "leader" /\ FinalityChanged

AppStep == SetupModules \/ SendChanged \/ AckRound \/ WaitNextBlock \/ ProcessCItem

SharedNext ==
    \/ AppStep
    \/ Finalize
    \/ \E i \in Ids : SetPendingVote(i)
    \/ \E t \in Tasks : WaitStep(t)

SharedSpec == SharedInit /\ [][SharedNext]_sharedVars

\* Tasks keep running, and the other peers get to this node's blocks and vote
\* for their finality.
FairSharedSpec ==
    /\ SharedSpec
    /\ WF_sharedVars(AppStep) /\ WF_sharedVars(Finalize)
    /\ \A t \in Tasks : WF_sharedVars(WaitStep(t))

-----------------------------------------------------------------------------
(***************************************************************************)
(* Properties.                                                             *)
(***************************************************************************)
\* A task that waits for proposals of instances which do not run any more will
\* hear of it: the change is there for it to see, or is about to be sent
\* (mark_unchanged before wait_consensus_proposal, send_changed after the lock
\* is released).
ChangeNoticed ==
    \A t \in Tasks :
        wait[t].at = "stream" /\ wait[t].seen # modules => wait[t].changed \/ app.at = "notify"

\* What a module proposes gets to the tasks of the round, whether it came before
\* or after they began to wait, from an instance that was there or a new one
\* (wait_fresh_consensus_proposal).
ItemsGetThrough ==
    \A t \in Tasks :
        Proposing(modules) # {} ~> (Proposing(modules) = {} \/ wait[t].at = "done")

\* The application is never kept from replacing its modules by a task that
\* waits for them ("We don't want to be holding the lock").
SetupEnds == app.at = "setup" ~> app.at # "setup"

=============================================================================
