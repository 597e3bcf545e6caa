--------------------------- MODULE ParamsSchedule ---------------------------
(***************************************************************************)
(* Changes of the consensus parameters on one node: the application        *)
(* schedules them while it processes final blocks, and they apply a number *)
(* of rounds later (crates/consensus-core/src/consensus_params.rs, the     *)
(* cons_params tables, consensus_params_change_tx), so that every node     *)
(* knows them before it reaches the round they apply from.  A gate keeps   *)
(* the node from starting rounds too far ahead of its application.         *)
(*                                                                         *)
(* `chain` are the blocks of the federation with the changes their items   *)
(* make; this node has notarized the first `adopted` of them, knows the    *)
(* first `fin` to be final and has processed the first `done`.  Parameters *)
(* are the number of the change that made them and the number of members,  *)
(* on which the delay depends.                                             *)
(***************************************************************************)
EXTENDS Integers, Sequences, FiniteSets

CONSTANTS
    DelayBase,      \* CONSENSUS_PARAMS_CORE_APPLY_DELAY_BASE
    InitSize,       \* members at round 0
    MinSize,        \* the fewest members there ever are
    BlockChanges,   \* what a block may do: sequences of +1 and -1
    MaxGap,         \* the most rounds in a row that end without a block
    MaxRound,       \* bound: rounds
    MaxChanges      \* bound: blocks with changes

ASSUME ScheduleAssumption ==
    /\ DelayBase \in Nat \ {0} /\ MaxGap \in Nat /\ MaxRound \in Nat /\ MaxChanges \in Nat
    /\ MinSize \in Nat \ {0} /\ InitSize \in Nat /\ InitSize >= MinSize
    /\ BlockChanges \subseteq Seq({1, -1})

Block  == [round : Nat, changes : BlockChanges]
Params == [id : Nat, size : Nat]

VARIABLES
    chain, adopted, fin, done,
    round,      \* current_round
    running,    \* whether the tasks of the current round were started
    pos, ack,   \* the application's position, and what it last acknowledged
    schedule,   \* cons_params_schedule: the rounds parameters apply from
    stored,     \* cons_params: the parameters that can be found
    used,       \* the parameters the node looked up for a round
    latest,     \* the parameters of the latest change
    item,       \* changes of the block being processed that were made
    late        \* whether a change was made for a round already reached

vars == <<chain, adopted, fin, done, round, running, pos, ack, schedule, stored, used, latest,
          item, late>>

TypeOK ==
    /\ chain \in Seq(Block)
    /\ adopted \in 0 .. Len(chain) /\ fin \in 0 .. adopted /\ done \in 0 .. fin
    /\ round \in Nat /\ running \in BOOLEAN
    /\ pos \in Nat /\ ack \in Nat
    /\ schedule \in SUBSET [apply : Nat, params : Params]
    /\ stored \in SUBSET Params
    /\ used \in SUBSET (Nat \X Params)
    /\ latest \in Params
    /\ item \in Nat /\ late \in BOOLEAN

InitParams == [id |-> 0, size |-> InitSize]

Init ==
    /\ chain = <<>> /\ adopted = 0 /\ fin = 0 /\ done = 0
    /\ round = 0 /\ running = FALSE
    /\ pos = 0 /\ ack = 0
    /\ schedule = {[apply |-> 0, params |-> InitParams]}
    /\ stored = {InitParams}
    /\ used = {}
    /\ latest = InitParams
    /\ item = 0 /\ late = FALSE

-----------------------------------------------------------------------------
(* The schedule                                                             *)

Newest(sch) == CHOOSE e \in sch : \A f \in sch : f.apply <= e.apply

\* get_consensus_params: the entry with the greatest round up to r.
ParamsAt(sch, r) == Newest({e \in sch : e.apply <= r}).params

\* The parameters of round r can be looked up; otherwise the process panics,
\* which is not a step.
Known(r) == ParamsAt(schedule, r) \in stored

\* make_change, consensus_params_schedulign_delay
ApplyRound(sch, r) == r + ParamsAt(sch, r).size + DelayBase

\* insert_consensus_params: an entry for the round is replaced, and then the
\* new parameters are not stored.
InsertConsensusParams(a, p) ==
    /\ schedule' = {e \in schedule : e.apply # a} \cup {[apply |-> a, params |-> p]}
    /\ stored' = IF \E e \in schedule : e.apply = a THEN stored ELSE stored \cup {p}

-----------------------------------------------------------------------------
(* The federation and this node's consensus                                 *)

NextRound == IF chain = <<>> THEN 0 ELSE chain[Len(chain)].round + 1

\* The federation notarizes another block, at most MaxGap rounds after the
\* previous one and not in a round that this node saw end without one.
NewBlock ==
    /\ \E g \in 0 .. MaxGap, cs \in BlockChanges :
          /\ NextRound + g >= round /\ NextRound + g <= MaxRound
          /\ cs # <<>> => Cardinality({b \in DOMAIN chain : chain[b].changes # <<>>}) < MaxChanges
          /\ chain' = Append(chain, [round |-> NextRound + g, changes |-> cs])
    /\ UNCHANGED <<adopted, fin, done, item, round, running, pos, ack, schedule, stored, used, latest, late>>

\* Mutant: the gate is on the finality of blocks, not on their processing.
StartRoundWithoutApp ==
    /\ ~running
    /\ round < NextRound + DelayBase
    /\ Known(round)
    /\ running' = TRUE
    /\ used' = used \cup {<<round, ParamsAt(schedule, round)>>}
    /\ UNCHANGED <<chain, adopted, fin, done, item, round, pos, ack, schedule, stored, latest, late>>

\* run_consensus_round_inner passes its gate.
StartRound ==
    /\ ~running
    /\ round < ack + DelayBase
    /\ Known(round)
    /\ running' = TRUE
    /\ used' = used \cup {<<round, ParamsAt(schedule, round)>>}
    /\ UNCHANGED <<chain, adopted, fin, done, item, round, pos, ack, schedule, stored, latest, late>>

\* The round ends without a block.
EndRoundDummy ==
    /\ running
    /\ round < NextRound + MaxGap
    /\ adopted < Len(chain) => round < chain[adopted + 1].round
    /\ round < MaxRound
    /\ round' = round + 1 /\ running' = FALSE
    /\ UNCHANGED <<chain, adopted, fin, done, item, pos, ack, schedule, stored, used, latest, late>>

\* The next block is notarized here, by its votes or by the certificate of
\* another node; that may be in a later round than the one that is running.
AdoptBlock ==
    /\ running
    /\ adopted < Len(chain) /\ chain[adopted + 1].round >= round
    /\ Known(chain[adopted + 1].round)
    /\ LET r == chain[adopted + 1].round
       IN  /\ used' = used \cup {<<r, ParamsAt(schedule, r)>>}
           /\ round' = r + 1
    /\ adopted' = adopted + 1 /\ running' = FALSE
    /\ UNCHANGED <<chain, fin, done, item, pos, ack, schedule, stored, latest, late>>

Finalize ==
    /\ fin < adopted
    /\ fin' = fin + 1
    /\ UNCHANGED <<chain, adopted, done, item, round, running, pos, ack, schedule, stored, used, latest, late>>

-----------------------------------------------------------------------------
(* The application                                                          *)

\* ack_and_wait_next_block acknowledges the round of the next block when finality
\* is past the position and not past the block; the position stays.
AckAhead ==
    /\ done = fin /\ fin < adopted
    /\ ack' = chain[done + 1].round
    /\ UNCHANGED <<chain, adopted, fin, done, item, round, running, pos, schedule, stored, used, latest, late>>

\* consensus_params_change_tx for the next change of the block, from the
\* position, with the assertion that the node has not come that far.
ConsensusParamsChange ==
    /\ done < fin /\ item < Len(chain[done + 1].changes)
    /\ Known(pos)
    /\ LET p == [id   |-> latest.id + 1,
                 size |-> IF latest.size + chain[done + 1].changes[item + 1] < MinSize THEN MinSize
                          ELSE latest.size + chain[done + 1].changes[item + 1]]
           a == ApplyRound(schedule, pos)
       IN  /\ InsertConsensusParams(a, p)
           /\ latest' = p
           /\ late' = (late \/ round >= a)
    /\ item' = item + 1
    /\ UNCHANGED <<chain, adopted, fin, done, round, running, pos, ack, used>>

\* All items of the block were processed.
EndBlock ==
    /\ done < fin /\ item = Len(chain[done + 1].changes)
    /\ pos' = chain[done + 1].round + 1 /\ ack' = chain[done + 1].round + 1
    /\ done' = done + 1 /\ item' = 0
    /\ UNCHANGED <<chain, adopted, fin, round, running, schedule, stored, used, latest, late>>

\* The process is restarted: the application acknowledges its position again.
Restart ==
    /\ running \/ ack # pos
    /\ item = 0
    /\ running' = FALSE /\ ack' = pos
    /\ UNCHANGED <<chain, adopted, fin, done, item, round, pos, schedule, stored, used, latest, late>>

Next ==
    \/ NewBlock \/ StartRound \/ EndRoundDummy \/ AdoptBlock \/ Finalize
    \/ AckAhead \/ ConsensusParamsChange \/ EndBlock \/ Restart

Spec == Init /\ [][Next]_vars

-----------------------------------------------------------------------------
(* Properties                                                               *)

\* The parameters a node used for a round are those that apply to it for good:
\* no change is scheduled for a round that was already played or verified, for
\* instance when a block is adopted over a gap (consensus_params_change_tx,
\* process_notarized_block_response_tx).
ParamsAreStable ==
    \A u \in used : u[2] = ParamsAt(schedule, u[1])

\* Does not hold: scheduled parameters can be found, "Must always have params for
\* a given hash" (get_consensus_params_opt).  Parameters for a round that has some
\* take their place in the schedule and are not stored (insert_consensus_params).
ParamsFound == \A e \in schedule : e.params \in stored

\* A change is scheduled for a later round than the current one (the assertion of
\* consensus_params_change_tx).  Does not hold when the rounds without a block in a
\* row are half as many as the members, since the application acknowledges rounds
\* it has not processed.
ChangeInTime == ~late

=============================================================================
