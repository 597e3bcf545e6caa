------------------------------- MODULE NodeApp -------------------------------
(***************************************************************************)
(* The application layer of one node (crates/node-app): it takes the final *)
(* blocks in order and hands their consensus items to the modules, one     *)
(* database transaction per item, keeping its position in the database.    *)
(*                                                                         *)
(* `db` is what survives a crash: the position, and the two tables of the  *)
(* consensus-ctrl module the application copies, the peer set and the      *)
(* modules' configurations.  `mem` is the running process.  `log`, `done`  *)
(* and `sched` are histories: the items handed over, the blocks completed, *)
(* and the rounds from which parameter changes were scheduled.             *)
(*                                                                         *)
(* An item is the module it addresses and what that module makes of it:    *)
(* nothing, an error, a new peer set, a new or upgraded module, or a new   *)
(* peer set followed by an error of a module that processes the effect.    *)
(***************************************************************************)
EXTENDS Integers, Sequences, FiniteSets

CONSTANTS
    Peers,          \* every peer that is ever a member
    InitPeers,      \* the members the federation starts with
    Modules,        \* module ids; 0 is the consensus-ctrl module
    Blocks,         \* what a final block may be: [peer, items]
    MaxRound,       \* bound: rounds of final blocks
    MaxVersion,     \* bound: configurations of one module
    MaxCrashes      \* bound: crashes of the process

Rounds   == 0 .. MaxRound
Versions == 0 .. MaxVersion       \* 0: the module is not configured

ItemType ==
         [module : Modules, op : {"none", "error"}]
    \cup [module : {0}, op : {"peers", "late_error"}, peers : SUBSET Peers]
    \cup [module : {0}, op : {"config"}, target : Modules]

FinalBlocks == {[round |-> r, peer |-> b.peer, items |-> b.items] : r \in Rounds, b \in Blocks}

ASSUME AppAssumption ==
    /\ 0 \in Modules /\ MaxRound \in Nat /\ MaxVersion \in Nat \ {0} /\ MaxCrashes \in Nat
    /\ InitPeers \in SUBSET Peers
    /\ Blocks \subseteq [peer : Peers, items : Seq(ItemType)]

VARIABLES
    chain,      \* the final blocks, as ack_and_wait_next_block delivers them
    db,         \* [round, idx: app_cur_round; peers, configs: consensus-ctrl's tables]
    mem,        \* the process, or Off
    crashes,    \* crashes so far, and those in the middle of a block
    log, done, sched

vars == <<chain, db, mem, crashes, log, done, sched>>

\* A copy that may be missing is a set of at most one element.
None      == {}
Some(x)   == {x}
Option(T) == {None} \cup {Some(x) : x \in T}

Off  == [pc |-> "off"]
NoModules == [m \in Modules |-> 0]

Mem == {Off} \cup
    [pc : {"wait", "loop", "apply", "failed"},
     round : Nat, idx : Nat,               \* cur_round_idx
     block : Nat, next : Nat,              \* the block being processed and the index of its item
     peerSet : Option(SUBSET Peers),       \* copies of consensus-ctrl's tables
     configs : Option([Modules -> Versions]),
     running : [Modules -> Versions]]      \* the modules that were set up

TypeOK ==
    /\ chain \in Seq(FinalBlocks)
    /\ db \in [round : Nat, idx : Nat, peers : SUBSET Peers, configs : [Modules -> Versions]]
    /\ mem \in Mem
    /\ crashes \in [all : 0 .. MaxCrashes, torn : Nat]
    /\ log \in Seq(Nat \X Nat)
    /\ done \in Nat
    /\ sched \in SUBSET (Nat \X Nat)

Init ==
    /\ chain = <<>>
    /\ db = [round |-> 0, idx |-> 0, peers |-> {}, configs |-> NoModules]
    /\ mem = Off
    /\ crashes = [all |-> 0, torn |-> 0]
    /\ log = <<>> /\ done = 0 /\ sched = {}

-----------------------------------------------------------------------------
(* Consensus finalizes another block.                                       *)

LastRound == IF chain = <<>> THEN -1 ELSE chain[Len(chain)].round

Finalize ==
    /\ \E b \in FinalBlocks : b.round > LastRound /\ chain' = Append(chain, b)
    /\ UNCHANGED <<db, mem, crashes, log, done, sched>>

-----------------------------------------------------------------------------
(* Start                                                                    *)

\* init_consensus_ctrl: the tables are filled from the parameters unless they
\* already were.
Bootstrapped ==
    IF db.configs[0] # 0 THEN db
    ELSE [db EXCEPT !.peers = InitPeers, !.configs = [NoModules EXCEPT ![0] = 1]]

\* NodeApp::new and the part of run before its loop.
Start ==
    /\ mem = Off
    /\ db' = Bootstrapped
    /\ mem' = [pc |-> "wait", round |-> db.round, idx |-> db.idx, block |-> 0, next |-> 0,
               peerSet |-> None, configs |-> None, running |-> db'.configs]
    /\ UNCHANGED <<chain, crashes, log, done, sched>>

-----------------------------------------------------------------------------
(* The loop                                                                 *)

\* Mutant: a block at the position's own round is passed over.
WaitLaterBlock ==
    /\ mem.pc = "wait"
    /\ \E b \in DOMAIN chain :
          /\ chain[b].round > mem.round
          /\ \A c \in DOMAIN chain : chain[c].round > mem.round => b <= c
          /\ mem' = [mem EXCEPT !.pc = "loop", !.block = b, !.next = 0]
    /\ UNCHANGED <<chain, db, crashes, log, done, sched>>

\* ack_and_wait_next_block: the first final block at the position's round or
\* later.
WaitNextBlock ==
    /\ mem.pc = "wait"
    /\ \E b \in DOMAIN chain :
          /\ chain[b].round >= mem.round
          /\ \A c \in DOMAIN chain : chain[c].round >= mem.round => b <= c
          /\ mem' = [mem EXCEPT !.pc = "loop", !.block = b, !.next = 0]
    /\ UNCHANGED <<chain, db, crashes, log, done, sched>>

Items == chain[mem.block].items
Item  == Items[mem.next + 1]

\* Mutant: the item at the position is left out too.
SkipCItemAtPosition ==
    /\ mem.pc = "loop"
    /\ mem.next < Len(Items) /\ mem.idx >= mem.next
    /\ mem' = [mem EXCEPT !.idx = mem.next, !.next = @ + 1]
    /\ UNCHANGED <<chain, db, crashes, log, done, sched>>

\* An item before the position is left out; either way the position becomes
\* the item's index.
SkipCItem ==
    /\ mem.pc = "loop"
    /\ mem.next < Len(Items) /\ mem.idx > mem.next
    /\ mem' = [mem EXCEPT !.idx = mem.next, !.next = @ + 1]
    /\ UNCHANGED <<chain, db, crashes, log, done, sched>>

\* Copies that were given up are read again, and the modules whose
\* configuration changed are set up anew.
ReloadInvalidatedCopies ==
    /\ mem.pc = "loop"
    /\ mem.next < Len(Items) /\ mem.idx <= mem.next
    /\ mem' = [mem EXCEPT
                  !.pc      = "apply",
                  !.peerSet = IF @ = None THEN Some(db.peers) ELSE @,
                  !.configs = IF @ = None THEN Some(db.configs) ELSE @,
                  !.running = IF mem.configs = None THEN db.configs ELSE @]
    /\ UNCHANGED <<chain, db, crashes, log, done, sched>>

\* Whether process_citem_try commits.
Accepted ==
    /\ \E s \in mem.peerSet : chain[mem.block].peer \in s
    /\ mem.running[Item.module] # 0
    /\ Item.op \in {"none", "peers", "config"}
    /\ Item.op = "config" => db.configs[Item.target] < MaxVersion    \* the bound

\* What the modules make of the tables.
PeersAfter   == IF Item.op = "peers" THEN Item.peers ELSE db.peers
ConfigsAfter == IF Item.op = "config" THEN [db.configs EXCEPT ![Item.target] = @ + 1] ELSE db.configs

\* The item counts as handed over once the modules have judged it.
Judged == log' = Append(log, <<mem.block, mem.next + 1>>)

\* Mutant: the position is stored with the block's round.
ProcessCItemAtBlockRound ==
    /\ mem.pc = "apply"
    /\ Accepted
    /\ db' = [db EXCEPT
                 !.round   = chain[mem.block].round,
                 !.idx     = mem.idx,
                 !.peers   = PeersAfter,
                 !.configs = ConfigsAfter]
    /\ mem' = [mem EXCEPT
                  !.pc      = "loop",
                  !.peerSet = IF Item.op = "peers" THEN Some(Item.peers) ELSE @,
                  !.configs = IF Item.op = "config" THEN None ELSE @,
                  !.idx     = mem.next,
                  !.next    = @ + 1]
    /\ sched' = IF Item.op = "peers" THEN sched \cup {<<mem.block, mem.round>>} ELSE sched
    /\ Judged
    /\ UNCHANGED <<chain, crashes, done>>

\* process_citem_try commits: the tables, the position as it was before this
\* item, and the copies that follow the effects.
ProcessCItem ==
    /\ mem.pc = "apply"
    /\ Accepted
    /\ db' = [db EXCEPT
                 !.round   = mem.round,
                 !.idx     = mem.idx,
                 !.peers   = PeersAfter,
                 !.configs = ConfigsAfter]
    /\ mem' = [mem EXCEPT
                  !.pc      = "loop",
                  !.peerSet = IF Item.op = "peers" THEN Some(Item.peers) ELSE @,
                  !.configs = IF Item.op = "config" THEN None ELSE @,
                  !.idx     = mem.next,
                  !.next    = @ + 1]
    /\ sched' = IF Item.op = "peers" THEN sched \cup {<<mem.block, mem.round>>} ELSE sched
    /\ Judged
    /\ UNCHANGED <<chain, crashes, done>>

\* Mutant: the copies are kept when the transaction is rolled back.
RejectCItemKeepingCopies ==
    /\ mem.pc = "apply"
    /\ ~Accepted
    /\ mem' = [mem EXCEPT
                  !.pc      = "failed",
                  !.peerSet = IF Item.op = "late_error" /\ \E s \in @ : chain[mem.block].peer \in s
                              THEN Some(Item.peers) ELSE @]
    /\ Judged
    /\ UNCHANGED <<chain, db, crashes, done, sched>>

\* process_citem_try fails: the transaction is rolled back and the copies,
\* which may have followed its effects, are given up.
RejectCItem ==
    /\ mem.pc = "apply"
    /\ ~Accepted
    /\ mem' = [mem EXCEPT !.pc = "failed", !.peerSet = None, !.configs = None]
    /\ Judged
    /\ UNCHANGED <<chain, db, crashes, done, sched>>

\* The position past a rejected item, in a transaction of its own.
SaveAfterReject ==
    /\ mem.pc = "failed"
    /\ db' = [db EXCEPT !.round = mem.round, !.idx = mem.idx + 1]
    /\ mem' = [mem EXCEPT !.pc = "loop", !.idx = mem.next, !.next = @ + 1]
    /\ UNCHANGED <<chain, crashes, log, done, sched>>

\* Mutant: the position moves to the next round, not past the block's.
EndBlockNextRound ==
    /\ mem.pc = "loop"
    /\ mem.next = Len(Items)
    /\ mem' = [mem EXCEPT !.pc = "wait", !.round = @ + 1, !.idx = 0]
    /\ db' = [db EXCEPT !.round = mem.round + 1, !.idx = 0]
    /\ done' = mem.block
    /\ UNCHANGED <<chain, crashes, log, sched>>

\* All items of the block were seen: the position moves past its round.
EndBlock ==
    /\ mem.pc = "loop"
    /\ mem.next = Len(Items)
    /\ mem' = [mem EXCEPT !.pc = "wait", !.round = chain[mem.block].round + 1, !.idx = 0]
    /\ db' = [db EXCEPT !.round = chain[mem.block].round + 1, !.idx = 0]
    /\ done' = mem.block
    /\ UNCHANGED <<chain, crashes, log, sched>>

Crash ==
    /\ mem # Off
    /\ crashes.all < MaxCrashes
    /\ mem' = Off
    /\ crashes' = [all  |-> crashes.all + 1,
                   torn |-> IF mem.pc = "wait" THEN crashes.torn ELSE crashes.torn + 1]
    /\ UNCHANGED <<chain, db, log, done, sched>>

AppStep ==
    \/ Start \/ WaitNextBlock
    \/ SkipCItem \/ ReloadInvalidatedCopies \/ ProcessCItem \/ RejectCItem \/ SaveAfterReject
    \/ EndBlock

Next == Finalize \/ AppStep \/ Crash

Spec == Init /\ [][Next]_vars

\* The application task is polled whenever it can go on.
FairSpec == Spec /\ WF_vars(AppStep)

-----------------------------------------------------------------------------
(* Properties                                                               *)

\* The application against its abstract specification; chain, log and done are
\* the same variables.
Abs == INSTANCE ItemLog WITH Blocks <- FinalBlocks

\* Wherever the process stops, no item of the final chain is left out, none is
\* handed over early, and a completed block is never returned to: at worst the
\* block being processed is started over (NodeApp::run, app_cur_round).
NeverSkipped == Abs!Spec

\* An item is judged against copies of the peer set and of the modules'
\* configurations that agree with the tables, by modules that were set up with
\* them, after commits, rollbacks and crashes alike (the debug_assert_eq! of
\* reload_invalidated_copies).
CopiesAgree ==
    mem.pc = "apply" =>
        /\ mem.peerSet = Some(db.peers)
        /\ mem.configs = Some(db.configs)
        /\ mem.running = db.configs

\* A parameter change is scheduled from the round after the previous final
\* block, on every node and on every replay of the item: the round that all
\* nodes must agree on does not depend on when this one crashed
\* (process_consensus_change_effects_core_pre).
ScheduleAgreed ==
    \A s \in sched : s[2] = IF s[1] = 1 THEN 0 ELSE chain[s[1] - 1].round + 1

\* Every final block is eventually completed, crashes notwithstanding
\* (NodeApp::run never waits for anything but the next final block).
EveryBlockCompleted ==
    \A b \in 1 .. (MaxRound + 1) : Len(chain) >= b ~> done >= b

\* Only a crash in the middle of a block repeats items of it, each once at
\* most; a process that stops between two blocks, or not at all, hands every
\* item over a single time, in blocks that are rounds apart too (app_cur_round).
RepeatedByCrashOnly ==
    \A i \in DOMAIN log : Cardinality({j \in DOMAIN log : log[j] = log[i]}) <= 1 + crashes.torn

\* Does not hold: app_cur_round is to hold the "position in the block of items
\* that were already processed", but a commit stores the position before its
\* item, so that a crash after it repeats the item.
ProcessedOnce ==
    \A i, j \in DOMAIN log : log[i] = log[j] => i = j

=============================================================================
