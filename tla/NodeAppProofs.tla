---------------------------- MODULE NodeAppProofs ----------------------------
(***************************************************************************)
(* The application implements its abstract specification, for any blocks,  *)
(* any modules and any number of crashes.                                  *)
(***************************************************************************)
EXTENDS NodeApp, SequenceTheorems, FiniteSetTheorems, TLAPS

-----------------------------------------------------------------------------
(***************************************************************************)
(* The invariant.                                                          *)
(***************************************************************************)
Last == log[Len(log)]

\* Modules were handed an item of the block that is not completed.
InBlock == log # <<>> /\ Last[1] = done + 1

\* The round after that of block b.
RoundAfter(b) == IF b = 0 THEN 0 ELSE chain[b].round + 1

\* A block of the chain is being processed.
Busy == mem.pc \in {"loop", "apply", "failed"}

Running ==
    [pc : {"wait", "loop", "apply", "failed"},
     round : Nat, idx : Nat, block : Nat, next : Nat,
     peerSet : Option(SUBSET Peers), configs : Option([Modules -> Versions]),
     running : [Modules -> Versions]]

\* Final blocks come in the order of their rounds.
ChainOrdered == \A b, c \in DOMAIN chain : b < c => chain[b].round < chain[c].round

\* The position is past the completed blocks and not past the next one.
PositionInv ==
    /\ done \in 0 .. Len(chain)
    /\ db.round = RoundAfter(done)
    /\ db.idx > 0 => InBlock
    /\ mem # Off => mem.round = db.round /\ (mem.idx > 0 => InBlock)
    /\ Busy => /\ mem.block = done + 1 /\ done < Len(chain)
               /\ mem.next <= Len(Items) /\ (mem.pc # "loop" => mem.next < Len(Items))
               /\ mem.next > 0 => InBlock /\ Last[2] >= mem.next /\ mem.idx < mem.next
    /\ mem.pc = "failed" => InBlock /\ Last[2] > mem.next

\* The items of completed blocks have been handed over.
LogInv ==
    /\ log # <<>> => Last \in Abs!Positions /\ Last[1] <= done + 1
    /\ \A q \in Abs!Positions : q[1] <= done => log # <<>> /\ ~Abs!Before(Last, q)

\* Copies are missing or agree with the tables.
CopiesInv ==
    mem # Off => /\ mem.peerSet \in {None, Some(db.peers)}
                 /\ mem.configs \in {None, Some(db.configs)}
                 /\ mem.configs # None => mem.running = db.configs
                 /\ mem.pc = "apply" => mem.peerSet # None /\ mem.configs # None

SchedInv ==
    \A s \in sched : s[1] \in DOMAIN chain /\ s[2] = RoundAfter(s[1] - 1)

Inv == TypeOK /\ ChainOrdered /\ PositionInv /\ LogInv /\ CopiesInv /\ SchedInv

-----------------------------------------------------------------------------
(***************************************************************************)
(* Types.                                                                  *)
(***************************************************************************)
\* A process is off, or a record with all of its fields.
LEMMA RunningOrOff ==
    /\ Mem = {Off} \cup Running
    /\ \A m \in Mem : m # Off <=> m \in Running
    /\ \A m \in Mem : m.pc # "off" => m \in Running
    /\ \A m \in Running : m # Off /\ m.pc \in {"wait", "loop", "apply", "failed"}
    /\ Off.pc = "off"
<1>1. Mem = {Off} \cup Running
    BY DEF Mem, Running
<1>2. Off.pc = "off"
    BY DEF Off
<1>3. \A m \in Running : m.pc \in {"wait", "loop", "apply", "failed"}
    BY DEF Running
<1>. QED
    BY <1>1, <1>2, <1>3

\* Blocks have a round and well typed items.
LEMMA BlockTypes ==
    ASSUME NEW b \in FinalBlocks
    PROVE  b.round \in Nat /\ b.peer \in Peers /\ b.items \in Seq(ItemType)
    BY AppAssumption DEF FinalBlocks, Rounds

\* Items that change the peer set or a configuration name members or a module.
LEMMA ItemTypes ==
    ASSUME NEW i \in ItemType
    PROVE  /\ i.op \in {"peers", "late_error"} => i.peers \in SUBSET Peers
           /\ i.op = "config" => i.target \in Modules
<1>1. CASE i \in [module : Modules, op : {"none", "error"}]
    BY <1>1
<1>2. CASE i \in [module : {0}, op : {"peers", "late_error"}, peers : SUBSET Peers]
    BY <1>2
<1>3. CASE i \in [module : {0}, op : {"config"}, target : Modules]
    BY <1>3
<1>. QED
    BY <1>1, <1>2, <1>3 DEF ItemType

\* Options of the tables' contents.
LEMMA Options ==
    ASSUME NEW T
    PROVE  /\ None \in Option(T)
           /\ \A x \in T : Some(x) \in Option(T) /\ Some(x) # None
           /\ \A x, y : Some(x) = Some(y) => x = y
    BY DEF None, Option, Some

\* A sequence with one more element.
LEMMA AppendLast ==
    ASSUME NEW S, NEW s \in Seq(S), NEW e \in S
    PROVE  /\ Append(s, e) \in Seq(S) /\ Append(s, e) # <<>>
           /\ Append(s, e)[Len(Append(s, e))] = e
    BY AppendProperties

\* The positions of a chain.
LEMMA PositionsAre ==
    ASSUME chain \in Seq(FinalBlocks)
    PROVE  /\ \A b, i : <<b, i>> \in Abs!Positions <=>
                  b \in DOMAIN chain /\ i \in DOMAIN chain[b].items
           /\ \A p \in Abs!Positions : /\ p = <<p[1], p[2]>>
                                       /\ p[1] \in DOMAIN chain /\ p[1] \in Nat /\ p[1] >= 1
                                       /\ p[2] \in DOMAIN chain[p[1]].items
                                       /\ p[2] \in Nat /\ p[2] >= 1
<1>1. \A b \in DOMAIN chain : chain[b] \in FinalBlocks /\ b \in Nat /\ b >= 1
    OBVIOUS
<1>2. \A b \in DOMAIN chain : \A i \in DOMAIN chain[b].items : i \in Nat /\ i >= 1
    BY <1>1, BlockTypes
<1>3. \A p : p \in Abs!Positions <=> \E b \in DOMAIN chain : p \in {b} \X DOMAIN chain[b].items
    BY DEF Abs!Positions
<1>. QED
    BY <1>1, <1>2, <1>3

-----------------------------------------------------------------------------
(***************************************************************************)
(* Steps.                                                                  *)
(***************************************************************************)
AbsStep ==
    [Abs!Extend \/ Abs!Process \/ Abs!Complete \/ Abs!StartOver]_(Abs!logVars)

\* The state before any block.
LEMMA InitInv == Init => Inv
<1>. SUFFICES ASSUME Init PROVE Inv
    OBVIOUS
<1>1. chain = <<>> /\ chain \in Seq(FinalBlocks) /\ Len(chain) = 0
    BY DEF Init
<1>2. \A p : p \notin Abs!Positions
    BY <1>1, PositionsAre
<1>3. TypeOK
  <2>1. db \in [round : Nat, idx : Nat, peers : SUBSET Peers, configs : [Modules -> Versions]]
    BY AppAssumption DEF Init, NoModules, Versions
  <2>2. mem \in Mem
    BY RunningOrOff DEF Init
  <2>. QED
    BY <1>1, <2>1, <2>2, AppAssumption DEF Init, TypeOK
<1>4. PositionInv
    BY <1>1, RunningOrOff DEF Init, PositionInv, RoundAfter, Busy
<1>. QED
    BY <1>1, <1>2, <1>3, <1>4 DEF Inv, Init, ChainOrdered, LogInv, CopiesInv, SchedInv

\* Consensus finalizes a block.
LEMMA FinalizeInv ==
    ASSUME Inv, Finalize
    PROVE  Inv' /\ AbsStep
<1>. USE DEF Inv
<1>1. /\ chain \in Seq(FinalBlocks) /\ done \in Nat /\ Len(chain) \in Nat
      /\ UNCHANGED <<db, mem, crashes, log, done, sched>>
    BY DEF TypeOK, Finalize
<1>2. PICK b \in FinalBlocks : b.round > LastRound /\ chain' = Append(chain, b)
    BY DEF Finalize
<1>3. /\ chain' \in Seq(FinalBlocks) /\ Len(chain') = Len(chain) + 1
      /\ DOMAIN chain = 1 .. Len(chain) /\ DOMAIN chain' = 1 .. Len(chain) + 1
      /\ \A c \in DOMAIN chain : c \in DOMAIN chain' /\ chain'[c] = chain[c]
      /\ chain'[Len(chain) + 1] = b
    BY <1>1, <1>2
<1>4. ChainOrdered'
  <2>1. \A c \in DOMAIN chain : chain[c].round \in Nat /\ b.round \in Nat
    BY <1>1, BlockTypes
  <2>2. \A c \in DOMAIN chain : chain[c].round <= chain[Len(chain)].round
    BY <1>1, <1>3, <2>1 DEF ChainOrdered
  <2>3. \A c \in DOMAIN chain : chain[c].round < b.round
    BY <1>1, <1>2, <1>3, <2>1, <2>2 DEF LastRound
  <2>. QED
    BY <1>1, <1>3, <2>3 DEF ChainOrdered
<1>5. Abs!Positions \subseteq Abs!Positions'
      /\ \A q \in Abs!Positions' : q[1] <= done => q \in Abs!Positions
  <2>1. /\ \A c, i : <<c, i>> \in Abs!Positions' <=> c \in DOMAIN chain' /\ i \in DOMAIN chain'[c].items
        /\ \A p \in Abs!Positions' : p = <<p[1], p[2]>> /\ p[1] \in DOMAIN chain' /\ p[1] \in Nat /\ p[1] >= 1
    <3>1. \A c \in DOMAIN chain' : c \in Nat /\ c >= 1
        BY <1>3
    <3>2. \A p : p \in Abs!Positions' <=> \E c \in DOMAIN chain' : p \in {c} \X DOMAIN chain'[c].items
        BY DEF Abs!Positions
    <3>. QED
        BY <3>1, <3>2
  <2>2. \A p \in Abs!Positions : p \in Abs!Positions'
    BY <1>1, <1>3, <2>1, PositionsAre
  <2>3. \A q \in Abs!Positions' : q[1] <= done => q \in Abs!Positions
    <3>. SUFFICES ASSUME NEW q \in Abs!Positions', q[1] <= done
                  PROVE  q \in Abs!Positions
        OBVIOUS
    <3>1. q = <<q[1], q[2]>> /\ q[1] \in DOMAIN chain /\ q[2] \in DOMAIN chain'[q[1]].items
        BY <1>1, <1>3, <2>1 DEF PositionInv
    <3>. QED
        BY <1>1, <1>3, <3>1, PositionsAre
  <2>. QED
    BY <2>2, <2>3
<1>6. LogInv'
    BY <1>1, <1>5 DEF LogInv, Last, Abs!Before
<1>7. \A k \in 0 .. Len(chain) : RoundAfter(k)' = RoundAfter(k)
    BY <1>1, <1>3 DEF RoundAfter
<1>8. PositionInv'
  <2>1. Busy => Items' = Items
    BY <1>1, <1>3 DEF PositionInv, Items, Busy
  <2>. QED
    BY <1>1, <1>3, <1>7, <2>1 DEF PositionInv, InBlock, Last, Busy
<1>9. SchedInv'
    BY <1>1, <1>3, <1>7 DEF SchedInv
<1>10. TypeOK' /\ CopiesInv'
    BY <1>1, <1>3 DEF TypeOK, CopiesInv
<1>11. AbsStep
    BY <1>1, <1>2 DEF AbsStep, Abs!Extend
<1>. QED
    BY <1>4, <1>6, <1>8, <1>9, <1>10, <1>11

\* What steps of the application leave alone.
LEMMA SameLog ==
    ASSUME Inv, UNCHANGED <<chain, log, done, sched>>
    PROVE  ChainOrdered' /\ LogInv' /\ SchedInv' /\ AbsStep
<1>1. Abs!Positions' = Abs!Positions
    BY DEF Abs!Positions
<1>. QED
    BY <1>1 DEF Inv, ChainOrdered, LogInv, SchedInv, RoundAfter, Last, Abs!Before, AbsStep, Abs!logVars

\* NodeApp::new and init_consensus_ctrl.
LEMMA StartInv ==
    ASSUME Inv, Start
    PROVE  Inv' /\ AbsStep
<1>. USE DEF Inv
<1>1. ChainOrdered' /\ LogInv' /\ SchedInv' /\ AbsStep
    BY SameLog DEF Start
<1>2. /\ db \in [round : Nat, idx : Nat, peers : SUBSET Peers, configs : [Modules -> Versions]]
      /\ db' \in [round : Nat, idx : Nat, peers : SUBSET Peers, configs : [Modules -> Versions]]
      /\ db'.round = db.round /\ db'.idx = db.idx
  <2>1. [NoModules EXCEPT ![0] = 1] \in [Modules -> Versions]
    BY AppAssumption DEF NoModules, Versions
  <2>2. db \in [round : Nat, idx : Nat, peers : SUBSET Peers, configs : [Modules -> Versions]]
    BY DEF TypeOK
  <2>3. CASE db' = db
    BY <2>2, <2>3
  <2>4. CASE db' = [db EXCEPT !.peers = InitPeers, !.configs = [NoModules EXCEPT ![0] = 1]]
    BY <2>1, <2>2, <2>4, AppAssumption
  <2>. QED
    BY <2>2, <2>3, <2>4 DEF Start, Bootstrapped
<1>3. /\ mem' \in Running /\ mem'.pc = "wait" /\ mem'.round = db.round /\ mem'.idx = db.idx
      /\ mem'.peerSet = None /\ mem'.configs = None
  <2>1. mem' = [pc |-> "wait", round |-> db.round, idx |-> db.idx, block |-> 0, next |-> 0,
                peerSet |-> None, configs |-> None, running |-> db'.configs]
    BY DEF Start
  <2>. QED
    BY <1>2, <2>1, Options DEF Running
<1>4. TypeOK'
    BY <1>2, <1>3, RunningOrOff DEF Start, TypeOK
<1>5. PositionInv'
    BY <1>2, <1>3, RunningOrOff DEF Start, PositionInv, InBlock, Last, RoundAfter, Busy
<1>6. CopiesInv'
    BY <1>3 DEF CopiesInv
<1>. QED
    BY <1>1, <1>4, <1>5, <1>6

\* The next block is the one after the completed ones.
LEMMA WaitInv ==
    ASSUME Inv, WaitNextBlock
    PROVE  Inv' /\ AbsStep
<1>. USE DEF Inv
<1>1. ChainOrdered' /\ LogInv' /\ SchedInv' /\ AbsStep
    BY SameLog DEF WaitNextBlock
<1>2. /\ mem \in Running /\ mem # Off /\ chain \in Seq(FinalBlocks)
      /\ UNCHANGED <<chain, db, crashes, log, done, sched>>
    BY RunningOrOff DEF WaitNextBlock, TypeOK
<1>3. PICK b \in DOMAIN chain :
        /\ chain[b].round >= mem.round
        /\ \A c \in DOMAIN chain : chain[c].round >= mem.round => b <= c
        /\ mem' = [mem EXCEPT !.pc = "loop", !.block = b, !.next = 0]
    BY DEF WaitNextBlock
<1>4. /\ mem' \in Running /\ mem'.pc = "loop" /\ mem'.block = b /\ mem'.next = 0
      /\ mem'.round = mem.round /\ mem'.idx = mem.idx
      /\ mem'.peerSet = mem.peerSet /\ mem'.configs = mem.configs /\ mem'.running = mem.running
  <2>1. b \in Nat
    BY <1>2, <1>3
  <2>2. mem' = [mem EXCEPT !.pc = "loop", !.block = b, !.next = 0]
    BY <1>3
  <2>. QED
    BY <1>2, <2>1, <2>2 DEF Running
<1>5. b = done + 1
  <2>1. /\ b \in Nat /\ b >= 1 /\ b <= Len(chain) /\ Len(chain) \in Nat /\ DOMAIN chain = 1 .. Len(chain)
        /\ done \in 0 .. Len(chain)
        /\ mem.round = RoundAfter(done)
    BY <1>2 DEF PositionInv
  <2>2. \A c \in DOMAIN chain : chain[c].round \in Nat
    BY <1>2, BlockTypes
  <2>3. b > done
    <3>1. CASE b <= done
      <4>1. done \in DOMAIN chain /\ chain[b].round <= chain[done].round
        BY <2>1, <2>2, <3>1 DEF ChainOrdered
      <4>2. mem.round = chain[done].round + 1
        BY <2>1, <3>1 DEF RoundAfter
      <4>. QED
        BY <1>3, <2>2, <4>1, <4>2
    <3>. QED
        BY <2>1, <3>1
  <2>4. done + 1 \in DOMAIN chain /\ chain[done + 1].round >= mem.round
    <3>1. done + 1 \in DOMAIN chain
        BY <2>1, <2>3
    <3>2. done > 0 => chain[done].round < chain[done + 1].round
        BY <2>1, <3>1 DEF ChainOrdered
    <3>. QED
        BY <2>1, <2>2, <3>1, <3>2 DEF RoundAfter
  <2>. QED
    BY <1>3, <2>1, <2>3, <2>4
<1>6. TypeOK'
    BY <1>2, <1>4, RunningOrOff DEF TypeOK
<1>7. PositionInv'
  <2>1. Items' = chain[b].items /\ Len(chain[b].items) \in Nat
    BY <1>2, <1>3, <1>4, BlockTypes DEF Items
  <2>2. done < Len(chain)
    BY <1>2, <1>3, <1>5 DEF PositionInv
  <2>. QED
    BY <1>2, <1>4, <1>5, <2>1, <2>2, RunningOrOff DEF PositionInv, InBlock, Last, RoundAfter, Busy
<1>8. CopiesInv'
    BY <1>2, <1>4 DEF CopiesInv
<1>. QED
    BY <1>1, <1>6, <1>7, <1>8

\* The item that is judged comes next, or again.
LEMMA JudgedIsNext ==
    ASSUME Inv, mem.pc = "apply", Judged, UNCHANGED <<chain, done>>
    PROVE  /\ LogInv' /\ AbsStep /\ log' \in Seq(Nat \X Nat)
           /\ InBlock' /\ Last' = <<mem.block, mem.next + 1>>
<1> DEFINE p == <<mem.block, mem.next + 1>>
<1>1. /\ chain \in Seq(FinalBlocks) /\ log \in Seq(Nat \X Nat) /\ done \in Nat
      /\ mem \in Running /\ mem.next \in Nat /\ mem.block \in Nat
    BY RunningOrOff DEF Inv, TypeOK, Running
<1>2. /\ mem.block = done + 1 /\ done + 1 \in DOMAIN chain
      /\ mem.next < Len(chain[done + 1].items) /\ chain[done + 1].items \in Seq(ItemType)
      /\ mem.next > 0 => InBlock /\ Last[2] >= mem.next
  <2>1. done + 1 \in DOMAIN chain
    BY <1>1 DEF Inv, PositionInv, Busy
  <2>2. chain[done + 1] \in FinalBlocks
    BY <1>1, <2>1
  <2>. QED
    BY <2>1, <2>2, BlockTypes DEF Inv, PositionInv, Busy, Items
<1>3. p \in Abs!Positions /\ p[1] = done + 1 /\ p[2] = mem.next + 1
    BY <1>1, <1>2, PositionsAre
<1>4. log' = Append(log, p)
    BY DEF Judged
<1>5. log' \in Seq(Nat \X Nat) /\ log' # <<>> /\ Last' = p
  <2>1. p \in Nat \X Nat
    BY <1>1
  <2>. HIDE DEF p
  <2>. QED
    BY <1>1, <1>4, <2>1, AppendLast DEF Last
<1>6. InBlock'
    BY <1>3, <1>5 DEF InBlock
<1>7. Abs!Positions' = Abs!Positions
    BY DEF Abs!Positions
<1>8. LogInv'
  <2>1. \A q \in Abs!Positions : q[1] \in Nat /\ q[2] \in Nat
    BY <1>1, PositionsAre
  <2>2. \A q \in Abs!Positions : q[1] <= done => ~Abs!Before(p, q)
    BY <1>1, <1>3, <2>1 DEF Abs!Before
  <2>. HIDE DEF p
  <2>3. \A q \in Abs!Positions : q[1] <= done => ~Abs!Before(Last, q)'
    BY <1>5, <2>2 DEF Abs!Before
  <2>4. p[1] <= done + 1
    BY <1>1, <1>3
  <2>. QED
    BY <1>3, <1>5, <1>7, <2>3, <2>4 DEF LogInv, Abs!Before
<1>9. log # <<>> => Last \in Abs!Positions /\ Last[1] <= done + 1 /\ Last[1] \in Nat /\ Last[2] \in Nat
    BY <1>1, PositionsAre DEF Inv, LogInv
<1>10. CASE InBlock /\ Last[2] >= mem.next + 1
  <2>1. log # <<>> /\ Last[1] > done /\ mem.next + 1 \in 1 .. Last[2] /\ p = <<Last[1], mem.next + 1>>
    BY <1>1, <1>2, <1>9, <1>10 DEF InBlock
  <2>. HIDE DEF p
  <2>2. Abs!StartOver
    BY <1>4, <2>1 DEF Abs!StartOver, Last
  <2>. QED
    BY <1>5, <1>6, <1>8, <2>2 DEF AbsStep, p
<1>11. CASE ~(InBlock /\ Last[2] >= mem.next + 1)
  <2>1. log # <<>> => Abs!Before(Last, p)
    BY <1>1, <1>2, <1>3, <1>9, <1>11 DEF InBlock, Abs!Before
  <2>2. ASSUME NEW q \in Abs!Positions, Abs!Before(q, p)
        PROVE  log # <<>> /\ ~Abs!Before(Last, q)
    <3>1. q[1] \in Nat /\ q[2] \in Nat /\ q[2] >= 1
        BY <1>1, PositionsAre
    <3>2. CASE q[1] <= done
        BY <3>2 DEF Inv, LogInv
    <3>3. CASE ~(q[1] <= done)
      <4>1. q[1] = done + 1 /\ q[2] <= mem.next
        BY <1>1, <1>3, <2>2, <3>1, <3>3 DEF Abs!Before
      <4>2. InBlock /\ Last[2] >= mem.next
        BY <1>1, <1>2, <3>1, <4>1
      <4>. QED
        BY <1>1, <1>9, <3>1, <4>1, <4>2 DEF InBlock, Abs!Before
    <3>. QED
        BY <3>2, <3>3
  <2>3. Abs!IsNext(p)
    BY <1>3, <2>1, <2>2 DEF Abs!IsNext, Last
  <2>. HIDE DEF p
  <2>4. Abs!Process
    BY <1>3, <1>4, <2>3 DEF Abs!Process
  <2>. QED
    BY <1>5, <1>6, <1>8, <2>4 DEF AbsStep, p
<1>. QED
    BY <1>10, <1>11

\* An item that the position is past is left out.
LEMMA SkipInv ==
    ASSUME Inv, SkipCItem
    PROVE  Inv' /\ AbsStep
<1>. USE DEF Inv
<1>1. ChainOrdered' /\ LogInv' /\ SchedInv' /\ AbsStep
    BY SameLog DEF SkipCItem
<1>2. /\ mem \in Running /\ chain \in Seq(FinalBlocks) /\ mem.pc = "loop"
      /\ UNCHANGED <<chain, db, crashes, log, done, sched>>
      /\ mem.next < Len(Items) /\ mem.idx > mem.next
    BY RunningOrOff DEF SkipCItem, TypeOK
<1>3. mem' = [mem EXCEPT !.idx = mem.next, !.next = @ + 1]
    BY DEF SkipCItem
<1>4. /\ mem' \in Running /\ mem'.pc = "loop" /\ mem'.block = mem.block /\ mem'.next = mem.next + 1
      /\ mem'.round = mem.round /\ mem'.idx = mem.next /\ mem.next \in Nat /\ mem.idx \in Nat
      /\ mem'.peerSet = mem.peerSet /\ mem'.configs = mem.configs /\ mem'.running = mem.running
  <2>1. mem.next \in Nat /\ mem.idx \in Nat /\ mem.next + 1 \in Nat
    BY <1>2 DEF Running
  <2>2. mem' = [mem EXCEPT !.idx = mem.next, !.next = mem.next + 1]
    BY <1>3
  <2>. QED
    BY <1>2, <2>1, <2>2 DEF Running
<1>5. TypeOK'
    BY <1>2, <1>4, RunningOrOff DEF TypeOK
<1>6. Items' = Items /\ Len(Items) \in Nat
  <2>1. mem.block \in DOMAIN chain
    BY <1>2 DEF PositionInv, Busy
  <2>2. chain[mem.block] \in FinalBlocks
    BY <1>2, <2>1
  <2>. QED
    BY <1>2, <1>4, <2>2, BlockTypes DEF Items
<1>7. InBlock /\ Last[2] >= mem.next + 1
  <2>1. InBlock
    BY <1>2, <1>4, RunningOrOff DEF PositionInv
  <2>2. Last \in Abs!Positions
    BY <2>1 DEF InBlock, LogInv
  <2>3. Last[2] \in Nat /\ Last[2] >= 1
    BY <1>2, <2>2, PositionsAre
  <2>4. mem.next = 0
    BY <1>2, <1>4 DEF PositionInv, Busy
  <2>. QED
    BY <2>1, <2>3, <2>4
<1>8. PositionInv'
  <2>1. InBlock' /\ Last' = Last /\ RoundAfter(done)' = RoundAfter(done)
    BY <1>2, <1>7 DEF InBlock, Last, RoundAfter
  <2>2. mem'.next <= Len(Items') /\ mem'.idx < mem'.next
    BY <1>2, <1>4, <1>6
  <2>. QED
    BY <1>2, <1>4, <1>7, <2>1, <2>2, RunningOrOff DEF PositionInv, Busy
<1>9. CopiesInv'
    BY <1>2, <1>4, RunningOrOff DEF CopiesInv
<1>. QED
    BY <1>1, <1>5, <1>8, <1>9

\* The block being processed is one of the chain.
LEMMA BusyFacts ==
    ASSUME Inv, mem.pc \in {"loop", "apply", "failed"}
    PROVE  /\ mem \in Running /\ mem # Off
           /\ mem.block \in DOMAIN chain /\ mem.block = done + 1
           /\ chain[mem.block].round \in Nat
           /\ Items \in Seq(ItemType) /\ Len(Items) \in Nat
           /\ mem.next \in Nat /\ mem.idx \in Nat /\ mem.round \in Nat
<1>1. mem \in Running /\ mem # Off /\ chain \in Seq(FinalBlocks)
    BY RunningOrOff DEF Inv, TypeOK
<1>2. mem.block \in DOMAIN chain /\ mem.block = done + 1
    BY <1>1 DEF Inv, TypeOK, PositionInv, Busy
<1>3. chain[mem.block] \in FinalBlocks
    BY <1>1, <1>2
<1>4. mem.next \in Nat /\ mem.idx \in Nat /\ mem.round \in Nat
    BY <1>1 DEF Running
<1>. QED
    BY <1>1, <1>2, <1>3, <1>4, BlockTypes DEF Items

\* Copies that are missing are read again.
LEMMA ReloadInv ==
    ASSUME Inv, ReloadInvalidatedCopies
    PROVE  Inv' /\ AbsStep
<1>. USE DEF Inv
<1>1. ChainOrdered' /\ LogInv' /\ SchedInv' /\ AbsStep
    BY SameLog DEF ReloadInvalidatedCopies
<1>2. /\ mem.pc = "loop" /\ mem \in Running /\ mem # Off
      /\ UNCHANGED <<chain, db, crashes, log, done, sched>>
      /\ mem.next < Len(Items)
      /\ db.peers \in SUBSET Peers /\ db.configs \in [Modules -> Versions]
    BY BusyFacts DEF ReloadInvalidatedCopies, TypeOK
<1> DEFINE s == IF mem.peerSet = None THEN Some(db.peers) ELSE mem.peerSet
           c == IF mem.configs = None THEN Some(db.configs) ELSE mem.configs
           r == IF mem.configs = None THEN db.configs ELSE mem.running
<1>3. mem' = [mem EXCEPT !.pc = "apply", !.peerSet = s, !.configs = c, !.running = r]
    BY DEF ReloadInvalidatedCopies
<1>4. s = Some(db.peers) /\ c = Some(db.configs) /\ r = db.configs
    BY <1>2 DEF CopiesInv
<1>5. /\ s \in Option(SUBSET Peers) /\ s # None
      /\ c \in Option([Modules -> Versions]) /\ c # None
      /\ r \in [Modules -> Versions]
  <2>. HIDE DEF s, c, r
  <2>1. Some(db.peers) \in Option(SUBSET Peers) /\ Some(db.peers) # None
    BY <1>2, Options
  <2>2. Some(db.configs) \in Option([Modules -> Versions]) /\ Some(db.configs) # None
    BY <1>2, Options
  <2>. QED
    BY <1>2, <1>4, <2>1, <2>2
<1>. HIDE DEF s, c, r
<1>6. /\ mem' \in Running /\ mem'.pc = "apply" /\ mem'.block = mem.block /\ mem'.next = mem.next
      /\ mem'.round = mem.round /\ mem'.idx = mem.idx
      /\ mem'.peerSet = s /\ mem'.configs = c /\ mem'.running = r
    BY <1>2, <1>3, <1>5 DEF Running
<1>7. TypeOK'
    BY <1>2, <1>6, RunningOrOff DEF TypeOK
<1>8. PositionInv'
  <2>1. Items' = Items /\ (InBlock' <=> InBlock) /\ Last' = Last /\ RoundAfter(done)' = RoundAfter(done)
    BY <1>2, <1>6 DEF Items, InBlock, Last, RoundAfter
  <2>. QED
    BY <1>2, <1>6, <2>1, RunningOrOff DEF PositionInv, Busy
<1>9. CopiesInv'
    BY <1>2, <1>4, <1>5, <1>6 DEF CopiesInv
<1>. QED
    BY <1>1, <1>7, <1>8, <1>9

\* The item is committed.
LEMMA ProcessInv ==
    ASSUME Inv, ProcessCItem
    PROVE  Inv' /\ AbsStep
<1>. USE DEF Inv
<1>1. /\ mem.pc = "apply" /\ mem \in Running /\ mem # Off /\ Judged /\ Accepted
      /\ UNCHANGED <<chain, crashes, done>>
      /\ db \in [round : Nat, idx : Nat, peers : SUBSET Peers, configs : [Modules -> Versions]]
      /\ mem.next < Len(Items)
    BY BusyFacts DEF ProcessCItem, TypeOK, PositionInv, Busy
<1>2. Item \in ItemType
  <2>1. mem.next + 1 \in 1 .. Len(Items) /\ Items \in Seq(ItemType)
    BY <1>1, BusyFacts
  <2>. QED
    BY <2>1 DEF Item
<1>3. /\ LogInv' /\ AbsStep /\ log' \in Seq(Nat \X Nat)
      /\ InBlock' /\ Last' = <<mem.block, mem.next + 1>>
    BY <1>1, JudgedIsNext
<1> DEFINE ps == PeersAfter
           cs == ConfigsAfter
<1>4. db' = [db EXCEPT !.round = mem.round, !.idx = mem.idx, !.peers = ps, !.configs = cs]
    BY DEF ProcessCItem
<1>5. ps \in SUBSET Peers /\ cs \in [Modules -> Versions]
  <2>1. ps \in SUBSET Peers
    BY <1>1, <1>2, ItemTypes DEF PeersAfter
  <2>2. Item.op = "config" => Item.target \in Modules /\ db.configs[Item.target] < MaxVersion
    BY <1>1, <1>2, ItemTypes DEF Accepted
  <2>3. cs \in [Modules -> Versions]
    BY <1>1, <2>2, AppAssumption DEF Versions, ConfigsAfter
  <2>. QED
    BY <2>1, <2>3
<1> DEFINE s == IF Item.op = "peers" THEN Some(Item.peers) ELSE mem.peerSet
           c == IF Item.op = "config" THEN None ELSE mem.configs
<1>6. mem' = [mem EXCEPT !.pc = "loop", !.peerSet = s, !.configs = c, !.idx = mem.next, !.next = mem.next + 1]
    BY DEF ProcessCItem
<1>7. /\ s = Some(ps)
      /\ c # None => c = Some(cs) /\ mem.running = cs
    BY <1>1 DEF CopiesInv, PeersAfter, ConfigsAfter
<1>8. s \in Option(SUBSET Peers) /\ c \in Option([Modules -> Versions])
  <2>1. mem.configs \in Option([Modules -> Versions])
    BY <1>1 DEF Running
  <2>. QED
    BY <1>5, <1>7, <2>1, Options
<1>. HIDE DEF s, c, ps, cs
<1>9. mem.next \in Nat /\ mem.next + 1 \in Nat /\ mem.idx \in Nat /\ mem.round \in Nat /\ Len(Items) \in Nat
    BY <1>1, BusyFacts
<1>10. /\ mem' \in Running /\ mem'.pc = "loop" /\ mem'.block = mem.block /\ mem'.next = mem.next + 1
       /\ mem'.round = mem.round /\ mem'.idx = mem.next
       /\ mem'.peerSet = s /\ mem'.configs = c /\ mem'.running = mem.running
    BY <1>1, <1>6, <1>8, <1>9 DEF Running
<1>11. /\ db' \in [round : Nat, idx : Nat, peers : SUBSET Peers, configs : [Modules -> Versions]]
       /\ db'.round = mem.round /\ db'.idx = mem.idx /\ db'.peers = ps /\ db'.configs = cs
    BY <1>1, <1>4, <1>5, <1>9
<1>12. sched' \in SUBSET (Nat \X Nat) /\ SchedInv'
  <2>1. sched' \subseteq sched \cup {<<mem.block, mem.round>>}
    BY DEF ProcessCItem
  <2>2. mem.block \in DOMAIN chain /\ mem.block \in Nat /\ mem.block = done + 1
        /\ mem.round = RoundAfter(done) /\ done = mem.block - 1
    BY <1>1, BusyFacts DEF PositionInv, TypeOK, Running
  <2>3. sched' \in SUBSET (Nat \X Nat)
    BY <1>9, <2>1, <2>2 DEF TypeOK
  <2>4. \A t \in sched' : t[1] \in DOMAIN chain /\ t[2] = RoundAfter(t[1] - 1)
    BY <2>1, <2>2 DEF SchedInv
  <2>. QED
    BY <1>1, <2>3, <2>4 DEF SchedInv, RoundAfter
<1>13. TypeOK'
    BY <1>1, <1>3, <1>10, <1>11, <1>12, RunningOrOff DEF TypeOK
<1>14. PositionInv'
  <2>1. Items' = Items /\ RoundAfter(done)' = RoundAfter(done) /\ Last'[2] = mem.next + 1
    BY <1>1, <1>3, <1>10 DEF Items, RoundAfter
  <2>2. mem'.next <= Len(Items') /\ mem'.idx < mem'.next /\ Last'[2] >= mem'.next
    BY <1>1, <1>9, <1>10, <2>1
  <2>. QED
    BY <1>1, <1>3, <1>10, <1>11, <2>1, <2>2, RunningOrOff DEF PositionInv, Busy
<1>15. CopiesInv'
    BY <1>7, <1>10, <1>11 DEF CopiesInv
<1>16. ChainOrdered'
    BY <1>1 DEF ChainOrdered
<1>. QED
    BY <1>3, <1>12, <1>13, <1>14, <1>15, <1>16

\* The item is rolled back.
LEMMA RejectInv ==
    ASSUME Inv, RejectCItem
    PROVE  Inv' /\ AbsStep
<1>. USE DEF Inv
<1>1. /\ mem.pc = "apply" /\ mem \in Running /\ mem # Off /\ Judged
      /\ UNCHANGED <<chain, db, crashes, done, sched>>
      /\ mem' = [mem EXCEPT !.pc = "failed", !.peerSet = None, !.configs = None]
      /\ mem.next \in Nat
    BY BusyFacts DEF RejectCItem
<1>2. /\ LogInv' /\ AbsStep /\ log' \in Seq(Nat \X Nat)
      /\ InBlock' /\ Last' = <<mem.block, mem.next + 1>>
    BY <1>1, JudgedIsNext
<1>3. None \in Option(SUBSET Peers) /\ None \in Option([Modules -> Versions])
    BY Options
<1>4. /\ mem' \in Running /\ mem'.pc = "failed" /\ mem'.block = mem.block /\ mem'.next = mem.next
      /\ mem'.round = mem.round /\ mem'.idx = mem.idx
      /\ mem'.peerSet = None /\ mem'.configs = None
    BY <1>1, <1>3 DEF Running
<1>5. TypeOK'
    BY <1>1, <1>2, <1>4, RunningOrOff DEF TypeOK
<1>6. PositionInv'
  <2>1. Items' = Items /\ RoundAfter(done)' = RoundAfter(done) /\ Last'[2] > mem'.next
    BY <1>1, <1>2, <1>4 DEF Items, RoundAfter
  <2>2. Last'[2] >= mem'.next
    BY <1>1, <1>2, <1>4
  <2>. QED
    BY <1>1, <1>2, <1>4, <2>1, <2>2, RunningOrOff DEF PositionInv, Busy
<1>7. ChainOrdered' /\ SchedInv' /\ CopiesInv'
    BY <1>1, <1>4 DEF ChainOrdered, SchedInv, RoundAfter, CopiesInv
<1>. QED
    BY <1>2, <1>5, <1>6, <1>7

\* The position past a rejected item is stored.
LEMMA SaveInv ==
    ASSUME Inv, SaveAfterReject
    PROVE  Inv' /\ AbsStep
<1>. USE DEF Inv
<1>1. ChainOrdered' /\ LogInv' /\ SchedInv' /\ AbsStep
    BY SameLog DEF SaveAfterReject
<1>2. /\ mem.pc = "failed" /\ mem \in Running /\ mem # Off
      /\ UNCHANGED <<chain, crashes, log, done, sched>>
      /\ db' = [db EXCEPT !.round = mem.round, !.idx = mem.idx + 1]
      /\ mem' = [mem EXCEPT !.pc = "loop", !.idx = mem.next, !.next = mem.next + 1]
      /\ db \in [round : Nat, idx : Nat, peers : SUBSET Peers, configs : [Modules -> Versions]]
    BY BusyFacts DEF SaveAfterReject, TypeOK
<1>3. mem.next \in Nat /\ mem.next + 1 \in Nat /\ mem.idx + 1 \in Nat /\ mem.round \in Nat
      /\ Len(Items) \in Nat
    BY <1>2, BusyFacts
<1>4. /\ mem' \in Running /\ mem'.pc = "loop" /\ mem'.block = mem.block /\ mem'.next = mem.next + 1
      /\ mem'.round = mem.round /\ mem'.idx = mem.next
      /\ mem'.peerSet = mem.peerSet /\ mem'.configs = mem.configs /\ mem'.running = mem.running
    BY <1>2, <1>3 DEF Running
<1>5. /\ db' \in [round : Nat, idx : Nat, peers : SUBSET Peers, configs : [Modules -> Versions]]
      /\ db'.round = mem.round /\ db'.peers = db.peers /\ db'.configs = db.configs
    BY <1>2, <1>3
<1>6. TypeOK'
    BY <1>2, <1>4, <1>5, RunningOrOff DEF TypeOK
<1>7. PositionInv'
  <2>1. Items' = Items /\ RoundAfter(done)' = RoundAfter(done) /\ Last' = Last /\ (InBlock' <=> InBlock)
    BY <1>2, <1>4 DEF Items, RoundAfter, Last, InBlock
  <2>2. InBlock /\ Last[2] > mem.next /\ mem.next < Len(Items)
    BY <1>2 DEF PositionInv, Busy
  <2>3. Last[2] \in Nat
    <3>1. Last \in Abs!Positions /\ chain \in Seq(FinalBlocks)
        BY <2>2 DEF LogInv, InBlock, TypeOK
    <3>. QED
        BY <3>1, PositionsAre
  <2>4. mem'.next <= Len(Items') /\ mem'.idx < mem'.next /\ Last'[2] >= mem'.next
    BY <1>3, <1>4, <2>1, <2>2, <2>3
  <2>. QED
    BY <1>2, <1>4, <1>5, <2>1, <2>2, <2>4, RunningOrOff DEF PositionInv, Busy
<1>8. CopiesInv'
    BY <1>2, <1>4, <1>5 DEF CopiesInv
<1>. QED
    BY <1>1, <1>6, <1>7, <1>8

\* The block is completed.
LEMMA EndBlockInv ==
    ASSUME Inv, EndBlock
    PROVE  Inv' /\ AbsStep
<1>. USE DEF Inv
<1>1. /\ mem.pc = "loop" /\ mem \in Running /\ mem # Off /\ mem.next = Len(Items)
      /\ UNCHANGED <<chain, crashes, log, sched>> /\ done' = mem.block
      /\ db \in [round : Nat, idx : Nat, peers : SUBSET Peers, configs : [Modules -> Versions]]
      /\ chain \in Seq(FinalBlocks)
    BY BusyFacts DEF EndBlock, TypeOK
<1> DEFINE r == chain[mem.block].round + 1
<1>2. /\ db' = [db EXCEPT !.round = r, !.idx = 0]
      /\ mem' = [mem EXCEPT !.pc = "wait", !.round = r, !.idx = 0]
    BY DEF EndBlock
<1>3. /\ r \in Nat /\ mem.block \in DOMAIN chain /\ mem.block = done + 1
      /\ Items \in Seq(ItemType) /\ Items = chain[done + 1].items /\ done \in Nat
    BY <1>1, BusyFacts DEF Items, TypeOK
<1>4. r = RoundAfter(done)' /\ done' = done + 1 /\ done' \in 0 .. Len(chain) /\ done' \in Nat
    BY <1>1, <1>3 DEF RoundAfter
<1>. HIDE DEF r
<1>5. /\ mem' \in Running /\ mem'.pc = "wait" /\ mem'.round = r /\ mem'.idx = 0
      /\ mem'.peerSet = mem.peerSet /\ mem'.configs = mem.configs /\ mem'.running = mem.running
    BY <1>1, <1>2, <1>3 DEF Running
<1>6. /\ db' \in [round : Nat, idx : Nat, peers : SUBSET Peers, configs : [Modules -> Versions]]
      /\ db'.round = r /\ db'.idx = 0 /\ db'.peers = db.peers /\ db'.configs = db.configs
    BY <1>1, <1>2, <1>3
<1>7. TypeOK'
    BY <1>1, <1>4, <1>5, <1>6, <1>3, RunningOrOff DEF TypeOK
<1>8. PositionInv'
  <2>1. ~Busy' /\ mem'.pc # "failed" /\ ~(mem'.idx > 0) /\ ~(db'.idx > 0)
    BY <1>5, <1>6 DEF Busy
  <2>2. db'.round = RoundAfter(done)' /\ mem'.round = db'.round /\ done' \in 0 .. Len(chain')
    BY <1>1, <1>4, <1>5, <1>6
  <2>. QED
    BY <2>1, <2>2 DEF PositionInv
<1>9. CopiesInv'
    BY <1>1, <1>5, <1>6 DEF CopiesInv
<1>10. \A q \in Abs!Positions : q[1] <= done + 1 => log # <<>> /\ ~Abs!Before(Last, q)
  <2>. SUFFICES ASSUME NEW q \in Abs!Positions, q[1] <= done + 1
                PROVE  log # <<>> /\ ~Abs!Before(Last, q)
    OBVIOUS
  <2>1. q[1] \in Nat /\ q[2] \in Nat /\ q[2] >= 1 /\ q[2] \in DOMAIN chain[q[1]].items
    BY <1>1, PositionsAre
  <2>2. CASE q[1] <= done
    BY <2>2 DEF LogInv
  <2>3. CASE ~(q[1] <= done)
    <3>1. q[1] = done + 1 /\ q[2] <= mem.next
        BY <1>1, <1>3, <2>1, <2>3
    <3>2. InBlock /\ Last[2] >= mem.next
        BY <1>1, <2>1, <3>1, BusyFacts DEF PositionInv, Busy
    <3>3. Last[2] \in Nat /\ Last[1] \in Nat
        BY <1>1, <3>2, PositionsAre DEF InBlock, LogInv
    <3>. QED
        BY <1>1, <1>3, <2>1, <3>1, <3>2, <3>3, BusyFacts DEF InBlock, Abs!Before
  <2>. QED
    BY <2>2, <2>3
<1>11. Abs!Complete
    BY <1>1, <1>3, <1>4, <1>10 DEF Abs!Complete, Last
<1>12. LogInv'
  <2>1. Abs!Positions' = Abs!Positions /\ Last' = Last
    BY <1>1 DEF Abs!Positions, Last
  <2>2. log # <<>> => Last \in Abs!Positions /\ Last[1] <= done' + 1
    BY <1>1, <1>3, <1>4, PositionsAre DEF LogInv
  <2>. QED
    BY <1>1, <1>4, <1>10, <2>1, <2>2 DEF LogInv, Abs!Before
<1>13. ChainOrdered' /\ SchedInv'
    BY <1>1 DEF ChainOrdered, SchedInv, RoundAfter
<1>. QED
    BY <1>7, <1>8, <1>9, <1>11, <1>12, <1>13 DEF AbsStep

\* A crash leaves what is stored.
LEMMA CrashInv ==
    ASSUME Inv, Crash
    PROVE  Inv' /\ AbsStep
<1>. USE DEF Inv
<1>1. ChainOrdered' /\ LogInv' /\ SchedInv' /\ AbsStep
    BY SameLog DEF Crash
<1>2. mem' = Off /\ UNCHANGED <<chain, db, log, done, sched>> /\ crashes' \in [all : 0 .. MaxCrashes, torn : Nat]
    BY AppAssumption DEF Crash, TypeOK
<1>3. TypeOK' /\ CopiesInv'
    BY <1>2, RunningOrOff DEF TypeOK, CopiesInv
<1>4. PositionInv'
    BY <1>2, RunningOrOff DEF PositionInv, Busy, InBlock, Last, RoundAfter
<1>. QED
    BY <1>1, <1>3, <1>4

\* Every step keeps the invariant and is a step of the abstract specification.
LEMMA NextInv ==
    ASSUME Inv, [Next]_vars
    PROVE  Inv' /\ AbsStep
<1>1. CASE UNCHANGED vars
  <2>1. ChainOrdered' /\ LogInv' /\ SchedInv' /\ AbsStep
    BY <1>1, SameLog DEF vars
  <2>2. TypeOK' /\ CopiesInv'
    BY <1>1 DEF vars, Inv, TypeOK, CopiesInv
  <2>3. PositionInv'
    BY <1>1 DEF vars, Inv, PositionInv, Busy, InBlock, Last, RoundAfter, Items
  <2>. QED
    BY <2>1, <2>2, <2>3 DEF Inv
<1>. QED
    BY <1>1, FinalizeInv, StartInv, WaitInv, SkipInv, ReloadInv, ProcessInv, RejectInv, SaveInv,
       EndBlockInv, CrashInv DEF Next, AppStep

\* The inductive invariant holds throughout.
LEMMA Invariance == Spec => []Inv
    BY InitInv, NextInv, PTL DEF Spec

\* The application implements its abstract specification: no item of the final
\* chain is left out, handed over early or returned to after its block was
\* completed, wherever the process stops.
THEOREM ItemsNeverSkipped == Spec => NeverSkipped
<1>1. Init => Abs!Init
    BY DEF Init, Abs!Init
<1>. QED
    BY <1>1, InitInv, NextInv, PTL DEF Spec, NeverSkipped, Abs!Spec, AbsStep

\* Items are judged against copies that agree with the tables.
THEOREM CopiesAreCurrent == Spec => []CopiesAgree
<1>1. Inv => CopiesAgree
  <2>. SUFFICES ASSUME Inv, mem.pc = "apply"
                PROVE  mem.peerSet = Some(db.peers) /\ mem.configs = Some(db.configs)
                       /\ mem.running = db.configs
    BY DEF CopiesAgree
  <2>. QED
    BY BusyFacts DEF Inv, CopiesInv
<1>. QED
    BY <1>1, Invariance, PTL

\* Parameter changes are scheduled from rounds that all nodes agree on.
THEOREM SchedulesAgree == Spec => []ScheduleAgreed
<1>1. Inv => ScheduleAgreed
  <2>. SUFFICES ASSUME Inv, NEW s \in sched
                PROVE  s[2] = IF s[1] = 1 THEN 0 ELSE chain[s[1] - 1].round + 1
    BY DEF ScheduleAgreed
  <2>1. s[1] \in DOMAIN chain /\ s[2] = RoundAfter(s[1] - 1) /\ s[1] \in Nat
    BY DEF Inv, SchedInv, TypeOK
  <2>. QED
    BY <2>1 DEF RoundAfter
<1>. QED
    BY <1>1, Invariance, PTL

-----------------------------------------------------------------------------
(***************************************************************************)
(* Repetitions.  Every item is handed over at most once more than there    *)
(* were crashes in the middle of a block, and an item that this pass over  *)
(* its block has not reached, not even that often: the crash that ended    *)
(* the earlier pass paid for it.                                           *)
(***************************************************************************)
\* Where p occurs in the sequence s, and when position p was handed over.
Occurs(s, p) == {j \in DOMAIN s : s[j] = p}
Times(p) == Occurs(log, p)

\* How far the pass over the current block is.
Seen == IF Busy THEN (IF mem.pc = "failed" THEN mem.next + 1 ELSE mem.next) ELSE 0

Passed(p) == p[1] <= done \/ (p[1] = done + 1 /\ p[2] <= Seen)

RepeatInv ==
    \A p \in Nat \X Nat :
        Cardinality(Times(p)) <= crashes.torn + (IF Passed(p) THEN 1 ELSE 0)

\* Positions are handed over finitely often.
LEMMA TimesFinite ==
    ASSUME NEW s \in Seq(Nat \X Nat), NEW p
    PROVE  IsFiniteSet(Occurs(s, p)) /\ Cardinality(Occurs(s, p)) \in Nat
<1>1. IsFiniteSet(1 .. Len(s)) /\ DOMAIN s = 1 .. Len(s)
    BY FS_Interval
<1>2. Occurs(s, p) \subseteq 1 .. Len(s)
    BY <1>1 DEF Occurs
<1>3. IsFiniteSet(Occurs(s, p))
    BY <1>1, <1>2, FS_Subset
<1>. QED
    BY <1>3, FS_CardinalityType

\* One more entry counts once, for its own position only.
LEMMA TimesAppend ==
    ASSUME NEW s \in Seq(Nat \X Nat), NEW e \in Nat \X Nat, NEW p
    PROVE  Cardinality(Occurs(Append(s, e), p))
             = Cardinality(Occurs(s, p)) + (IF p = e THEN 1 ELSE 0)
<1>1. /\ DOMAIN s = 1 .. Len(s) /\ DOMAIN Append(s, e) = 1 .. Len(s) + 1 /\ Len(s) \in Nat
      /\ \A j \in 1 .. Len(s) : Append(s, e)[j] = s[j]
      /\ Append(s, e)[Len(s) + 1] = e
    BY AppendProperties
<1>2. IsFiniteSet(Occurs(s, p)) /\ Cardinality(Occurs(s, p)) \in Nat
    BY TimesFinite
<1>3. CASE p = e
  <2>1. Occurs(Append(s, e), p) = Occurs(s, p) \cup {Len(s) + 1} /\ Len(s) + 1 \notin Occurs(s, p)
    BY <1>1, <1>3 DEF Occurs
  <2>2. Cardinality(Occurs(s, p) \cup {Len(s) + 1}) = Cardinality(Occurs(s, p)) + 1
    BY <1>2, <2>1, FS_AddElement
  <2>. QED
    BY <1>3, <2>1, <2>2
<1>4. CASE p # e
  <2>1. Occurs(Append(s, e), p) = Occurs(s, p)
    BY <1>1, <1>4 DEF Occurs
  <2>. QED
    BY <1>2, <1>4, <2>1
<1>. QED
    BY <1>3, <1>4

\* Steps that hand nothing over and take nothing of the pass back.
LEMMA RepeatKept ==
    ASSUME Inv, Inv', RepeatInv, log' = log, crashes' = crashes,
           \A p \in Nat \X Nat : Passed(p) => Passed(p)'
    PROVE  RepeatInv'
<1>. SUFFICES ASSUME NEW p \in Nat \X Nat
              PROVE  Cardinality(Times(p))' <= crashes'.torn + (IF Passed(p)' THEN 1 ELSE 0)
    BY DEF RepeatInv
<1>1. Cardinality(Times(p)) \in Nat /\ crashes.torn \in Nat
    BY TimesFinite DEF Inv, TypeOK, Times
<1>2. Cardinality(Times(p))' = Cardinality(Times(p))
    BY DEF Times
<1>3. Cardinality(Times(p)) <= crashes.torn + (IF Passed(p) THEN 1 ELSE 0)
    BY DEF RepeatInv
<1>. QED
    BY <1>1, <1>2, <1>3

\* An item is handed over when the pass reaches it.
LEMMA RepeatJudged ==
    ASSUME Inv, RepeatInv, mem.pc = "apply", Judged, UNCHANGED <<chain, done>>,
           crashes' = crashes, Busy', Seen' = mem.next + 1
    PROVE  RepeatInv'
<1>1. mem.block = done + 1 /\ mem.next \in Nat /\ done \in Nat /\ Seen = mem.next
    BY BusyFacts DEF Inv, TypeOK, Seen, Busy
<1>2. PICK e \in Nat \X Nat : e = <<mem.block, mem.next + 1>>
  <2>1. <<mem.block, mem.next + 1>> \in Nat \X Nat
    BY <1>1
  <2>. QED
    BY <2>1, Zenon
<1>3. ~Passed(e) /\ Passed(e)'
    BY <1>1, <1>2 DEF Passed
<1>4. \A p \in Nat \X Nat : Passed(p) => Passed(p)'
    BY <1>1 DEF Passed
<1>5. log' = Append(log, e)
    BY <1>2 DEF Judged
<1>. SUFFICES ASSUME NEW p \in Nat \X Nat
              PROVE  Cardinality(Times(p))' <= crashes'.torn + (IF Passed(p)' THEN 1 ELSE 0)
    BY DEF RepeatInv
<1>6. log \in Seq(Nat \X Nat) /\ Cardinality(Times(p)) \in Nat /\ crashes.torn \in Nat
    BY TimesFinite DEF Inv, TypeOK, Times
<1>7. Cardinality(Times(p))' = Cardinality(Times(p)) + (IF p = e THEN 1 ELSE 0)
    BY <1>2, <1>5, <1>6, TimesAppend DEF Times
<1>8. Cardinality(Times(p)) <= crashes.torn + (IF Passed(p) THEN 1 ELSE 0)
    BY DEF RepeatInv
<1>9. CASE p = e
    BY <1>3, <1>6, <1>7, <1>8, <1>9
<1>10. CASE p # e
    BY <1>4, <1>6, <1>7, <1>8, <1>10
<1>. QED
    BY <1>9, <1>10

\* A crash in the middle of a block pays for the next pass over it.
LEMMA RepeatCrash ==
    ASSUME Inv, RepeatInv, Crash
    PROVE  RepeatInv'
<1>1. /\ mem' = Off /\ log' = log /\ done' = done /\ mem \in Running
      /\ crashes'.torn = IF mem.pc = "wait" THEN crashes.torn ELSE crashes.torn + 1
      /\ crashes.torn \in Nat /\ done \in Nat
    BY RunningOrOff DEF Crash, Inv, TypeOK
<1>2. Seen' = 0
    BY <1>1, RunningOrOff DEF Seen, Busy
<1>. SUFFICES ASSUME NEW p \in Nat \X Nat
              PROVE  Cardinality(Times(p))' <= crashes'.torn + (IF Passed(p)' THEN 1 ELSE 0)
    BY DEF RepeatInv
<1>3. Cardinality(Times(p)) \in Nat /\ Cardinality(Times(p))' = Cardinality(Times(p))
    BY <1>1, TimesFinite DEF Inv, TypeOK, Times
<1>4. Cardinality(Times(p)) <= crashes.torn + (IF Passed(p) THEN 1 ELSE 0)
    BY DEF RepeatInv
<1>5. CASE mem.pc = "wait"
  <2>1. Seen = 0
    BY <1>5 DEF Seen, Busy
  <2>2. Passed(p)' <=> Passed(p)
    BY <1>1, <1>2, <2>1 DEF Passed
  <2>. QED
    BY <1>1, <1>3, <1>4, <1>5, <2>2
<1>6. CASE mem.pc # "wait"
    BY <1>1, <1>3, <1>4, <1>6
<1>. QED
    BY <1>5, <1>6

\* Every step keeps the bound.
LEMMA NextRepeat ==
    ASSUME Inv, Inv', RepeatInv, [Next]_vars
    PROVE  RepeatInv'
<1>1. CASE UNCHANGED vars \/ Finalize
  <2>1. UNCHANGED <<mem, log, done, crashes>>
    BY <1>1 DEF vars, Finalize
  <2>2. \A p \in Nat \X Nat : Passed(p) => Passed(p)'
    BY <2>1 DEF Passed, Seen, Busy
  <2>. QED
    BY <2>1, <2>2, RepeatKept
<1>2. CASE Start \/ WaitNextBlock
  <2>1. UNCHANGED <<log, done, crashes>> /\ ~Busy
    BY <1>2, RunningOrOff DEF Start, WaitNextBlock, Busy
  <2>2. Seen' = 0
    <3>1. CASE Start
        BY <3>1 DEF Start, Seen, Busy
    <3>2. CASE WaitNextBlock
      <4>1. mem \in Running
        BY <3>2, RunningOrOff DEF WaitNextBlock, Inv, TypeOK
      <4>2. mem'.pc = "loop" /\ mem'.next = 0
        BY <3>2, <4>1 DEF WaitNextBlock, Running
      <4>. QED
        BY <4>2 DEF Seen, Busy
    <3>. QED
        BY <1>2, <3>1, <3>2
  <2>3. \A p \in Nat \X Nat : Passed(p) => Passed(p)'
    BY <2>1, <2>2 DEF Passed, Seen
  <2>. QED
    BY <2>1, <2>3, RepeatKept
<1>3. CASE SkipCItem \/ ReloadInvalidatedCopies \/ SaveAfterReject
  <2>1. /\ UNCHANGED <<log, done, crashes>>
        /\ mem.pc \in {"loop", "failed"} /\ mem \in Running /\ mem.next \in Nat
    BY <1>3, BusyFacts DEF SkipCItem, ReloadInvalidatedCopies, SaveAfterReject
  <2>2. Seen' \in Nat /\ Seen \in Nat /\ Seen' >= Seen
    <3>1. CASE SkipCItem
      <4>1. mem'.pc = "loop" /\ mem'.next = mem.next + 1 /\ mem.pc = "loop"
        BY <2>1, <3>1 DEF SkipCItem, Running
      <4>. QED
        BY <2>1, <4>1 DEF Seen, Busy
    <3>2. CASE ReloadInvalidatedCopies
      <4>1. mem'.pc = "apply" /\ mem'.next = mem.next /\ mem.pc = "loop"
        BY <2>1, <3>2 DEF ReloadInvalidatedCopies, Running
      <4>. QED
        BY <2>1, <4>1 DEF Seen, Busy
    <3>3. CASE SaveAfterReject
      <4>1. mem'.pc = "loop" /\ mem'.next = mem.next + 1 /\ mem.pc = "failed"
        BY <2>1, <3>3 DEF SaveAfterReject, Running
      <4>. QED
        BY <2>1, <4>1 DEF Seen, Busy
    <3>. QED
        BY <1>3, <3>1, <3>2, <3>3
  <2>3. \A p \in Nat \X Nat : Passed(p) => Passed(p)'
    BY <2>1, <2>2 DEF Passed
  <2>. QED
    BY <2>1, <2>3, RepeatKept
<1>4. CASE ProcessCItem \/ RejectCItem
  <2>1. /\ mem.pc = "apply" /\ Judged /\ UNCHANGED <<chain, done, crashes>>
        /\ mem \in Running /\ mem.next \in Nat
    BY <1>4, BusyFacts DEF ProcessCItem, RejectCItem
  <2>2. CASE ProcessCItem
    <3>1. mem'.pc = "loop" /\ mem'.next = mem.next + 1
        BY <2>1, <2>2 DEF ProcessCItem, Running
    <3>. QED
        BY <2>1, <3>1, RepeatJudged DEF Seen, Busy
  <2>3. CASE RejectCItem
    <3>1. mem'.pc = "failed" /\ mem'.next = mem.next
        BY <2>1, <2>3 DEF RejectCItem, Running
    <3>. QED
        BY <2>1, <3>1, RepeatJudged DEF Seen, Busy
  <2>. QED
    BY <1>4, <2>2, <2>3
<1>5. CASE EndBlock
  <2>1. /\ UNCHANGED <<log, crashes>> /\ done' = done + 1 /\ done \in Nat
    BY <1>5, BusyFacts DEF EndBlock, Inv, TypeOK
  <2>2. \A p \in Nat \X Nat : Passed(p) => Passed(p)'
    BY <2>1 DEF Passed
  <2>. QED
    BY <2>1, <2>2, RepeatKept
<1>6. CASE Crash
    BY <1>6, RepeatCrash
<1>. QED
    BY <1>1, <1>2, <1>3, <1>4, <1>5, <1>6 DEF Next, AppStep

\* Only a crash in the middle of a block repeats items, each item at most once
\* per such crash.
THEOREM OnlyCrashesRepeat == Spec => []RepeatedByCrashOnly
<1>1. Init => RepeatInv
  <2>. SUFFICES ASSUME Init, NEW p \in Nat \X Nat
                PROVE  Cardinality(Times(p)) <= crashes.torn + (IF Passed(p) THEN 1 ELSE 0)
    BY DEF RepeatInv
  <2>1. Times(p) = {}
    BY DEF Init, Times, Occurs
  <2>2. Cardinality(Times(p)) = 0 /\ crashes.torn = 0
    BY <2>1, FS_EmptySet DEF Init
  <2>. QED
    BY <2>2
<1>2. Inv /\ RepeatInv => RepeatedByCrashOnly
  <2>. SUFFICES ASSUME Inv, RepeatInv, NEW i \in DOMAIN log
                PROVE  Cardinality({j \in DOMAIN log : log[j] = log[i]}) <= 1 + crashes.torn
    BY DEF RepeatedByCrashOnly
  <2>0. {j \in DOMAIN log : log[j] = log[i]} = Times(log[i])
    BY DEF Times, Occurs
  <2>1. log[i] \in Nat \X Nat /\ log \in Seq(Nat \X Nat) /\ crashes.torn \in Nat
    BY DEF Inv, TypeOK
  <2>2. Cardinality(Times(log[i])) \in Nat
    BY <2>1, TimesFinite DEF Times
  <2>3. Cardinality(Times(log[i])) <= crashes.torn + (IF Passed(log[i]) THEN 1 ELSE 0)
    BY <2>1 DEF RepeatInv
  <2>4. Cardinality(Times(log[i])) <= 1 + crashes.torn
    BY <2>1, <2>2, <2>3
  <2>. QED
    BY <2>0, <2>4, Zenon
<1>. QED
    BY <1>1, <1>2, NextRepeat, Invariance, PTL DEF Spec

=============================================================================
