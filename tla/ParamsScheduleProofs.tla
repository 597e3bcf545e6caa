------------------------ MODULE ParamsScheduleProofs ------------------------
(***************************************************************************)
(* When changes of the parameters are made in time, for any delay, any     *)
(* number of members, any rounds and any changes.                          *)
(***************************************************************************)
EXTENDS ParamsSchedule, WellFoundedInduction, TLAPS

InitEntry == [apply |-> 0, params |-> InitParams]
Entry == [apply : Nat, params : Params]

-----------------------------------------------------------------------------
(***************************************************************************)
(* The entry of a schedule that applies to a round.                        *)
(***************************************************************************)
\* A nonempty set of entries that apply up to round r has one that applies last.
LEMMA NewestExists ==
    ASSUME NEW S \in SUBSET Entry, S # {}, NEW r \in Nat, \A e \in S : e.apply <= r
    PROVE  Newest(S) \in S /\ \A f \in S : f.apply <= Newest(S).apply
<1> DEFINE D == {d \in Nat : \E e \in S : d = r - e.apply}
           R == {ss \in Nat \X Nat : ss[1] < ss[2]}
<1>1. D \subseteq Nat /\ D # {}
  <2>1. PICK e \in S : TRUE
    OBVIOUS
  <2>2. e.apply \in Nat /\ r - e.apply \in Nat
    BY <2>1 DEF Entry
  <2>. QED
    BY <2>1, <2>2
<1>2. IsWellFoundedOn(R, Nat)
    BY NatLessThanWellFounded DEF OpToRel
<1>3. \E d \in D : \A c \in D : ~(<<c, d>> \in R)
  <2>. HIDE DEF R, D
  <2>. QED
    BY <1>1, <1>2, WFMin
<1>4. PICK d \in D : \A c \in D : ~(<<c, d>> \in R)
    BY <1>3
<1>5. PICK e \in S : d = r - e.apply
    BY <1>4
<1>6. ASSUME NEW f \in S
      PROVE  f.apply <= e.apply
  <2>1. e.apply \in Nat /\ f.apply \in Nat /\ f.apply <= r /\ e.apply <= r
    BY <1>5 DEF Entry
  <2>2. r - f.apply \in D
    BY <2>1
  <2>3. ~(r - f.apply < d)
    BY <1>4, <2>2, <1>1
  <2>. QED
    BY <1>5, <2>1, <2>3
<1>. HIDE DEF D, R
<1>. QED
    BY <1>5, <1>6 DEF Newest

\* The parameters of a round are those of an entry that applies to it, and no
\* later one does.
LEMMA ParamsAtIsNewest ==
    ASSUME NEW S \in SUBSET Entry, NEW r \in Nat, InitEntry \in S
    PROVE  \E e \in S : /\ e.apply <= r /\ ParamsAt(S, r) = e.params
                        /\ \A f \in S : f.apply <= r => f.apply <= e.apply
<1> DEFINE U == {e \in S : e.apply <= r}
<1>1. U \in SUBSET Entry /\ \A e \in U : e.apply <= r
    OBVIOUS
<1>2. InitEntry \in U
    BY DEF InitEntry
<1>3. Newest(U) \in U /\ \A f \in U : f.apply <= Newest(U).apply
  <2>. HIDE DEF U
  <2>. QED
    BY <1>1, <1>2, NewestExists
<1>. QED
    BY <1>3 DEF ParamsAt

\* Entries for later rounds do not matter to a round.
LEMMA LaterEntriesDontMatter ==
    ASSUME NEW S, NEW T, NEW r,
           \A e : (e \in S /\ e.apply <= r) <=> (e \in T /\ e.apply <= r)
    PROVE  ParamsAt(S, r) = ParamsAt(T, r)
<1>1. {e \in S : e.apply <= r} = {e \in T : e.apply <= r}
    OBVIOUS
<1>. QED
    BY <1>1 DEF ParamsAt

-----------------------------------------------------------------------------
(***************************************************************************)
(* How far the node can be ahead of its application.                       *)
(***************************************************************************)
\* The round after that of block i.
RoundAfter(i) == IF i = 0 THEN 0 ELSE chain[i].round + 1

\* At most MaxGap rounds in a row are without a block.
ChainSpaced ==
    \A i \in 1 .. Len(chain) : /\ RoundAfter(i - 1) <= chain[i].round
                               /\ chain[i].round <= RoundAfter(i - 1) + MaxGap

\* The acknowledgement may be a gap ahead of the position, and the node the delay
\* ahead of the acknowledgement, and another gap when it adopts a block.
PositionInv ==
    /\ pos = RoundAfter(done)
    /\ ack <= pos + MaxGap
    /\ round >= RoundAfter(adopted)
    /\ running => round < pos + MaxGap + DelayBase
    /\ round <= pos + 2 * MaxGap + DelayBase
    /\ \A u \in used : u[1] < pos + 2 * MaxGap + DelayBase

ScheduleInv ==
    /\ InitEntry \in schedule
    /\ \A e \in schedule : e.params.size >= MinSize

Inv == TypeOK /\ ChainSpaced /\ PositionInv /\ ScheduleInv

LEMMA InitInv == Init => Inv
<1> SUFFICES ASSUME Init PROVE Inv
    OBVIOUS
<1> USE ScheduleAssumption
<1>1. TypeOK
  <2>1. InitParams \in Params
    BY DEF InitParams, Params
  <2>2. chain \in Seq(Block) /\ Len(chain) = 0
    BY DEF Init
  <2>3. running \in BOOLEAN /\ late \in BOOLEAN
    BY DEF Init
  <2>4. /\ adopted \in 0 .. Len(chain) /\ fin \in 0 .. adopted /\ done \in 0 .. fin
        /\ round \in Nat /\ pos \in Nat /\ ack \in Nat /\ item \in Nat
    BY <2>2 DEF Init
  <2>5. schedule \in SUBSET [apply : Nat, params : Params] /\ stored \in SUBSET Params
    BY <2>1 DEF Init
  <2>. QED
    BY <2>1, <2>2, <2>3, <2>4, <2>5 DEF Init, TypeOK
<1>2. ChainSpaced
    BY DEF Init, ChainSpaced
<1>3. PositionInv
    BY DEF Init, PositionInv, RoundAfter
<1>4. ScheduleInv
    BY DEF Init, ScheduleInv, InitEntry, InitParams
<1>. QED
    BY <1>1, <1>2, <1>3, <1>4 DEF Inv

\* Blocks are numbered from one, and so are the rounds after them.
LEMMA BlockTypes ==
    ASSUME TypeOK
    PROVE  /\ Len(chain) \in Nat
           /\ \A i \in 1 .. Len(chain) : /\ chain[i] \in Block /\ chain[i].round \in Nat
                                         /\ chain[i].changes \in BlockChanges
           /\ \A i \in 0 .. Len(chain) : RoundAfter(i) \in Nat
           /\ adopted \in Nat /\ fin \in Nat /\ done \in Nat
           /\ done <= fin /\ fin <= adopted /\ adopted <= Len(chain)
<1>1. Len(chain) \in Nat /\ \A i \in 1 .. Len(chain) : chain[i] \in Block
    BY DEF TypeOK
<1>2. adopted \in 0 .. Len(chain) /\ fin \in 0 .. adopted /\ done \in 0 .. fin
    BY DEF TypeOK
<1>. QED
    BY <1>1, <1>2 DEF Block, RoundAfter

\* A change applies after the position by at least the fewest members and the
\* delay.
LEMMA ChangeAppliesLater ==
    ASSUME Inv
    PROVE  /\ ParamsAt(schedule, pos).size \in Nat
           /\ ApplyRound(schedule, pos) \in Nat
           /\ ApplyRound(schedule, pos) = pos + ParamsAt(schedule, pos).size + DelayBase
           /\ ApplyRound(schedule, pos) >= pos + MinSize + DelayBase
<1>1. schedule \in SUBSET Entry /\ pos \in Nat /\ InitEntry \in schedule
    BY DEF Inv, TypeOK, ScheduleInv, Entry
<1>2. PICK e \in schedule : ParamsAt(schedule, pos) = e.params
    BY <1>1, ParamsAtIsNewest
<1>3. e.params.size \in Nat /\ e.params.size >= MinSize
    BY <1>1, <1>2 DEF Inv, ScheduleInv, Entry, Params
<1>. QED
    BY <1>1, <1>2, <1>3, ScheduleAssumption DEF ApplyRound

\* The federation's next block.
LEMMA NewBlockKeepsInv == Inv /\ NewBlock => Inv'
<1> SUFFICES ASSUME Inv, NewBlock PROVE Inv'
    OBVIOUS
<1>1. TypeOK /\ ChainSpaced /\ PositionInv /\ ScheduleInv
    BY DEF Inv
<1>2. PICK g \in 0 .. MaxGap, cs \in BlockChanges :
          chain' = Append(chain, [round |-> NextRound + g, changes |-> cs])
    BY DEF NewBlock
<1> DEFINE n == Len(chain)
           b == [round |-> NextRound + g, changes |-> cs]
<1>3. UNCHANGED <<adopted, fin, done, item, round, running, pos, ack, schedule, stored, used, latest, late>>
    BY DEF NewBlock
<1>4. n \in Nat /\ NextRound = RoundAfter(n) /\ NextRound \in Nat /\ g \in Nat /\ g <= MaxGap
  <2>1. n \in Nat /\ (chain = <<>> <=> n = 0)
    BY <1>1 DEF TypeOK
  <2>2. NextRound = RoundAfter(n)
    BY <2>1 DEF NextRound, RoundAfter
  <2>3. RoundAfter(n) \in Nat
    BY <1>1, <2>1, BlockTypes
  <2>. QED
    BY <2>1, <2>2, <2>3, ScheduleAssumption
<1>5. b \in Block
    BY <1>4 DEF Block
<1>6. chain \in Seq(Block)
    BY <1>1 DEF TypeOK
<1>7. /\ chain' \in Seq(Block) /\ Len(chain') = n + 1
      /\ \A i \in 1 .. n : chain'[i] = chain[i]
      /\ chain'[n + 1] = b
  <2>. HIDE DEF b
  <2>. QED
    BY <1>2, <1>5, <1>6 DEF b
<1>8. b.round = RoundAfter(n) + g
    BY <1>4
<1>. HIDE DEF b, n
<1>9. \A i \in 0 .. n : RoundAfter(i)' = RoundAfter(i)
    BY <1>4, <1>7 DEF RoundAfter
<1>10. TypeOK'
  <2>1. adopted' \in 0 .. Len(chain')
    BY <1>1, <1>3, <1>4, <1>7 DEF TypeOK, n
  <2>. QED
    BY <1>1, <1>3, <1>7, <2>1 DEF TypeOK
<1>11. ChainSpaced'
  <2> SUFFICES ASSUME NEW i \in 1 .. n + 1
               PROVE  /\ RoundAfter(i - 1)' <= chain'[i].round
                      /\ chain'[i].round <= RoundAfter(i - 1)' + MaxGap
    BY <1>7 DEF ChainSpaced
  <2>1. CASE i = n + 1
    <3>1. i - 1 = n /\ n \in 0 .. n
      BY <1>4, <2>1
    <3>2. RoundAfter(i - 1)' = RoundAfter(n) /\ RoundAfter(n) \in Nat
      BY <1>4, <1>9, <3>1
    <3>. QED
      BY <1>4, <1>7, <1>8, <2>1, <3>2, ScheduleAssumption
  <2>2. CASE i \in 1 .. n
    <3>1. i - 1 \in 0 .. n
      BY <1>4, <2>2
    <3>. QED
      BY <1>1, <1>7, <1>9, <2>2, <3>1 DEF ChainSpaced, n
  <2>. QED
    BY <1>4, <2>1, <2>2
<1>12. PositionInv'
  <2>1. done \in 0 .. n /\ adopted \in 0 .. n
    BY <1>1, BlockTypes DEF n
  <2>. QED
    BY <1>1, <1>3, <1>9, <2>1 DEF PositionInv
<1>13. ScheduleInv'
    BY <1>1, <1>3 DEF ScheduleInv
<1>. QED
    BY <1>10, <1>11, <1>12, <1>13 DEF Inv

\* What a step does not change in a chain.
LEMMA SameChain ==
    ASSUME chain' = chain
    PROVE  /\ \A i : RoundAfter(i)' = RoundAfter(i)
           /\ ChainSpaced => ChainSpaced'
    BY DEF RoundAfter, ChainSpaced

\* The parameters of any round are parameters.
LEMMA ParamsAtType ==
    ASSUME Inv, NEW r \in Nat
    PROVE  ParamsAt(schedule, r) \in Params
<1>1. schedule \in SUBSET Entry /\ InitEntry \in schedule
    BY DEF Inv, TypeOK, ScheduleInv, Entry
<1>2. PICK e \in schedule : ParamsAt(schedule, r) = e.params
    BY <1>1, ParamsAtIsNewest
<1>. QED
    BY <1>1, <1>2 DEF Entry

\* The node's own steps.
LEMMA StartRoundKeepsInv == Inv /\ StartRound => Inv'
<1> SUFFICES ASSUME Inv, StartRound PROVE Inv'
    OBVIOUS
<1>1. TypeOK /\ ChainSpaced /\ PositionInv /\ ScheduleInv
    BY DEF Inv
<1>2. round \in Nat /\ ack \in Nat /\ pos \in Nat /\ MaxGap \in Nat /\ DelayBase \in Nat
    BY <1>1, ScheduleAssumption DEF TypeOK
<1>3. ParamsAt(schedule, round) \in Params
    BY <1>2, ParamsAtType
<1>4. /\ UNCHANGED <<chain, adopted, fin, done, item, round, pos, ack, schedule, stored, latest, late>>
      /\ running' = TRUE /\ round < ack + DelayBase
      /\ used' = used \cup {<<round, ParamsAt(schedule, round)>>}
    BY DEF StartRound
<1>5. TypeOK'
    BY <1>1, <1>2, <1>3, <1>4 DEF TypeOK
<1>6. round < pos + MaxGap + DelayBase /\ round < pos + 2 * MaxGap + DelayBase
    BY <1>1, <1>2, <1>4 DEF PositionInv
<1>7. \A u \in used' : u[1] < pos + 2 * MaxGap + DelayBase
    BY <1>1, <1>4, <1>6 DEF PositionInv
<1>8. PositionInv'
    BY <1>1, <1>4, <1>6, <1>7, SameChain DEF PositionInv
<1>9. ScheduleInv'
    BY <1>1, <1>4 DEF ScheduleInv
<1>. QED
    BY <1>1, <1>4, <1>5, <1>8, <1>9, SameChain DEF Inv

LEMMA EndRoundDummyKeepsInv == Inv /\ EndRoundDummy => Inv'
<1> SUFFICES ASSUME Inv, EndRoundDummy PROVE Inv'
    OBVIOUS
<1>1. TypeOK /\ ChainSpaced /\ PositionInv /\ ScheduleInv
    BY DEF Inv
<1>2. round \in Nat /\ pos \in Nat /\ MaxGap \in Nat /\ DelayBase \in Nat
    BY <1>1, ScheduleAssumption DEF TypeOK
<1>3. RoundAfter(adopted) \in Nat
    BY <1>1, BlockTypes
<1>4. /\ UNCHANGED <<chain, adopted, fin, done, item, pos, ack, schedule, stored, used, latest, late>>
      /\ running /\ running' = FALSE /\ round' = round + 1
    BY DEF EndRoundDummy
<1>5. TypeOK'
  <2>1. running' \in BOOLEAN
    BY <1>4
  <2>2. round' \in Nat
    BY <1>2, <1>4
  <2>. QED
    BY <1>1, <1>4, <2>1, <2>2 DEF TypeOK
<1>6. round' <= pos + 2 * MaxGap + DelayBase /\ round' >= RoundAfter(adopted)
    BY <1>1, <1>2, <1>3, <1>4 DEF PositionInv
<1>7. PositionInv'
    BY <1>1, <1>4, <1>6, SameChain DEF PositionInv
<1>8. ScheduleInv'
    BY <1>1, <1>4 DEF ScheduleInv
<1>. QED
    BY <1>1, <1>4, <1>5, <1>7, <1>8, SameChain DEF Inv

LEMMA AdoptBlockKeepsInv == Inv /\ AdoptBlock => Inv'
<1> SUFFICES ASSUME Inv, AdoptBlock PROVE Inv'
    OBVIOUS
<1>1. TypeOK /\ ChainSpaced /\ PositionInv /\ ScheduleInv
    BY DEF Inv
<1>2. round \in Nat /\ pos \in Nat /\ MaxGap \in Nat /\ DelayBase \in Nat
    BY <1>1, ScheduleAssumption DEF TypeOK
<1>3. PICK r : r = chain[adopted + 1].round
    OBVIOUS
<1>4. /\ UNCHANGED <<chain, fin, done, item, pos, ack, schedule, stored, latest, late>>
      /\ running /\ running' = FALSE /\ adopted < Len(chain) /\ adopted' = adopted + 1
      /\ r >= round /\ round' = r + 1
      /\ used' = used \cup {<<r, ParamsAt(schedule, r)>>}
    BY <1>3 DEF AdoptBlock
<1>5. /\ adopted \in Nat /\ adopted + 1 \in 1 .. Len(chain) /\ (adopted + 1) - 1 = adopted
      /\ r \in Nat /\ RoundAfter(adopted) \in Nat /\ fin \in 0 .. adopted
  <2>1. adopted \in Nat /\ adopted + 1 \in 1 .. Len(chain) /\ (adopted + 1) - 1 = adopted
    BY <1>1, <1>4, BlockTypes
  <2>2. adopted \in 0 .. Len(chain)
    BY <1>1, BlockTypes
  <2>. QED
    BY <1>1, <1>3, <2>1, <2>2, BlockTypes DEF TypeOK
<1>6. r <= RoundAfter(adopted) + MaxGap
    BY <1>1, <1>3, <1>5 DEF ChainSpaced
<1>7. r < pos + 2 * MaxGap + DelayBase /\ r + 1 <= pos + 2 * MaxGap + DelayBase
  <2>1. round < pos + MaxGap + DelayBase /\ round >= RoundAfter(adopted)
    BY <1>1, <1>4 DEF PositionInv
  <2>. QED
    BY <1>2, <1>5, <1>6, <2>1
<1>8. RoundAfter(adopted + 1) = r + 1
    BY <1>3, <1>5 DEF RoundAfter
<1>9. ParamsAt(schedule, r) \in Params
    BY <1>5, ParamsAtType
<1>10. TypeOK'
  <2>1. adopted' \in 0 .. Len(chain') /\ fin' \in 0 .. adopted' /\ done' \in 0 .. fin'
    BY <1>1, <1>4, <1>5 DEF TypeOK
  <2>2. round' \in Nat /\ used' \in SUBSET (Nat \X Params)
    BY <1>1, <1>4, <1>5, <1>9 DEF TypeOK
  <2>. QED
    BY <1>1, <1>4, <2>1, <2>2 DEF TypeOK
<1>11. \A u \in used' : u[1] < pos + 2 * MaxGap + DelayBase
    BY <1>1, <1>4, <1>7 DEF PositionInv
<1>12. RoundAfter(adopted)' = r + 1 /\ RoundAfter(done)' = RoundAfter(done)
  <2>1. RoundAfter(adopted)' = RoundAfter(adopted + 1)
    BY <1>4 DEF RoundAfter
  <2>2. RoundAfter(done)' = RoundAfter(done)
    BY <1>4 DEF RoundAfter
  <2>. QED
    BY <1>8, <2>1, <2>2
<1>13. PositionInv'
    BY <1>1, <1>4, <1>5, <1>7, <1>11, <1>12 DEF PositionInv
<1>14. ScheduleInv'
    BY <1>1, <1>4 DEF ScheduleInv
<1>. QED
    BY <1>1, <1>4, <1>10, <1>13, <1>14, SameChain DEF Inv

LEMMA FinalizeKeepsInv == Inv /\ Finalize => Inv'
<1> SUFFICES ASSUME Inv, Finalize PROVE Inv'
    OBVIOUS
<1>1. TypeOK /\ ChainSpaced /\ PositionInv /\ ScheduleInv
    BY DEF Inv
<1>2. /\ UNCHANGED <<chain, adopted, done, item, round, running, pos, ack, schedule, stored, used, latest, late>>
      /\ fin < adopted /\ fin' = fin + 1
    BY DEF Finalize
<1>3. fin' \in 0 .. adopted' /\ done' \in 0 .. fin'
    BY <1>1, <1>2, BlockTypes
<1>4. TypeOK'
    BY <1>1, <1>2, <1>3 DEF TypeOK
<1>5. PositionInv'
    BY <1>1, <1>2, SameChain DEF PositionInv
<1>6. ScheduleInv'
    BY <1>1, <1>2 DEF ScheduleInv
<1>. QED
    BY <1>1, <1>2, <1>4, <1>5, <1>6, SameChain DEF Inv

\* The application's steps.
LEMMA AckAheadKeepsInv == Inv /\ AckAhead => Inv'
<1> SUFFICES ASSUME Inv, AckAhead PROVE Inv'
    OBVIOUS
<1>1. TypeOK /\ ChainSpaced /\ PositionInv /\ ScheduleInv
    BY DEF Inv
<1>2. /\ UNCHANGED <<chain, adopted, fin, done, item, round, running, pos, schedule, stored, used, latest, late>>
      /\ done = fin /\ fin < adopted /\ ack' = chain[done + 1].round
    BY DEF AckAhead
<1>3. done + 1 \in 1 .. Len(chain) /\ (done + 1) - 1 = done
    BY <1>1, <1>2, BlockTypes
<1>4. ack' \in Nat
    BY <1>1, <1>2, <1>3, BlockTypes
<1>5. ack' <= pos + MaxGap
    BY <1>1, <1>2, <1>3 DEF ChainSpaced, PositionInv
<1>6. TypeOK'
    BY <1>1, <1>2, <1>4 DEF TypeOK
<1>7. PositionInv'
    BY <1>1, <1>2, <1>5, SameChain DEF PositionInv
<1>8. ScheduleInv'
    BY <1>1, <1>2 DEF ScheduleInv
<1>. QED
    BY <1>1, <1>2, <1>6, <1>7, <1>8, SameChain DEF Inv

LEMMA Further ==
    ASSUME NEW x \in Nat, NEW p \in Nat, NEW q \in Nat, q > p
    PROVE  /\ x < p + MaxGap + DelayBase => x < q + MaxGap + DelayBase
           /\ x <= p + 2 * MaxGap + DelayBase => x <= q + 2 * MaxGap + DelayBase
           /\ x < p + 2 * MaxGap + DelayBase => x < q + 2 * MaxGap + DelayBase
    BY ScheduleAssumption

LEMMA EndBlockKeepsInv == Inv /\ EndBlock => Inv' /\ pos' > pos
<1> SUFFICES ASSUME Inv, EndBlock PROVE Inv' /\ pos' > pos
    OBVIOUS
<1>1. TypeOK /\ ChainSpaced /\ PositionInv /\ ScheduleInv
    BY DEF Inv
<1>2. /\ UNCHANGED <<chain, adopted, fin, round, running, schedule, stored, used, latest, late>>
      /\ done < fin /\ done' = done + 1 /\ item' = 0
      /\ pos' = chain[done + 1].round + 1 /\ ack' = chain[done + 1].round + 1
    BY DEF EndBlock
<1>3. done \in Nat /\ fin \in Nat /\ done + 1 \in 1 .. Len(chain) /\ (done + 1) - 1 = done
    BY <1>1, <1>2, BlockTypes
<1>4. chain[done + 1].round \in Nat /\ RoundAfter(done + 1) = chain[done + 1].round + 1
    BY <1>1, <1>3, BlockTypes DEF RoundAfter
<1>5. pos <= chain[done + 1].round
    BY <1>1, <1>3 DEF ChainSpaced, PositionInv
<1>6. pos \in Nat /\ round \in Nat /\ MaxGap \in Nat /\ DelayBase \in Nat
    BY <1>1, ScheduleAssumption DEF TypeOK
<1>7. pos' \in Nat /\ ack' \in Nat /\ pos' > pos /\ ack' <= pos' + MaxGap
    BY <1>2, <1>4, <1>5, <1>6
<1>8. TypeOK'
  <2>1. done' \in 0 .. fin'
    BY <1>2, <1>3
  <2>. QED
    BY <1>1, <1>2, <1>7, <2>1 DEF TypeOK
<1>9. PositionInv'
  <2>1. RoundAfter(done)' = pos' /\ RoundAfter(adopted)' = RoundAfter(adopted)
    <3>1. RoundAfter(done)' = RoundAfter(done + 1)
      BY <1>2 DEF RoundAfter
    <3>2. RoundAfter(adopted)' = RoundAfter(adopted)
      BY <1>2 DEF RoundAfter
    <3>. QED
      BY <1>2, <1>4, <3>1, <3>2
  <2>2. running => round < pos' + MaxGap + DelayBase
    <3> SUFFICES ASSUME running PROVE round < pos' + MaxGap + DelayBase
      OBVIOUS
    <3>1. round < pos + MaxGap + DelayBase
      BY <1>1 DEF PositionInv
    <3>. QED
      BY <1>6, <1>7, <3>1, Further
  <2>3. round <= pos' + 2 * MaxGap + DelayBase
    <3>1. round <= pos + 2 * MaxGap + DelayBase
      BY <1>1 DEF PositionInv
    <3>. QED
      BY <1>6, <1>7, <3>1, Further
  <2>4. \A u \in used : u[1] < pos' + 2 * MaxGap + DelayBase
    <3> SUFFICES ASSUME NEW u \in used PROVE u[1] < pos' + 2 * MaxGap + DelayBase
      OBVIOUS
    <3>1. u[1] \in Nat
      BY <1>1 DEF TypeOK
    <3>2. u[1] < pos + 2 * MaxGap + DelayBase
      BY <1>1 DEF PositionInv
    <3>. QED
      BY <1>6, <1>7, <3>1, <3>2, Further
  <2>5. round >= RoundAfter(adopted)
    BY <1>1 DEF PositionInv
  <2>. QED
    BY <1>2, <1>7, <2>1, <2>2, <2>3, <2>4, <2>5 DEF PositionInv
<1>10. ScheduleInv'
    BY <1>1, <1>2 DEF ScheduleInv
<1>. QED
    BY <1>1, <1>2, <1>7, <1>8, <1>9, <1>10, SameChain DEF Inv

LEMMA RestartKeepsInv == Inv /\ Restart => Inv'
<1> SUFFICES ASSUME Inv, Restart PROVE Inv'
    OBVIOUS
<1>1. TypeOK /\ ChainSpaced /\ PositionInv /\ ScheduleInv
    BY DEF Inv
<1>2. /\ UNCHANGED <<chain, adopted, fin, done, item, round, pos, schedule, stored, used, latest, late>>
      /\ running' = FALSE /\ ack' = pos
    BY DEF Restart
<1>3. running' \in BOOLEAN
    BY <1>2
<1>4. pos \in Nat /\ ack' \in Nat /\ ack' <= pos + MaxGap
    BY <1>1, <1>2, ScheduleAssumption DEF TypeOK
<1>5. TypeOK'
    BY <1>1, <1>2, <1>3, <1>4 DEF TypeOK
<1>6. PositionInv'
    BY <1>1, <1>2, <1>4, SameChain DEF PositionInv
<1>7. ScheduleInv'
    BY <1>1, <1>2 DEF ScheduleInv
<1>. QED
    BY <1>1, <1>2, <1>5, <1>6, <1>7, SameChain DEF Inv

\* The parameters that the next change of the block makes.
Changed ==
    [id   |-> latest.id + 1,
     size |-> IF latest.size + chain[done + 1].changes[item + 1] < MinSize THEN MinSize
              ELSE latest.size + chain[done + 1].changes[item + 1]]

LEMMA ChangedType ==
    ASSUME Inv, done < fin, item < Len(chain[done + 1].changes)
    PROVE  /\ Changed \in Params /\ Changed.size >= MinSize /\ Changed.id = latest.id + 1
           /\ chain[done + 1].changes[item + 1] \in {1, -1}
           /\ done + 1 \in 1 .. Len(chain)
           /\ chain[done + 1].changes \in BlockChanges
<1>1. TypeOK
    BY DEF Inv
<1>2. done + 1 \in 1 .. Len(chain)
    BY <1>1, BlockTypes
<1>3. chain[done + 1].changes \in BlockChanges
    BY <1>1, <1>2, BlockTypes
<1>4. chain[done + 1].changes \in Seq({1, -1})
    BY <1>3, ScheduleAssumption
<1>5. item \in Nat /\ latest \in Params
    BY <1>1 DEF TypeOK
<1>6. PICK cs \in Seq({1, -1}) : cs = chain[done + 1].changes
    BY <1>4
<1>7. cs[item + 1] \in {1, -1}
    BY <1>5, <1>6
<1>8. PICK d \in {1, -1} : d = chain[done + 1].changes[item + 1]
    BY <1>6, <1>7
<1>9. latest.size \in Nat /\ latest.id \in Nat
    BY <1>5 DEF Params
<1>10. PICK n \in Nat : /\ n = (IF latest.size + d < MinSize THEN MinSize ELSE latest.size + d)
                        /\ n >= MinSize
    BY <1>9, ScheduleAssumption
<1>11. Changed = [id |-> latest.id + 1, size |-> n]
    BY <1>8, <1>10 DEF Changed
<1>12. Changed \in Params /\ Changed.size = n /\ Changed.id = latest.id + 1
    BY <1>9, <1>11 DEF Params
<1>. QED
    BY <1>2, <1>3, <1>8, <1>10, <1>12

LEMMA ChangeKeepsInv == Inv /\ ConsensusParamsChange => Inv'
<1> SUFFICES ASSUME Inv, ConsensusParamsChange PROVE Inv'
    OBVIOUS
<1>1. TypeOK /\ ChainSpaced /\ PositionInv /\ ScheduleInv
    BY DEF Inv
<1>2. PICK a : a = ApplyRound(schedule, pos)
    OBVIOUS
<1>3. /\ UNCHANGED <<chain, adopted, fin, done, round, running, pos, ack, used>>
      /\ done < fin /\ item < Len(chain[done + 1].changes) /\ item' = item + 1
      /\ InsertConsensusParams(a, Changed)
      /\ latest' = Changed
      /\ late' = (late \/ round >= a)
    BY <1>2 DEF ConsensusParamsChange, Changed
<1>4. Changed \in Params /\ Changed.size >= MinSize
    BY <1>3, ChangedType
<1>5. a \in Nat /\ a > 0
    <2>1. a \in Nat /\ a >= pos + MinSize + DelayBase
      BY <1>2, ChangeAppliesLater
    <2>. QED
      BY <1>1, <2>1, ScheduleAssumption DEF TypeOK
<1>6. PICK p \in Params : p = Changed
    BY <1>4
<1>7. /\ schedule' = {e \in schedule : e.apply # a} \cup {[apply |-> a, params |-> p]}
      /\ stored' \subseteq stored \cup {p}
    BY <1>3, <1>6 DEF InsertConsensusParams
<1>8. TypeOK'
  <2>1. item' \in Nat
    BY <1>1, <1>3 DEF TypeOK
  <2>2. late' \in BOOLEAN
    BY <1>3
  <2>3. schedule' \in SUBSET [apply : Nat, params : Params]
    BY <1>1, <1>5, <1>7 DEF TypeOK
  <2>4. stored' \in SUBSET Params
    BY <1>1, <1>7 DEF TypeOK
  <2>. QED
    BY <1>1, <1>3, <1>4, <2>1, <2>2, <2>3, <2>4 DEF TypeOK
<1>9. PositionInv'
    BY <1>1, <1>3, SameChain DEF PositionInv
<1>10. ScheduleInv'
  <2>1. InitEntry.apply = 0
    BY DEF InitEntry
  <2>2. InitEntry \in schedule'
    BY <1>1, <1>5, <1>7, <2>1 DEF ScheduleInv
  <2>3. \A e \in schedule' : e.params.size >= MinSize
    BY <1>1, <1>4, <1>6, <1>7 DEF ScheduleInv
  <2>. QED
    BY <2>2, <2>3 DEF ScheduleInv
<1>. QED
    BY <1>1, <1>3, <1>8, <1>9, <1>10, SameChain DEF Inv

LEMMA NextKeepsInv == Inv /\ [Next]_vars => Inv'
<1> SUFFICES ASSUME Inv, [Next]_vars PROVE Inv'
    OBVIOUS
<1>1. CASE UNCHANGED vars
    BY <1>1 DEF vars, Inv, TypeOK, ChainSpaced, PositionInv, ScheduleInv, RoundAfter
<1>. QED
    BY <1>1, NewBlockKeepsInv, StartRoundKeepsInv, EndRoundDummyKeepsInv, AdoptBlockKeepsInv,
       FinalizeKeepsInv, AckAheadKeepsInv, ChangeKeepsInv, EndBlockKeepsInv, RestartKeepsInv
       DEF Next

-----------------------------------------------------------------------------
(***************************************************************************)
(* Changes are made in time.                                               *)
(***************************************************************************)
\* A change leaves alone the parameters of every round before the one it applies
\* from.
LEMMA ChangeKeepsEarlier ==
    ASSUME Inv, ConsensusParamsChange, NEW r \in Nat, r < ApplyRound(schedule, pos)
    PROVE  ParamsAt(schedule', r) = ParamsAt(schedule, r)
<1>1. PICK a \in Nat : a = ApplyRound(schedule, pos)
    BY ChangeAppliesLater
<1>2. PICK p : schedule' = {e \in schedule : e.apply # a} \cup {[apply |-> a, params |-> p]}
    BY <1>1 DEF ConsensusParamsChange, InsertConsensusParams
<1>3. \A e : (e \in schedule' /\ e.apply <= r) <=> (e \in schedule /\ e.apply <= r)
    BY <1>1, <1>2
<1>. QED
    BY <1>3, LaterEntriesDontMatter

LEMMA StableStep ==
    ASSUME 2 * MaxGap <= MinSize, Inv, ParamsAreStable, [Next]_vars
    PROVE  ParamsAreStable'
<1>1. CASE schedule' = schedule /\ used' = used
    BY <1>1 DEF ParamsAreStable
<1>2. CASE \E r : schedule' = schedule /\ used' = used \cup {<<r, ParamsAt(schedule, r)>>}
    BY <1>2 DEF ParamsAreStable
<1>3. CASE ConsensusParamsChange
  <2>1. used' = used
    BY <1>3 DEF ConsensusParamsChange
  <2>2. ASSUME NEW u \in used
        PROVE  u[2] = ParamsAt(schedule', u[1])
    <3>1. u[1] \in Nat /\ pos \in Nat
      BY DEF Inv, TypeOK
    <3>2. u[1] < pos + 2 * MaxGap + DelayBase
      BY DEF Inv, PositionInv
    <3>3. ApplyRound(schedule, pos) \in Nat /\ ApplyRound(schedule, pos) >= pos + MinSize + DelayBase
      BY ChangeAppliesLater
    <3>4. u[1] < ApplyRound(schedule, pos)
      BY <3>1, <3>2, <3>3, ScheduleAssumption
    <3>5. ParamsAt(schedule', u[1]) = ParamsAt(schedule, u[1])
      BY <1>3, <3>1, <3>4, ChangeKeepsEarlier
    <3>. QED
      BY <3>5 DEF ParamsAreStable
  <2>. QED
    BY <2>1, <2>2 DEF ParamsAreStable
<1>4. CASE StartRound \/ AdoptBlock
    BY <1>2, <1>4 DEF StartRound, AdoptBlock
<1>5. CASE NewBlock \/ EndRoundDummy \/ Finalize \/ AckAhead \/ EndBlock \/ Restart \/ UNCHANGED vars
    BY <1>1, <1>5 DEF NewBlock, EndRoundDummy, Finalize, AckAhead, EndBlock, Restart, vars
<1>. QED
    BY <1>3, <1>4, <1>5 DEF Next

\* If at most half as many rounds in a row are without a block as there are members
\* at least, the parameters a node used for a round are those that apply to it for
\* good: whatever changes blocks make and wherever the node adopts blocks over a gap
\* or restarts (consensus_params_change_tx, run_consensus_round_inner).
THEOREM ParamsStayStable ==
    ASSUME 2 * MaxGap <= MinSize
    PROVE  Spec => []ParamsAreStable
<1>1. Init => Inv /\ ParamsAreStable
    BY InitInv DEF Init, ParamsAreStable
<1>2. Inv /\ ParamsAreStable /\ [Next]_vars => (Inv /\ ParamsAreStable)'
    BY NextKeepsInv, StableStep
<1>. QED
    BY <1>1, <1>2, PTL DEF Spec

\* If the rounds in a row without a block are fewer than half the members, no change
\* is made for a round the node has reached: the assertion of
\* consensus_params_change_tx never fails.
THEOREM ChangesAreInTime ==
    ASSUME 2 * MaxGap < MinSize
    PROVE  Spec => []ChangeInTime
<1>1. Init => Inv /\ ChangeInTime
    BY InitInv DEF Init, ChangeInTime
<1>2. ASSUME Inv, ChangeInTime, [Next]_vars
      PROVE  ChangeInTime'
  <2>1. CASE late' = late
    BY <1>2, <2>1 DEF ChangeInTime
  <2>2. CASE ConsensusParamsChange
    <3>1. round \in Nat /\ pos \in Nat /\ round <= pos + 2 * MaxGap + DelayBase
      BY <1>2 DEF Inv, TypeOK, PositionInv
    <3>2. ApplyRound(schedule, pos) \in Nat /\ ApplyRound(schedule, pos) >= pos + MinSize + DelayBase
      BY <1>2, ChangeAppliesLater
    <3>3. ~(round >= ApplyRound(schedule, pos))
      BY <3>1, <3>2, ScheduleAssumption
    <3>4. late' = (late \/ round >= ApplyRound(schedule, pos))
      BY <2>2 DEF ConsensusParamsChange
    <3>. QED
      BY <1>2, <3>3, <3>4 DEF ChangeInTime
  <2>3. CASE UNCHANGED vars
    BY <2>1, <2>3 DEF vars
  <2>4. CASE \/ NewBlock \/ StartRound \/ EndRoundDummy \/ AdoptBlock \/ Finalize
             \/ AckAhead \/ EndBlock \/ Restart
    BY <2>1, <2>4 DEF NewBlock, StartRound, EndRoundDummy, AdoptBlock, Finalize, AckAhead, EndBlock, Restart
  <2>. QED
    BY <1>2, <2>2, <2>3, <2>4 DEF Next
<1>3. Inv /\ ChangeInTime /\ [Next]_vars => (Inv /\ ChangeInTime)'
    BY <1>2, NextKeepsInv
<1>. QED
    BY <1>1, <1>3, PTL DEF Spec

=============================================================================
