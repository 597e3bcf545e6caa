------------------------- MODULE FinalityTableProofs -------------------------
(***************************************************************************)
(* What the application is told of finality, for any peers, any rounds and *)
(* any number of changes of the members; and what the tasks that follow    *)
(* the finality are told of the modules, for any modules and versions.     *)
(***************************************************************************)
EXTENDS FinalityTable, SharedModules, FiniteSetTheorems, WellFoundedInduction, TLAPS

-----------------------------------------------------------------------------
(***************************************************************************)
(* The finality that votes amount to.                                      *)
(***************************************************************************)
\* A nonempty set of rounds has a greatest element.
LEMMA GreatestVote ==
    ASSUME NEW S \in SUBSET Votes, S # {}
    PROVE  \E x \in S : \A y \in S : y <= x
<1> DEFINE D == {i \in Votes : MaxVote - i \in S}
           R == {ss \in Nat \X Nat : ss[1] < ss[2]}
<1>1. MaxVote \in Nat /\ Votes \subseteq Nat
    BY FinalityAssumption DEF Votes
<1>2. D \subseteq Nat /\ D # {}
  <2>1. PICK y \in S : TRUE
    OBVIOUS
  <2>2. MaxVote - y \in Votes /\ MaxVote - (MaxVote - y) = y
    BY <1>1, <2>1 DEF Votes
  <2>3. MaxVote - y \in D
    BY <2>1, <2>2
  <2>. QED
    BY <1>1, <2>3
<1>3. IsWellFoundedOn(R, Nat)
    BY NatLessThanWellFounded DEF OpToRel
<1>4. \E d \in D : \A e \in D : ~(<<e, d>> \in R)
  <2>. HIDE DEF R, D
  <2>. QED
    BY <1>2, <1>3, WFMin
<1>5. PICK d \in D : \A e \in D : ~(<<e, d>> \in R)
    BY <1>4
<1>6. ASSUME NEW y \in S
      PROVE  y <= MaxVote - d
  <2>1. MaxVote - y \in Votes /\ MaxVote - (MaxVote - y) = y /\ d \in Nat /\ y \in Nat
    BY <1>1, <1>2 DEF Votes
  <2>2. MaxVote - y \in D
    BY <2>1
  <2>3. ~(MaxVote - y < d)
    BY <1>1, <1>2, <1>5, <2>1, <2>2
  <2>. QED
    BY <1>1, <2>1, <2>3
<1>. QED
    BY <1>5, <1>6

\* A federation of n members needs at least one of them and at most all.
LEMMA ThresholdBounds ==
    ASSUME NEW n \in Nat
    PROVE  Threshold(n) \in Nat /\ Threshold(n) <= n /\ (n > 0 => Threshold(n) > 0)
    BY DEF Threshold, MaxFaulty

\* The members that vote for a round are some of the members; there are fewer
\* for lower votes.
LEMMA BackersCount ==
    ASSUME NEW S \in SUBSET Peers, NEW vs, NEW v
    PROVE  /\ IsFiniteSet(Backers(vs, S, v)) /\ Cardinality(Backers(vs, S, v)) \in Nat
           /\ IsFiniteSet(S) /\ Cardinality(S) \in Nat
           /\ Cardinality(Backers(vs, S, v)) <= Cardinality(S)
<1>1. IsFiniteSet(S)
    BY FinalityAssumption, FS_Subset
<1>2. Backers(vs, S, v) \subseteq S
    BY DEF Backers
<1>. QED
    BY <1>1, <1>2, FS_Subset, FS_CardinalityType

Supported(vs, S, v) == Cardinality(Backers(vs, S, v)) >= Threshold(Cardinality(S))

\* The finality of any votes is a round, all but max_faulty members vote for it,
\* and for no later round do as many.
LEMMA FinalityOfIsGreatest ==
    ASSUME NEW S \in SUBSET Peers, NEW vs
    PROVE  /\ FinalityOf(vs, S) \in Votes
           /\ Supported(vs, S, FinalityOf(vs, S))
           /\ \A w \in Votes : Supported(vs, S, w) => w <= FinalityOf(vs, S)
<1> DEFINE T == {v \in Votes : Supported(vs, S, v)}
<1>1. 0 \in T
  <2>1. Backers(vs, S, 0) = S
    BY DEF Backers
  <2>2. Supported(vs, S, 0)
    BY <2>1, BackersCount, ThresholdBounds DEF Supported
  <2>. QED
    BY <2>2, FinalityAssumption DEF Votes
<1>2. PICK x \in T : \A y \in T : y <= x
  <2>. HIDE DEF T
  <2>1. T \in SUBSET Votes
    BY DEF T
  <2>. QED
    BY <1>1, <2>1, GreatestVote
<1>3. \A w \in Votes : /\ w \in Nat
                       /\ Cardinality(Backers(vs, S, w)) \in Nat
                       /\ Threshold(Cardinality(S)) \in Nat
    BY BackersCount, ThresholdBounds, FinalityAssumption DEF Votes
<1>4. \E v \in Votes :
        /\ Cardinality(Backers(vs, S, v)) >= Threshold(Cardinality(S))
        /\ \A w \in Votes : w > v => Cardinality(Backers(vs, S, w)) < Threshold(Cardinality(S))
    BY <1>2, <1>3 DEF Supported
<1>5. /\ FinalityOf(vs, S) \in Votes
      /\ Cardinality(Backers(vs, S, FinalityOf(vs, S))) >= Threshold(Cardinality(S))
      /\ \A w \in Votes : w > FinalityOf(vs, S) =>
            Cardinality(Backers(vs, S, w)) < Threshold(Cardinality(S))
    BY <1>4, Zenon DEF FinalityOf
<1>. QED
    BY <1>3, <1>5 DEF Supported

\* Finality does not go back when no vote does.
LEMMA FinalityGrows ==
    ASSUME NEW S \in SUBSET Peers,
           NEW vs \in [Peers -> Votes \cup {Missing}], NEW ws \in [Peers -> Votes \cup {Missing}],
           \A p \in Peers : vs[p] <= ws[p]
    PROVE  FinalityOf(vs, S) <= FinalityOf(ws, S)
<1> DEFINE f == FinalityOf(vs, S)
<1>1. f \in Votes /\ Supported(vs, S, f)
    BY FinalityOfIsGreatest
<1>2. Backers(vs, S, f) \subseteq Backers(ws, S, f)
  <2>1. \A p \in S : vs[p] \in Int /\ ws[p] \in Int /\ vs[p] <= ws[p]
    BY FinalityAssumption DEF Votes, Missing
  <2>2. f \in Int
    BY <1>1 DEF Votes
  <2>. HIDE DEF f
  <2>. QED
    BY <2>1, <2>2 DEF Backers
<1>3. Cardinality(Backers(vs, S, f)) <= Cardinality(Backers(ws, S, f))
    BY <1>2, BackersCount, FS_Subset
<1>4. Supported(ws, S, f)
  <2>. HIDE DEF f
  <2>. QED
    BY <1>1, <1>3, BackersCount, ThresholdBounds DEF Supported
<1>. QED
    BY <1>1, <1>4, FinalityOfIsGreatest

-----------------------------------------------------------------------------
(***************************************************************************)
(* The table and the channel.                                              *)
(***************************************************************************)
\* While the members are the first ones and nobody voted backwards, the table, the
\* channel and the votes agree.
TableIsFinality ==
    (changes = 0 /\ "back" \notin past) => table = channel /\ table = FinalityOf(votes, members)

Inv == TypeOK /\ ChannelCovers /\ TableIsFinality

\* No votes amount to finality of round 0.
LEMMA InitInv == Init => Inv
<1>. SUFFICES ASSUME Init PROVE Inv
    OBVIOUS
<1>1. members \in SUBSET Peers /\ members # {}
    BY FinalityAssumption DEF Init
<1>2. ASSUME NEW w \in Votes, w > 0
      PROVE  ~Supported(votes, members, w)
  <2>1. Backers(votes, members, w) = {}
    BY <1>1, <1>2, FinalityAssumption DEF Init, Backers, Votes, Missing
  <2>2. Cardinality(Backers(votes, members, w)) = 0
    BY <2>1, FS_EmptySet
  <2>3. Cardinality(members) \in Nat /\ Cardinality(members) # 0
    BY <1>1, BackersCount, FS_EmptySet
  <2>. QED
    BY <2>2, <2>3, ThresholdBounds DEF Supported
<1>3. FinalityOf(votes, members) = 0
    BY <1>1, <1>2, FinalityOfIsGreatest, FinalityAssumption DEF Votes
<1>4. TypeOK
    BY FinalityAssumption DEF Init, TypeOK, Votes, Missing
<1>. QED
    BY <1>3, <1>4 DEF Init, Inv, ChannelCovers, TableIsFinality

\* What a vote does to the table and the channel, in which `sent` was.
LEMMA VoteStored ==
    ASSUME Inv, NEW p \in Peers, NEW v \in Votes, NEW sent \in Votes, table <= sent,
           UpdatePeerFinalityVoteRound(p, v, sent), members' = members
    PROVE  /\ votes' \in [Peers -> Votes \cup {Missing}]
           /\ table' \in Votes /\ channel' \in Votes /\ table' <= channel' /\ channel' >= table
           /\ (sent = table /\ v >= votes[p] /\ table = FinalityOf(votes, members)) =>
                 table' = channel' /\ table' = FinalityOf(votes, members)'
<1> DEFINE ws == [votes EXCEPT ![p] = v]
           f  == FinalityOf(ws, members)
<1>1. /\ members \in SUBSET Peers /\ votes \in [Peers -> Votes \cup {Missing}]
      /\ table \in Votes /\ channel \in Votes
    BY DEF Inv, TypeOK
<1>2. ws \in [Peers -> Votes \cup {Missing}] /\ votes' = ws
    BY <1>1 DEF UpdatePeerFinalityVoteRound
<1>3. f \in Votes
    BY <1>1, FinalityOfIsGreatest
<1>4. \A x \in Votes : x \in Int
    BY DEF Votes
<1>5. \A q \in Peers : votes[q] \in Int
    BY <1>1 DEF Votes, Missing
<1>6. FinalityOf(votes, members)' = f
    BY <1>2
<1>7. v >= votes[p] => FinalityOf(votes, members) <= f
  <2>1. v >= votes[p] => \A q \in Peers : votes[q] <= ws[q]
    BY <1>1, <1>4, <1>5
  <2>. QED
    BY <1>1, <1>2, <2>1, FinalityGrows
<1>8. CASE v > votes[p]
  <2>1. table' = f /\ channel' = IF f > table THEN f ELSE sent
    BY <1>8 DEF UpdatePeerFinalityVoteRound, RecalculateFinalityConsensus
  <2>. HIDE DEF f, ws
  <2>. QED
    BY <1>1, <1>2, <1>3, <1>4, <1>6, <1>7, <1>5, <1>8, <2>1
<1>9. CASE ~(v > votes[p])
  <2>1. table' = table /\ channel' = sent
    BY <1>9 DEF UpdatePeerFinalityVoteRound
  <2>2. v >= votes[p] => ws = votes
    <3>1. v >= votes[p] => v = votes[p]
        BY <1>4, <1>5, <1>9
    <3>2. [votes EXCEPT ![p] = votes[p]] = votes
        BY <1>1
    <3>. QED
        BY <3>1, <3>2
  <2>3. v >= votes[p] => f = FinalityOf(votes, members)
    BY <2>2
  <2>. HIDE DEF f, ws
  <2>. QED
    BY <1>1, <1>2, <1>4, <1>6, <2>1, <2>3
<1>. QED
    BY <1>8, <1>9

\* Every step keeps the invariant and takes nothing back that it should not.
LEMMA NextInv ==
    ASSUME Inv, [Next]_vars
    PROVE  Inv' /\ ((changes' = 0 /\ "back" \notin past') => channel' >= channel)
<1>0. /\ table \in Votes /\ channel \in Votes /\ peak \in Votes /\ table <= channel
      /\ \A x \in Votes : x \in Int
      /\ votes \in [Peers -> Votes \cup {Missing}] /\ members \in SUBSET Peers
      /\ changes \in Nat
    BY FinalityAssumption DEF Inv, TypeOK, ChannelCovers, Votes
<1>1. ASSUME NEW p \in Peers, NEW v \in Votes, FinalityVote(p, v)
      PROVE  Inv' /\ ((changes' = 0 /\ "back" \notin past') => channel' >= channel)
  <2>1. members' = members /\ asked' = asked /\ changes' = changes
    BY <1>1 DEF FinalityVote
  <2>2. UpdatePeerFinalityVoteRound(p, v, channel)
    BY <1>1 DEF FinalityVote
  <2>3. /\ votes' \in [Peers -> Votes \cup {Missing}]
        /\ table' \in Votes /\ channel' \in Votes /\ table' <= channel' /\ channel' >= table
        /\ (channel = table /\ v >= votes[p] /\ table = FinalityOf(votes, members)) =>
              table' = channel' /\ table' = FinalityOf(votes, members)'
    BY <1>0, <2>1, <2>2, VoteStored
  <2>4. /\ "back" \notin past' => v >= votes[p] /\ "back" \notin past
        /\ past' \in SUBSET {"back", "left"}
    BY <1>0, <1>1 DEF FinalityVote, Missing, Votes, Inv, TypeOK
  <2>5. peak' \in Votes
    BY <1>0, <1>1, <2>3 DEF FinalityVote
  <2>. QED
    BY <1>0, <2>1, <2>3, <2>4, <2>5 DEF Inv, TypeOK, ChannelCovers, TableIsFinality
<1>2. ASSUME NEW S \in SUBSET Peers, ChangeMembers(S)
      PROVE  Inv' /\ ((changes' = 0 /\ "back" \notin past') => channel' >= channel)
  <2>1. changes' # 0 /\ changes' \in 0 .. MaxChanges
    BY <1>0, <1>2, FinalityAssumption DEF ChangeMembers
  <2>. QED
    BY <1>0, <1>2, <2>1 DEF ChangeMembers, Inv, TypeOK, ChannelCovers, TableIsFinality
<1>3. ASSUME NEW v \in Votes, OpenInternal(v)
      PROVE  Inv' /\ ((changes' = 0 /\ "back" \notin past') => channel' >= channel)
  <2>1. /\ members' = members /\ asked' = asked /\ past' = past /\ changes' = changes
        /\ v >= votes[Self] /\ Self \in Peers /\ peak' = channel'
    BY <1>3, FinalityAssumption DEF OpenInternal
  <2>2. UpdatePeerFinalityVoteRound(Self, v, table)
    BY <1>3 DEF OpenInternal
  <2>3. /\ votes' \in [Peers -> Votes \cup {Missing}]
        /\ table' \in Votes /\ channel' \in Votes /\ table' <= channel' /\ channel' >= table
        /\ (table = FinalityOf(votes, members)) =>
              table' = channel' /\ table' = FinalityOf(votes, members)'
    BY <1>0, <2>1, <2>2, VoteStored
  <2>. QED
    BY <1>0, <2>1, <2>3 DEF Inv, TypeOK, ChannelCovers, TableIsFinality
<1>4. CASE UNCHANGED vars
    BY <1>0, <1>4 DEF vars, Inv, TypeOK, ChannelCovers, TableIsFinality
<1>. QED
    BY <1>1, <1>2, <1>3, <1>4 DEF Next

\* The application is told of all that the database holds to be final, for any
\* votes, backward ones too, and any changes of the members.
THEOREM ChannelIsNotBehind == Spec => []ChannelCovers
<1>1. Inv => ChannelCovers
    BY DEF Inv
<1>. QED
    BY <1>1, InitInv, NextInv, PTL DEF Spec

\* With the same members and no backward votes, finality is not taken back.
THEOREM FinalityIsForward == Spec => FinalityForward
<1>1. Inv /\ [Next]_vars => [(changes' = 0 /\ "back" \notin past') => channel' >= channel]_vars
    BY NextInv DEF vars
<1>. QED
    BY <1>1, InitInv, NextInv, PTL DEF Spec, FinalityForward

-----------------------------------------------------------------------------
(***************************************************************************)
(* SharedModules: the tasks that follow the finality wait for proposals of *)
(* the modules, and no change of the modules is missed by them.            *)
(***************************************************************************)
\* The part of the types that the proof needs.  It leaves the rounds alone.
SharedShapes ==
    /\ configs \in Instances /\ modules \in Instances
    /\ \E R : app \in [at : {"setup", "notify", "ack", "wait", "item"}, round : R,
                       started : BOOLEAN]
    /\ wait \in [Tasks -> WaitState]

SharedInv == SharedShapes /\ ChangeNoticed

LEMMA SharedInitInv == SharedInit => SharedInv
<1> SUFFICES ASSUME SharedInit PROVE SharedInv
  OBVIOUS
<1>1. /\ configs \in Instances /\ modules \in Instances
  BY SharedAssumption DEF SharedInit, Instances, NoModules, Versions
<1>2. app \in [at : {"setup", "notify", "ack", "wait", "item"}, round : {0}, started : BOOLEAN]
  BY DEF SharedInit
<1>3. wait \in [Tasks -> WaitState]
  BY <1>1 DEF SharedInit, Waiting, WaitState
<1>4. ChangeNoticed
  BY DEF SharedInit, Waiting, ChangeNoticed
<1> QED
  BY <1>1, <1>2, <1>3, <1>4 DEF SharedInv, SharedShapes

\* A step of the application leaves the tasks where they are.
LEMMA AppKeepsShared == SharedInv /\ AppStep => SharedInv'
<1> SUFFICES ASSUME SharedInv, AppStep PROVE SharedInv'
  OBVIOUS
<1> PICK R : app \in [at : {"setup", "notify", "ack", "wait", "item"}, round : R,
                      started : BOOLEAN]
  BY DEF SharedInv, SharedShapes
<1> USE DEF SharedInv, SharedShapes
<1>1. CASE SetupModules
  <2>1. modules' = configs /\ configs' = configs /\ wait' = wait
    BY <1>1 DEF SetupModules
  <2>2. app' \in [at : {"setup", "notify", "ack", "wait", "item"}, round : R, started : BOOLEAN]
    BY <1>1 DEF SetupModules, GoOn
  <2>3. app.at = "setup" /\ (modules # configs => app'.at = "notify")
    BY <1>1 DEF SetupModules
  <2>4. ChangeNoticed'
    BY <2>1, <2>3 DEF ChangeNoticed
  <2> QED
    BY <2>1, <2>2, <2>4
<1>2. CASE SendChanged
  <2>1. modules' = modules /\ configs' = configs
    BY <1>2 DEF SendChanged
  <2>2. app' \in [at : {"setup", "notify", "ack", "wait", "item"}, round : R, started : BOOLEAN]
    BY <1>2 DEF SendChanged, GoOn
  <2>3. wait' \in [Tasks -> WaitState] /\ \A t \in Tasks : wait'[t].changed
    BY <1>2 DEF SendChanged, WaitState
  <2> QED
    BY <2>1, <2>2, <2>3 DEF ChangeNoticed
<1>3. CASE AckRound
  <2>1. modules' = modules /\ configs' = configs /\ app.at # "notify"
    BY <1>3 DEF AckRound
  <2>2. app' \in [at : {"setup", "notify", "ack", "wait", "item"}, round : R, started : BOOLEAN]
    BY <1>3 DEF AckRound
  <2>3. /\ wait' \in [Tasks -> WaitState]
        /\ \A t \in Tasks : /\ wait'[t].at = wait[t].at /\ wait'[t].seen = wait[t].seen
                            /\ wait'[t].changed = wait[t].changed
    BY <1>3 DEF AckRound, WaitState
  <2> QED
    BY <2>1, <2>2, <2>3 DEF ChangeNoticed
<1>4. CASE WaitNextBlock
  <2>1. modules' = modules /\ configs' = configs /\ wait' = wait /\ app.at # "notify"
    BY <1>4 DEF WaitNextBlock
  <2>2. PICK b : app' \in [at : {"setup", "notify", "ack", "wait", "item"}, round : {b},
                           started : BOOLEAN]
    BY <1>4 DEF WaitNextBlock
  <2> QED
    BY <2>1, <2>2 DEF ChangeNoticed
<1>5. CASE ProcessCItem
  <2>1. modules' = modules /\ wait' = wait /\ app.at # "notify"
    BY <1>5 DEF ProcessCItem
  <2>2. configs' \in Instances
    BY <1>5, SharedAssumption DEF ProcessCItem, Instances, Versions
  <2>3. app' \in [at : {"setup", "notify", "ack", "wait", "item"}, round : {app.round + 1},
                  started : BOOLEAN]
    BY <1>5 DEF ProcessCItem
  <2> QED
    BY <2>1, <2>2, <2>3 DEF ChangeNoticed
<1> QED
  BY <1>1, <1>2, <1>3, <1>4, <1>5 DEF AppStep

\* A task either keeps what it waits for, and the change it may not have seen,
\* or does not wait for proposals, or has just read the modules there are.
LEMMA WaitKeepsShared ==
    ASSUME SharedInv, NEW t \in Tasks, WaitStep(t) PROVE SharedInv'
<1> USE DEF SharedInv, SharedShapes
<1>1. PICK w \in WaitState :
        /\ SetWait(t, w)
        /\ w.at = "stream" => w.seen = modules
  <2>1. CASE CheckAck(t)
    <3>1. CASE ack = finality
      <4>1. SetWait(t, [wait[t] EXCEPT !.at = "mark"])
        BY <2>1, <3>1 DEF CheckAck
      <4>2. [wait[t] EXCEPT !.at = "mark"] \in WaitState
        BY DEF WaitState
      <4>3. [wait[t] EXCEPT !.at = "mark"].at = "mark"
        BY DEF WaitState
      <4> QED
        BY <4>1, <4>2, <4>3
    <3>2. CASE ack # finality
      <4>1. SetWait(t, [wait[t] EXCEPT !.acked = FALSE])
        BY <2>1, <3>2 DEF CheckAck
      <4>2. [wait[t] EXCEPT !.acked = FALSE] \in WaitState
        BY DEF WaitState
      <4>3. [wait[t] EXCEPT !.acked = FALSE].at = "ack"
        BY <2>1 DEF CheckAck, WaitState
      <4> QED
        BY <4>1, <4>2, <4>3
    <3> QED
      BY <3>1, <3>2
  <2>2. CASE MarkUnchanged(t)
    <3>1. SetWait(t, [wait[t] EXCEPT !.at = "lock", !.changed = FALSE])
      BY <2>2 DEF MarkUnchanged
    <3>2. [wait[t] EXCEPT !.at = "lock", !.changed = FALSE] \in WaitState
      BY DEF WaitState
    <3>3. ([wait[t] EXCEPT !.at = "lock", !.changed = FALSE]).at # "stream"
      BY DEF WaitState
    <3> QED
      BY <3>1, <3>2, <3>3
  <2>3. CASE ReadLock(t)
    BY <2>3 DEF ReadLock, WaitState
  <2>4. CASE ReadProposals(t)
    <3>1. CASE Proposing(modules) # {}
      <4>1. SetWait(t, [wait[t] EXCEPT !.at = "done"])
        BY <2>4, <3>1 DEF ReadProposals
      <4>2. [wait[t] EXCEPT !.at = "done"] \in WaitState
        BY DEF WaitState
      <4>3. [wait[t] EXCEPT !.at = "done"].at = "done"
        BY DEF WaitState
      <4> QED
        BY <4>1, <4>2, <4>3
    <3>2. CASE Proposing(modules) = {}
      <4>1. SetWait(t, [wait[t] EXCEPT !.at = "stream", !.seen = modules])
        BY <2>4, <3>2 DEF ReadProposals
      <4>2. [wait[t] EXCEPT !.at = "stream", !.seen = modules] \in WaitState
        BY DEF WaitState
      <4>3. [wait[t] EXCEPT !.at = "stream", !.seen = modules].seen = modules
        BY DEF WaitState
      <4> QED
        BY <4>1, <4>2, <4>3
    <3> QED
      BY <3>1, <3>2
  <2>5. CASE StreamNext(t)
    BY <2>5 DEF StreamNext, WaitState
  <2>6. CASE ModulesChanged(t)
    <3>1. SetWait(t, [wait[t] EXCEPT !.at = "ack", !.acked = TRUE, !.changed = FALSE])
      BY <2>6 DEF ModulesChanged
    <3>2. [wait[t] EXCEPT !.at = "ack", !.acked = TRUE, !.changed = FALSE] \in WaitState
      BY DEF WaitState
    <3>3. ([wait[t] EXCEPT !.at = "ack", !.acked = TRUE, !.changed = FALSE]).at # "stream"
      BY DEF WaitState
    <3> QED
      BY <3>1, <3>2, <3>3
  <2>7. CASE NextRound(t)
    <3>1. SetWait(t, [Waiting EXCEPT !.changed = wait[t].changed])
      BY <2>7 DEF NextRound
    <3>2. NoModules \in Instances
      BY SharedAssumption DEF NoModules, Instances, Versions
    <3>3. Waiting \in WaitState /\ Waiting.at = "ack" /\ wait[t].changed \in BOOLEAN
      BY <3>2 DEF Waiting, WaitState
    <3>4. [Waiting EXCEPT !.changed = wait[t].changed] \in WaitState
      BY <3>3 DEF WaitState
    <3>5. [Waiting EXCEPT !.changed = wait[t].changed].at = "ack"
      BY <3>3 DEF WaitState
    <3> QED
      BY <3>1, <3>4, <3>5
  <2>8. CASE t = "leader" /\ FinalityChanged
    <3>1. SetWait(t, [wait[t] EXCEPT !.at = "ack", !.acked = TRUE, !.newFinality = FALSE])
      BY <2>8 DEF FinalityChanged
    <3>2. [wait[t] EXCEPT !.at = "ack", !.acked = TRUE, !.newFinality = FALSE] \in WaitState
      BY DEF WaitState
    <3>3. ([wait[t] EXCEPT !.at = "ack", !.acked = TRUE, !.newFinality = FALSE]).at # "stream"
      BY DEF WaitState
    <3> QED
      BY <3>1, <3>2, <3>3
  <2> QED
    BY <2>1, <2>2, <2>3, <2>4, <2>5, <2>6, <2>7, <2>8 DEF WaitStep
<1>2. /\ wait' = [wait EXCEPT ![t] = w]
      /\ modules' = modules /\ configs' = configs /\ app' = app
  BY <1>1 DEF SetWait
<1>3. wait' \in [Tasks -> WaitState]
  BY <1>2
<1>4. ChangeNoticed'
  BY <1>1, <1>2 DEF ChangeNoticed
<1> QED
  BY <1>2, <1>3, <1>4

LEMMA NextKeepsShared == SharedInv /\ [SharedNext]_sharedVars => SharedInv'
<1> SUFFICES ASSUME SharedInv, [SharedNext]_sharedVars PROVE SharedInv'
  OBVIOUS
<1>1. CASE AppStep
  BY <1>1, AppKeepsShared
<1>2. CASE Finalize
  <2>1. modules' = modules /\ configs' = configs /\ app' = app
    BY <1>2 DEF Finalize
  <2>2. /\ wait' \in [Tasks -> WaitState]
        /\ \A t \in Tasks : /\ wait'[t].at = wait[t].at /\ wait'[t].seen = wait[t].seen
                            /\ wait'[t].changed = wait[t].changed
    BY <1>2 DEF Finalize, WaitState, SharedInv, SharedShapes, Tasks
  <2> QED
    BY <2>1, <2>2 DEF SharedInv, SharedShapes, ChangeNoticed
<1>3. CASE \E i \in Ids : SetPendingVote(i)
  BY <1>3 DEF SetPendingVote, SharedInv, SharedShapes, ChangeNoticed
<1>4. CASE \E t \in Tasks : WaitStep(t)
  BY <1>4, WaitKeepsShared
<1>5. CASE UNCHANGED sharedVars
  BY <1>5 DEF sharedVars, SharedInv, SharedShapes, ChangeNoticed
<1> QED
  BY <1>1, <1>2, <1>3, <1>4, <1>5 DEF SharedNext

\* Whatever modules there are and however they are added and upgraded, a task
\* that waits on the channels of replaced modules has the change to see or is
\* about to be sent it (mark_unchanged, send_changed).
THEOREM ChangesAreNoticed == SharedSpec => []ChangeNoticed
<1>1. SharedInv => ChangeNoticed
  BY DEF SharedInv
<1> QED
  BY SharedInitInv, NextKeepsShared, <1>1, PTL DEF SharedSpec

=============================================================================
