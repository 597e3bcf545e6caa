----------------------------- MODULE MetaProofs -----------------------------
(***************************************************************************)
(* The meta module with any members, keys, values and number of changes.   *)
(***************************************************************************)
EXTENDS Meta, FiniteSetTheorems, SequenceTheorems, TLAPS

-----------------------------------------------------------------------------
(***************************************************************************)
(* The invariant.                                                          *)
(***************************************************************************)
\* No operator has proposed two values for the key.
Single(k) == \A p \in Peers : Cardinality(wanted[p][k]) <= 1

\* The operator of p wants what item c of p for key k stands for; an approval
\* was of a vote for a value the operators of both peers want.
Justified(p, k, c) ==
    \/ c.op = "propose" /\ c.value \in wanted[p][k]
    \/ c.op = "approve" /\ (Single(k) => \E v \in wanted[p][k] : v \in wanted[c.peer][k])

WantedInv ==
    /\ \A p \in Peers, k \in Keys : IsFiniteSet(wanted[p][k])
    /\ \A p \in Peers, k \in Keys : pending[p][k] # Absent => pending[p][k] \in wanted[p][k]
    /\ \A i \in DOMAIN pipeline : \A k \in DOMAIN pipeline[i].items :
          Justified(pipeline[i].peer, k, pipeline[i].items[k])

\* Who has a vote is a member or was one.
VotersInv == \A k \in Keys, p \in Peers : votes[k][p] # Absent => p \in peers \cup left

Inv == TypeOK /\ WantedInv /\ VotersInv /\ NothingLeftToAgree /\ VotesAreWanted

-----------------------------------------------------------------------------
(***************************************************************************)
(* Counting votes.                                                         *)
(***************************************************************************)
\* Thresholds are positive and grow with the members.
LEMMA ThresholdFacts ==
    ASSUME NEW n \in Nat
    PROVE  /\ Threshold(n) \in Nat /\ (n >= 1 => Threshold(n) >= 1)
           /\ Threshold(n) <= Threshold(n + 1)
    BY DEF Threshold, MaxFaulty

\* Sets of members are finite.
LEMMA MembersFinite ==
    ASSUME NEW S \in SUBSET Peers
    PROVE  IsFiniteSet(S) /\ Cardinality(S) \in Nat
    BY MetaAssumption, FS_Subset, FS_CardinalityType

\* More backers among more members.
LEMMA FewerBackers ==
    ASSUME NEW S \in SUBSET Peers, NEW R \in SUBSET Peers, NEW A, NEW B, NEW v,
           Backers(A, v, S) \subseteq Backers(B, v, R),
           Threshold(Cardinality(R)) <= Threshold(Cardinality(S)),
           ThresholdReached(A, v, S)
    PROVE  ThresholdReached(B, v, R)
<1>1. Backers(A, v, S) \in SUBSET Peers /\ Backers(B, v, R) \in SUBSET Peers
    BY DEF Backers
<1>2. Cardinality(Backers(A, v, S)) <= Cardinality(Backers(B, v, R))
    BY <1>1, MembersFinite, FS_Subset
<1>3. /\ Cardinality(Backers(A, v, S)) \in Nat /\ Cardinality(Backers(B, v, R)) \in Nat
      /\ Cardinality(S) \in Nat /\ Cardinality(R) \in Nat
    BY <1>1, MembersFinite
<1>. QED
    BY <1>2, <1>3, ThresholdFacts DEF ThresholdReached

\* A set with at most one element.
LEMMA AtMostOne ==
    ASSUME NEW W, IsFiniteSet(W), Cardinality(W) <= 1, NEW v \in W, NEW w \in W
    PROVE  v = w
<1>. SUFFICES ASSUME v # w PROVE FALSE
    OBVIOUS
<1>1. IsFiniteSet({v}) /\ Cardinality({v}) = 1
    BY FS_Singleton
<1>2. Cardinality({v} \cup {w}) = 2 /\ IsFiniteSet({v} \cup {w})
    BY <1>1, FS_AddElement
<1>3. Cardinality({v} \cup {w}) <= Cardinality(W) /\ Cardinality(W) \in Nat
    BY FS_Subset, FS_CardinalityType
<1>. QED
    BY <1>2, <1>3

\* The items of a block.
LEMMA ItemsAre ==
    /\ \A s \in CItems : DOMAIN s \subseteq Keys /\ DOMAIN s # {} /\ \A k \in DOMAIN s : s[k] \in CItem
    /\ \A K \in SUBSET Keys : K # {} => \A s \in [K -> CItem] : s \in CItems
    /\ \A c \in CItem : \/ c.op = "propose" /\ c.value \in Values
                        \/ c.op = "approve" /\ c.peer \in Peers
<1>1. \A s : s \in CItems <=> \E K \in (SUBSET Keys) \ {{}} : s \in [K -> CItem]
    BY DEF CItems
<1>2. \A c \in CItem : \/ c.op = "propose" /\ c.value \in Values
                       \/ c.op = "approve" /\ c.peer \in Peers
    BY DEF CItem
<1>3. \A s \in CItems : DOMAIN s \subseteq Keys /\ DOMAIN s # {} /\ \A k \in DOMAIN s : s[k] \in CItem
  <2>. TAKE s \in CItems
  <2>1. PICK K \in (SUBSET Keys) \ {{}} : s \in [K -> CItem]
    BY <1>1
  <2>. QED
    BY <2>1
<1>4. \A K \in SUBSET Keys : K # {} => \A s \in [K -> CItem] : s \in CItems
    BY <1>1
<1>. QED
    BY <1>2, <1>3, <1>4

\* A block of the pipeline.
LEMMA BlocksAre ==
    ASSUME TypeOK, NEW i \in DOMAIN pipeline
    PROVE  /\ pipeline[i] \in Block /\ pipeline[i].peer \in Peers /\ pipeline[i].items \in CItems
           /\ DOMAIN pipeline[i].items \subseteq Keys
           /\ \A k \in DOMAIN pipeline[i].items : pipeline[i].items[k] \in CItem
<1>1. pipeline[i] \in Block
    BY DEF TypeOK
<1>2. pipeline[i].peer \in Peers /\ pipeline[i].items \in CItems
    BY <1>1 DEF Block
<1>. QED
    BY <1>1, <1>2, ItemsAre

\* What the tables hold is a value or nothing.
LEMMA TableTypes ==
    ASSUME TypeOK
    PROVE  /\ \A k \in Keys : values[k] \in OptValue /\ votes[k] \in [Peers -> OptValue]
           /\ \A k \in Keys, p \in Peers : votes[k][p] \in OptValue /\ pending[p][k] \in OptValue
           /\ \A p \in Peers : pending[p] \in [Keys -> OptValue]
           /\ \A v \in OptValue : v # Absent <=> v \in Values
           /\ Absent \in OptValue /\ Values \subseteq OptValue
    BY MetaAssumption DEF TypeOK, OptValue

-----------------------------------------------------------------------------
(***************************************************************************)
(* Steps.                                                                  *)
(***************************************************************************)
\* Values, votes and pending values stay well typed, and none appears in the
\* tables that was not there, but for votes that are told in N.
Tame(N) ==
    /\ values' \in [Keys -> OptValue]
    /\ votes' \in [Keys -> [Peers -> OptValue]]
    /\ pending' \in [Peers -> [Keys -> OptValue]]
    /\ \A k \in Keys, p \in Peers :
          \/ votes'[k][p] \in {Absent, votes[k][p]}
          \/ <<k, p, votes'[k][p]>> \in N
    /\ \A k \in Keys, p \in Peers : pending'[p][k] \in {Absent, pending[p][k]}

\* A key that stays without a value gets no quorum.
Undecided ==
    \A k \in Keys : values'[k] = Absent =>
        /\ values[k] = Absent
        /\ \A v \in Values : ThresholdReached(votes'[k], v, peers) => ThresholdReached(votes[k], v, peers)

\* Nothing happens to the tables.
LEMMA SameTables ==
    ASSUME TypeOK, UNCHANGED <<values, votes, pending>>
    PROVE  Tame({}) /\ Undecided
    BY DEF TypeOK, Tame, Undecided

\* A vote is recorded, and maybe the last that was needed.
LEMMA VoteEffect ==
    ASSUME TypeOK, NEW k \in Keys, NEW p \in peers, NEW v \in Values, VoteKeyValue(k, p, v)
    PROVE  Tame({<<k, p, v>>}) /\ Undecided
<1>. p \in Peers /\ v \in OptValue /\ v # Absent
    BY TableTypes DEF TypeOK
<1> DEFINE recorded == [votes[k] EXCEPT ![p] = v]
<1>1. /\ recorded \in [Peers -> OptValue] /\ recorded[p] = v
      /\ \A q \in Peers : q # p => recorded[q] = votes[k][q]
    BY TableTypes
<1>2. CASE votes[k][p] # v /\ ThresholdReached(recorded, v, peers)
  <2>1. Agree(k, v, peers, recorded)
    BY <1>2 DEF VoteKeyValue
  <2>. HIDE DEF recorded
  <2> DEFINE cleared == [q \in Peers |-> IF q \in peers THEN Absent ELSE recorded[q]]
  <2>2. cleared \in [Peers -> OptValue] /\ \A q \in Peers : cleared[q] \in {Absent, recorded[q]}
    BY <1>1, TableTypes
  <2>3. /\ values' = [values EXCEPT ![k] = v]
        /\ votes' = [votes EXCEPT ![k] = cleared]
        /\ pending' = [q \in Peers |-> [pending[q] EXCEPT ![k] = Absent]]
    BY <2>1 DEF Agree
  <2>. HIDE DEF cleared
  <2>4. values' \in [Keys -> OptValue] /\ votes' \in [Keys -> [Peers -> OptValue]]
    BY <2>2, <2>3 DEF TypeOK
  <2>5. \A j \in Keys : j # k => votes'[j] = votes[j] /\ values'[j] = values[j]
    BY <2>3 DEF TypeOK
  <2>6. votes'[k] = cleared /\ values'[k] = v
    BY <2>3 DEF TypeOK
  <2>7. /\ pending' \in [Peers -> [Keys -> OptValue]]
        /\ \A j \in Keys, q \in Peers : pending'[q][j] \in {Absent, pending[q][j]}
    BY <2>3, TableTypes
  <2>8. \A j \in Keys, q \in Peers : \/ votes'[j][q] \in {Absent, votes[j][q]}
                                     \/ <<j, q, votes'[j][q]>> \in {<<k, p, v>>}
    BY <1>1, <2>2, <2>5, <2>6
  <2>9. Undecided
    BY <2>5, <2>6 DEF Undecided
  <2>. QED
    BY <2>4, <2>7, <2>8, <2>9 DEF Tame
<1>3. CASE ~(votes[k][p] # v /\ ThresholdReached(recorded, v, peers))
  <2>1. votes' = [votes EXCEPT ![k] = recorded] /\ UNCHANGED <<values, pending>>
    BY <1>3 DEF VoteKeyValue
  <2>2. votes[k][p] = v => recorded = votes[k]
    BY TableTypes
  <2>. HIDE DEF recorded
  <2>3. /\ votes' \in [Keys -> [Peers -> OptValue]] /\ votes'[k] = recorded
        /\ \A j \in Keys : j # k => votes'[j] = votes[j]
    BY <1>1, <2>1 DEF TypeOK
  <2>4. Tame({<<k, p, v>>})
    <3>1. \A j \in Keys, q \in Peers : \/ votes'[j][q] \in {Absent, votes[j][q]}
                                       \/ <<j, q, votes'[j][q]>> \in {<<k, p, v>>}
      BY <1>1, <2>3
    <3>. QED
      BY <2>1, <2>3, <3>1 DEF Tame, TypeOK
  <2>5. \A w \in Values : ThresholdReached(recorded, w, peers) => ThresholdReached(votes[k], w, peers)
    <3>. SUFFICES ASSUME NEW w \in Values, ThresholdReached(recorded, w, peers)
                  PROVE  ThresholdReached(votes[k], w, peers)
      OBVIOUS
    <3>1. CASE votes[k][p] = v
      BY <2>2, <3>1
    <3>2. CASE votes[k][p] # v
      <4>1. w # v
        BY <1>3, <3>2
      <4>2. Backers(recorded, w, peers) \subseteq Backers(votes[k], w, peers)
        BY <1>1, <4>1 DEF Backers, TypeOK
      <4>3. peers \in SUBSET Peers /\ Threshold(Cardinality(peers)) <= Threshold(Cardinality(peers))
        <5>1. peers \in SUBSET Peers
          BY DEF TypeOK
        <5>2. Cardinality(peers) \in Nat
          BY <5>1, MembersFinite
        <5>3. Threshold(Cardinality(peers)) \in Nat
          BY <5>2, ThresholdFacts
        <5>. QED
          BY <5>1, <5>3
      <4>. QED
        BY <4>2, <4>3, FewerBackers
    <3>. QED
      BY <3>1, <3>2
  <2>6. Undecided
    <3>. SUFFICES ASSUME NEW j \in Keys, values'[j] = Absent
                  PROVE  /\ values[j] = Absent
                         /\ \A w \in Values : ThresholdReached(votes'[j], w, peers)
                                              => ThresholdReached(votes[j], w, peers)
      BY DEF Undecided
    <3>. QED
      BY <2>1, <2>3, <2>5
  <2>. QED
    BY <2>4, <2>6
<1>. QED
    BY <1>2, <1>3

\* Votes that members' operators want may be added, others may go.
LEMMA TameInv ==
    ASSUME Inv, NEW N, Tame(N), wanted' = wanted, left' = left, peers' = peers,
           \A k \in Keys, p \in Peers : \A v : <<k, p, v>> \in N =>
               p \in peers /\ (Single(k) => v \in wanted[p][k])
    PROVE  VotersInv' /\ VotesAreWanted'
           /\ \A p \in Peers, k \in Keys : pending'[p][k] # Absent => pending'[p][k] \in wanted'[p][k]
<1>1. VotersInv'
    BY DEF VotersInv, Tame, Inv
<1>2. VotesAreWanted'
  <2>. SUFFICES ASSUME NEW k \in Keys, Single(k), NEW p \in Peers, votes'[k][p] # Absent
                PROVE  votes'[k][p] \in wanted[p][k]
    BY DEF VotesAreWanted, Single
  <2>1. votes[k][p] # Absent => votes[k][p] \in wanted[p][k]
    BY DEF Inv, VotesAreWanted, Single
  <2>. QED
    BY <2>1 DEF Tame
<1>3. \A p \in Peers, k \in Keys : pending'[p][k] # Absent => pending'[p][k] \in wanted'[p][k]
    BY DEF Tame, Inv, WantedInv
<1>. QED
    BY <1>1, <1>2, <1>3

\* New tables.
LEMMA InitInv == Init => Inv
<1>. SUFFICES ASSUME Init PROVE Inv
    OBVIOUS
<1>1. TypeOK
  <2>1. pipeline \in Seq(Block)
    BY DEF Init
  <2>2. /\ values \in [Keys -> OptValue] /\ votes \in [Keys -> [Peers -> OptValue]]
        /\ pending \in [Peers -> [Keys -> OptValue]] /\ wanted \in [Peers -> [Keys -> SUBSET Values]]
    BY DEF Init, OptValue
  <2>3. peers \in SUBSET Peers /\ left \in SUBSET Peers
    BY MetaAssumption DEF Init
  <2>4. calls \in 0 .. MaxCalls /\ changes \in 0 .. MaxChanges
    BY MetaAssumption DEF Init
  <2>5. panicked \in BOOLEAN
    BY DEF Init
  <2>. QED
    BY <2>1, <2>2, <2>3, <2>4, <2>5 DEF TypeOK
<1>2. WantedInv
  <2>1. \A p \in Peers, k \in Keys : IsFiniteSet(wanted[p][k])
    BY FS_EmptySet DEF Init
  <2>. QED
    BY <2>1 DEF Init, WantedInv
<1>3. VotersInv /\ VotesAreWanted
    BY DEF Init, VotersInv, VotesAreWanted
<1>4. NothingLeftToAgree
  <2>. SUFFICES ASSUME NEW k \in Keys, NEW v \in Values
                PROVE  ~ThresholdReached(votes[k], v, peers)
    BY DEF NothingLeftToAgree
  <2>1. Backers(votes[k], v, peers) = {}
    BY MetaAssumption DEF Init, Backers
  <2>2. Cardinality(peers) \in Nat /\ Cardinality(peers) >= 1
    <3>1. peers \in SUBSET Peers /\ peers # {}
      BY MetaAssumption DEF Init
    <3>2. IsFiniteSet(peers) /\ Cardinality(peers) \in Nat
      BY <3>1, MembersFinite
    <3>. QED
      BY <3>1, <3>2, FS_EmptySet
  <2>. QED
    BY <2>1, <2>2, FS_EmptySet, ThresholdFacts DEF ThresholdReached
<1>. QED
    BY <1>1, <1>2, <1>3, <1>4 DEF Inv

\* An operator proposes a value.
LEMMA ProposeKeyValueInv ==
    ASSUME Inv, NEW p \in Peers, NEW k \in Keys, NEW v \in Values, ProposeKeyValue(p, k, v)
    PROVE  Inv'
<1>1. /\ pending' = [pending EXCEPT ![p][k] = v]
      /\ wanted' = [wanted EXCEPT ![p][k] = wanted[p][k] \cup {v}]
      /\ UNCHANGED <<peers, left, values, votes, pipeline, panicked, changes>>
      /\ calls < MaxCalls /\ calls' = calls + 1
    BY DEF ProposeKeyValue
<1>2. /\ pending \in [Peers -> [Keys -> OptValue]] /\ wanted \in [Peers -> [Keys -> SUBSET Values]]
      /\ v \in OptValue
    BY TableTypes DEF Inv, TypeOK
<1>3. /\ pending' \in [Peers -> [Keys -> OptValue]] /\ wanted' \in [Peers -> [Keys -> SUBSET Values]]
      /\ pending'[p][k] = v /\ wanted'[p][k] = wanted[p][k] \cup {v}
      /\ \A q \in Peers, j \in Keys : ~(q = p /\ j = k) =>
            pending'[q][j] = pending[q][j] /\ wanted'[q][j] = wanted[q][j]
    BY <1>1, <1>2
<1>4. TypeOK'
    BY <1>1, <1>3, MetaAssumption DEF Inv, TypeOK
<1>5. \A q \in Peers, j \in Keys : IsFiniteSet(wanted'[q][j]) /\ wanted[q][j] \subseteq wanted'[q][j]
  <2>1. IsFiniteSet(wanted[p][k] \cup {v})
    BY FS_AddElement DEF Inv, WantedInv
  <2>. QED
    BY <1>3, <2>1 DEF Inv, WantedInv
<1>6. \A j \in Keys : Single(j)' => Single(j)
  <2>. SUFFICES ASSUME NEW j \in Keys, Single(j)', NEW q \in Peers
                PROVE  Cardinality(wanted[q][j]) <= 1
    BY DEF Single
  <2>1. Cardinality(wanted'[q][j]) <= 1
    BY DEF Single
  <2>2. /\ Cardinality(wanted[q][j]) <= Cardinality(wanted'[q][j])
        /\ IsFiniteSet(wanted[q][j])
    BY <1>5, FS_Subset
  <2>3. Cardinality(wanted[q][j]) \in Nat /\ Cardinality(wanted'[q][j]) \in Nat
    BY <1>5, <2>2, FS_CardinalityType
  <2>. QED
    BY <2>1, <2>2, <2>3
<1>7. WantedInv'
  <2>1. \A i \in DOMAIN pipeline : \A j \in DOMAIN pipeline[i].items :
            Justified(pipeline[i].peer, j, pipeline[i].items[j])'
    <3>. SUFFICES ASSUME NEW i \in DOMAIN pipeline, NEW j \in DOMAIN pipeline[i].items
                  PROVE  Justified(pipeline[i].peer, j, pipeline[i].items[j])'
      OBVIOUS
    <3>1. /\ pipeline[i].peer \in Peers /\ j \in Keys /\ pipeline[i].items[j] \in CItem
          /\ Justified(pipeline[i].peer, j, pipeline[i].items[j])
      BY BlocksAre DEF Inv, WantedInv
    <3>2. \/ pipeline[i].items[j].op = "propose"
          \/ pipeline[i].items[j].op = "approve" /\ pipeline[i].items[j].peer \in Peers
      BY <3>1, ItemsAre
    <3>. QED
      BY <1>1, <1>5, <1>6, <3>1, <3>2 DEF Justified
  <2>2. \A q \in Peers, j \in Keys : pending'[q][j] # Absent => pending'[q][j] \in wanted'[q][j]
    BY <1>3, <1>5 DEF Inv, WantedInv
  <2>. QED
    BY <1>1, <1>5, <2>1, <2>2 DEF WantedInv
<1>8. VotesAreWanted'
  <2>. SUFFICES ASSUME NEW j \in Keys, Single(j)', NEW q \in Peers, votes[j][q] # Absent
                PROVE  votes[j][q] \in wanted'[q][j]
    BY <1>1 DEF VotesAreWanted, Single
  <2>1. Single(j)
    BY <1>6
  <2>. QED
    BY <1>5, <2>1 DEF Inv, VotesAreWanted, Single
<1>9. VotersInv' /\ NothingLeftToAgree'
    BY <1>1 DEF Inv, VotersInv, NothingLeftToAgree, ThresholdReached, Backers
<1>. QED
    BY <1>4, <1>7, <1>8, <1>9 DEF Inv

\* A member's items get into a block.
LEMMA ProposeInv ==
    ASSUME Inv, NEW p \in Peers, Propose(p)
    PROVE  Inv'
<1>1. /\ UNCHANGED <<peers, left, values, votes, pending, panicked, wanted, calls, changes>>
      /\ Proposed(p) # {}
    BY DEF Propose
<1>2. PICK items \in ItemLists(p) : pipeline' = Append(pipeline, [peer |-> p, items |-> items])
    BY DEF Propose
<1>3. Proposed(p) \subseteq Keys /\ DOMAIN items = Proposed(p)
      /\ \A k \in Proposed(p) : items[k] \in ItemFor(p, k) /\ pending[p][k] # Absent
    BY DEF ItemLists, Proposed
<1>4. ASSUME NEW k \in Proposed(p)
      PROVE  items[k] \in CItem /\ Justified(p, k, items[k])
  <2> DEFINE v == pending[p][k]
             same == {q \in Peers : votes[k][q] = v}
  <2>1. k \in Keys /\ v # Absent /\ v \in Values /\ v \in wanted[p][k]
    BY <1>3, TableTypes DEF Inv, WantedInv
  <2>2. items[k] \in IF same # {} THEN {[op |-> "approve", peer |-> q] : q \in same}
                     ELSE {[op |-> "propose", value |-> v]}
    BY <1>3 DEF ItemFor
  <2>3. CASE same # {}
    <3>1. PICK q \in Peers : votes[k][q] = v /\ items[k] = [op |-> "approve", peer |-> q]
      BY <2>2, <2>3
    <3>2. Single(k) => v \in wanted[q][k]
      BY <2>1, <3>1 DEF Inv, VotesAreWanted, Single
    <3>3. items[k].op = "approve" /\ items[k].peer = q /\ items[k] \in CItem
      BY <3>1 DEF CItem
    <3>. QED
      BY <2>1, <3>2, <3>3 DEF Justified
  <2>4. CASE same = {}
    <3>1. items[k] = [op |-> "propose", value |-> v]
      BY <2>2, <2>4
    <3>. HIDE DEF v
    <3>. QED
      BY <2>1, <3>1 DEF CItem, Justified
  <2>. QED
    BY <2>3, <2>4
<1>5. items \in [Proposed(p) -> CItem] /\ items \in CItems
  <2>1. items \in [Proposed(p) -> CItem]
    BY <1>4 DEF ItemLists
  <2>. QED
    BY <1>1, <1>3, <2>1, ItemsAre
<1> DEFINE b == [peer |-> p, items |-> items]
<1>6. pipeline \in Seq(Block) /\ b \in Block
    BY <1>5 DEF Inv, TypeOK, Block
<1>7. /\ pipeline' \in Seq(Block)
      /\ DOMAIN pipeline' = 1 .. Len(pipeline) + 1 /\ DOMAIN pipeline = 1 .. Len(pipeline)
      /\ pipeline'[Len(pipeline) + 1] = b
      /\ \A i \in 1 .. Len(pipeline) : pipeline'[i] = pipeline[i]
  <2>. HIDE DEF b
  <2>1. pipeline' = Append(pipeline, b)
    BY <1>2 DEF b
  <2>. QED
    BY <1>6, <2>1, AppendProperties
<1>8. TypeOK'
    BY <1>1, <1>7 DEF Inv, TypeOK
<1>9. WantedInv'
  <2>1. \A q, k, c : Justified(q, k, c) => Justified(q, k, c)'
    BY <1>1 DEF Justified, Single
  <2>2. \A i \in DOMAIN pipeline' : \A k \in DOMAIN pipeline'[i].items :
            Justified(pipeline'[i].peer, k, pipeline'[i].items[k])
    <3>. SUFFICES ASSUME NEW i \in DOMAIN pipeline', NEW k \in DOMAIN pipeline'[i].items
                  PROVE  Justified(pipeline'[i].peer, k, pipeline'[i].items[k])
      OBVIOUS
    <3>1. CASE i \in 1 .. Len(pipeline)
      BY <1>7, <3>1 DEF Inv, WantedInv
    <3>2. CASE i = Len(pipeline) + 1
      <4>1. pipeline'[i].peer = p /\ pipeline'[i].items = items
        BY <1>7, <3>2
      <4>. QED
        BY <1>3, <1>4, <4>1
    <3>. QED
      BY <1>6, <1>7, <3>1, <3>2
  <2>. QED
    BY <1>1, <2>1, <2>2 DEF Inv, WantedInv
<1>10. VotersInv' /\ NothingLeftToAgree' /\ VotesAreWanted'
    BY <1>1 DEF Inv, VotersInv, NothingLeftToAgree, ThresholdReached, Backers, VotesAreWanted
<1>. QED
    BY <1>8, <1>9, <1>10 DEF Inv

\* What remains of the pipeline was in it.
LEMMA PipelineShrinks ==
    ASSUME TypeOK, pipeline # <<>>, NEW k \in DOMAIN pipeline[1].items,
           pipeline' = IF DOMAIN pipeline[1].items = {k} THEN Tail(pipeline)
                       ELSE [pipeline EXCEPT ![1].items =
                                [j \in DOMAIN pipeline[1].items \ {k} |-> pipeline[1].items[j]]]
    PROVE  /\ pipeline' \in Seq(Block)
           /\ \A i \in DOMAIN pipeline' : \E h \in DOMAIN pipeline :
                 /\ pipeline'[i].peer = pipeline[h].peer
                 /\ DOMAIN pipeline'[i].items \subseteq DOMAIN pipeline[h].items
                 /\ \A j \in DOMAIN pipeline'[i].items : pipeline'[i].items[j] = pipeline[h].items[j]
<1>1. pipeline \in Seq(Block) /\ 1 \in DOMAIN pipeline /\ Len(pipeline) \in Nat
      /\ DOMAIN pipeline = 1 .. Len(pipeline)
    BY DEF TypeOK
<1>2. CASE DOMAIN pipeline[1].items = {k}
  <2>1. /\ pipeline' \in Seq(Block)
        /\ DOMAIN pipeline' = 1 .. Len(pipeline) - 1
        /\ \A i \in 1 .. Len(pipeline) - 1 : pipeline'[i] = pipeline[i + 1]
    BY <1>1, <1>2, HeadTailProperties
  <2>2. \A i \in DOMAIN pipeline' : i + 1 \in DOMAIN pipeline /\ pipeline'[i] = pipeline[i + 1]
    BY <1>1, <2>1
  <2>. QED
    BY <2>1, <2>2
<1>3. CASE DOMAIN pipeline[1].items # {k}
  <2> DEFINE rest == [j \in DOMAIN pipeline[1].items \ {k} |-> pipeline[1].items[j]]
  <2>1. pipeline[1] \in Block /\ pipeline[1].items \in CItems
    BY <1>1, BlocksAre
  <2>2. /\ DOMAIN rest = DOMAIN pipeline[1].items \ {k}
        /\ \A j \in DOMAIN rest : rest[j] = pipeline[1].items[j]
    OBVIOUS
  <2>3. rest \in CItems
    <3>1. DOMAIN rest \in SUBSET Keys /\ DOMAIN rest # {} /\ rest \in [DOMAIN rest -> CItem]
      BY <1>3, <2>1, ItemsAre
    <3>. HIDE DEF rest
    <3>. QED
      BY <3>1, ItemsAre
  <2>4. pipeline' = [pipeline EXCEPT ![1].items = rest]
    BY <1>3
  <2>. HIDE DEF rest
  <2>5. /\ pipeline' \in Seq(Block) /\ DOMAIN pipeline' = DOMAIN pipeline
        /\ pipeline'[1].peer = pipeline[1].peer /\ pipeline'[1].items = rest
        /\ \A i \in DOMAIN pipeline : i # 1 => pipeline'[i] = pipeline[i]
    <3>1. [pipeline[1] EXCEPT !.items = rest] \in Block
      BY <2>1, <2>3 DEF Block
    <3>2. pipeline' = [pipeline EXCEPT ![1] = [pipeline[1] EXCEPT !.items = rest]]
      BY <2>4
    <3>3. pipeline' \in Seq(Block) /\ DOMAIN pipeline' = DOMAIN pipeline
          /\ pipeline'[1] = [pipeline[1] EXCEPT !.items = rest]
          /\ \A i \in DOMAIN pipeline : i # 1 => pipeline'[i] = pipeline[i]
      BY <1>1, <3>1, <3>2, ExceptSeq
    <3>4. /\ [pipeline[1] EXCEPT !.items = rest].peer = pipeline[1].peer
          /\ [pipeline[1] EXCEPT !.items = rest].items = rest
      BY <2>1 DEF Block
    <3>. QED
      BY <3>3, <3>4
  <2>6. \A i \in DOMAIN pipeline' :
            /\ i \in DOMAIN pipeline /\ pipeline'[i].peer = pipeline[i].peer
            /\ DOMAIN pipeline'[i].items \subseteq DOMAIN pipeline[i].items
            /\ \A j \in DOMAIN pipeline'[i].items : pipeline'[i].items[j] = pipeline[i].items[j]
    BY <2>2, <2>5
  <2>. QED
    BY <2>5, <2>6
<1>. QED
    BY <1>2, <1>3

\* The tables after an item was processed.
LEMMA ItemEffect ==
    ASSUME Inv, ProcessCItem
    PROVE  \E N : /\ Tame(N) /\ Undecided
                  /\ \A k \in Keys, p \in Peers : \A v : <<k, p, v>> \in N =>
                        p \in peers /\ (Single(k) => v \in wanted[p][k])
<1> DEFINE p == pipeline[1].peer
           items == pipeline[1].items
<1>1. PICK k \in DOMAIN items :
        \/ UNCHANGED <<values, votes, pending>>
        \/ p \in peers /\ items[k].op = "propose" /\ VoteKeyValue(k, p, items[k].value)
        \/ /\ p \in peers /\ items[k].op # "propose" /\ votes[k][items[k].peer] # Absent
           /\ VoteKeyValue(k, p, votes[k][items[k].peer])
    BY DEF ProcessCItem, ApproveVote, Panic
<1>2. /\ p \in Peers /\ k \in Keys /\ items[k] \in CItem /\ Justified(p, k, items[k])
      /\ TypeOK
  <2>1. 1 \in DOMAIN pipeline /\ TypeOK
    BY DEF Inv, TypeOK, ProcessCItem
  <2>. QED
    BY <2>1, BlocksAre DEF Inv, WantedInv
<1> DEFINE c == items[k]
<1>3. /\ c.op = "propose" => c.value \in Values /\ c.value \in wanted[p][k]
      /\ c.op # "propose" => /\ c.peer \in Peers
                             /\ Single(k) => \E v \in wanted[p][k] : v \in wanted[c.peer][k]
    BY <1>2, ItemsAre DEF Justified
<1>4. CASE UNCHANGED <<values, votes, pending>>
    BY <1>2, <1>4, SameTables
<1>. HIDE DEF p, items, c
<1>5. CASE p \in peers /\ c.op = "propose" /\ VoteKeyValue(k, p, c.value)
  <2>1. Tame({<<k, p, c.value>>}) /\ Undecided
    BY <1>2, <1>3, <1>5, VoteEffect
  <2>. QED
    BY <1>3, <1>5, <2>1
<1>6. CASE /\ p \in peers /\ c.op # "propose" /\ votes[k][c.peer] # Absent
           /\ VoteKeyValue(k, p, votes[k][c.peer])
  <2> DEFINE v == votes[k][c.peer]
  <2>1. v \in Values
    BY <1>2, <1>3, <1>6, TableTypes
  <2>2. Single(k) => v \in wanted[p][k]
    <3>. SUFFICES ASSUME Single(k) PROVE v \in wanted[p][k]
      OBVIOUS
    <3>1. PICK u \in wanted[p][k] : u \in wanted[c.peer][k]
      BY <1>3, <1>6
    <3>2. v \in wanted[c.peer][k]
      BY <1>2, <1>3, <1>6 DEF Inv, VotesAreWanted, Single
    <3>3. IsFiniteSet(wanted[c.peer][k]) /\ Cardinality(wanted[c.peer][k]) <= 1
      BY <1>2, <1>3, <1>6 DEF Inv, WantedInv, Single
    <3>4. u = v
      <4>. HIDE DEF v
      <4>. QED
        BY <3>1, <3>2, <3>3, AtMostOne
    <3>. QED
      BY <3>1, <3>4
  <2>3. VoteKeyValue(k, p, v)
    BY <1>6
  <2>. HIDE DEF v
  <2>4. Tame({<<k, p, v>>}) /\ Undecided
    BY <1>2, <1>6, <2>1, <2>3, VoteEffect
  <2>. QED
    BY <1>6, <2>2, <2>4
<1>. QED
    BY <1>1, <1>4, <1>5, <1>6 DEF c

\* An item is processed, or a node stops at it.
LEMMA ProcessInv ==
    ASSUME Inv, ProcessCItem
    PROVE  Inv'
<1>1. UNCHANGED <<peers, left, wanted, calls, changes>> /\ panicked' \in BOOLEAN
    BY DEF ProcessCItem, ApproveVote, Panic, Inv, TypeOK
<1>2. PICK N : /\ Tame(N) /\ Undecided
               /\ \A k \in Keys, p \in Peers : \A v : <<k, p, v>> \in N =>
                     p \in peers /\ (Single(k) => v \in wanted[p][k])
    BY ItemEffect
<1>3. PICK k \in DOMAIN pipeline[1].items :
        pipeline' = IF DOMAIN pipeline[1].items = {k} THEN Tail(pipeline)
                    ELSE [pipeline EXCEPT ![1].items =
                             [j \in DOMAIN pipeline[1].items \ {k} |-> pipeline[1].items[j]]]
    BY DEF ProcessCItem
<1>4. /\ pipeline' \in Seq(Block)
      /\ \A i \in DOMAIN pipeline' : \E h \in DOMAIN pipeline :
            /\ pipeline'[i].peer = pipeline[h].peer
            /\ DOMAIN pipeline'[i].items \subseteq DOMAIN pipeline[h].items
            /\ \A j \in DOMAIN pipeline'[i].items : pipeline'[i].items[j] = pipeline[h].items[j]
    BY <1>3, PipelineShrinks DEF ProcessCItem, Inv
<1>5. TypeOK'
    BY <1>1, <1>2, <1>4 DEF Tame, Inv, TypeOK
<1>6. VotersInv' /\ VotesAreWanted'
      /\ \A p \in Peers, j \in Keys : pending'[p][j] # Absent => pending'[p][j] \in wanted'[p][j]
    BY <1>1, <1>2, TameInv
<1>7. WantedInv'
  <2>1. \A q, j, c : Justified(q, j, c) => Justified(q, j, c)'
    BY <1>1 DEF Justified, Single
  <2>2. \A i \in DOMAIN pipeline' : \A j \in DOMAIN pipeline'[i].items :
            Justified(pipeline'[i].peer, j, pipeline'[i].items[j])
    BY <1>4 DEF Inv, WantedInv
  <2>. QED
    BY <1>1, <1>6, <2>1, <2>2 DEF Inv, WantedInv
<1>8. NothingLeftToAgree'
  <2>. SUFFICES ASSUME left \cap peers = {}, NEW j \in Keys, NEW v \in Values, values'[j] = Absent
                PROVE  ~ThresholdReached(votes'[j], v, peers)
    BY <1>1 DEF NothingLeftToAgree, ThresholdReached, Backers
  <2>. QED
    BY <1>2 DEF Undecided, Inv, NothingLeftToAgree
<1>. QED
    BY <1>5, <1>6, <1>7, <1>8 DEF Inv

\* A node stops while a removal is processed.
LEMMA StopInv ==
    ASSUME Inv, Panic, UNCHANGED <<pipeline, wanted, calls>>, changes' \in 0 .. MaxChanges
    PROVE  Inv'
<1>1. UNCHANGED <<peers, left, values, votes, pending, pipeline, wanted, calls>> /\ panicked' \in BOOLEAN
    BY DEF Panic
<1>2. TypeOK'
    BY <1>1 DEF Inv, TypeOK
<1>. QED
    BY <1>1, <1>2 DEF Inv, WantedInv, Justified, Single, VotersInv, NothingLeftToAgree,
       ThresholdReached, Backers, VotesAreWanted

\* A member is removed, and the votes are counted again.
LEMMA RemovePeerInv ==
    ASSUME Inv, NEW x \in Peers, RemovePeer(x)
    PROVE  Inv'
<1>1. /\ UNCHANGED <<pipeline, wanted, calls>> /\ changes' \in 0 .. MaxChanges
    BY MetaAssumption DEF RemovePeer, Inv, TypeOK
<1>2. CASE Panic
    BY <1>1, <1>2, StopInv
<1>3. CASE /\ peers' = peers \ {x} /\ left' = left \cup {x}
           /\ RecheckConsensusAfterPeerRemoval(peers \ {x})
  <2> DEFINE S == peers \ {x}
             K == Rechecked(S)
  <2>1. S \in SUBSET Peers /\ K \in SUBSET Keys
    BY DEF Inv, TypeOK, Rechecked
  <2>2. \A k \in K : values[k] = Absent /\ QuorumValue(k, S) \in Values
    BY DEF Rechecked, QuorumValue
  <2>3. \A k \in Keys \ K : values[k] = Absent => \A v \in Values : ~ThresholdReached(votes[k], v, S)
    BY DEF Rechecked
  <2>4. /\ values' = [k \in Keys |-> IF k \in K THEN QuorumValue(k, S) ELSE values[k]]
        /\ votes' = [k \in Keys |-> [p \in Peers |->
                        IF k \in K /\ p \in S THEN Absent ELSE votes[k][p]]]
        /\ pending' = [p \in Peers |-> [k \in Keys |->
                        IF k \in K THEN Absent ELSE pending[p][k]]]
        /\ UNCHANGED panicked /\ peers' = S
    BY <1>3 DEF RecheckConsensusAfterPeerRemoval, AgreeOn
  <2>. HIDE DEF S, K
  <2>5. Tame({})
    BY <2>2, <2>4, TableTypes DEF Tame, Inv
  <2>6. TypeOK'
    <3>1. peers' \in SUBSET Peers /\ left' \in SUBSET Peers
      BY <1>3, <2>1, <2>4 DEF Inv, TypeOK
    <3>. QED
      BY <1>1, <2>4, <2>5, <3>1 DEF Tame, Inv, TypeOK
  <2>7. VotersInv'
    <3>1. peers' \cup left' = peers \cup left \cup {x}
      BY <1>3
    <3>. QED
      BY <2>5, <3>1 DEF Inv, VotersInv, Tame
  <2>8. VotesAreWanted'
    <3>. SUFFICES ASSUME NEW k \in Keys, Single(k), NEW p \in Peers, votes'[k][p] # Absent
                  PROVE  votes'[k][p] \in wanted[p][k]
      BY <1>1 DEF VotesAreWanted, Single
    <3>. QED
      BY <2>5 DEF Tame, Inv, VotesAreWanted, Single
  <2>9. WantedInv'
    <3>1. \A q, j, c : Justified(q, j, c) => Justified(q, j, c)'
      BY <1>1 DEF Justified, Single
    <3>. QED
      BY <1>1, <2>5, <3>1 DEF Inv, WantedInv, Tame
  <2>10. NothingLeftToAgree'
    <3>. SUFFICES ASSUME NEW k \in Keys, NEW v \in Values, values'[k] = Absent
                  PROVE  ~ThresholdReached(votes'[k], v, S)
      BY <2>4 DEF NothingLeftToAgree, ThresholdReached, Backers
    <3>1. k \notin K /\ values[k] = Absent
      BY <2>2, <2>4, MetaAssumption
    <3>2. \A p \in Peers : votes'[k][p] = votes[k][p]
      BY <2>4, <3>1
    <3>3. Backers(votes'[k], v, S) = Backers(votes[k], v, S)
      BY <2>1, <3>2 DEF Backers
    <3>. QED
      BY <2>3, <3>1, <3>3 DEF ThresholdReached
  <2>. QED
    BY <2>6, <2>7, <2>8, <2>9, <2>10 DEF Inv
<1>. QED
    BY <1>2, <1>3 DEF RemovePeer

\* A member is added; if it never was one, it has no votes.
LEMMA AddPeerInv ==
    ASSUME Inv, NEW x \in Peers, AddPeer(x)
    PROVE  Inv'
<1>1. /\ UNCHANGED <<left, values, votes, pending, pipeline, panicked, wanted, calls>>
      /\ changes' \in 0 .. MaxChanges /\ peers' = peers \cup {x} /\ x \notin peers
    BY MetaAssumption DEF AddPeer, Inv, TypeOK
<1>2. TypeOK'
    BY <1>1 DEF Inv, TypeOK
<1>3. WantedInv' /\ VotersInv' /\ VotesAreWanted'
    BY <1>1 DEF Inv, WantedInv, Justified, Single, VotersInv, VotesAreWanted
<1>4. NothingLeftToAgree'
  <2>. SUFFICES ASSUME left \cap (peers \cup {x}) = {}, NEW k \in Keys, NEW v \in Values,
                       values[k] = Absent, ThresholdReached(votes[k], v, peers \cup {x})
                PROVE  FALSE
    BY <1>1 DEF NothingLeftToAgree, ThresholdReached, Backers
  <2>1. votes[k][x] = Absent
    BY <1>1 DEF Inv, VotersInv
  <2>2. v # Absent
    BY MetaAssumption
  <2>3. Backers(votes[k], v, peers \cup {x}) \subseteq Backers(votes[k], v, peers)
    BY <2>1, <2>2 DEF Backers
  <2>4. peers \in SUBSET Peers /\ peers \cup {x} \in SUBSET Peers
    BY DEF Inv, TypeOK
  <2>5. Threshold(Cardinality(peers)) <= Threshold(Cardinality(peers \cup {x}))
    <3>1. IsFiniteSet(peers) /\ Cardinality(peers) \in Nat
      BY <2>4, MembersFinite
    <3>2. Cardinality(peers \cup {x}) = Cardinality(peers) + 1
      BY <1>1, <3>1, FS_AddElement
    <3>. QED
      BY <3>1, <3>2, ThresholdFacts
  <2>6. ThresholdReached(votes[k], v, peers)
    BY <2>3, <2>4, <2>5, FewerBackers
  <2>. QED
    BY <2>6 DEF Inv, NothingLeftToAgree
<1>. QED
    BY <1>2, <1>3, <1>4 DEF Inv

\* The inductive invariant holds throughout.
LEMMA Invariance == Spec => []Inv
<1>1. Inv /\ [Next]_vars => Inv'
  <2>. SUFFICES ASSUME Inv, [Next]_vars PROVE Inv'
    OBVIOUS
  <2>1. CASE UNCHANGED vars
    BY <2>1 DEF vars, Inv, TypeOK, WantedInv, Justified, Single, VotersInv, NothingLeftToAgree,
       ThresholdReached, Backers, VotesAreWanted
  <2>2. CASE Next
    BY <2>2, ProposeKeyValueInv, ProposeInv, ProcessInv, RemovePeerInv, AddPeerInv DEF Next
  <2>. QED
    BY <2>1, <2>2
<1>. QED
    BY InitInv, <1>1, PTL DEF Spec

\* However votes, removals and additions are interleaved, no key is left without
\* a value that a quorum of the members backs, until a former member returns.
THEOREM QuorumsAreNoticed == Spec => []NothingLeftToAgree
    BY Invariance, PTL DEF Inv

\* Until an operator changes its mind, nobody's vote is for a value its operator
\* did not propose, whatever the approved vote has become meanwhile.
THEOREM VotesFollowOperators == Spec => []VotesAreWanted
    BY Invariance, PTL DEF Inv

=============================================================================
