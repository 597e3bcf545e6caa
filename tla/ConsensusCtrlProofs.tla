------------------------- MODULE ConsensusCtrlProofs -------------------------
(***************************************************************************)
(* What the votes of a federation can bring about, for any peers, modules  *)
(* and versions and any number of blocks on their way.                     *)
(***************************************************************************)
EXTENDS ConsensusCtrl, FiniteSetTheorems, SequenceTheorems, WellFoundedInduction, TLAPS

-----------------------------------------------------------------------------
(***************************************************************************)
(* The invariant of the tables.                                            *)
(***************************************************************************)
VotesGood(t) ==
    \A p \in Peers :
        /\ t.addVotes[p] # Absent => p \in t.peers /\ t.addVotes[p] \notin t.peers
        /\ t.removeVotes[p] # Absent => p \in t.peers /\ t.removeVotes[p] \in t.peers

\* The module itself is configured; no vote is about a module that is not.
ConfigsGood(t) ==
    /\ t.configs[0] # Absent
    /\ \A p \in Peers, m \in Ids : t.configs[m] = Absent => t.minorVotes[p][m] = Absent

UpgradesGood(t) ==
    \A m \in Ids : t.configs[m] # Absent =>
        \E p \in t.peers : MinorVote(t, p, m) <= t.configs[m].minor

SingletonsGood(t) ==
    \A m, n \in Ids :
        (/\ t.configs[m] # Absent /\ t.configs[n] # Absent
         /\ t.configs[m].kind = t.configs[n].kind
         /\ t.configs[m].kind \in Singletons) => m = n

TablesGood(t) ==
    /\ t \in Tables /\ t.peers # {}
    /\ VotesGood(t) /\ ConfigsGood(t) /\ UpgradesGood(t) /\ SingletonsGood(t)

\* From t to u, configurations are kept or upgraded to what members support.
Upgrades(t, u) ==
    \A m \in Ids : t.configs[m] # Absent =>
        /\ u.configs[m] # Absent
        /\ u.configs[m].kind = t.configs[m].kind
        /\ u.configs[m].major = t.configs[m].major
        /\ \/ u.configs[m].minor = t.configs[m].minor
           \/ /\ u.configs[m].minor > t.configs[m].minor
              /\ \A p \in u.peers : MinorVote(u, p, m) >= u.configs[m].minor

Inv ==
    /\ TypeOK /\ TablesGood(tables)
    /\ \A i \in DOMAIN pipeline : pipeline[i].items # <<>>

-----------------------------------------------------------------------------
(***************************************************************************)
(* Least elements and agreed versions.                                     *)
(***************************************************************************)
\* A nonempty set of naturals has a least element.
LEMMA LeastNatural ==
    ASSUME NEW S \in SUBSET Nat, S # {}
    PROVE  \E x \in S : \A y \in S : x <= y
<1> DEFINE R == {ss \in Nat \X Nat : ss[1] < ss[2]}
<1>1. IsWellFoundedOn(R, Nat)
    BY NatLessThanWellFounded DEF OpToRel
<1>2. \E x \in S : \A y \in S : ~(<<y, x>> \in R)
  <2>. HIDE DEF R
  <2>. QED
    BY <1>1, WFMin
<1>3. PICK x \in S : \A y \in S : ~(<<y, x>> \in R)
    BY <1>2
<1>4. \A y \in S : x <= y
  <2>. TAKE y \in S
  <2>1. y \in Nat /\ x \in Nat /\ ~(y < x)
    BY <1>3
  <2>. QED
    BY <2>1
<1>. QED
    BY <1>4

\* Types of the tables' contents.
LEMMA TableTypes ==
    ASSUME NEW t \in Tables
    PROVE  /\ t.peers \in SUBSET Peers /\ IsFiniteSet(t.peers)
           /\ t.addVotes \in [Peers -> Peers \cup {Absent}]
           /\ t.removeVotes \in [Peers -> Peers \cup {Absent}]
           /\ t.moduleVotes \in [Peers -> Version \cup {Absent}]
           /\ t.minorVotes \in [Peers -> [Ids -> Minors \cup {Absent}]]
           /\ t.configs \in [Ids -> Version \cup {Absent}]
           /\ \A p \in Peers, m \in Ids : MinorVote(t, p, m) \in Minors
<1>1. /\ t.peers \in SUBSET Peers
      /\ t.addVotes \in [Peers -> Peers \cup {Absent}]
      /\ t.removeVotes \in [Peers -> Peers \cup {Absent}]
      /\ t.moduleVotes \in [Peers -> Version \cup {Absent}]
      /\ t.minorVotes \in [Peers -> [Ids -> Minors \cup {Absent}]]
      /\ t.configs \in [Ids -> Version \cup {Absent}]
    BY DEF Tables
<1>2. IsFiniteSet(t.peers)
    BY <1>1, FS_Subset, CtrlAssumption
<1>3. 0 \in Minors
    BY CtrlAssumption DEF Minors
<1>4. \A p \in Peers, m \in Ids : MinorVote(t, p, m) \in Minors
    BY <1>1, <1>3 DEF MinorVote
<1>. QED
    BY <1>1, <1>2, <1>4

\* The fields of a version, and numbers.
LEMMA VersionTypes ==
    /\ \A x \in Version : x # Absent /\ x.kind \in Kinds /\ x.major \in Majors /\ x.minor \in Minors
    /\ \A x \in Version, n \in Minors :
          /\ [x EXCEPT !.minor = n] \in Version /\ [x EXCEPT !.minor = n].kind = x.kind
          /\ [x EXCEPT !.minor = n].major = x.major /\ [x EXCEPT !.minor = n].minor = n
    /\ \A n \in Minors : n \in Nat
    /\ Absent \notin Peers /\ Absent \notin Minors
    /\ 0 \in Ids /\ \A m \in Ids : m \in Nat
<1>1. \A x \in Version : x # Absent /\ x.kind \in Kinds /\ x.major \in Majors /\ x.minor \in Minors
    BY CtrlAssumption DEF Version
<1>2. \A x \in Version, n \in Minors :
          /\ [x EXCEPT !.minor = n] \in Version /\ [x EXCEPT !.minor = n].kind = x.kind
          /\ [x EXCEPT !.minor = n].major = x.major /\ [x EXCEPT !.minor = n].minor = n
    BY DEF Version
<1>3. \A n \in Minors : n \in Nat
    BY CtrlAssumption DEF Minors
<1>4. 0 \in Ids /\ \A m \in Ids : m \in Nat
    BY CtrlAssumption DEF Ids
<1>. QED
    BY <1>1, <1>2, <1>3, <1>4, CtrlAssumption

\* The agreed version is one that all members vote for or above, and some
\* member for no more.
LEMMA AgreedMinorIsLeast ==
    ASSUME NEW t \in Tables, NEW m \in Ids, t.peers # {}
    PROVE  /\ AgreedMinor(t, m, t.peers) \in Minors
           /\ \E p \in t.peers : MinorVote(t, p, m) = AgreedMinor(t, m, t.peers)
           /\ \A p \in t.peers : MinorVote(t, p, m) >= AgreedMinor(t, m, t.peers)
<1> DEFINE S == {MinorVote(t, p, m) : p \in t.peers}
<1>1. \A p \in t.peers : MinorVote(t, p, m) \in Minors
    BY TableTypes
<1>2. S \in SUBSET Nat /\ S # {}
    BY <1>1, VersionTypes
<1>3. PICK x \in S : \A y \in S : x <= y
  <2>. HIDE DEF S
  <2>. QED
    BY <1>2, LeastNatural
<1>4. x \in Minors /\ (\E p \in t.peers : MinorVote(t, p, m) = x)
      /\ (\A p \in t.peers : MinorVote(t, p, m) >= x)
  <2>1. \A p \in t.peers : x <= MinorVote(t, p, m) /\ MinorVote(t, p, m) \in Nat /\ x \in Nat
    BY <1>1, <1>2, <1>3, VersionTypes
  <2>. QED
    BY <1>1, <1>3, <2>1
<1>5. \E v \in Minors : /\ \E p \in t.peers : MinorVote(t, p, m) = v
                        /\ \A p \in t.peers : MinorVote(t, p, m) >= v
    BY <1>4
<1>. QED
    BY <1>5, Zenon DEF AgreedMinor

\* check_module_version_upgrades leaves no upgrade undone, upgrades to what all
\* members support, and changes nothing else.
LEMMA UpgradesChecked ==
    ASSUME NEW t \in Tables, t.peers # {}, ConfigsGood(t), SingletonsGood(t), VotesGood(t)
    PROVE  /\ TablesGood(CheckModuleVersionUpgrades(t))
           /\ Upgrades(t, CheckModuleVersionUpgrades(t))
           /\ CheckModuleVersionUpgrades(t).peers = t.peers
<1> DEFINE a(m) == AgreedMinor(t, m, t.peers)
           c == [m \in Ids |-> IF t.configs[m] # Absent /\ t.peers # {} /\ a(m) > t.configs[m].minor
                               THEN [t.configs[m] EXCEPT !.minor = a(m)]
                               ELSE t.configs[m]]
           u == CheckModuleVersionUpgrades(t)
<1>1. u = [t EXCEPT !.configs = c]
    BY DEF CheckModuleVersionUpgrades
<1>2. ASSUME NEW m \in Ids
      PROVE  /\ c[m] \in Version \cup {Absent}
             /\ c[m] = Absent <=> t.configs[m] = Absent
             /\ t.configs[m] # Absent =>
                   /\ c[m].kind = t.configs[m].kind /\ c[m].major = t.configs[m].major
                   /\ \/ c[m].minor = t.configs[m].minor
                      \/ /\ c[m].minor > t.configs[m].minor
                         /\ \A p \in t.peers : MinorVote(t, p, m) >= c[m].minor
                   /\ \E p \in t.peers : MinorVote(t, p, m) <= c[m].minor
  <2>1. /\ a(m) \in Minors /\ a(m) \in Nat
        /\ \E p \in t.peers : MinorVote(t, p, m) = a(m)
        /\ \A p \in t.peers : MinorVote(t, p, m) >= a(m)
    BY AgreedMinorIsLeast, VersionTypes
  <2>2. t.configs[m] \in Version \cup {Absent}
    BY TableTypes
  <2>. HIDE DEF a
  <2>3. CASE t.configs[m] = Absent
    BY <2>2, <2>3
  <2>4. CASE t.configs[m] # Absent
    <3>1. t.configs[m] \in Version /\ t.configs[m].minor \in Nat
        BY <2>2, <2>4, VersionTypes
    <3>2. CASE a(m) > t.configs[m].minor
      <4>1. c[m] = [t.configs[m] EXCEPT !.minor = a(m)]
        BY <2>4, <3>2
      <4>. HIDE DEF c
      <4>2. /\ c[m] \in Version /\ c[m].kind = t.configs[m].kind
            /\ c[m].major = t.configs[m].major /\ c[m].minor = a(m) /\ c[m] # Absent
        BY <2>1, <3>1, <4>1, VersionTypes
      <4>3. \A p \in t.peers : MinorVote(t, p, m) >= c[m].minor
        BY <2>1, <4>2
      <4>4. \E p \in t.peers : MinorVote(t, p, m) <= c[m].minor
        BY <2>1, <4>2
      <4>5. c[m].minor > t.configs[m].minor
        BY <3>2, <4>2
      <4>. QED
        BY <2>4, <4>2, <4>3, <4>4, <4>5
    <3>3. CASE ~(a(m) > t.configs[m].minor)
      <4>1. c[m] = t.configs[m]
        BY <3>3
      <4>2. a(m) <= t.configs[m].minor
        BY <2>1, <3>1, <3>3
      <4>. HIDE DEF c
      <4>. QED
        BY <2>1, <2>2, <2>4, <4>1, <4>2
    <3>. QED
        BY <3>2, <3>3
  <2>. QED
    BY <2>3, <2>4
<1>3. c \in [Ids -> Version \cup {Absent}]
  <2>1. c = [m \in Ids |-> c[m]]
    OBVIOUS
  <2>. HIDE DEF c
  <2>. QED
    BY <1>2, <2>1
<1>. HIDE DEF c, u
<1>4. /\ u \in Tables /\ u.peers = t.peers /\ u.configs = c /\ u.minorVotes = t.minorVotes
      /\ u.addVotes = t.addVotes /\ u.removeVotes = t.removeVotes
    BY <1>1, <1>3 DEF Tables
<1>5. \A p, m : MinorVote(u, p, m) = MinorVote(t, p, m)
    BY <1>4 DEF MinorVote
<1>6. VotesGood(u)
    BY <1>4 DEF VotesGood
<1>7. ConfigsGood(u)
    BY <1>2, <1>4, VersionTypes DEF ConfigsGood
<1>8. UpgradesGood(u)
    BY <1>2, <1>4, <1>5 DEF UpgradesGood
<1>9. SingletonsGood(u)
    BY <1>2, <1>4 DEF SingletonsGood
<1>10. Upgrades(t, u)
    BY <1>2, <1>4, <1>5 DEF Upgrades
<1>. QED
    BY <1>4, <1>6, <1>7, <1>8, <1>9, <1>10 DEF TablesGood, u

-----------------------------------------------------------------------------
(***************************************************************************)
(* Votes.                                                                  *)
(***************************************************************************)
\* Tables that change in the votes on members only.
LEMMA SameConfigs ==
    ASSUME NEW t, NEW u, TablesGood(t), u \in Tables, t.peers \subseteq u.peers,
           u.configs = t.configs, u.minorVotes = t.minorVotes, VotesGood(u)
    PROVE  TablesGood(u) /\ Upgrades(t, u)
<1>1. \A p, m : MinorVote(u, p, m) = MinorVote(t, p, m)
    BY DEF MinorVote
<1>2. UpgradesGood(u)
    BY <1>1 DEF TablesGood, UpgradesGood
<1>3. ConfigsGood(u) /\ SingletonsGood(u) /\ u.peers # {}
    BY DEF TablesGood, ConfigsGood, SingletonsGood
<1>4. Upgrades(t, u)
    BY DEF Upgrades
<1>. QED
    BY <1>2, <1>3, <1>4 DEF TablesGood

\* process_citem_vote_add_peer
LEMMA VoteAddPeerGood ==
    ASSUME NEW t, TablesGood(t), NEW v \in Peers, NEW x \in Peers, v \in t.peers, x \notin t.peers
    PROVE  TablesGood(VoteAddPeer(t, v, x)) /\ Upgrades(t, VoteAddPeer(t, v, x))
<1>1. t \in Tables /\ VotesGood(t)
    BY DEF TablesGood
<1>2. /\ t.peers \in SUBSET Peers /\ t.addVotes \in [Peers -> Peers \cup {Absent}]
      /\ t.removeVotes \in [Peers -> Peers \cup {Absent}]
    BY <1>1, TableTypes
<1> DEFINE av == [t.addVotes EXCEPT ![v] = x]
           rec == [t EXCEPT !.addVotes = av]
           kept == [p \in Peers |-> IF av[p] = x THEN Absent ELSE av[p]]
           u == VoteAddPeer(t, v, x)
<1>3. av \in [Peers -> Peers \cup {Absent}] /\ kept \in [Peers -> Peers \cup {Absent}]
    BY <1>2
<1>4. \A p \in Peers : /\ av[p] # Absent => p \in t.peers /\ av[p] \notin t.peers
                       /\ kept[p] # Absent => p \in t.peers /\ kept[p] \notin t.peers /\ kept[p] # x
    BY <1>1, <1>2 DEF VotesGood
<1>5. u = rec \/ u = [rec EXCEPT !.addVotes = kept, !.peers = t.peers \cup {x}]
    BY <1>1 DEF VoteAddPeer, Tables
<1>. HIDE DEF av, kept, u
<1>6. CASE u = rec
  <2>1. /\ u \in Tables /\ u.peers = t.peers /\ u.configs = t.configs /\ u.minorVotes = t.minorVotes
        /\ u.addVotes = av /\ u.removeVotes = t.removeVotes
    BY <1>1, <1>3, <1>6 DEF Tables
  <2>2. VotesGood(u)
    BY <1>1, <1>4, <2>1 DEF VotesGood
  <2>. QED
    BY <2>1, <2>2, SameConfigs DEF u
<1>7. CASE u = [rec EXCEPT !.addVotes = kept, !.peers = t.peers \cup {x}]
  <2>1. /\ u \in Tables /\ u.peers = t.peers \cup {x}
        /\ u.configs = t.configs /\ u.minorVotes = t.minorVotes
        /\ u.addVotes = kept /\ u.removeVotes = t.removeVotes
    BY <1>1, <1>2, <1>3, <1>7 DEF Tables
  <2>2. VotesGood(u)
    BY <1>1, <1>4, <2>1 DEF VotesGood
  <2>. QED
    BY <2>1, <2>2, SameConfigs DEF u
<1>. QED
    BY <1>5, <1>6, <1>7

\* process_citem_vote_remove_peer
LEMMA VoteRemovePeerGood ==
    ASSUME NEW t, TablesGood(t), NEW v \in Peers, NEW x \in Peers, v \in t.peers, x \in t.peers,
           Cardinality(t.peers) # 1
    PROVE  TablesGood(VoteRemovePeer(t, v, x)) /\ Upgrades(t, VoteRemovePeer(t, v, x))
<1>1. t \in Tables /\ VotesGood(t)
    BY DEF TablesGood
<1>2. /\ t.peers \in SUBSET Peers /\ t.addVotes \in [Peers -> Peers \cup {Absent}]
      /\ t.removeVotes \in [Peers -> Peers \cup {Absent}]
    BY <1>1, TableTypes
<1> DEFINE rv == [t.removeVotes EXCEPT ![v] = x]
           rec == [t EXCEPT !.removeVotes = rv]
           left == t.peers \ {x}
           keptR == [p \in Peers |-> IF p \in left /\ rv[p] # x THEN rv[p] ELSE Absent]
           keptA == [p \in Peers |-> IF p \in left THEN t.addVotes[p] ELSE Absent]
           w == [rec EXCEPT !.peers = left, !.removeVotes = keptR, !.addVotes = keptA]
           u == VoteRemovePeer(t, v, x)
<1>3. /\ rv \in [Peers -> Peers \cup {Absent}]
      /\ keptR \in [Peers -> Peers \cup {Absent}] /\ keptA \in [Peers -> Peers \cup {Absent}]
    BY <1>2
<1>4. \A p \in Peers : /\ rv[p] # Absent => p \in t.peers /\ rv[p] \in t.peers
                       /\ keptR[p] # Absent => p \in left /\ keptR[p] \in left
                       /\ keptA[p] # Absent => p \in left /\ keptA[p] \notin left
    BY <1>1, <1>2 DEF VotesGood
<1>5. u = t \/ u = rec \/ u = CheckModuleVersionUpgrades(w)
    BY <1>1 DEF VoteRemovePeer, Tables
<1>6. left # {}
  <2>1. CASE left = {}
    <3>1. t.peers = {x}
        BY <2>1
    <3>. QED
        BY <3>1, FS_Singleton
  <2>. QED
    BY <2>1
<1>. HIDE DEF rv, keptR, keptA, u
<1>7. CASE u = t
    BY <1>1, <1>7, SameConfigs DEF u
<1>8. CASE u = rec
  <2>1. /\ u \in Tables /\ u.peers = t.peers /\ u.configs = t.configs /\ u.minorVotes = t.minorVotes
        /\ u.addVotes = t.addVotes /\ u.removeVotes = rv
    BY <1>1, <1>3, <1>8 DEF Tables
  <2>2. VotesGood(u)
    BY <1>1, <1>4, <2>1 DEF VotesGood
  <2>. QED
    BY <2>1, <2>2, SameConfigs DEF u
<1>9. CASE u = CheckModuleVersionUpgrades(w)
  <2>1. /\ w \in Tables /\ w.peers = left /\ w.configs = t.configs /\ w.minorVotes = t.minorVotes
        /\ w.addVotes = keptA /\ w.removeVotes = keptR
    BY <1>1, <1>2, <1>3 DEF Tables
  <2>. HIDE DEF left, w
  <2>2. VotesGood(w)
    BY <1>4, <2>1 DEF VotesGood
  <2>3. ConfigsGood(w) /\ SingletonsGood(w)
    BY <2>1 DEF TablesGood, ConfigsGood, SingletonsGood
  <2>4. TablesGood(u) /\ Upgrades(w, u)
    BY <1>6, <1>9, <2>1, <2>2, <2>3, UpgradesChecked
  <2>5. Upgrades(t, u)
    BY <2>1, <2>4 DEF Upgrades
  <2>. QED
    BY <2>4, <2>5 DEF u
<1>. QED
    BY <1>5, <1>7, <1>8, <1>9

\* process_citem_vote_module_version
LEMMA VoteModuleVersionGood ==
    ASSUME NEW t, TablesGood(t), NEW v \in Peers, NEW m \in Ids, NEW n \in Minors, t.configs[m] # Absent
    PROVE  TablesGood(VoteModuleVersion(t, v, m, n)) /\ Upgrades(t, VoteModuleVersion(t, v, m, n))
<1>1. t \in Tables /\ VotesGood(t) /\ t.minorVotes \in [Peers -> [Ids -> Minors \cup {Absent}]]
    BY TableTypes DEF TablesGood
<1> DEFINE mv == [t.minorVotes EXCEPT ![v][m] = n]
           w == [t EXCEPT !.minorVotes = mv]
           u == VoteModuleVersion(t, v, m, n)
<1>2. mv \in [Peers -> [Ids -> Minors \cup {Absent}]]
      /\ \A p \in Peers, k \in Ids : k # m => mv[p][k] = t.minorVotes[p][k]
    BY <1>1
<1>3. u = CheckModuleVersionUpgrades(w)
    BY <1>1 DEF VoteModuleVersion, Tables
<1>. HIDE DEF mv, u
<1>4. /\ w \in Tables /\ w.peers = t.peers /\ w.configs = t.configs /\ w.minorVotes = mv
      /\ w.addVotes = t.addVotes /\ w.removeVotes = t.removeVotes
    BY <1>1, <1>2 DEF Tables
<1>. HIDE DEF w
<1>5. VotesGood(w) /\ SingletonsGood(w) /\ w.peers # {}
    BY <1>4 DEF TablesGood, VotesGood, SingletonsGood
<1>6. ConfigsGood(w)
    BY <1>2, <1>4 DEF TablesGood, ConfigsGood
<1>7. TablesGood(u) /\ Upgrades(w, u)
    BY <1>3, <1>4, <1>5, <1>6, UpgradesChecked
<1>8. Upgrades(t, u)
    BY <1>4, <1>7 DEF Upgrades
<1>. QED
    BY <1>7, <1>8 DEF u

\* process_citem_vote_add_module
LEMMA VoteAddModuleGood ==
    ASSUME NEW t, TablesGood(t), NEW v \in Peers, NEW x \in Version, v \in t.peers,
           ~(x.kind \in Singletons /\ Configured(t, x.kind)),
           \E m \in Ids : t.configs[m] = Absent
    PROVE  TablesGood(VoteAddModule(t, v, x)) /\ Upgrades(t, VoteAddModule(t, v, x))
<1>1. /\ t \in Tables /\ VotesGood(t) /\ ConfigsGood(t) /\ UpgradesGood(t) /\ SingletonsGood(t)
      /\ t.peers \in SUBSET Peers /\ t.peers # {}
      /\ t.moduleVotes \in [Peers -> Version \cup {Absent}]
      /\ t.configs \in [Ids -> Version \cup {Absent}]
    BY TableTypes DEF TablesGood
<1> DEFINE mv == [t.moduleVotes EXCEPT ![v] = x]
           rec == [t EXCEPT !.moduleVotes = mv]
           least == CHOOSE m \in Minors : /\ \E p \in t.peers : mv[p].minor = m
                                          /\ \A p \in t.peers : mv[p].minor >= m
           free == CHOOSE m \in Ids : /\ t.configs[m] = Absent /\ m > 0
                                      /\ \A k \in 1 .. m - 1 : t.configs[k] # Absent
           kept == [p \in Peers |-> IF mv[p] # Absent /\ mv[p].kind = x.kind THEN Absent ELSE mv[p]]
           new == [x EXCEPT !.minor = least]
           c == [t.configs EXCEPT ![free] = new]
           u == VoteAddModule(t, v, x)
<1>2. mv \in [Peers -> Version \cup {Absent}] /\ kept \in [Peers -> Version \cup {Absent}]
    BY <1>1
<1>3. rec.moduleVotes = mv
    BY <1>1 DEF Tables
<1>4. u = rec \/ (Matching(rec, x, t.peers) = t.peers /\ u = [rec EXCEPT !.moduleVotes = kept, !.configs = c])
    BY <1>1, <1>3 DEF VoteAddModule, Tables
<1>. HIDE DEF mv, kept, least, free, u
<1>5. CASE u = rec
  <2>1. /\ u \in Tables /\ u.peers = t.peers /\ u.configs = t.configs /\ u.minorVotes = t.minorVotes
        /\ u.addVotes = t.addVotes /\ u.removeVotes = t.removeVotes
    BY <1>1, <1>2, <1>5 DEF Tables
  <2>2. VotesGood(u)
    BY <1>1, <2>1 DEF VotesGood
  <2>. QED
    BY <2>1, <2>2, SameConfigs DEF u
<1>6. CASE Matching(rec, x, t.peers) = t.peers /\ u = [rec EXCEPT !.moduleVotes = kept, !.configs = c]
  <2>1. \A p \in t.peers : mv[p] \in Version /\ mv[p].minor \in Minors /\ mv[p].minor \in Nat
    BY <1>1, <1>2, <1>3, <1>6, VersionTypes DEF Matching
  <2>2. least \in Minors
    <3> DEFINE S == {mv[p].minor : p \in t.peers}
    <3>1. S \in SUBSET Nat /\ S # {}
        BY <1>1, <2>1
    <3>2. PICK z \in S : \A y \in S : z <= y
      <4>. HIDE DEF S
      <4>. QED
        BY <3>1, LeastNatural
    <3>3. z \in Minors /\ (\E p \in t.peers : mv[p].minor = z) /\ (\A p \in t.peers : mv[p].minor >= z)
        BY <2>1, <3>2
    <3>. HIDE DEF S
    <3>. QED
        BY <3>3, Zenon DEF least
  <2>3. free \in Ids /\ t.configs[free] = Absent /\ free # 0
    <3> DEFINE F == {m \in Ids : t.configs[m] = Absent}
    <3>1. F \in SUBSET Nat /\ F # {}
        BY VersionTypes
    <3>2. PICK z \in F : \A y \in F : z <= y
      <4>. HIDE DEF F
      <4>. QED
        BY <3>1, LeastNatural
    <3>3. z \in Ids /\ t.configs[z] = Absent /\ z \in Nat /\ z # 0
        BY <1>1, <3>2, VersionTypes DEF ConfigsGood
    <3>4. z > 0
        BY <3>3
    <3>5. \A k \in 1 .. z - 1 : t.configs[k] # Absent
      <4>. TAKE k \in 1 .. z - 1
      <4>1. k \in Ids /\ k < z
        BY <3>3, CtrlAssumption DEF Ids
      <4>2. k \notin F
        BY <3>2, <3>3, <4>1, VersionTypes
      <4>. QED
        BY <4>1, <4>2
    <3>. HIDE DEF F
    <3>6. free \in Ids /\ t.configs[free] = Absent /\ free > 0
        BY <3>3, <3>4, <3>5, Zenon DEF free
    <3>. QED
        BY <3>6, VersionTypes
  <2>4. new \in Version /\ new.kind = x.kind /\ new.minor = least /\ new # Absent
    BY <2>2, VersionTypes
  <2>. HIDE DEF new
  <2>5. /\ c \in [Ids -> Version \cup {Absent}] /\ c[free] = new
        /\ \A m \in Ids : m # free => c[m] = t.configs[m]
    BY <1>1, <2>3, <2>4
  <2>. HIDE DEF c
  <2>6. /\ u \in Tables /\ u.peers = t.peers /\ u.configs = c /\ u.minorVotes = t.minorVotes
        /\ u.addVotes = t.addVotes /\ u.removeVotes = t.removeVotes
    BY <1>1, <1>2, <1>6, <2>5 DEF Tables
  <2>7. \A p, m : MinorVote(u, p, m) = MinorVote(t, p, m)
    BY <2>6 DEF MinorVote
  <2>8. VotesGood(u)
    BY <1>1, <2>6 DEF VotesGood
  <2>9. ConfigsGood(u)
    BY <1>1, <2>3, <2>4, <2>5, <2>6, VersionTypes DEF ConfigsGood
  <2>10. UpgradesGood(u)
    <3>1. \E p \in t.peers : MinorVote(t, p, free) <= c[free].minor
      <4>1. PICK p \in t.peers : p \in Peers
        BY <1>1
      <4>2. MinorVote(t, p, free) = 0
        BY <1>1, <2>3, <4>1 DEF ConfigsGood, MinorVote
      <4>3. c[free].minor \in Nat
        BY <2>2, <2>4, <2>5, VersionTypes
      <4>. QED
        BY <4>1, <4>2, <4>3
    <3>2. \A m \in Ids : m # free /\ c[m] # Absent => \E p \in t.peers : MinorVote(t, p, m) <= c[m].minor
        BY <1>1, <2>5 DEF UpgradesGood
    <3>. QED
        BY <3>1, <3>2, <2>6, <2>7 DEF UpgradesGood
  <2>11. SingletonsGood(u)
    <3>1. \A m \in Ids : (x.kind \in Singletons /\ t.configs[m] # Absent) => t.configs[m].kind # x.kind
        BY DEF Configured
    <3>. QED
        BY <1>1, <2>4, <2>5, <2>6, <3>1 DEF SingletonsGood
  <2>12. Upgrades(t, u)
    BY <2>3, <2>5, <2>6 DEF Upgrades
  <2>. QED
    BY <1>1, <2>6, <2>8, <2>9, <2>10, <2>11, <2>12 DEF TablesGood, u
<1>. QED
    BY <1>4, <1>5, <1>6

\* An item that is not refused leaves good tables behind, and its proposer's
\* pending votes well formed.
LEMMA ProcessedGood ==
    ASSUME NEW t, TablesGood(t), NEW v \in Peers, NEW c \in CItem, ~Refuses(t, v, c)
    PROVE  TablesGood(Processed(t, v, c)) /\ Upgrades(t, Processed(t, v, c))
<1>1. v \in t.peers
    BY DEF Refuses
<1>2. CASE c \in [op : {"add", "remove"}, peer : Peers] /\ c.op = "add"
  <2>1. c.peer \in Peers /\ c.peer \notin t.peers /\ Processed(t, v, c) = VoteAddPeer(t, v, c.peer)
    BY <1>2 DEF Refuses, Processed
  <2>. QED
    BY <1>1, <2>1, VoteAddPeerGood
<1>3. CASE c \in [op : {"add", "remove"}, peer : Peers] /\ c.op = "remove"
  <2>1. /\ c.peer \in Peers /\ c.peer \in t.peers /\ Cardinality(t.peers) # 1
        /\ Processed(t, v, c) = VoteRemovePeer(t, v, c.peer)
    BY <1>3 DEF Refuses, Processed
  <2>. QED
    BY <1>1, <2>1, VoteRemovePeerGood
<1>4. CASE c \in [op : {"module"}, version : Version]
  <2>1. /\ c.op = "module" /\ c.version \in Version
        /\ Processed(t, v, c) = VoteAddModule(t, v, c.version)
    BY <1>4 DEF Processed
  <2>2. /\ ~(c.version.kind \in Singletons /\ Configured(t, c.version.kind))
        /\ \E m \in Ids : t.configs[m] = Absent
    BY <2>1 DEF Refuses
  <2>. QED
    BY <1>1, <2>1, <2>2, VoteAddModuleGood
<1>5. CASE c \in [op : {"version"}, id : Ids, minor : Minors]
  <2>1. /\ c.op = "version" /\ c.id \in Ids /\ c.minor \in Minors /\ t.configs[c.id] # Absent
        /\ Processed(t, v, c) = VoteModuleVersion(t, v, c.id, c.minor)
    BY <1>5 DEF Refuses, Processed
  <2>. QED
    BY <2>1, VoteModuleVersionGood
<1>. QED
    BY <1>2, <1>3, <1>4, <1>5 DEF CItem, Request

LEMMA SettledType ==
    ASSUME NEW t, NEW pend \in PendingVotes, NEW v, NEW c \in CItem
    PROVE  Settled(t, pend, v, c) \in PendingVotes
<1>1. CASE c \in [op : {"add", "remove"}, peer : Peers] /\ c.op = "add"
    BY <1>1 DEF Settled, PendingVotes
<1>2. CASE c \in [op : {"add", "remove"}, peer : Peers] /\ c.op = "remove"
  <2>1. Settled(t, pend, v, c) \in {pend, [pend EXCEPT !.remove = Absent]}
    BY <1>2 DEF Settled
  <2>. QED
    BY <2>1 DEF PendingVotes
<1>3. CASE c \in [op : {"module"}, version : Version]
    BY <1>3 DEF Settled, PendingVotes
<1>4. CASE c \in [op : {"version"}, id : Ids, minor : Minors]
  <2>1. c.op = "version" /\ c.id \in Ids
    BY <1>4
  <2>2. Settled(t, pend, v, c) = [pend EXCEPT !.minors = [pend.minors EXCEPT ![c.id] = Absent]]
    BY <2>1 DEF Settled, PendingVotes
  <2>3. [pend.minors EXCEPT ![c.id] = Absent] \in [Ids -> Minors \cup {Absent}]
    BY DEF PendingVotes
  <2>. QED
    BY <2>2, <2>3 DEF PendingVotes
<1>. QED
    BY <1>1, <1>2, <1>3, <1>4 DEF CItem, Request

-----------------------------------------------------------------------------
(***************************************************************************)
(* Proposals.                                                              *)
(***************************************************************************)
LEMMA ProposalsType ==
    ASSUME NEW t, NEW pend \in PendingVotes, NEW p, NEW items \in Proposals(t, pend, p)
    PROVE  items \in Seq(CItem)
<1>1. /\ pend.add \in Peers \cup {Absent} /\ pend.remove \in Peers \cup {Absent}
      /\ pend.module \in Version \cup {Absent} /\ pend.minors \in [Ids -> Minors \cup {Absent}]
    BY DEF PendingVotes
<1>2. \A cond, item : (cond => item \in CItem) => When(cond, item) \in Seq(CItem)
  <2>. SUFFICES ASSUME NEW cond, NEW item, cond => item \in CItem
                PROVE  When(cond, item) \in Seq(CItem)
    OBVIOUS
  <2>1. <<>> \in Seq(CItem)
    OBVIOUS
  <2>2. cond => <<item>> \in Seq(CItem)
    OBVIOUS
  <2>. QED
    BY <2>1, <2>2 DEF When
<1>3. VoteProposals(t, pend, p) \in Seq(CItem)
  <2> DEFINE a == When(/\ pend.add # Absent /\ pend.add \notin t.peers
                       /\ t.addVotes[p] # pend.add,
                       [op |-> "add", peer |-> pend.add])
             r == When(/\ pend.remove # Absent /\ pend.remove \in t.peers
                       /\ t.removeVotes[p] # pend.remove,
                       [op |-> "remove", peer |-> pend.remove])
             m == When(/\ pend.module # Absent
                       /\ ~(pend.module.kind \in Singletons /\ Configured(t, pend.module.kind))
                       /\ ModuleVoteDiffers(t, p, pend.module),
                       [op |-> "module", version |-> pend.module])
  <2>1. a \in Seq(CItem)
    <3>1. pend.add # Absent => [op |-> "add", peer |-> pend.add] \in CItem
        BY <1>1 DEF CItem, Request
    <3>. QED
        BY <1>2, <3>1
  <2>2. r \in Seq(CItem)
    <3>1. pend.remove # Absent => [op |-> "remove", peer |-> pend.remove] \in CItem
        BY <1>1 DEF CItem, Request
    <3>. QED
        BY <1>2, <3>1
  <2>3. m \in Seq(CItem)
    <3>1. pend.module # Absent => [op |-> "module", version |-> pend.module] \in CItem
        BY <1>1 DEF CItem, Request
    <3>. QED
        BY <1>2, <3>1
  <2>4. VoteProposals(t, pend, p) = (a \o r) \o m
    BY DEF VoteProposals
  <2>. HIDE DEF a, r, m
  <2>. QED
    BY <2>1, <2>2, <2>3, <2>4
<1>4. VersionProposals(t, pend, p) \subseteq CItem
    BY <1>1 DEF VersionProposals, CItem, Request
<1>5. \A s \in ById(VersionProposals(t, pend, p)) : s \in Seq(CItem)
  <2>. TAKE s \in ById(VersionProposals(t, pend, p))
  <2>1. PICK n \in 0 .. MaxId + 1 : s \in [1 .. n -> VersionProposals(t, pend, p)]
    BY DEF ById
  <2>2. n \in Nat /\ s \in [1 .. n -> CItem]
    BY <1>4, <2>1, CtrlAssumption
  <2>. QED
    BY <2>2, IsASeq
<1>6. PICK s \in ById(VersionProposals(t, pend, p)) : items = VoteProposals(t, pend, p) \o s
    BY DEF Proposals
<1>7. s \in Seq(CItem)
    BY <1>5
<1>. QED
    BY <1>3, <1>6, <1>7, ConcatProperties

-----------------------------------------------------------------------------
(***************************************************************************)
(* The invariant holds, and configurations are only upgraded.              *)
(***************************************************************************)
LEMMA InitInv == Init => Inv
<1>. SUFFICES ASSUME Init PROVE Inv
    OBVIOUS
<1> DEFINE ctrl == [kind |-> CtrlKind, major |-> 0, minor |-> 0]
<1>1. ctrl \in Version /\ 0 \in Minors /\ 0 \in Ids
    BY CtrlAssumption DEF Version, Minors, Ids
<1>2. /\ tables.peers = InitPeers /\ tables.addVotes = NoVotes /\ tables.removeVotes = NoVotes
      /\ tables.minorVotes = [p \in Peers |-> [m \in Ids |-> Absent]]
      /\ tables.configs = [m \in Ids |-> IF m = 0 THEN ctrl ELSE Absent]
    BY DEF Init
<1>3. tables \in Tables
    BY <1>1, CtrlAssumption DEF Init, Tables, NoVotes
<1>4. TypeOK
  <2>1. pending \in [Peers -> PendingVotes]
    BY DEF Init, PendingVotes
  <2>2. pipeline \in Seq([peer : Peers, items : Seq(CItem)])
    BY DEF Init
  <2>3. calls \in 0 .. MaxCalls
    BY CtrlAssumption DEF Init
  <2>4. asked \in [Peers -> Request \cup {Absent}]
    BY DEF Init, NoVotes
  <2>. QED
    BY <1>3, <2>1, <2>2, <2>3, <2>4 DEF TypeOK
<1>5. VotesGood(tables)
    BY <1>2 DEF VotesGood, NoVotes
<1>6. ConfigsGood(tables)
  <2>1. ctrl # Absent
    BY <1>1, VersionTypes
  <2>. QED
    BY <1>1, <1>2, <2>1 DEF ConfigsGood
<1>7. UpgradesGood(tables)
  <2>1. \A p \in Peers, m \in Ids : MinorVote(tables, p, m) = 0
    BY <1>2 DEF MinorVote
  <2>2. \A m \in Ids : tables.configs[m] # Absent => tables.configs[m].minor = 0
    BY <1>2
  <2>3. PICK p \in tables.peers : p \in Peers
    BY <1>2, CtrlAssumption
  <2>. QED
    BY <2>1, <2>2, <2>3 DEF UpgradesGood
<1>8. SingletonsGood(tables)
    BY <1>2 DEF SingletonsGood
<1>9. tables.peers # {} /\ \A i \in DOMAIN pipeline : pipeline[i].items # <<>>
    BY <1>2, CtrlAssumption DEF Init
<1>. QED
    BY <1>3, <1>4, <1>5, <1>6, <1>7, <1>8, <1>9 DEF Inv, TablesGood

\* Nothing happens to the configurations while the tables stay.
LEMMA SameTables == \A t : Upgrades(t, t)
    BY DEF Upgrades

LEMMA ProcessCItemInv ==
    ASSUME Inv, ProcessCItem
    PROVE  Inv' /\ Upgrades(tables, tables')
<1> DEFINE Block == [peer : Peers, items : Seq(CItem)]
           v == pipeline[1].peer
           items == pipeline[1].items
           c == Head(items)
<1>1. /\ TypeOK /\ TablesGood(tables) /\ pipeline \in Seq(Block) /\ pipeline # <<>>
      /\ pending \in [Peers -> PendingVotes] /\ calls' = calls /\ asked' = asked
    BY DEF Inv, TypeOK, ProcessCItem
<1>2. pipeline[1] \in Block /\ 1 \in DOMAIN pipeline /\ 1 \in 1 .. Len(pipeline)
  <2>. HIDE DEF Block
  <2>1. Len(pipeline) \in Nat \ {0} /\ DOMAIN pipeline = 1 .. Len(pipeline)
    BY <1>1, EmptySeq, LenProperties
  <2>. QED
    BY <1>1, <2>1, ElementOfSeq
<1>3. v \in Peers /\ items \in Seq(CItem) /\ items # <<>>
    BY <1>2 DEF Inv
<1>4. c \in CItem
  <2>. HIDE DEF items
  <2>. QED
    BY <1>3, HeadTailProperties
<1>5. TablesGood(tables') /\ Upgrades(tables, tables') /\ pending' \in [Peers -> PendingVotes]
  <2>1. CASE Refuses(tables, v, c)
    <3>1. tables' = tables /\ pending' = pending
        BY <2>1 DEF ProcessCItem
    <3>. QED
        BY <1>1, <3>1, SameTables
  <2>2. CASE ~Refuses(tables, v, c)
    <3>1. tables' = Processed(tables, v, c) /\ pending' = [pending EXCEPT ![v] = Settled(tables, pending[v], v, c)]
        BY <2>2 DEF ProcessCItem
    <3>2. TablesGood(tables') /\ Upgrades(tables, tables')
      <4>. HIDE DEF v, c
      <4>. QED
        BY <1>1, <1>3, <1>4, <2>2, <3>1, ProcessedGood
    <3>3. pending[v] \in PendingVotes
        BY <1>1, <1>3
    <3>4. Settled(tables, pending[v], v, c) \in PendingVotes
      <4>. HIDE DEF v, c
      <4>. QED
        BY <1>4, <3>3, SettledType
    <3>. HIDE DEF v, c
    <3>. QED
        BY <1>1, <1>3, <3>1, <3>2, <3>4
  <2>. QED
    BY <2>1, <2>2
<1>6. pipeline' \in Seq(Block) /\ \A i \in DOMAIN pipeline' : pipeline'[i].items # <<>>
  <2>1. CASE Len(items) = 1
    <3>1. pipeline' = Tail(pipeline)
        BY <2>1 DEF ProcessCItem
    <3>2. Tail(pipeline) \in Seq(Block) /\ \A i \in 1 .. Len(Tail(pipeline)) :
              Tail(pipeline)[i] = pipeline[i + 1] /\ i + 1 \in DOMAIN pipeline
      <4>. HIDE DEF Block
      <4>. QED
        BY <1>1
    <3>3. DOMAIN Tail(pipeline) = 1 .. Len(Tail(pipeline))
        BY <3>2
    <3>. HIDE DEF Block
    <3>. QED
        BY <3>1, <3>2, <3>3 DEF Inv
  <2>2. CASE Len(items) # 1
    <3>1. pipeline' = [pipeline EXCEPT ![1] = [pipeline[1] EXCEPT !.items = Tail(items)]]
        BY <1>1, <1>2, <2>2 DEF ProcessCItem
    <3>2. Tail(items) \in Seq(CItem) /\ Tail(items) # <<>>
      <4>. HIDE DEF items
      <4>1. Tail(items) \in Seq(CItem) /\ Len(Tail(items)) = Len(items) - 1 /\ Len(items) \in Nat
        BY <1>3, HeadTailProperties, LenProperties
      <4>2. Len(items) # 0
        BY <1>3, EmptySeq
      <4>3. Len(Tail(items)) # 0
        BY <2>2, <4>1, <4>2
      <4>. QED
        BY <4>1, <4>3, EmptySeq
    <3>3. /\ [pipeline[1] EXCEPT !.items = Tail(items)] \in Block
          /\ [pipeline[1] EXCEPT !.items = Tail(items)].items = Tail(items)
        BY <1>2, <3>2
    <3>4. pipeline' \in Seq(Block)
      <4>. HIDE DEF Block
      <4>. QED
        BY <1>1, <1>2, <3>1, <3>3, ExceptSeq
    <3>5. \A i \in DOMAIN pipeline' : pipeline'[i].items # <<>>
      <4>1. DOMAIN pipeline' = DOMAIN pipeline
        BY <3>1
      <4>2. \A i \in DOMAIN pipeline : i # 1 => pipeline'[i] = pipeline[i]
        BY <3>1
      <4>3. pipeline'[1].items = Tail(items)
        BY <1>2, <3>1, <3>3
      <4>. QED
        BY <3>2, <4>1, <4>2, <4>3 DEF Inv
    <3>. QED
        BY <3>4, <3>5
  <2>. QED
    BY <2>1, <2>2
<1>7. TypeOK'
    BY <1>1, <1>5, <1>6 DEF TypeOK, TablesGood
<1>. QED
    BY <1>5, <1>6, <1>7 DEF Inv

\* An operator's vote and a restart change what is asked and pending only.
LEMMA PendingChanged ==
    ASSUME Inv, Called \/ UNCHANGED calls, UNCHANGED <<tables, pipeline>>,
           pending' \in [Peers -> PendingVotes], asked' \in [Peers -> Request \cup {Absent}]
    PROVE  Inv' /\ Upgrades(tables, tables')
<1>1. calls' \in 0 .. MaxCalls
    BY CtrlAssumption DEF Inv, TypeOK, Called
<1>2. TypeOK'
    BY <1>1 DEF Inv, TypeOK
<1>. QED
    BY <1>2, SameTables DEF Inv

LEMMA AskInv ==
    ASSUME Inv, NEW p \in Peers, NEW r \in Request, Ask(p, r)
    PROVE  Inv' /\ Upgrades(tables, tables')
<1>1. /\ pending \in [Peers -> PendingVotes] /\ asked \in [Peers -> Request \cup {Absent}]
      /\ asked' = [asked EXCEPT ![p] = r] /\ pending' = pending
    BY DEF Inv, TypeOK, Ask
<1>2. asked' \in [Peers -> Request \cup {Absent}]
    BY <1>1
<1>. QED
    BY <1>1, <1>2, PendingChanged DEF Ask

LEMMA WithVoteType ==
    ASSUME NEW pend \in PendingVotes, NEW r \in Request
    PROVE  WithVote(pend, r) \in PendingVotes
<1>1. CASE r \in [op : {"add", "remove"}, peer : Peers] /\ r.op = "add"
    BY <1>1 DEF WithVote, PendingVotes
<1>2. CASE r \in [op : {"add", "remove"}, peer : Peers] /\ r.op = "remove"
    BY <1>2 DEF WithVote, PendingVotes
<1>3. CASE r \in [op : {"module"}, version : Version]
    BY <1>3 DEF WithVote, PendingVotes
<1>. QED
    BY <1>1, <1>2, <1>3 DEF Request

LEMMA NextInv == Inv /\ [Next]_vars => Inv' /\ Upgrades(tables, tables')
<1>. SUFFICES ASSUME Inv, [Next]_vars PROVE Inv' /\ Upgrades(tables, tables')
    OBVIOUS
<1>1. pending \in [Peers -> PendingVotes] /\ TypeOK
    BY DEF Inv, TypeOK
<1>2. ASSUME NEW p \in Peers, NEW x \in Peers,
             SetPendingAddPeerVote(p, x) \/ SetPendingRemovePeerVote(p, x)
      PROVE  Inv' /\ Upgrades(tables, tables')
  <2>1. [op |-> "add", peer |-> x] \in Request /\ [op |-> "remove", peer |-> x] \in Request
    BY DEF Request
  <2>. QED
    BY <1>2, <2>1, AskInv DEF SetPendingAddPeerVote, SetPendingRemovePeerVote
<1>3. ASSUME NEW p \in Peers, NEW x \in Version, SetPendingAddModuleVote(p, x)
      PROVE  Inv' /\ Upgrades(tables, tables')
  <2>1. [op |-> "module", version |-> x] \in Request
    BY DEF Request
  <2>. QED
    BY <1>3, <2>1, AskInv DEF SetPendingAddModuleVote
<1>8. ASSUME NEW p \in Peers, WritePendingVote(p)
      PROVE  Inv' /\ Upgrades(tables, tables')
  <2>1. asked[p] \in Request /\ pending[p] \in PendingVotes
    BY <1>1, <1>8 DEF TypeOK, WritePendingVote
  <2>2. WithVote(pending[p], asked[p]) \in PendingVotes
    BY <2>1, WithVoteType
  <2>3. pending' = [pending EXCEPT ![p] = WithVote(pending[p], asked[p])]
    BY <1>8 DEF WritePendingVote
  <2>4. pending' \in [Peers -> PendingVotes]
    BY <1>1, <2>2, <2>3
  <2>5. asked' \in [Peers -> Request \cup {Absent}]
    BY <1>1, <1>8 DEF TypeOK, WritePendingVote
  <2>. QED
    BY <1>8, <2>4, <2>5, PendingChanged DEF WritePendingVote
<1>4. ASSUME NEW p \in Peers, NEW n \in Minors, RecordModuleInitVersions(p, n)
      PROVE  Inv' /\ Upgrades(tables, tables')
  <2>1. pending' \in [Peers -> PendingVotes]
    <3> DEFINE mv == [m \in Ids |-> IF tables.configs[m] # Absent THEN n ELSE pending[p].minors[m]]
    <3>1. mv \in [Ids -> Minors \cup {Absent}]
        BY <1>1 DEF PendingVotes
    <3>2. pending' = [pending EXCEPT ![p] = [pending[p] EXCEPT !.minors = mv]]
        BY <1>1, <1>4 DEF RecordModuleInitVersions
    <3>. HIDE DEF mv
    <3>3. [pending[p] EXCEPT !.minors = mv] \in PendingVotes
        BY <1>1, <3>1 DEF PendingVotes
    <3>. QED
        BY <1>1, <3>2, <3>3
  <2>2. asked' \in [Peers -> Request \cup {Absent}]
    BY <1>1, <1>4 DEF TypeOK, RecordModuleInitVersions
  <2>. QED
    BY <1>4, <2>1, <2>2, PendingChanged DEF RecordModuleInitVersions
<1>5. ASSUME NEW p \in Peers, Propose(p)
      PROVE  Inv' /\ Upgrades(tables, tables')
  <2>1. PICK items \in Proposals(tables, pending[p], p) :
            items # <<>> /\ pipeline' = Append(pipeline, [peer |-> p, items |-> items])
    BY <1>5 DEF Propose
  <2>2. tables' = tables /\ pending' = pending /\ asked' = asked /\ calls' = calls
    BY <1>5 DEF Propose
  <2> DEFINE Block == [peer : Peers, items : Seq(CItem)]
             b == [peer |-> p, items |-> items]
  <2>3. items \in Seq(CItem)
    BY <1>1, ProposalsType
  <2>4. b \in Block /\ b.items = items
    BY <2>3
  <2>5. pipeline \in Seq(Block)
    BY <1>1 DEF TypeOK
  <2>6. pipeline' = Append(pipeline, b)
    BY <2>1
  <2>. HIDE DEF Block, b
  <2>7. /\ pipeline' \in Seq(Block) /\ DOMAIN pipeline = 1 .. Len(pipeline)
        /\ DOMAIN pipeline' = 1 .. Len(pipeline) + 1 /\ pipeline'[Len(pipeline) + 1] = b
        /\ \A i \in 1 .. Len(pipeline) : pipeline'[i] = pipeline[i]
    BY <2>4, <2>5, <2>6
  <2>8. \A i \in DOMAIN pipeline' : pipeline'[i].items # <<>>
    <3>. TAKE i \in DOMAIN pipeline'
    <3>1. CASE i = Len(pipeline) + 1
        BY <2>1, <2>4, <2>7, <3>1
    <3>2. CASE i # Len(pipeline) + 1
      <4>1. i \in 1 .. Len(pipeline)
        BY <2>5, <2>7, <3>2
      <4>. QED
        BY <2>7, <4>1 DEF Inv
    <3>. QED
        BY <3>1, <3>2
  <2>9. TypeOK'
    BY <1>1, <2>2, <2>7 DEF TypeOK, Block
  <2>. QED
    BY <2>2, <2>8, <2>9, SameTables DEF Inv
<1>6. CASE ProcessCItem
    BY <1>6, ProcessCItemInv
<1>7. CASE UNCHANGED vars
    BY <1>7, SameTables DEF vars, Inv, TypeOK
<1>. QED
    BY <1>2, <1>3, <1>4, <1>5, <1>6, <1>7, <1>8 DEF Next

LEMMA Invariance == Spec => []Inv
<1>1. Inv /\ [Next]_vars => Inv'
    BY NextInv
<1>. QED
    BY InitInv, <1>1, PTL DEF Spec

-----------------------------------------------------------------------------
\* The votes that are recorded always make sense: members vote, to add
\* outsiders and to remove members (process_citem_vote_add_peer,
\* process_citem_vote_remove_peer).
THEOREM VotesAlwaysMakeSense == Spec => []VotesMakeSense
<1>1. Inv => VotesMakeSense
    BY DEF Inv, TablesGood, VotesGood, VotesMakeSense
<1>. QED
    BY <1>1, Invariance, PTL

\* Some member remains, whatever removals are voted for in whatever order
\* (process_citem_vote_remove_peer).
THEOREM SomebodyAlwaysRemains == Spec => []SomebodyRemains
<1>1. Inv => SomebodyRemains
    BY DEF Inv, TablesGood, SomebodyRemains
<1>. QED
    BY <1>1, Invariance, PTL

\* An upgrade all members are ready for has been made
\* (check_module_version_upgrades).
THEOREM UpgradesAlwaysApplied == Spec => []UpgradesApplied
<1>1. Inv => UpgradesApplied
    BY DEF Inv, TablesGood, UpgradesGood, UpgradesApplied
<1>. QED
    BY <1>1, Invariance, PTL

\* No two modules of a singleton kind (process_citem_vote_add_module).
THEOREM SingletonsStayUnique == Spec => []SingletonsOnce
<1>1. Inv => SingletonsOnce
    BY DEF Inv, TablesGood, SingletonsGood, SingletonsOnce
<1>. QED
    BY <1>1, Invariance, PTL

\* A configured module is only ever upgraded, to a minor version every member
\* supports (check_module_version_upgrades).
THEOREM ConfigsAreUpgraded == Spec => ConfigsOnlyUpgrade
<1> DEFINE Step == \A m \in Ids : tables.configs[m] # Absent =>
          /\ tables'.configs[m] # Absent
          /\ tables'.configs[m].kind = tables.configs[m].kind
          /\ tables'.configs[m].major = tables.configs[m].major
          /\ \/ tables'.configs[m].minor = tables.configs[m].minor
             \/ /\ tables'.configs[m].minor > tables.configs[m].minor
                /\ \A p \in tables'.peers :
                      MinorVote(tables', p, m) >= tables'.configs[m].minor
<1>1. Inv /\ [Next]_vars => [Step]_vars
    BY NextInv DEF Upgrades
<1>2. ConfigsOnlyUpgrade <=> [][Step]_vars
    BY PTL DEF ConfigsOnlyUpgrade
<1>. HIDE DEF Step
<1>. QED
    BY <1>1, <1>2, Invariance, PTL DEF Spec

=============================================================================
