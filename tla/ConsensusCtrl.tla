---------------------------- MODULE ConsensusCtrl ----------------------------
(***************************************************************************)
(* The consensus-ctrl module (crates/modules/consensus-ctrl): the members  *)
(* of the federation vote on adding and removing members and modules, and  *)
(* announce the module versions they support.                              *)
(*                                                                         *)
(* `tables` are the module's replicated tables.  Every node computes them  *)
(* from the same items in the same order, so one copy stands for all.      *)
(* `pending[p]` are the tables in which peer p keeps the votes it wants to *)
(* propose, and `asked[p]` an operator's vote that was checked but is not   *)
(* yet in them; `pipeline` are the blocks on their way from proposal to    *)
(* finality, oldest first.  What a peer proposes may be out of date by the *)
(* time it is processed, since other blocks are processed in between.      *)
(***************************************************************************)
EXTENDS Integers, Sequences, FiniteSets, NumPeers

CONSTANTS
    Peers,          \* every peer that is ever proposed or a member
    InitPeers,      \* the members at bootstrap
    Kinds,          \* the module kinds the nodes have an init for
    CtrlKind,       \* the kind of this module, which is configured at id 0
    Singletons,     \* the kinds that may be configured only once
    Majors,
    MaxMinor,       \* bound: minor versions
    MaxId,          \* bound: module ids
    Absent,         \* no vote, no configuration
    Votable,        \* bound: which votes operators cast, of OpNames
    MaxCalls,       \* bound: votes cast by operators, one at a time with each peer, and restarts
    MaxPipeline     \* bound: blocks on their way

OpNames == {"add", "remove", "module", "version"}
Ids     == 0 .. MaxId
Minors  == 0 .. MaxMinor
Version == [kind : Kinds, major : Majors, minor : Minors]

\* The votes an operator casts.
Request ==
         [op : {"add", "remove"}, peer : Peers]
    \cup [op : {"module"}, version : Version]

ASSUME CtrlAssumption ==
    /\ IsFiniteSet(Peers)
    /\ InitPeers \in SUBSET Peers /\ InitPeers # {}
    /\ CtrlKind \in Kinds /\ Singletons \subseteq Kinds /\ CtrlKind \in Singletons
    /\ 0 \in Majors
    /\ MaxMinor \in Nat /\ MaxId \in Nat /\ MaxCalls \in Nat /\ MaxPipeline \in Nat
    /\ Absent \notin Peers \cup Minors \cup Version \cup Request
    /\ Votable \subseteq OpNames

CItem == Request \cup [op : {"version"}, id : Ids, minor : Minors]

Tables ==
    [peers       : SUBSET Peers,
     addVotes    : [Peers -> Peers \cup {Absent}],
     removeVotes : [Peers -> Peers \cup {Absent}],
     moduleVotes : [Peers -> Version \cup {Absent}],
     minorVotes  : [Peers -> [Ids -> Minors \cup {Absent}]],
     configs     : [Ids -> Version \cup {Absent}]]

PendingVotes ==
    [add    : Peers \cup {Absent},
     remove : Peers \cup {Absent},
     module : Version \cup {Absent},
     minors : [Ids -> Minors \cup {Absent}]]

VARIABLES tables, pending, asked, pipeline, calls

vars == <<tables, pending, asked, pipeline, calls>>

TypeOK ==
    /\ tables \in Tables
    /\ pending \in [Peers -> PendingVotes]
    /\ asked \in [Peers -> Request \cup {Absent}]
    /\ pipeline \in Seq([peer : Peers, items : Seq(CItem)])
    /\ calls \in 0 .. MaxCalls

NoVotes == [p \in Peers |-> Absent]

\* bootstrap_consensus: the module itself at id 0, and the initial members.
Init ==
    /\ tables =
        [peers       |-> InitPeers,
         addVotes    |-> NoVotes,
         removeVotes |-> NoVotes,
         moduleVotes |-> NoVotes,
         minorVotes  |-> [p \in Peers |-> [m \in Ids |-> Absent]],
         configs     |-> [m \in Ids |-> IF m = 0 THEN [kind |-> CtrlKind, major |-> 0, minor |-> 0]
                                        ELSE Absent]]
    /\ pending = [p \in Peers |-> [add |-> Absent, remove |-> Absent, module |-> Absent,
                                   minors |-> [m \in Ids |-> Absent]]]
    /\ asked = NoVotes
    /\ pipeline = <<>>
    /\ calls = 0

-----------------------------------------------------------------------------
(* Processing an item.  Refuses(t, v, c): the transaction is rolled back;   *)
(* otherwise the tables become Processed(t, v, c).                          *)

Votes(table, x, S) == Cardinality({p \in S : table[p] = x})

ThresholdReached(table, x, S) == Votes(table, x, S) >= Threshold(Cardinality(S))

Configured(t, kind) == \E m \in Ids : t.configs[m] # Absent /\ t.configs[m].kind = kind

MinorVote(t, p, m) == IF t.minorVotes[p][m] = Absent THEN 0 ELSE t.minorVotes[p][m]

\* Mutant: members that have not voted do not hold an upgrade back.
AgreedMinorOfVoters(t, m, S) ==
    LET voters == {p \in S : t.minorVotes[p][m] # Absent}
    IN  IF voters = {} THEN 0
        ELSE CHOOSE v \in Minors :
                /\ \E p \in voters : MinorVote(t, p, m) = v
                /\ \A p \in voters : MinorVote(t, p, m) >= v

\* The least minor version among the votes of S for module m.
AgreedMinor(t, m, S) ==
    CHOOSE v \in Minors :
        /\ \E p \in S : MinorVote(t, p, m) = v
        /\ \A p \in S : MinorVote(t, p, m) >= v

\* check_module_version_upgrades
CheckModuleVersionUpgrades(t) ==
    [t EXCEPT !.configs =
        [m \in Ids |->
            IF /\ t.configs[m] # Absent /\ t.peers # {}
               /\ AgreedMinor(t, m, t.peers) > t.configs[m].minor
            THEN [t.configs[m] EXCEPT !.minor = AgreedMinor(t, m, t.peers)]
            ELSE t.configs[m]]]

\* Mutant: the vote is kept when its candidate is added.
AddPeerKeepingVotes(t, v, x) ==
    LET recorded == [t EXCEPT !.addVotes[v] = x]
    IN  IF ThresholdReached(recorded.addVotes, x, t.peers)
        THEN [recorded EXCEPT !.peers = @ \cup {x}]
        ELSE recorded

\* process_citem_vote_add_peer
VoteAddPeer(t, v, x) ==
    LET recorded == [t EXCEPT !.addVotes[v] = x]
    IN  IF ThresholdReached(recorded.addVotes, x, t.peers)
        THEN [recorded EXCEPT
                 !.addVotes = [p \in Peers |-> IF @[p] = x THEN Absent ELSE @[p]],
                 !.peers    = @ \cup {x}]
        ELSE recorded

\* Mutant: a removal does not look for upgrades the removed peer held back.
RemovePeerOnly(t, v, x) ==
    LET recorded == [t EXCEPT !.removeVotes[v] = x]
        updated  == t.peers \ {x}
    IN  IF t.removeVotes[v] = x THEN t
        ELSE IF ThresholdReached(recorded.removeVotes, x, t.peers)
        THEN [recorded EXCEPT
                !.peers       = updated,
                !.removeVotes = [p \in Peers |-> IF p \in updated /\ @[p] # x THEN @[p] ELSE Absent],
                !.addVotes    = [p \in Peers |-> IF p \in updated THEN @[p] ELSE Absent]]
        ELSE recorded

\* process_citem_vote_remove_peer
VoteRemovePeer(t, v, x) ==
    LET recorded == [t EXCEPT !.removeVotes[v] = x]
        updated  == t.peers \ {x}
    IN  IF t.removeVotes[v] = x THEN t
        ELSE IF ThresholdReached(recorded.removeVotes, x, t.peers)
        THEN CheckModuleVersionUpgrades(
                [recorded EXCEPT
                    !.peers       = updated,
                    !.removeVotes = [p \in Peers |-> IF p \in updated /\ @[p] # x THEN @[p] ELSE Absent],
                    !.addVotes    = [p \in Peers |-> IF p \in updated THEN @[p] ELSE Absent]])
        ELSE recorded

\* The votes among S for the kind and major version of x.
Matching(t, x, S) ==
    {p \in S : /\ t.moduleVotes[p] # Absent
               /\ t.moduleVotes[p].kind = x.kind
               /\ t.moduleVotes[p].major = x.major}

\* process_citem_vote_add_module: every member must have voted; the module
\* takes the least minor version they voted for and the first free id.
VoteAddModule(t, v, x) ==
    LET recorded == [t EXCEPT !.moduleVotes[v] = x]
        least == CHOOSE m \in Minors :
                    /\ \E p \in t.peers : recorded.moduleVotes[p].minor = m
                    /\ \A p \in t.peers : recorded.moduleVotes[p].minor >= m
        free  == CHOOSE m \in Ids :
                    /\ t.configs[m] = Absent /\ m > 0
                    /\ \A k \in 1 .. m - 1 : t.configs[k] # Absent
    IN  IF Matching(recorded, x, t.peers) = t.peers
        THEN [recorded EXCEPT
                !.moduleVotes = [p \in Peers |-> IF @[p] # Absent /\ @[p].kind = x.kind
                                                 THEN Absent ELSE @[p]],
                !.configs     = [t.configs EXCEPT ![free] = [x EXCEPT !.minor = least]]]
        ELSE recorded

\* process_citem_vote_module_version
VoteModuleVersion(t, v, m, minor) ==
    CheckModuleVersionUpgrades([t EXCEPT !.minorVotes[v][m] = minor])

\* The first case is the application's: the proposer is no longer a member.
Refuses(t, v, c) ==
    \/ v \notin t.peers
    \/ c.op = "add" /\ c.peer \in t.peers
    \/ c.op = "remove" /\ (c.peer \notin t.peers \/ Cardinality(t.peers) = 1)
    \/ c.op = "module" /\ c.version.kind \in Singletons /\ Configured(t, c.version.kind)
    \/ c.op = "module" /\ \A m \in Ids : t.configs[m] # Absent       \* the bound on ids
    \/ c.op = "version" /\ t.configs[c.id] = Absent

Processed(t, v, c) ==
    CASE c.op = "add"     -> VoteAddPeer(t, v, c.peer)
      [] c.op = "remove"  -> VoteRemovePeer(t, v, c.peer)
      [] c.op = "module"  -> VoteAddModule(t, v, c.version)
      [] c.op = "version" -> VoteModuleVersion(t, v, c.id, c.minor)

\* The proposer's pending vote is dropped with its item; the vote to remove a
\* peer is left pending when the same vote was recorded before.
Settled(t, pend, v, c) ==
    CASE c.op = "add"     -> [pend EXCEPT !.add = Absent]
      [] c.op = "remove"  -> IF t.removeVotes[v] = c.peer THEN pend
                             ELSE [pend EXCEPT !.remove = Absent]
      [] c.op = "module"  -> [pend EXCEPT !.module = Absent]
      [] c.op = "version" -> [pend EXCEPT !.minors[c.id] = Absent]

-----------------------------------------------------------------------------
(* What a peer proposes (refresh_consensus_proposals_dbtx)                  *)

When(cond, item) == IF cond THEN <<item>> ELSE <<>>

ModuleVoteDiffers(t, p, x) ==
    \/ t.moduleVotes[p] = Absent
    \/ t.moduleVotes[p].kind # x.kind
    \/ t.moduleVotes[p].major # x.major

VoteProposals(t, pend, p) ==
       When(/\ pend.add # Absent /\ pend.add \notin t.peers
            /\ t.addVotes[p] # pend.add,
            [op |-> "add", peer |-> pend.add])
    \o When(/\ pend.remove # Absent /\ pend.remove \in t.peers
            /\ t.removeVotes[p] # pend.remove,
            [op |-> "remove", peer |-> pend.remove])
    \o When(/\ pend.module # Absent
            /\ ~(pend.module.kind \in Singletons /\ Configured(t, pend.module.kind))
            /\ ModuleVoteDiffers(t, p, pend.module),
            [op |-> "module", version |-> pend.module])

VersionProposals(t, pend, p) ==
    {[op |-> "version", id |-> m, minor |-> pend.minors[m]] :
        m \in {k \in Ids : pend.minors[k] # Absent /\ t.minorVotes[p][k] # pend.minors[k]}}

\* The items of S in the order of the ids they are about.
ById(S) ==
    {s \in UNION {[1 .. n -> S] : n \in 0 .. MaxId + 1} :
        /\ S = {s[i] : i \in DOMAIN s}
        /\ \A i, j \in DOMAIN s : i < j => s[i].id < s[j].id}

\* The votes on members and on a module, and then those on versions.
Proposals(t, pend, p) == {VoteProposals(t, pend, p) \o s : s \in ById(VersionProposals(t, pend, p))}

-----------------------------------------------------------------------------
(* Actions                                                                  *)

Called == calls < MaxCalls /\ calls' = calls + 1

\* An operator's vote is checked against the tables in one transaction and
\* written in another, so that items may be processed in between.
Ask(p, request) ==
    /\ Called /\ asked[p] = Absent
    /\ asked' = [asked EXCEPT ![p] = request]
    /\ UNCHANGED <<tables, pending, pipeline>>

SetPendingAddPeerVote(p, x) ==
    /\ "add" \in Votable
    /\ x \notin tables.peers
    /\ Ask(p, [op |-> "add", peer |-> x])

SetPendingRemovePeerVote(p, x) ==
    /\ "remove" \in Votable
    /\ x \in tables.peers /\ Cardinality(tables.peers) # 1
    /\ Ask(p, [op |-> "remove", peer |-> x])

SetPendingAddModuleVote(p, x) ==
    /\ "module" \in Votable
    /\ ~(x.kind \in Singletons /\ Configured(tables, x.kind))
    /\ Ask(p, [op |-> "module", version |-> x])

WithVote(pend, request) ==
    CASE request.op = "add"    -> [pend EXCEPT !.add = request.peer]
      [] request.op = "remove" -> [pend EXCEPT !.remove = request.peer]
      [] request.op = "module" -> [pend EXCEPT !.module = request.version]

WritePendingVote(p) ==
    /\ asked[p] # Absent
    /\ pending' = [pending EXCEPT ![p] = WithVote(@, asked[p])]
    /\ asked' = [asked EXCEPT ![p] = Absent]
    /\ UNCHANGED <<tables, pipeline, calls>>

\* The node starts with software whose newest minor version is `minor`:
\* record_module_init_versions.
RecordModuleInitVersions(p, minor) ==
    /\ "version" \in Votable /\ Called
    /\ pending' = [pending EXCEPT ![p].minors =
                      [m \in Ids |-> IF tables.configs[m] # Absent THEN minor ELSE @[m]]]
    /\ asked' = [asked EXCEPT ![p] = Absent]
    /\ UNCHANGED <<tables, pipeline>>

\* A member puts what it proposes at the moment into a block.  A block that
\* loses its round to a dummy is a Propose that did not happen.
Propose(p) ==
    /\ p \in tables.peers
    /\ Len(pipeline) < MaxPipeline
    /\ \E items \in Proposals(tables, pending[p], p) :
          items # <<>> /\ pipeline' = Append(pipeline, [peer |-> p, items |-> items])
    /\ UNCHANGED <<tables, pending, asked, calls>>

\* The next item of the oldest block is processed by every node.
ProcessCItem ==
    /\ pipeline # <<>>
    /\ LET v == pipeline[1].peer
           c == Head(pipeline[1].items)
       IN  /\ IF Refuses(tables, v, c) THEN UNCHANGED <<tables, pending>>
              ELSE /\ tables' = Processed(tables, v, c)
                   /\ pending' = [pending EXCEPT ![v] = Settled(tables, @, v, c)]
           /\ pipeline' = IF Len(pipeline[1].items) = 1 THEN Tail(pipeline)
                          ELSE [pipeline EXCEPT ![1].items = Tail(@)]
    /\ UNCHANGED <<asked, calls>>

Next ==
    \/ \E p \in Peers, x \in Peers : SetPendingAddPeerVote(p, x) \/ SetPendingRemovePeerVote(p, x)
    \/ \E p \in Peers, x \in Version : SetPendingAddModuleVote(p, x)
    \/ \E p \in Peers, n \in Minors : RecordModuleInitVersions(p, n)
    \/ \E p \in Peers : WritePendingVote(p) \/ Propose(p)
    \/ ProcessCItem

Spec == Init /\ [][Next]_vars

-----------------------------------------------------------------------------
(* Properties                                                               *)

\* Votes on members are cast by members; those to add name outsiders and those
\* to remove name members, through every order of additions and removals and
\* items proposed before them ("Clear votes that don't make sense anymore").
VotesMakeSense ==
    \A p \in Peers :
        /\ tables.addVotes[p] # Absent => p \in tables.peers /\ tables.addVotes[p] \notin tables.peers
        /\ tables.removeVotes[p] # Absent => p \in tables.peers /\ tables.removeVotes[p] \in tables.peers

\* The federation never votes its last member out, although two removals may be
\* in the pipeline at once (process_citem_vote_remove_peer).
SomebodyRemains == tables.peers # {}

\* No upgrade that all members are ready for is left undone, in particular not
\* one that a removed member held back (check_module_version_upgrades).
UpgradesApplied ==
    \A m \in Ids : tables.configs[m] # Absent =>
        \E p \in tables.peers : MinorVote(tables, p, m) <= tables.configs[m].minor

\* At most one module of a singleton kind is ever configured, although votes for
\* it may still be in the pipeline when it is (process_citem_vote_add_module).
SingletonsOnce ==
    \A m, n \in Ids :
        (/\ tables.configs[m] # Absent /\ tables.configs[n] # Absent
         /\ tables.configs[m].kind = tables.configs[n].kind
         /\ tables.configs[m].kind \in Singletons) => m = n

\* A configured module keeps its id, kind and major version; its minor version
\* never drops, and rises only to one that every member after the step voted
\* for or above (check_module_version_upgrades).
ConfigsOnlyUpgrade ==
    [][\A m \in Ids : tables.configs[m] # Absent =>
          /\ tables'.configs[m] # Absent
          /\ tables'.configs[m].kind = tables.configs[m].kind
          /\ tables'.configs[m].major = tables.configs[m].major
          /\ \/ tables'.configs[m].minor = tables.configs[m].minor
             \/ /\ tables'.configs[m].minor > tables.configs[m].minor
                /\ \A p \in tables'.peers :
                      MinorVote(tables', p, m) >= tables'.configs[m].minor]_vars

\* Does not hold: no candidate has the votes of a quorum of the members and is
\* not added, "Threshold reached - add the peer immediately and emit effect".
QuorumActedOn ==
    \A x \in Peers \ tables.peers : ~ThresholdReached(tables.addVotes, x, tables.peers)

\* Does not hold: a member does not keep proposing an item its own tables
\* refuse; a vote of its own that was processed is to "clear the pending vote to
\* stop proposing the same citem".
ProposalsAcceptable ==
    \A p \in tables.peers : \A items \in Proposals(tables, pending[p], p) :
        \A i \in DOMAIN items : ~Refuses(tables, p, items[i])

=============================================================================
