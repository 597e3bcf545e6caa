----------------------------- MODULE PeerAddress -----------------------------
(***************************************************************************)
(* How nodes learn each other's addresses (crates/node/src/peer_address.rs *)
(* with the connection pool and the join by invite).  Every node signs its *)
(* address with the time of its start; updates are pushed to random known  *)
(* peers, and asked for when a connection to a known address fails.        *)
(*                                                                         *)
(* An address update of a peer is its timestamp: the newest one wins.      *)
(* Connections are made when they are needed; the pool only saves making   *)
(* them again.  The table peer_addresses_we_track is written and never     *)
(* read, and is left out.                                                  *)
(***************************************************************************)
EXTENDS Integers, FiniteSets

CONSTANTS
    Peers,          \* nodes with a key
    Members,        \* the peers of the initial consensus parameters
    Founder,        \* the node that initialized the consensus
    Pulling,        \* bound: the nodes whose pull task is looked at
    MaxTime,        \* bound: timestamps
    MaxStarts,      \* bound: starts of nodes
    MaxPushes       \* bound: pushed updates on their way; one more takes their place

ASSUME AddressAssumption ==
    /\ Founder \in Members /\ Members \subseteq Peers /\ Pulling \subseteq Peers
    /\ MaxTime \in Nat /\ MaxStarts \in Nat /\ MaxPushes \in Nat

Missing == -1
Times   == 0 .. MaxTime
Row     == Times \cup {Missing}

Sleeping == [pc |-> "sleep"]      \* before it looks for an address to ask for
NoneLeft == [pc |-> "none"]       \* it found none
Waiting  == [pc |-> "wait"]       \* until it is notified

VARIABLES
    up,         \* the nodes that are running
    joined,     \* the nodes whose consensus is initialized
    rows,       \* peer_addresses of every node
    needed,     \* peer_addresses_we_need
    pull,       \* the pull task of every node
    pushes,     \* pushed updates that have not been handled
    starts

vars == <<up, joined, rows, needed, pull, pushes, starts>>

PullState ==
         {Sleeping, NoneLeft, Waiting}
    \cup [pc : {"ask"}, refresh : Peers, query : Peers]
    \cup [pc : {"reply"}, refresh : Peers, time : Row]

TypeOK ==
    /\ up \in SUBSET Peers /\ joined \in SUBSET Peers
    /\ rows \in [Peers -> [Peers -> Row]]
    /\ needed \in [Peers -> SUBSET Peers]
    /\ pull \in [Peers -> PullState]
    /\ pushes \in SUBSET [to : Peers, peer : Peers, time : Times]
    /\ starts \in 0 .. MaxStarts

Init ==
    /\ up = {} /\ joined = {Founder}
    /\ rows = [n \in Peers |-> [p \in Peers |-> Missing]]
    /\ needed = [n \in Peers |-> {}]
    /\ pull = [n \in Peers |-> Sleeping]
    /\ pushes = {}
    /\ starts = 0

Known(n) == {p \in Peers : rows[n][p] # Missing}

-----------------------------------------------------------------------------
(* Operations on the tables                                                 *)

\* handle_address_update
HandleAddressUpdate(table, p, t) ==
    IF table[p] # Missing /\ t <= table[p] THEN table ELSE [table EXCEPT ![p] = t]

\* mark_peer_addr_as_needed: waiting tasks are notified, and only those.
MarkPeerAddrAsNeeded(n, p) ==
    /\ needed' = [needed EXCEPT ![n] = IF n \in Pulling THEN @ \cup {p} ELSE @]
    /\ pull' = [pull EXCEPT ![n] = IF @ = Waiting THEN Sleeping ELSE @]

-----------------------------------------------------------------------------
(* Nodes start, stop and join                                               *)

\* Mutant: the node's own address is stored without a look at the one before.
StartOverwriting(n, t) ==
    /\ n \notin up
    /\ starts < MaxStarts /\ starts' = starts + 1
    /\ up' = up \cup {n}
    /\ rows' = [rows EXCEPT ![n][n] = t]
    /\ pull' = [pull EXCEPT ![n] = Sleeping]
    /\ UNCHANGED <<joined, needed, pushes>>

\* Node::new, with the clock at t: insert_own_address_update.
Start(n, t) ==
    /\ n \notin up
    /\ starts < MaxStarts /\ starts' = starts + 1
    /\ up' = up \cup {n}
    /\ rows' = [rows EXCEPT ![n] = HandleAddressUpdate(@, n, t)]
    /\ pull' = [pull EXCEPT ![n] = Sleeping]
    /\ UNCHANGED <<joined, needed, pushes>>

\* The bound on starts leaves one for every node that is not running.
Stop(n) ==
    /\ n \in up
    /\ starts + Cardinality(Peers \ up) < MaxStarts
    /\ up' = up \ {n}
    /\ UNCHANGED <<joined, rows, needed, pull, pushes, starts>>

\* consensus_join_static_inner: the addresses of the initial members, as far as
\* the inviting node m knows them.
ConsensusJoin(n, m) ==
    /\ n \in up \ joined /\ m \in up \cap joined
    /\ rows' = [rows EXCEPT ![n] = [p \in Peers |->
                   IF p \in Members /\ rows[m][p] # Missing
                   THEN HandleAddressUpdate(rows[n], p, rows[m][p])[p]
                   ELSE rows[n][p]]]
    /\ joined' = joined \cup {n}
    /\ UNCHANGED <<up, needed, pull, pushes, starts>>

-----------------------------------------------------------------------------
(* Push                                                                     *)

\* Mutant: a node pushes its own address only.
PushGossipOwn(n, to, p) ==
    /\ n \in up \cap joined
    /\ to \in Known(n) /\ p \in Known(n) /\ p = n
    /\ to # n /\ to # p
    /\ IF to \in up
       THEN /\ pushes' = (IF Cardinality(pushes) < MaxPushes THEN pushes ELSE {})
                            \cup {[to |-> to, peer |-> p, time |-> rows[n][p]]}
            /\ UNCHANGED <<needed, pull>>
       ELSE MarkPeerAddrAsNeeded(n, to) /\ UNCHANGED pushes
    /\ UNCHANGED <<up, joined, rows, starts>>

\* One turn of run_push_gossip: the update of a random known peer is sent to
\* another one, or that one cannot be reached.
PushGossip(n, to, p) ==
    /\ n \in up \cap joined
    /\ to \in Known(n) /\ p \in Known(n)
    /\ to # n /\ to # p
    /\ IF to \in up
       THEN /\ pushes' = (IF Cardinality(pushes) < MaxPushes THEN pushes ELSE {})
                            \cup {[to |-> to, peer |-> p, time |-> rows[n][p]]}
            /\ UNCHANGED <<needed, pull>>
       ELSE MarkPeerAddrAsNeeded(n, to) /\ UNCHANGED pushes
    /\ UNCHANGED <<up, joined, rows, starts>>

\* handle_push_peer_addr_update
HandlePush(m) ==
    /\ m \in pushes /\ m.to \in up
    /\ rows' = [rows EXCEPT ![m.to] = HandleAddressUpdate(@, m.peer, m.time)]
    /\ pushes' = pushes \ {m}
    /\ UNCHANGED <<up, joined, needed, pull, starts>>

\* The update does not arrive: nobody sends it again.
LosePush(m) ==
    /\ m \in pushes
    /\ pushes' = pushes \ {m}
    /\ UNCHANGED <<up, joined, rows, needed, pull, starts>>

-----------------------------------------------------------------------------
(* Pull                                                                     *)

\* pick_pull_need_gossip_pair: the address is taken off the list before anybody
\* is asked; a node that happens to pick itself asks nobody.
PickPullNeedGossipPair(n, p, q) ==
    /\ n \in Pulling \cap up \cap joined /\ pull[n] = Sleeping
    /\ p \in needed[n] /\ q \in Known(n)
    /\ needed' = [needed EXCEPT ![n] = @ \ {p}]
    /\ pull' = [pull EXCEPT ![n] = IF q = n THEN Sleeping
                                   ELSE [pc |-> "ask", refresh |-> p, query |-> q]]
    /\ UNCHANGED <<up, joined, rows, pushes, starts>>

PickNone(n) ==
    /\ n \in Pulling \cap up \cap joined /\ pull[n] = Sleeping
    /\ needed[n] = {}
    /\ pull' = [pull EXCEPT ![n] = NoneLeft]
    /\ UNCHANGED <<up, joined, rows, needed, pushes, starts>>

\* The task registers for the notification; one before this is not stored.
WaitNotified(n) ==
    /\ n \in Pulling \cap up \cap joined /\ pull[n] = NoneLeft
    /\ pull' = [pull EXCEPT ![n] = Waiting]
    /\ UNCHANGED <<up, joined, rows, needed, pushes, starts>>

\* query_peer_address: the other node looks the address up (get_peer_addr), or
\* it cannot be reached, and its own address is needed.
QueryPeerAddress(n) ==
    /\ n \in Pulling \cap up \cap joined /\ pull[n].pc = "ask"
    /\ LET p == pull[n].refresh
           q == pull[n].query
       IN  IF q \in up
           THEN /\ pull' = [pull EXCEPT ![n] = [pc |-> "reply", refresh |-> p, time |-> rows[q][p]]]
                /\ UNCHANGED needed
           ELSE /\ pull' = [pull EXCEPT ![n] = Sleeping]
                /\ needed' = [needed EXCEPT ![n] = @ \cup {q}]
    /\ UNCHANGED <<up, joined, rows, pushes, starts>>

HandleReply(n) ==
    /\ n \in Pulling \cap up \cap joined /\ pull[n].pc = "reply"
    /\ rows' = [rows EXCEPT ![n] = IF pull[n].time = Missing THEN @
                                   ELSE HandleAddressUpdate(@, pull[n].refresh, pull[n].time)]
    /\ pull' = [pull EXCEPT ![n] = Sleeping]
    /\ UNCHANGED <<up, joined, needed, pushes, starts>>

-----------------------------------------------------------------------------

\* ConnectionPool::connect for one of the consensus tasks: a known peer that
\* cannot be reached is needed.  An unknown peer is an error, no more.
Connect(n, p) ==
    /\ n \in up \cap joined /\ n # p
    /\ p \in Known(n) \ up
    /\ MarkPeerAddrAsNeeded(n, p)
    /\ UNCHANGED <<up, joined, rows, pushes, starts>>

Next ==
    \/ \E n \in Peers, t \in Times : Start(n, t)
    \/ \E n \in Peers : Stop(n)
    \/ \E n, m \in Peers : ConsensusJoin(n, m) \/ Connect(n, m)
    \/ \E n, m, p \in Peers : PushGossip(n, m, p) \/ PickPullNeedGossipPair(n, m, p)
    \/ \E m \in pushes : HandlePush(m) \/ LosePush(m)
    \/ \E n \in Peers : PickNone(n) \/ WaitNotified(n) \/ QueryPeerAddress(n) \/ HandleReply(n)

Spec == Init /\ [][Next]_vars

\* Nodes are started and join.  Pairs to push are drawn at random from the table
\* every ten seconds, so each is drawn again and again, and the newest address of
\* a peer, sent often enough, arrives.
FairSpec ==
    /\ Spec
    /\ \A n \in Peers : /\ WF_vars(\E t \in Times : Start(n, t))
                        /\ WF_vars(\E m \in Peers : ConsensusJoin(n, m))
    /\ \A n, m, p \in Peers : WF_vars(PushGossip(n, m, p))
    /\ \A p \in Peers : \A to \in Peers \ {p} :
          SF_vars(HandlePush([to |-> to, peer |-> p, time |-> rows[p][p]]))

-----------------------------------------------------------------------------
(* Properties                                                               *)

\* Nobody, and no message on its way, has a newer address of a peer than the peer
\* itself, although clocks may be set back between its starts
\* (insert_own_address_update stores what it sends).
OwnIsNewest ==
    /\ \A n, p \in Peers : rows[n][p] <= rows[p][p]
    /\ \A m \in pushes : m.time <= rows[m.peer][m.peer]
    /\ \A n \in Peers : pull[n].pc = "reply" =>
          pull[n].time <= rows[pull[n].refresh][pull[n].refresh]

\* No node replaces an address by an older one: pushes, replies to queries and
\* joins may overtake each other (handle_address_update).
NeverOlder ==
    [][\A n, p \in Peers : rows'[n][p] >= rows[n][p]]_vars

\* The address of every node reaches every other one, even if its first contact
\* was a single invite (run_push_gossip).
AddressesSpread ==
    \A p \in Peers, t \in Times : rows[p][p] >= t ~> \A n \in Peers : rows[n][p] >= t

\* Does not hold: the pull task does not wait while an address is needed,
\* peer_addr_needed is "Set each time a peer address requires refreshing".
NeedNoticed ==
    \A n \in Peers : pull[n] = Waiting => needed[n] = {}

=============================================================================
