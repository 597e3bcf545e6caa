-------------------------- MODULE PeerAddressProofs --------------------------
(***************************************************************************)
(* Addresses only get newer, for any nodes, any clocks and any losses.     *)
(***************************************************************************)
EXTENDS PeerAddress, TLAPS

Tables == [Peers -> Row]

\* Rows are integers, and a missing one is older than any update.
LEMMA RowIsInt ==
    /\ \A r \in Row : r \in Int
    /\ \A t \in Times : t \in Row /\ Missing <= t /\ t # Missing
    /\ Missing \in Row
    /\ \A r \in Row : r # Missing => r \in Times
    BY AddressAssumption DEF Row, Times, Missing

\* handle_address_update changes one entry, to the newer of two updates.
LEMMA UpdateTakesNewer ==
    ASSUME NEW table \in Tables, NEW p \in Peers, NEW t \in Times
    PROVE  /\ HandleAddressUpdate(table, p, t) \in Tables
           /\ \A q \in Peers : q # p => HandleAddressUpdate(table, p, t)[q] = table[q]
           /\ HandleAddressUpdate(table, p, t)[p] \in {table[p], t}
           /\ HandleAddressUpdate(table, p, t)[p] >= table[p]
           /\ HandleAddressUpdate(table, p, t)[p] >= t
<1>1. table[p] \in Row /\ table[p] \in Int /\ t \in Int /\ t \in Row
    BY RowIsInt DEF Tables
<1>2. CASE table[p] # Missing /\ t <= table[p]
    BY <1>1, <1>2 DEF HandleAddressUpdate, Tables
<1>3. CASE ~(table[p] # Missing /\ t <= table[p])
  <2>1. HandleAddressUpdate(table, p, t) = [table EXCEPT ![p] = t]
    BY <1>3 DEF HandleAddressUpdate
  <2>2. t >= table[p]
    BY <1>1, <1>3, RowIsInt
  <2>. QED
    BY <1>1, <2>1, <2>2 DEF Tables
<1>. QED
    BY <1>2, <1>3

-----------------------------------------------------------------------------
(***************************************************************************)
(* The invariant, part by part.                                            *)
(***************************************************************************)
RowsOwned == \A n, p \in Peers : rows[n][p] <= rows[p][p]

PushesOwned == \A m \in pushes : m.time <= rows[m.peer][m.peer]

PullsOwned == \A n \in Peers : pull[n].pc = "reply" =>
                  pull[n].time <= rows[pull[n].refresh][pull[n].refresh]

Inv == TypeOK /\ RowsOwned /\ PushesOwned /\ PullsOwned

Older(R, S) == \A n, p \in Peers : R[n][p] <= S[n][p]

\* The states of a pull task that are about somebody's address.
LEMMA PullStates ==
    /\ \A s \in {Sleeping, NoneLeft, Waiting} : s \in PullState /\ s.pc \notin {"ask", "reply"}
    /\ \A s \in PullState : s.pc = "reply" => s.refresh \in Peers /\ s.time \in Row
    /\ \A s \in PullState : s.pc = "ask" => s.refresh \in Peers /\ s.query \in Peers
<1>1. \A s \in {Sleeping, NoneLeft, Waiting} : s \in PullState /\ s.pc \notin {"ask", "reply"}
    BY DEF PullState, Sleeping, NoneLeft, Waiting
<1>2. \A s \in [pc : {"ask"}, refresh : Peers, query : Peers] :
        s.pc = "ask" /\ s.refresh \in Peers /\ s.query \in Peers
    OBVIOUS
<1>3. \A s \in [pc : {"reply"}, refresh : Peers, time : Row] :
        s.pc = "reply" /\ s.refresh \in Peers /\ s.time \in Row
    OBVIOUS
<1>. QED
    BY <1>1, <1>2, <1>3 DEF PullState

\* One pull task goes to a state that says nothing of an address, or what the
\* peer's own row covers.
LEMMA PullMoves ==
    ASSUME Inv, NEW n \in Peers, NEW s \in PullState,
           pull' = [pull EXCEPT ![n] = s],
           rows' \in [Peers -> Tables], Older(rows, rows'),
           s.pc = "reply" => s.time <= rows'[s.refresh][s.refresh]
    PROVE  pull' \in [Peers -> PullState] /\ PullsOwned'
<1>1. pull \in [Peers -> PullState] /\ rows \in [Peers -> Tables]
    BY DEF Inv, TypeOK, Tables
<1>2. ASSUME NEW i \in Peers, pull'[i].pc = "reply"
      PROVE  pull'[i].time <= rows'[pull'[i].refresh][pull'[i].refresh]
  <2>1. CASE i = n
    BY <1>1, <1>2, <2>1
  <2>2. CASE i # n
    <3>1. pull'[i] = pull[i] /\ pull[i] \in PullState
        BY <1>1, <2>2
    <3>2. pull[i].refresh \in Peers /\ pull[i].time \in Row
        BY <1>2, <3>1, PullStates
    <3>3. pull[i].time <= rows[pull[i].refresh][pull[i].refresh]
        BY <1>2, <3>1 DEF Inv, PullsOwned
    <3>4. rows[pull[i].refresh][pull[i].refresh] <= rows'[pull[i].refresh][pull[i].refresh]
        BY <3>2 DEF Older
    <3>5. /\ pull[i].time \in Int
          /\ rows[pull[i].refresh][pull[i].refresh] \in Int
          /\ rows'[pull[i].refresh][pull[i].refresh] \in Int
        BY <1>1, <3>2, RowIsInt DEF Tables
    <3>. QED
        BY <3>1, <3>3, <3>4, <3>5
  <2>. QED
    BY <2>1, <2>2
<1>. QED
    BY <1>1, <1>2 DEF PullsOwned

\* Rows that got newer still cover the messages on their way.
LEMMA MessagesCovered ==
    ASSUME Inv, rows' \in [Peers -> Tables], Older(rows, rows')
    PROVE  /\ \A m \in pushes : m.time <= rows'[m.peer][m.peer]
           /\ pull' = pull => PullsOwned'
<1>1. /\ pull \in [Peers -> PullState] /\ rows \in [Peers -> Tables]
      /\ \A m \in pushes : m.peer \in Peers /\ m.time \in Times
    BY DEF Inv, TypeOK, Tables
<1>2. \A p \in Peers : rows[p][p] \in Int /\ rows'[p][p] \in Int /\ rows[p][p] <= rows'[p][p]
    BY <1>1, RowIsInt DEF Tables, Older
<1>3. \A m \in pushes : m.time <= rows'[m.peer][m.peer]
    BY <1>1, <1>2, RowIsInt DEF Inv, PushesOwned
<1>4. \A n \in Peers : pull[n].pc = "reply" =>
        pull[n].time <= rows'[pull[n].refresh][pull[n].refresh]
    BY <1>1, <1>2, RowIsInt, PullStates DEF Inv, PullsOwned
<1>. QED
    BY <1>3, <1>4 DEF PullsOwned

\* An update of p that p's own row covers is handled by node n.
LEMMA RowUpdated ==
    ASSUME Inv, NEW n \in Peers, NEW p \in Peers, NEW t \in Times,
           t <= rows[p][p] \/ n = p,
           rows' = [rows EXCEPT ![n] = HandleAddressUpdate(@, p, t)]
    PROVE  rows' \in [Peers -> Tables] /\ Older(rows, rows') /\ RowsOwned'
<1> DEFINE u == HandleAddressUpdate(rows[n], p, t)
<1>1. rows \in [Peers -> Tables] /\ RowsOwned
    BY DEF Inv, TypeOK, Tables
<1>2. /\ u \in Tables
      /\ \A q \in Peers : q # p => u[q] = rows[n][q]
      /\ u[p] \in {rows[n][p], t} /\ u[p] >= rows[n][p] /\ u[p] >= t
    BY <1>1, UpdateTakesNewer
<1>3. rows' = [rows EXCEPT ![n] = u]
    OBVIOUS
<1>. HIDE DEF u
<1>4. /\ rows' \in [Peers -> Tables] /\ rows'[n] = u
      /\ \A m \in Peers : m # n => rows'[m] = rows[m]
    BY <1>1, <1>2, <1>3
<1>5. \A m, q \in Peers : rows[m][q] \in Int /\ rows'[m][q] \in Int
    BY <1>1, <1>4, RowIsInt DEF Tables
<1>6. Older(rows, rows')
    BY <1>2, <1>4, <1>5 DEF Older
<1>7. ASSUME NEW m \in Peers, NEW q \in Peers
      PROVE  rows'[m][q] <= rows'[q][q]
  <2>1. rows[m][q] <= rows[q][q] /\ rows[q][q] <= rows'[q][q]
    BY <1>1, <1>6 DEF RowsOwned, Older
  <2>2. CASE m = n /\ q = p
    BY <1>2, <1>4, <1>5, <2>1, <2>2, RowIsInt
  <2>3. CASE ~(m = n /\ q = p)
    <3>1. rows'[m][q] = rows[m][q]
        BY <1>2, <1>4, <2>3
    <3>. QED
        BY <1>5, <2>1, <3>1
  <2>. QED
    BY <2>2, <2>3
<1>. QED
    BY <1>4, <1>6, <1>7 DEF RowsOwned

\* The tables of a node that joins: it takes over what the other node has.
LEMMA JoinUpdates ==
    ASSUME Inv, NEW n \in Peers, NEW m \in Peers, ConsensusJoin(n, m)
    PROVE  rows' \in [Peers -> Tables] /\ Older(rows, rows') /\ RowsOwned'
<1>1. rows \in [Peers -> Tables] /\ RowsOwned
    BY DEF Inv, TypeOK, Tables
<1> DEFINE row(p) == IF p \in Members /\ rows[m][p] # Missing
                     THEN HandleAddressUpdate(rows[n], p, rows[m][p])[p]
                     ELSE rows[n][p]
           u == [p \in Peers |-> row(p)]
<1>2. rows' = [rows EXCEPT ![n] = u]
    BY DEF ConsensusJoin
<1>3. ASSUME NEW p \in Peers
      PROVE  row(p) \in {rows[n][p], rows[m][p]} /\ row(p) \in Row /\ row(p) >= rows[n][p]
  <2>1. rows[n] \in Tables /\ rows[m][p] \in Row /\ rows[n][p] \in Row
    BY <1>1 DEF Tables
  <2>2. rows[n][p] >= rows[n][p]
    BY <2>1, RowIsInt
  <2>3. rows[m][p] # Missing => rows[m][p] \in Times
    BY <2>1, RowIsInt
  <2>. QED
    BY <2>1, <2>2, <2>3, UpdateTakesNewer
<1>4. /\ u \in Tables
      /\ \A p \in Peers : u[p] \in {rows[n][p], rows[m][p]} /\ u[p] >= rows[n][p]
    BY <1>3 DEF Tables
<1>. HIDE DEF u, row
<1>5. /\ rows' \in [Peers -> Tables] /\ rows'[n] = u
      /\ \A i \in Peers : i # n => rows'[i] = rows[i]
    BY <1>1, <1>2, <1>4
<1>6. \A i, q \in Peers : rows[i][q] \in Int /\ rows'[i][q] \in Int
    BY <1>1, <1>5, RowIsInt DEF Tables
<1>7. Older(rows, rows')
    BY <1>4, <1>5, <1>6 DEF Older
<1>8. ASSUME NEW i \in Peers, NEW q \in Peers
      PROVE  rows'[i][q] <= rows'[q][q]
  <2>1. rows'[i][q] \in {rows[i][q], rows[m][q]}
    BY <1>4, <1>5
  <2>2. rows[i][q] <= rows[q][q] /\ rows[m][q] <= rows[q][q] /\ rows[q][q] <= rows'[q][q]
    BY <1>1, <1>7 DEF RowsOwned, Older
  <2>. QED
    BY <1>6, <2>1, <2>2
<1>. QED
    BY <1>5, <1>7, <1>8 DEF RowsOwned

-----------------------------------------------------------------------------
(***************************************************************************)
(* Steps.                                                                  *)
(***************************************************************************)
\* Nobody knows any address at first.
LEMMA InitInv == Init => Inv
<1>. SUFFICES ASSUME Init PROVE Inv
    OBVIOUS
<1>1. \A n, p \in Peers : rows[n][p] = Missing
    BY DEF Init
<1>2. rows \in [Peers -> [Peers -> Row]] /\ starts \in 0 .. MaxStarts
    BY AddressAssumption, RowIsInt DEF Init
<1>3. Sleeping \in PullState /\ Sleeping.pc = "sleep"
    BY DEF PullState, Sleeping
<1>4. TypeOK
    BY <1>2, <1>3, AddressAssumption DEF Init, TypeOK
<1>5. RowsOwned
    BY <1>1 DEF RowsOwned, Missing
<1>6. PushesOwned
    BY DEF Init, PushesOwned
<1>7. PullsOwned
    BY <1>3 DEF Init, PullsOwned
<1>. QED
    BY <1>4, <1>5, <1>6, <1>7 DEF Inv

\* A step that changes no row.
LEMMA SameRows ==
    ASSUME Inv, rows' = rows
    PROVE  rows' \in [Peers -> Tables] /\ Older(rows, rows') /\ RowsOwned'
<1>1. rows \in [Peers -> Tables] /\ RowsOwned
    BY DEF Inv, TypeOK, Tables
<1>2. \A n, p \in Peers : rows[n][p] \in Int
    BY <1>1, RowIsInt DEF Tables
<1>. QED
    BY <1>1, <1>2 DEF Older, RowsOwned

\* mark_peer_addr_as_needed wakes the pull task and does no more.
LEMMA NeedMarked ==
    ASSUME Inv, NEW n \in Peers, NEW p \in Peers, MarkPeerAddrAsNeeded(n, p), rows' = rows
    PROVE  needed' \in [Peers -> SUBSET Peers] /\ pull' \in [Peers -> PullState] /\ PullsOwned'
<1>1. needed \in [Peers -> SUBSET Peers] /\ pull \in [Peers -> PullState]
    BY DEF Inv, TypeOK
<1>2. needed' \in [Peers -> SUBSET Peers]
    BY <1>1 DEF MarkPeerAddrAsNeeded
<1>3. PICK s \in PullState : pull' = [pull EXCEPT ![n] = s] /\ s \in {Sleeping, pull[n]}
    BY <1>1, PullStates DEF MarkPeerAddrAsNeeded
<1>4. s.pc = "reply" => s.time <= rows'[s.refresh][s.refresh]
    BY <1>3, PullStates DEF Inv, PullsOwned
<1>. QED
    BY <1>2, <1>3, <1>4, SameRows, PullMoves

\* Every step keeps the invariant, and makes rows newer only.
LEMMA NextInv ==
    ASSUME Inv, [Next]_vars
    PROVE  Inv' /\ Older(rows, rows')
<1>0. /\ up \in SUBSET Peers /\ joined \in SUBSET Peers
      /\ rows \in [Peers -> Tables] /\ Tables = [Peers -> Row]
      /\ needed \in [Peers -> SUBSET Peers]
      /\ pull \in [Peers -> PullState]
      /\ pushes \in SUBSET [to : Peers, peer : Peers, time : Times]
      /\ starts \in 0 .. MaxStarts
    BY DEF Inv, TypeOK, Tables
<1>1. ASSUME NEW n \in Peers, NEW t \in Times, Start(n, t)
      PROVE  Inv' /\ Older(rows, rows')
  <2>1. rows' \in [Peers -> Tables] /\ Older(rows, rows') /\ RowsOwned'
    BY <1>1, RowUpdated DEF Start
  <2>2. pull' \in [Peers -> PullState] /\ PullsOwned'
    BY <1>1, <2>1, PullStates, PullMoves DEF Start
  <2>3. PushesOwned'
    BY <1>1, <2>1, MessagesCovered DEF Start, PushesOwned
  <2>4. starts' \in 0 .. MaxStarts
    BY <1>0, <1>1, AddressAssumption DEF Start
  <2>5. TypeOK'
    BY <1>0, <1>1, <2>1, <2>2, <2>4 DEF Start, TypeOK
  <2>. QED
    BY <2>1, <2>2, <2>3, <2>5 DEF Inv
<1>2. ASSUME NEW n \in Peers, Stop(n)
      PROVE  Inv' /\ Older(rows, rows')
  <2>1. Older(rows, rows') /\ RowsOwned' /\ PullsOwned'
    BY <1>2, SameRows, MessagesCovered DEF Stop
  <2>. QED
    BY <1>0, <1>2, <2>1 DEF Stop, Inv, TypeOK, PushesOwned
<1>3. ASSUME NEW n \in Peers, NEW m \in Peers, ConsensusJoin(n, m)
      PROVE  Inv' /\ Older(rows, rows')
  <2>1. rows' \in [Peers -> Tables] /\ Older(rows, rows') /\ RowsOwned'
    BY <1>3, JoinUpdates
  <2>2. PullsOwned' /\ PushesOwned'
    BY <1>3, <2>1, MessagesCovered DEF ConsensusJoin, PushesOwned
  <2>3. TypeOK'
    BY <1>0, <1>3, <2>1 DEF ConsensusJoin, TypeOK
  <2>. QED
    BY <2>1, <2>2, <2>3 DEF Inv
<1>4. ASSUME NEW n \in Peers, NEW p \in Peers, Connect(n, p)
      PROVE  Inv' /\ Older(rows, rows')
  <2>1. needed' \in [Peers -> SUBSET Peers] /\ pull' \in [Peers -> PullState] /\ PullsOwned'
    BY <1>4, NeedMarked DEF Connect
  <2>2. Older(rows, rows') /\ RowsOwned'
    BY <1>4, SameRows DEF Connect
  <2>. QED
    BY <1>0, <1>4, <2>1, <2>2 DEF Connect, Inv, TypeOK, PushesOwned
<1>5. ASSUME NEW n \in Peers, NEW to \in Peers, NEW p \in Peers, PushGossip(n, to, p)
      PROVE  Inv' /\ Older(rows, rows')
  <2>1. Older(rows, rows') /\ RowsOwned' /\ rows' = rows
    BY <1>5, SameRows DEF PushGossip
  <2>2. CASE to \in up
    <3> DEFINE m == [to |-> to, peer |-> p, time |-> rows[n][p]]
    <3>1. pushes' \subseteq pushes \cup {m} /\ needed' = needed /\ pull' = pull
        BY <1>5, <2>2 DEF PushGossip
    <3>2. rows[n][p] \in Times /\ rows[n][p] <= rows[p][p]
      <4>1. rows[n][p] \in Row /\ rows[n][p] # Missing
        BY <1>0, <1>5 DEF PushGossip, Known
      <4>. QED
        BY <4>1, RowIsInt DEF Inv, RowsOwned
    <3>3. m \in [to : Peers, peer : Peers, time : Times] /\ m.time <= rows[m.peer][m.peer]
        BY <3>2
    <3>. HIDE DEF m
    <3>4. PushesOwned'
        BY <2>1, <3>1, <3>3 DEF Inv, PushesOwned
    <3>5. PullsOwned'
        BY <2>1, <3>1 DEF Inv, PullsOwned
    <3>6. pushes' \in SUBSET [to : Peers, peer : Peers, time : Times]
        BY <1>0, <3>1, <3>3
    <3>. QED
        BY <1>0, <1>5, <2>1, <3>1, <3>4, <3>5, <3>6 DEF PushGossip, Inv, TypeOK
  <2>3. CASE to \notin up
    <3>1. needed' \in [Peers -> SUBSET Peers] /\ pull' \in [Peers -> PullState] /\ PullsOwned'
        BY <1>5, <2>3, NeedMarked DEF PushGossip
    <3>. QED
        BY <1>0, <1>5, <2>1, <2>3, <3>1 DEF PushGossip, Inv, TypeOK, PushesOwned
  <2>. QED
    BY <2>2, <2>3
<1>6. ASSUME NEW m \in pushes, HandlePush(m)
      PROVE  Inv' /\ Older(rows, rows')
  <2>1. m.to \in Peers /\ m.peer \in Peers /\ m.time \in Times /\ m.time <= rows[m.peer][m.peer]
    BY <1>0 DEF Inv, PushesOwned
  <2>2. rows' \in [Peers -> Tables] /\ Older(rows, rows') /\ RowsOwned'
    BY <1>6, <2>1, RowUpdated DEF HandlePush
  <2>3. PullsOwned' /\ PushesOwned'
    BY <1>6, <2>2, MessagesCovered DEF HandlePush, PushesOwned
  <2>4. TypeOK'
    BY <1>0, <1>6, <2>2 DEF HandlePush, TypeOK
  <2>. QED
    BY <2>2, <2>3, <2>4 DEF Inv
<1>7. ASSUME NEW m \in pushes, LosePush(m)
      PROVE  Inv' /\ Older(rows, rows')
  <2>1. Older(rows, rows') /\ RowsOwned' /\ PullsOwned'
    BY <1>7, SameRows, MessagesCovered DEF LosePush
  <2>. QED
    BY <1>0, <1>7, <2>1 DEF LosePush, Inv, TypeOK, PushesOwned
<1>8. ASSUME NEW n \in Peers, NEW p \in Peers, NEW q \in Peers, PickPullNeedGossipPair(n, p, q)
      PROVE  Inv' /\ Older(rows, rows')
  <2> DEFINE s == IF q = n THEN Sleeping ELSE [pc |-> "ask", refresh |-> p, query |-> q]
  <2>1. s \in PullState /\ s.pc # "reply"
    BY DEF PullState, Sleeping
  <2>2. pull' = [pull EXCEPT ![n] = s]
    BY <1>8 DEF PickPullNeedGossipPair
  <2>. HIDE DEF s
  <2>3. rows' \in [Peers -> Tables] /\ Older(rows, rows') /\ RowsOwned'
    BY <1>8, SameRows DEF PickPullNeedGossipPair
  <2>4. pull' \in [Peers -> PullState] /\ PullsOwned'
    BY <2>1, <2>2, <2>3, PullMoves
  <2>5. needed' \in [Peers -> SUBSET Peers]
    BY <1>0, <1>8 DEF PickPullNeedGossipPair
  <2>. QED
    BY <1>0, <1>8, <2>3, <2>4, <2>5 DEF PickPullNeedGossipPair, Inv, TypeOK, PushesOwned
<1>9. ASSUME NEW n \in Peers, PickNone(n) \/ WaitNotified(n)
      PROVE  Inv' /\ Older(rows, rows')
  <2>1. UNCHANGED <<up, joined, rows, needed, pushes, starts>>
    BY <1>9 DEF PickNone, WaitNotified
  <2>2. PICK s \in {NoneLeft, Waiting} : pull' = [pull EXCEPT ![n] = s]
    BY <1>9 DEF PickNone, WaitNotified
  <2>3. s \in PullState /\ s.pc # "reply"
    BY PullStates
  <2>4. rows' \in [Peers -> Tables] /\ Older(rows, rows') /\ RowsOwned'
    BY <2>1, SameRows
  <2>5. pull' \in [Peers -> PullState] /\ PullsOwned'
    BY <2>2, <2>3, <2>4, PullMoves
  <2>. QED
    BY <1>0, <2>1, <2>4, <2>5 DEF Inv, TypeOK, PushesOwned
<1>10. ASSUME NEW n \in Peers, QueryPeerAddress(n)
       PROVE  Inv' /\ Older(rows, rows')
  <2> DEFINE p == pull[n].refresh
             q == pull[n].query
  <2>1. p \in Peers /\ q \in Peers
    BY <1>0, <1>10, PullStates DEF QueryPeerAddress
  <2>2. UNCHANGED <<up, joined, rows, pushes, starts>>
    BY <1>10 DEF QueryPeerAddress
  <2>3. rows' \in [Peers -> Tables] /\ Older(rows, rows') /\ RowsOwned'
    BY <2>2, SameRows
  <2>4. needed' \in [Peers -> SUBSET Peers]
    BY <1>0, <1>10, <2>1 DEF QueryPeerAddress
  <2>5. PICK s \in PullState : /\ pull' = [pull EXCEPT ![n] = s]
                               /\ s.pc = "reply" => s.time <= rows[s.refresh][s.refresh]
    <3>1. CASE q \in up
      <4> DEFINE r == [pc |-> "reply", refresh |-> p, time |-> rows[q][p]]
      <4>1. pull' = [pull EXCEPT ![n] = r]
        BY <1>10, <3>1 DEF QueryPeerAddress
      <4>2. rows[q][p] \in Row /\ rows[q][p] <= rows[p][p]
        BY <1>0, <2>1 DEF Inv, RowsOwned
      <4>3. r \in PullState /\ r.time <= rows[r.refresh][r.refresh]
        BY <2>1, <4>2 DEF PullState
      <4>. HIDE DEF r
      <4>. QED
        BY <4>1, <4>3
    <3>2. CASE q \notin up
      <4>1. pull' = [pull EXCEPT ![n] = Sleeping]
        BY <1>10, <3>2 DEF QueryPeerAddress
      <4>. QED
        BY <4>1, PullStates
    <3>. QED
        BY <3>1, <3>2
  <2>6. pull' \in [Peers -> PullState] /\ PullsOwned'
    BY <2>2, <2>3, <2>5, PullMoves
  <2>. QED
    BY <1>0, <2>2, <2>3, <2>4, <2>6 DEF Inv, TypeOK, PushesOwned
<1>11. ASSUME NEW n \in Peers, HandleReply(n)
       PROVE  Inv' /\ Older(rows, rows')
  <2> DEFINE p == pull[n].refresh
             t == pull[n].time
  <2>1. p \in Peers /\ t \in Row /\ t <= rows[p][p]
    BY <1>0, <1>11, PullStates DEF HandleReply, Inv, PullsOwned
  <2>2. rows' \in [Peers -> Tables] /\ Older(rows, rows') /\ RowsOwned'
    <3>1. CASE t = Missing
      <4>1. rows' = rows
        BY <1>0, <1>11, <3>1 DEF HandleReply
      <4>. QED
        BY <4>1, SameRows
    <3>2. CASE t # Missing
      <4>1. rows' = [rows EXCEPT ![n] = HandleAddressUpdate(@, p, t)]
        BY <1>11, <3>2 DEF HandleReply
      <4>2. t \in Times
        BY <2>1, <3>2, RowIsInt
      <4>. HIDE DEF p, t
      <4>. QED
        BY <2>1, <4>1, <4>2, RowUpdated
    <3>. QED
        BY <3>1, <3>2
  <2>3. pull' \in [Peers -> PullState] /\ PullsOwned'
    BY <1>11, <2>2, PullStates, PullMoves DEF HandleReply
  <2>4. PushesOwned'
    BY <1>11, <2>2, MessagesCovered DEF HandleReply, PushesOwned
  <2>. QED
    BY <1>0, <1>11, <2>2, <2>3, <2>4 DEF HandleReply, Inv, TypeOK
<1>12. CASE UNCHANGED vars
  <2>1. Older(rows, rows') /\ RowsOwned' /\ PullsOwned'
    BY <1>12, SameRows, MessagesCovered DEF vars
  <2>. QED
    BY <1>0, <1>12, <2>1 DEF vars, Inv, TypeOK, PushesOwned
<1>. QED
    BY <1>1, <1>2, <1>3, <1>4, <1>5, <1>6, <1>7, <1>8, <1>9, <1>10, <1>11, <1>12 DEF Next

\* Nobody has a newer address of a peer than the peer itself, and no message
\* carries one, for any clocks that nodes start with.
THEOREM OwnAddressIsNewest == Spec => []OwnIsNewest
<1>1. Inv => OwnIsNewest
    BY DEF Inv, RowsOwned, PushesOwned, PullsOwned, OwnIsNewest
<1>. QED
    BY <1>1, InitInv, NextInv, PTL DEF Spec

\* No node replaces an address by an older one.
THEOREM AddressesGetNewer == Spec => NeverOlder
<1>1. Inv /\ [Next]_vars => [\A n, p \in Peers : rows'[n][p] >= rows[n][p]]_vars
  <2>1. ASSUME Inv, [Next]_vars, NEW n \in Peers, NEW p \in Peers
        PROVE  rows'[n][p] >= rows[n][p]
    <3>1. rows[n][p] <= rows'[n][p] /\ Inv'
        BY <2>1, NextInv DEF Older
    <3>2. rows[n][p] \in Int /\ rows'[n][p] \in Int
        BY <2>1, <3>1, RowIsInt DEF Inv, TypeOK
    <3>. QED
        BY <3>1, <3>2
  <2>. QED
    BY <2>1
<1>. QED
    BY <1>1, InitInv, NextInv, PTL DEF Spec, NeverOlder

=============================================================================
