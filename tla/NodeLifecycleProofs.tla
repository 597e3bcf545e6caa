------------------------- MODULE NodeLifecycleProofs -------------------------
(***************************************************************************)
(* A node has one federation, for any number of requests in progress,      *)
(* repeated and cut off, and any number of crashes.                        *)
(***************************************************************************)
EXTENDS NodeLifecycle, TLAPS

\* Past its storing of the parameters, a request is about what is stored; one
\* that is to wake the waiting tasks has set the consensus.  A node that does
\* not run has neither.
HandlersAgree ==
    /\ \A h \in Handlers :
          /\ handlers[h].stage \in {"open", "set", "notify"} => handlers[h].fed = stored
          /\ handlers[h].stage = "notify" => consensus # None
    /\ ~up => consensus = None /\ ~initialized

Inv == TypeOK /\ ConsensusIsThere /\ HandlersAgree

\* A request in progress is idle or has a federation.
LEMMA HandlerStages ==
    ASSUME NEW s \in HandlerState
    PROVE  /\ s.stage \in {"idle", "fetch", "init", "open", "set", "notify"}
           /\ s.stage # "idle" => s.fed \in Feds
    BY DEF HandlerState, Idle

\* A request in progress moves to its next stage.
LEMMA HandlerMoved ==
    ASSUME NEW s \in HandlerState, s.stage # "idle",
           NEW t \in {"fetch", "init", "open", "set", "notify"}
    PROVE  /\ [s EXCEPT !.stage = t] \in HandlerState
           /\ [s EXCEPT !.stage = t].fed = s.fed
           /\ [s EXCEPT !.stage = t].stage = t
    BY DEF HandlerState, Idle

\* The initial state satisfies the invariant.
LEMMA InitInv == Init => Inv
<1>1. Idle.stage = "idle" /\ Idle \in HandlerState
    BY DEF Idle, HandlerState
<1>2. Init => TypeOK
  <2>1. Init => handlers \in [Handlers -> HandlerState]
    BY <1>1 DEF Init
  <2>2. Init => requests \in 0 .. MaxRequests /\ crashes \in 0 .. MaxCrashes
    BY LifecycleAssumption DEF Init
  <2>. QED
    BY <2>1, <2>2, Zenon DEF Init, TypeOK
<1>. QED
    BY <1>1, <1>2 DEF Init, Inv, ConsensusIsThere, HandlersAgree

\* One handler moves to a state s that agrees with the database.
LEMMA HandlerMoves ==
    ASSUME Inv, NEW h \in Handlers, NEW s \in HandlerState,
           handlers' = [handlers EXCEPT ![h] = s],
           s.stage \in {"open", "set", "notify"} => s.fed = stored',
           s.stage = "notify" => consensus' # None,
           stored # None => stored' = stored,
           consensus # None => consensus' = consensus
    PROVE  /\ handlers' \in [Handlers -> HandlerState]
           /\ \A i \in Handlers :
                /\ handlers'[i].stage \in {"open", "set", "notify"} => handlers'[i].fed = stored'
                /\ handlers'[i].stage = "notify" => consensus' # None
<1>1. handlers \in [Handlers -> HandlerState]
    BY DEF Inv, TypeOK
<1>2. ASSUME NEW i \in Handlers
      PROVE  /\ handlers'[i].stage \in {"open", "set", "notify"} => handlers'[i].fed = stored'
             /\ handlers'[i].stage = "notify" => consensus' # None
  <2>1. CASE i = h
    BY <1>1, <2>1
  <2>2. CASE i # h
    <3>1. handlers'[i] = handlers[i]
        BY <1>1, <2>2
    <3>2. handlers[i].stage \in {"open", "set", "notify"} => handlers[i].fed = stored /\ stored # None
      <4>1. handlers[i].stage # "idle" => handlers[i].fed \in Feds
        BY <1>1, HandlerStages
      <4>. QED
        BY <4>1, LifecycleAssumption DEF Inv, HandlersAgree
    <3>. QED
        BY <3>1, <3>2 DEF Inv, HandlersAgree
  <2>. QED
    BY <2>1, <2>2
<1>. QED
    BY <1>1, <1>2

\* The database, the process and the requests stay in agreement, and what is
\* stored is not replaced.
LEMMA NextInv ==
    ASSUME Inv, [Next]_vars
    PROVE  Inv' /\ (stored # None => stored' = stored)
<1>. USE DEF Inv
<1>0. /\ handlers \in [Handlers -> HandlerState] /\ Idle \in HandlerState /\ Idle.stage = "idle"
      /\ None \notin Feds
    BY LifecycleAssumption DEF TypeOK, HandlerState, Idle
<1>1. ASSUME NEW f \in Feds, Command(f)
      PROVE  Inv' /\ (stored # None => stored' = stored)
  <2>1. \A h \in Handlers : handlers[h].stage \in {"open", "set", "notify"} =>
            handlers[h].fed = stored /\ stored # None
    BY <1>0, HandlerStages DEF HandlersAgree
  <2>2. stored # None => stored' = stored
    BY <1>1 DEF Command, InitTxAccepts
  <2>3. TypeOK'
    BY <1>1 DEF Command, TypeOK, Feds
  <2>. QED
    BY <1>0, <1>1, <2>1, <2>2, <2>3 DEF Command, ConsensusIsThere, HandlersAgree
<1>2. CASE Start
    BY <1>0, <1>2 DEF Start, TypeOK, ConsensusIsThere, HandlersAgree
<1>3. CASE Run
    BY <1>0, <1>3 DEF Run, TypeOK, ConsensusIsThere, HandlersAgree
<1>4. CASE Crash
  <2>1. handlers' \in [Handlers -> HandlerState] /\ crashes' \in 0 .. MaxCrashes
    BY <1>0, <1>4, LifecycleAssumption DEF Crash, TypeOK
  <2>2. TypeOK'
    BY <1>4, <2>1, Zenon DEF Crash, TypeOK
  <2>. QED
    BY <1>0, <1>4, <2>2 DEF Crash, ConsensusIsThere, HandlersAgree
<1>5. ASSUME NEW h \in Handlers, NEW f \in Feds, Begin(h, f), requests' \in 0 .. MaxRequests
      PROVE  Inv' /\ (stored # None => stored' = stored)
  <2> DEFINE s == [stage |-> IF f \in Created THEN "init" ELSE "fetch", fed |-> f]
  <2>1. s \in HandlerState /\ s.stage \in {"init", "fetch"}
    BY DEF HandlerState
  <2>2. handlers' = [handlers EXCEPT ![h] = s]
    BY <1>5 DEF Begin
  <2>. HIDE DEF s
  <2>3. UNCHANGED <<stored, consensus, up, initialized>>
    BY <1>5 DEF Begin
  <2>4. /\ handlers' \in [Handlers -> HandlerState]
        /\ \A i \in Handlers :
             /\ handlers'[i].stage \in {"open", "set", "notify"} => handlers'[i].fed = stored'
             /\ handlers'[i].stage = "notify" => consensus' # None
    BY <2>1, <2>2, <2>3, HandlerMoves
  <2>5. TypeOK'
    BY <1>5, <2>4 DEF Begin, TypeOK
  <2>. QED
    BY <2>3, <2>4, <2>5 DEF ConsensusIsThere, HandlersAgree
<1>6. ASSUME NEW h \in Handlers, NEW f \in Feds, Request(h, f)
      PROVE  Inv' /\ (stored # None => stored' = stored)
    BY <1>5, <1>6, LifecycleAssumption DEF Request, TypeOK
<1>8. ASSUME NEW h \in Handlers, Fetch(h) \/ OpenInternal(h) \/ GiveUp(h)
      PROVE  Inv' /\ (stored # None => stored' = stored)
  <2>1. UNCHANGED <<stored, consensus, up, initialized, running, used, panicked, crashes>>
    BY <1>8 DEF Fetch, OpenInternal, GiveUp
  <2>2. PICK s \in HandlerState :
            /\ handlers' = [handlers EXCEPT ![h] = s]
            /\ s.stage \in {"open", "set", "notify"} => s.fed = stored
            /\ s.stage # "notify"
    <3>1. CASE Fetch(h)
      <4>1. [handlers[h] EXCEPT !.stage = "init"] \in HandlerState
        BY <1>0, <3>1, HandlerMoved DEF Fetch, At
      <4>2. [handlers[h] EXCEPT !.stage = "init"].stage = "init"
        BY <1>0, <3>1, HandlerMoved DEF Fetch, At
      <4>. QED
        BY <3>1, <4>1, <4>2 DEF Fetch
    <3>2. CASE OpenInternal(h)
      <4>1. /\ [handlers[h] EXCEPT !.stage = "set"] \in HandlerState
            /\ [handlers[h] EXCEPT !.stage = "set"].fed = handlers[h].fed
            /\ [handlers[h] EXCEPT !.stage = "set"].stage = "set"
        BY <1>0, <3>2, HandlerMoved DEF OpenInternal, At
      <4>2. handlers[h].fed = stored
        BY <3>2 DEF OpenInternal, At, HandlersAgree
      <4>. QED
        BY <3>2, <4>1, <4>2 DEF OpenInternal
    <3>3. CASE GiveUp(h)
        BY <1>0, <3>3 DEF GiveUp
    <3>. QED
        BY <1>8, <3>1, <3>2, <3>3
  <2>3. /\ handlers' \in [Handlers -> HandlerState]
        /\ \A i \in Handlers :
             /\ handlers'[i].stage \in {"open", "set", "notify"} => handlers'[i].fed = stored'
             /\ handlers'[i].stage = "notify" => consensus' # None
    BY <2>1, <2>2, HandlerMoves
  <2>4. requests' \in 0 .. MaxRequests
    BY <1>8, LifecycleAssumption DEF Fetch, OpenInternal, GiveUp, TypeOK
  <2>5. TypeOK'
    BY <2>1, <2>3, <2>4 DEF TypeOK
  <2>. QED
    BY <2>1, <2>3, <2>5 DEF ConsensusIsThere, HandlersAgree
<1>9. ASSUME NEW h \in Handlers, ConsensusInit(h)
      PROVE  Inv' /\ (stored # None => stored' = stored)
  <2>1. handlers[h].fed \in Feds /\ handlers[h].stage = "init"
    BY <1>0, <1>9, HandlerStages DEF ConsensusInit, At
  <2>2. (stored # None => stored' = stored) /\ stored' \in Feds \cup {None}
    BY <1>9, <2>1 DEF ConsensusInit, InitTxAccepts, TypeOK
  <2>3. UNCHANGED <<up, consensus, initialized, running, used, panicked, requests, crashes>>
    BY <1>9 DEF ConsensusInit
  <2>4. PICK s \in HandlerState :
            /\ handlers' = [handlers EXCEPT ![h] = s]
            /\ s.stage \in {"open", "set", "notify"} => s.fed = stored'
            /\ s.stage # "notify"
    <3>1. CASE InitTxAccepts(handlers[h].fed)
      <4>1. /\ [handlers[h] EXCEPT !.stage = "open"] \in HandlerState
            /\ [handlers[h] EXCEPT !.stage = "open"].fed = handlers[h].fed
            /\ [handlers[h] EXCEPT !.stage = "open"].stage = "open"
        BY <1>0, <2>1, HandlerMoved
      <4>. QED
        BY <1>9, <3>1, <4>1 DEF ConsensusInit
    <3>2. CASE ~InitTxAccepts(handlers[h].fed)
        BY <1>0, <1>9, <3>2 DEF ConsensusInit
    <3>. QED
        BY <3>1, <3>2
  <2>5. /\ handlers' \in [Handlers -> HandlerState]
        /\ \A i \in Handlers :
             /\ handlers'[i].stage \in {"open", "set", "notify"} => handlers'[i].fed = stored'
             /\ handlers'[i].stage = "notify" => consensus' # None
    BY <2>2, <2>3, <2>4, HandlerMoves
  <2>6. TypeOK'
    BY <2>2, <2>3, <2>5 DEF TypeOK
  <2>. QED
    BY <2>2, <2>3, <2>5, <2>6 DEF ConsensusIsThere, HandlersAgree
<1>10. ASSUME NEW h \in Handlers, SetConsensus(h)
       PROVE  Inv' /\ (stored # None => stored' = stored)
  <2>1. handlers[h].fed \in Feds /\ handlers[h].stage = "set" /\ handlers[h].fed = stored /\ up
    BY <1>0, <1>10, HandlerStages DEF SetConsensus, At, HandlersAgree
  <2>2. UNCHANGED <<stored, up, initialized, running, used, requests, crashes>> /\ panicked' \in BOOLEAN
    BY <1>10 DEF SetConsensus, TypeOK
  <2>3. /\ consensus # None => consensus' = consensus
        /\ consensus' \in {stored, None}
        /\ consensus' \in Feds \cup {None}
    BY <1>10, <2>1 DEF SetConsensus, TypeOK, ConsensusIsThere
  <2>4. PICK s \in HandlerState :
            /\ handlers' = [handlers EXCEPT ![h] = s]
            /\ s.stage \in {"open", "set", "notify"} => s.fed = stored /\ consensus' # None
    <3>1. CASE consensus = None
      <4>1. /\ [handlers[h] EXCEPT !.stage = "notify"] \in HandlerState
            /\ [handlers[h] EXCEPT !.stage = "notify"].fed = handlers[h].fed
        BY <1>0, <2>1, HandlerMoved
      <4>2. consensus' # None
        BY <1>0, <1>10, <2>1, <3>1 DEF SetConsensus
      <4>. QED
        BY <1>10, <2>1, <3>1, <4>1, <4>2 DEF SetConsensus
    <3>2. CASE consensus # None
        BY <1>0, <1>10, <3>2 DEF SetConsensus
    <3>. QED
        BY <3>1, <3>2
  <2>5. /\ handlers' \in [Handlers -> HandlerState]
        /\ \A i \in Handlers :
             /\ handlers'[i].stage \in {"open", "set", "notify"} => handlers'[i].fed = stored'
             /\ handlers'[i].stage = "notify" => consensus' # None
    BY <2>2, <2>3, <2>4, HandlerMoves
  <2>6. TypeOK'
    BY <2>2, <2>3, <2>5 DEF TypeOK
  <2>. QED
    BY <2>1, <2>2, <2>3, <2>5, <2>6 DEF ConsensusIsThere, HandlersAgree
<1>11. ASSUME NEW h \in Handlers, Notify(h)
       PROVE  Inv' /\ (stored # None => stored' = stored)
  <2>1. consensus # None /\ up
    BY <1>11 DEF Notify, At, HandlersAgree
  <2>2. /\ UNCHANGED <<stored, up, consensus, running, used, panicked, requests, crashes>>
        /\ handlers' = [handlers EXCEPT ![h] = Idle] /\ initialized' = TRUE
    BY <1>11 DEF Notify
  <2>3. /\ handlers' \in [Handlers -> HandlerState]
        /\ \A i \in Handlers :
             /\ handlers'[i].stage \in {"open", "set", "notify"} => handlers'[i].fed = stored'
             /\ handlers'[i].stage = "notify" => consensus' # None
    BY <1>0, <2>2, HandlerMoves
  <2>4. TypeOK'
    BY <2>2, <2>3 DEF TypeOK
  <2>. QED
    BY <2>1, <2>2, <2>3, <2>4 DEF ConsensusIsThere, HandlersAgree
<1>12. CASE UNCHANGED vars
    BY <1>12 DEF vars, TypeOK, ConsensusIsThere, HandlersAgree
<1>. QED
    BY <1>1, <1>2, <1>3, <1>4, <1>6, <1>8, <1>9, <1>10, <1>11, <1>12 DEF Next, HandlerStep

\* Whatever requests race, the process runs the federation of its database, and
\* tasks that are woken find the consensus set (consensus_wait).
THEOREM ConsensusSet == Spec => []ConsensusIsThere
<1>1. Inv => ConsensusIsThere
    BY DEF Inv
<1>. QED
    BY <1>1, InitInv, NextInv, PTL DEF Spec

\* A node never changes its federation (init_tx).
THEOREM FederationFixed == Spec => OneFederation
<1>1. Inv /\ [Next]_vars => [stored # None => stored' = stored]_vars
    BY NextInv DEF vars
<1>. QED
    BY <1>1, InitInv, NextInv, PTL DEF Spec, OneFederation

=============================================================================
