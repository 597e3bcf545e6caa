---------------------------- MODULE NodeLifecycle ----------------------------
(***************************************************************************)
(* How a node comes to run a consensus: it is created or joined on the     *)
(* command line or by requests to the user interface, several of which may *)
(* be in progress, and opened again after a restart                        *)
(* (crates/node/src/node.rs, join.rs, crates/consensus/src/consensus/      *)
(* init.rs).  The database and the process know of it separately.          *)
(*                                                                         *)
(* A federation stands for its initial parameters.  The parameters of a    *)
(* federation that is created hold the time of its creation, so that no    *)
(* two requests create the same one; those of an invite may be used again. *)
(***************************************************************************)
EXTENDS Integers, FiniteSets

CONSTANTS
    Created,        \* federations that requests of this node may create
    Invited,        \* federations there are invites for
    None,           \* no federation
    Handlers,       \* requests that may be in progress at the same time
    MaxRequests,    \* bound: requests begun and requests given up
    MaxCrashes      \* bound: crashes

Feds == Created \cup Invited

ASSUME LifecycleAssumption ==
    /\ Created \cap Invited = {} /\ None \notin Feds
    /\ MaxRequests \in Nat /\ MaxCrashes \in Nat

VARIABLES
    stored,         \* cons_params at round 0
    up,             \* whether the process runs
    consensus,      \* Node::consensus, set once
    initialized,    \* consensus_initialized_tx
    running,        \* Node::run has passed its wait
    handlers,       \* requests in progress
    used,           \* created federations that were begun
    panicked,       \* a handler found the consensus set
    requests, crashes

vars == <<stored, up, consensus, initialized, running, handlers, used, panicked, requests, crashes>>

Idle == [stage |-> "idle"]

HandlerState == {Idle} \cup [stage : {"fetch", "init", "open", "set", "notify"}, fed : Feds]

TypeOK ==
    /\ stored \in Feds \cup {None} /\ consensus \in Feds \cup {None}
    /\ up \in BOOLEAN /\ initialized \in BOOLEAN /\ running \in BOOLEAN /\ panicked \in BOOLEAN
    /\ handlers \in [Handlers -> HandlerState]
    /\ used \in SUBSET Created
    /\ requests \in 0 .. MaxRequests /\ crashes \in 0 .. MaxCrashes

Init ==
    /\ stored = None
    /\ up = FALSE /\ consensus = None /\ initialized = FALSE /\ running = FALSE
    /\ handlers = [h \in Handlers |-> Idle]
    /\ used = {} /\ panicked = FALSE
    /\ requests = 0 /\ crashes = 0

-----------------------------------------------------------------------------
(* Database and process                                                     *)

\* Mutant: parameters that are stored are replaced.
InitTxReplaces(f) == TRUE

\* init_tx accepts f: no parameters are stored, or the same ones; else the
\* caller gets AlreadyInitialized.
InitTxAccepts(f) == stored \in {None, f}

\* init or join on the command line, before the node is run.
Command(f) ==
    /\ ~up
    /\ f \notin used
    /\ InitTxAccepts(f)
    /\ stored' = f
    /\ used' = IF f \in Created THEN used \cup {f} ELSE used
    /\ UNCHANGED <<up, consensus, initialized, running, handlers, panicked, requests, crashes>>

\* Mutant: waiting tasks are not told of a consensus that is opened.
StartUntold ==
    /\ ~up
    /\ up' = TRUE
    /\ consensus' = stored
    /\ UNCHANGED <<stored, initialized, running, handlers, used, panicked, requests, crashes>>

\* Node::new: Consensus::open.
Start ==
    /\ ~up
    /\ up' = TRUE
    /\ consensus' = stored
    /\ initialized' = (stored # None)
    /\ UNCHANGED <<stored, running, handlers, used, panicked, requests, crashes>>

\* Node::run starts the tasks of the consensus.
Run ==
    /\ up /\ initialized /\ ~running
    /\ running' = TRUE
    /\ UNCHANGED <<stored, up, consensus, initialized, handlers, used, panicked, requests, crashes>>

Crash ==
    /\ up /\ crashes < MaxCrashes
    /\ crashes' = crashes + 1
    /\ up' = FALSE /\ consensus' = None /\ initialized' = FALSE /\ running' = FALSE
    /\ handlers' = [h \in Handlers |-> Idle]
    /\ UNCHANGED <<stored, used, panicked, requests>>

-----------------------------------------------------------------------------
(* Requests to create or join a consensus                                   *)

At(h, stage) == up /\ handlers[h].stage = stage

\* A request is let through while the consensus is not set; an invite is
\* followed to the node that wrote it first.
Begin(h, f) ==
    /\ At(h, "idle") /\ consensus = None
    /\ f \notin used
    /\ handlers' = [handlers EXCEPT ![h] = [stage |-> IF f \in Created THEN "init" ELSE "fetch", fed |-> f]]
    /\ used' = IF f \in Created THEN used \cup {f} ELSE used
    /\ UNCHANGED <<stored, up, consensus, initialized, running, panicked, crashes>>

Request(h, f) ==
    /\ requests < MaxRequests /\ requests' = requests + 1
    /\ Begin(h, f)

Fetch(h) ==
    /\ At(h, "fetch")
    /\ handlers' = [handlers EXCEPT ![h].stage = "init"]
    /\ UNCHANGED <<stored, up, consensus, initialized, running, used, panicked, requests, crashes>>

\* Consensus::init stores the parameters, or the request fails.
ConsensusInit(h) ==
    /\ At(h, "init")
    /\ IF InitTxAccepts(handlers[h].fed)
       THEN stored' = handlers[h].fed /\ handlers' = [handlers EXCEPT ![h].stage = "open"]
       ELSE handlers' = [handlers EXCEPT ![h] = Idle] /\ UNCHANGED stored
    /\ UNCHANGED <<up, consensus, initialized, running, used, panicked, requests, crashes>>

OpenInternal(h) ==
    /\ At(h, "open")
    /\ handlers' = [handlers EXCEPT ![h].stage = "set"]
    /\ UNCHANGED <<stored, up, consensus, initialized, running, used, panicked, requests, crashes>>

\* Mutant: waiting tasks are woken before the consensus is set.
SetConsensusLater(h) ==
    /\ At(h, "set")
    /\ initialized' = TRUE
    /\ handlers' = [handlers EXCEPT ![h].stage = "notify"]
    /\ UNCHANGED <<stored, up, consensus, running, used, panicked, requests, crashes>>

\* `self.consensus.set(..).ok().expect("Can't be initialized twice")`
SetConsensus(h) ==
    /\ At(h, "set")
    /\ IF consensus = None
       THEN /\ consensus' = handlers[h].fed
            /\ handlers' = [handlers EXCEPT ![h].stage = "notify"]
            /\ UNCHANGED panicked
       ELSE /\ panicked' = TRUE
            /\ handlers' = [handlers EXCEPT ![h] = Idle]
            /\ UNCHANGED consensus
    /\ UNCHANGED <<stored, up, initialized, running, used, requests, crashes>>

Notify(h) ==
    /\ At(h, "notify")
    /\ initialized' = TRUE
    /\ handlers' = [handlers EXCEPT ![h] = Idle]
    /\ UNCHANGED <<stored, up, consensus, running, used, panicked, requests, crashes>>

\* A request to join fails on the way, is dropped after 30 seconds, or with its
\* client, while it waits for the node it asks.  From there on it does not wait:
\* transactions run in place.
GiveUp(h) ==
    /\ At(h, "fetch")
    /\ requests < MaxRequests /\ requests' = requests + 1
    /\ handlers' = [handlers EXCEPT ![h] = Idle]
    /\ UNCHANGED <<stored, up, consensus, initialized, running, used, panicked, crashes>>

HandlerStep(h) == Fetch(h) \/ ConsensusInit(h) \/ OpenInternal(h) \/ SetConsensus(h) \/ Notify(h)

Next ==
    \/ \E f \in Feds : Command(f)
    \/ Start \/ Run \/ Crash
    \/ \E h \in Handlers, f \in Feds : Request(h, f)
    \/ \E h \in Handlers : HandlerStep(h) \/ GiveUp(h)

Spec == Init /\ [][Next]_vars

\* Tasks are polled, and the user has the node started.
FairSpec ==
    /\ Spec
    /\ WF_vars(Start) /\ WF_vars(Run)
    /\ \A h \in Handlers : WF_vars(HandlerStep(h))

-----------------------------------------------------------------------------
(* Properties                                                               *)

\* A node never changes its federation, whatever requests race or are repeated
\* and wherever it crashes (init_tx).
OneFederation ==
    [][stored # None => stored' = stored]_vars

\* The process runs the federation of its database, and whoever waits for the
\* consensus finds it set (the expect of consensus_wait).
ConsensusIsThere ==
    /\ consensus # None => consensus = stored
    /\ initialized => consensus # None

\* A federation that is in the database is eventually run, even if the process
\* stops before the request that stored it sets the consensus: the restart opens
\* it, and tells whoever waits (Consensus::open, consensus_initialized_tx).
StoredIsRun ==
    stored # None ~> running

\* Does not hold: no request finds the consensus set already, "Can't be
\* initialized twice".
InitializedOnce == ~panicked

=============================================================================
