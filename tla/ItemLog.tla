------------------------------- MODULE ItemLog -------------------------------
(***************************************************************************)
(* What the application promises about the consensus items of the final    *)
(* chain: they are handed to the modules in chain order, none is left out, *)
(* and a block that was completed is never returned to; the block being    *)
(* processed may be started over.  `log` lists the items in the order in   *)
(* which they were handed over, an item being its position <<block, index>> *)
(* in the chain, and `done` counts the completed blocks.                   *)
(***************************************************************************)
EXTENDS Integers, Sequences

CONSTANT Blocks                  \* records with a field `items`, a sequence

VARIABLES chain, log, done

logVars == <<chain, log, done>>

Positions == UNION {{b} \X DOMAIN chain[b].items : b \in DOMAIN chain}

Before(p, q) == p[1] < q[1] \/ (p[1] = q[1] /\ p[2] < q[2])

\* `p` is the first item after everything in the log so far.
IsNext(p) ==
    /\ p \in Positions
    /\ log # <<>> => Before(log[Len(log)], p)
    /\ \A q \in Positions :
          Before(q, p) => log # <<>> /\ ~Before(log[Len(log)], q)

Init == chain = <<>> /\ log = <<>> /\ done = 0

Extend ==
    /\ \E b \in Blocks : chain' = Append(chain, b)
    /\ UNCHANGED <<log, done>>

Process ==
    /\ \E p \in Positions :
          p[1] = done + 1 /\ IsNext(p) /\ log' = Append(log, p)
    /\ UNCHANGED <<chain, done>>

Complete ==
    /\ done < Len(chain)
    /\ \A p \in Positions : p[1] = done + 1 => log # <<>> /\ ~Before(log[Len(log)], p)
    /\ done' = done + 1
    /\ UNCHANGED <<chain, log>>

StartOver ==
    /\ log # <<>>
    /\ LET last == log[Len(log)] IN
          /\ last[1] > done
          /\ \E i \in 1 .. last[2] : log' = Append(log, <<last[1], i>>)
    /\ UNCHANGED <<chain, done>>

Spec == Init /\ [][Extend \/ Process \/ Complete \/ StartOver]_logVars

=============================================================================
