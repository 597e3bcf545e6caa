--------------------------- MODULE MCNodeLifecycle ---------------------------
(***************************************************************************)
(* Instances of NodeLifecycle.                                             *)
(***************************************************************************)
EXTENDS NodeLifecycle, TLC

CONSTANTS created1, created2, invited1, invited2, h1, h2

AnyHandler == Permutations({h1, h2})

=============================================================================
