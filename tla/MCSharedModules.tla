-------------------------- MODULE MCSharedModules --------------------------
(***************************************************************************)
(* Instances of SharedModules.                                             *)
(***************************************************************************)
EXTENDS SharedModules, TLC

=============================================================================
