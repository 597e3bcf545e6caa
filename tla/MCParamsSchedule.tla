--------------------------- MODULE MCParamsSchedule ---------------------------
(***************************************************************************)
(* Instances of ParamsSchedule.  The delay is scaled down from 32 rounds.  *)
(***************************************************************************)
EXTENDS ParamsSchedule

\* A block adds or removes a member, or two, or replaces one, or changes nothing.
UpToTwo == {<<>>, <<1>>, <<-1>>, <<1, 1>>, <<-1, -1>>, <<-1, 1>>}

=============================================================================
