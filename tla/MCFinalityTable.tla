--------------------------- MODULE MCFinalityTable ---------------------------
(***************************************************************************)
(* Five peers, of which p1 is the node itself and four start as members.   *)
(***************************************************************************)
EXTENDS FinalityTable

CONSTANTS p1, p2, p3, p4, p5

FourPeers == {p1, p2, p3, p4}
FivePeers == {p1, p2, p3, p4, p5}

=============================================================================
