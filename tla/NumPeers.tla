------------------------------ MODULE NumPeers ------------------------------
(***************************************************************************)
(* Quorum arithmetic of a federation                                       *)
(* (crates/consensus-core/src/num_peers.rs).                               *)
(***************************************************************************)
EXTENDS Integers

\* `self.total().saturating_sub(1) / 3`
MaxFaulty(n) == (IF n = 0 THEN 0 ELSE n - 1) \div 3

\* Mutant: right only when n = 3 * max_faulty + 1.
ThresholdTwoFPlusOne(n) == 2 * MaxFaulty(n) + 1

\* `self.total() - self.max_faulty()`
Threshold(n) == n - MaxFaulty(n)

=============================================================================
