------------------------- MODULE FinalityThreshold -------------------------
(***************************************************************************)
(* The number of votes that justifies a block before Tripp, when every     *)
(* vote counts one.                                                        *)
(***************************************************************************)
EXTENDS Integers, FiniteSets

\* floor(finalityRatio * n) + 1 with finalityRatio = 2/3.
finalityThreshold(n) == (2 * n) \div 3 + 1

\* The sets of voters whose votes reach the threshold.
CountQuorums(voters) ==
    {Q \in SUBSET voters : Cardinality(Q) >= finalityThreshold(Cardinality(voters))}
=============================================================================
