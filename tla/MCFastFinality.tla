--------------------------- MODULE MCFastFinality ---------------------------
(***************************************************************************)
(* Instances of FastFinality with voters of equal weight.                  *)
(***************************************************************************)
EXTENDS FastFinality, FinalityThreshold, TLC

CONSTANTS f, g, r, v, v1, v2, v3, p, q

VoteQuorums == CountQuorums(Voters)

FaultySealer == <<f>>
MixedSealers == <<f, v>>

SamePayloads == Permutations({p, q})
SameVoters == Permutations({v1, v2, v3}) \cup Permutations({p, q})

=============================================================================
