---------------------- MODULE FinalityThreshold_proofs ----------------------
(***************************************************************************)
(* Two sets of voters that reach the threshold share a steady voter: the   *)
(* assumption on which FastFinality rests.                                 *)
(***************************************************************************)
EXTENDS FinalityThreshold, FiniteSetTheorems, TLAPS

\* The votes for two blocks that both reach the threshold of
\* verifyFinalitySignatures come from a common voter outside any given third:
\* with fewer than a third of the voters faulty or rewound, quorums by count
\* satisfy QuorumAssumption of FastFinality.
THEOREM CountQuorumsIntersect ==
    ASSUME NEW Voters, IsFiniteSet(Voters),
           NEW Faulty \in SUBSET Voters,
           3 * Cardinality(Faulty) < Cardinality(Voters),
           NEW P \in CountQuorums(Voters), NEW Q \in CountQuorums(Voters)
    PROVE  P \cap Q \cap (Voters \ Faulty) # {}
<1> DEFINE n == Cardinality(Voters)
           t == finalityThreshold(n)
<1>1. /\ P \subseteq Voters /\ Q \subseteq Voters
      /\ Cardinality(P) >= t /\ Cardinality(Q) >= t
      BY DEF CountQuorums
<1>2. /\ IsFiniteSet(P) /\ IsFiniteSet(Q) /\ IsFiniteSet(Faulty)
      /\ IsFiniteSet(P \cup Q) /\ IsFiniteSet(P \cap Q)
      /\ Cardinality(P \cup Q) <= n
  <2>1. IsFiniteSet(P) /\ IsFiniteSet(Q) /\ IsFiniteSet(Faulty)
        BY <1>1, FS_Subset
  <2>2. P \cup Q \subseteq Voters /\ P \cap Q \subseteq Voters
        BY <1>1
  <2>3. QED  BY <2>1, <2>2, FS_Subset
<1>3. /\ n \in Nat /\ Cardinality(P) \in Nat /\ Cardinality(Q) \in Nat
      /\ Cardinality(P \cup Q) \in Nat /\ Cardinality(P \cap Q) \in Nat
      /\ Cardinality(Faulty) \in Nat
      BY <1>2, FS_CardinalityType
<1>4. Cardinality(P \cup Q)
        = Cardinality(P) + Cardinality(Q) - Cardinality(P \cap Q)
      BY <1>2, FS_Union
<1>5. 3 * t > 2 * n
  <2> HIDE DEF n
  <2> QED  BY <1>3 DEF finalityThreshold
<1>6. Cardinality(P \cap Q) > Cardinality(Faulty)
  <2> HIDE DEF n
  <2>1. t \in Int
        BY <1>3 DEF finalityThreshold
  <2>2. 3 * Cardinality(Faulty) < n
        BY DEF n
  <2> HIDE DEF t
  <2> QED  BY <1>1, <1>2, <1>3, <1>4, <1>5, <2>1, <2>2
<1>7. ~ (P \cap Q \subseteq Faulty)
      BY <1>2, <1>3, <1>6, FS_Subset
<1> QED  BY <1>1, <1>7
=============================================================================
