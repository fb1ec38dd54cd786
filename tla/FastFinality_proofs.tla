------------------------ MODULE FastFinality_proofs ------------------------
(***************************************************************************)
(* Proofs about FastFinality, for every set of voters, every family of     *)
(* quorums that meets QuorumAssumption, and every bound.                   *)
(***************************************************************************)
EXTENDS FastFinality, SequenceTheorems, WellFoundedInduction, TLAPS

-----------------------------------------------------------------------------
(* Numbers *)

\* Every non-empty set of naturals has a least member.  The least block that
\* would contradict finality is picked with it.
LEMMA LeastNumber ==
    ASSUME NEW T, T \subseteq Nat, T # {}
    PROVE  \E x \in T : \A y \in T : x <= y
<1> DEFINE R == OpToRel(<, Nat)
<1>1. IsWellFoundedOn(R, Nat)
  BY NatLessThanWellFounded, Zenon
<1>2. PICK x \in T : \A y \in T : ~(<<y, x>> \in R)
  <2> HIDE DEF R
  <2> QED BY <1>1, WFMin, Zenon
<1>3. \A y \in T : ~(y < x)
  BY <1>2, Zenon DEF OpToRel
<1> QED BY <1>3

\* Max, which GetJustifiedBlock and GetFinalizedBlock use, returns the
\* greatest member of a non-empty set of naturals that has a bound.
LEMMA MaxOfBounded ==
    ASSUME NEW T, T \subseteq Nat, T # {}, NEW k \in Nat, \A x \in T : x <= k
    PROVE  Max(T) \in T /\ \A y \in T : y <= Max(T)
<1> DEFINE D == {k - x : x \in T}
<1>1. D \subseteq Nat /\ D # {}
  <2>1. ASSUME NEW x \in T PROVE k - x \in Nat
    OBVIOUS
  <2>2. PICK t \in T : TRUE
    BY Zenon
  <2>3. k - t \in D
    OBVIOUS
  <2> QED BY <2>1, <2>3
<1>2. PICK d \in D : \A y \in D : d <= y
  BY <1>1, LeastNumber, Zenon
<1>3. PICK m \in T : d = k - m
  OBVIOUS
<1>4. \A y \in T : m >= y
  <2> TAKE y \in T
  <2>1. k - y \in D
    OBVIOUS
  <2>2. d <= k - y
    BY <1>2, <2>1
  <2> QED BY <1>3, <2>2
<1> HIDE DEF D
<1>5. \E x \in T : \A y \in T : x >= y
  BY <1>4
<1> QED BY <1>5, Zenon DEF Max

-----------------------------------------------------------------------------
(* Chains *)

\* The ancestor of a block at a number is the prefix of that length.
LEMMA AncestorFacts ==
    ASSUME NEW b \in Block, NEW n \in 0 .. Number(b)
    PROVE  /\ Ancestor(b, n) \in Block
           /\ Number(Ancestor(b, n)) = n
           /\ \A i \in 1 .. n : Ancestor(b, n)[i] = b[i]
<1>1. \A i \in 1 .. n : b[i] \in Header
  BY ElementOfSeq DEF Block, Number
<1>2. n \in Nat /\ Number(b) \in Nat
  BY LenProperties DEF Block, Number
<1> QED BY <1>1, <1>2, SubSeqProperties DEF Ancestor, Block, Number

\* An ancestor of an ancestor is an ancestor.
LEMMA AncestorOfAncestor ==
    ASSUME NEW b \in Block, NEW n \in 0 .. Number(b), NEW m \in 0 .. n
    PROVE  Ancestor(Ancestor(b, n), m) = Ancestor(b, m)
<1>1. Number(b) \in Nat
  BY LenProperties DEF Block, Number
<1>2. m \in 0 .. Number(b) /\ m \in 0 .. Number(Ancestor(b, n))
  BY <1>1, AncestorFacts
<1>3. Ancestor(b, n) \in Block
  BY AncestorFacts
<1> DEFINE x == Ancestor(Ancestor(b, n), m)
           y == Ancestor(b, m)
<1>4. x \in Block /\ Number(x) = m /\ \A i \in 1 .. m : x[i] = Ancestor(b, n)[i]
  BY <1>2, <1>3, AncestorFacts
<1>5. y \in Block /\ Number(y) = m /\ \A i \in 1 .. m : y[i] = b[i]
  BY <1>2, AncestorFacts
<1>6. \A i \in 1 .. m : i \in 1 .. n /\ Ancestor(b, n)[i] = b[i]
  BY AncestorFacts
<1> HIDE DEF x, y
<1>7. x = y
  BY <1>4, <1>5, <1>6, SeqEqual DEF Block, Number
<1> QED BY <1>7 DEF x, y

\* Two facts about the ends of a chain.
LEMMA AncestorEnds ==
    ASSUME NEW b \in Block
    PROVE  /\ Ancestor(b, 0) = Genesis
           /\ Ancestor(b, Number(b)) = b
<1>1. Ancestor(b, 0) = Genesis
  BY SubSeqEmpty DEF Ancestor, Genesis
<1>2. Ancestor(b, Number(b)) = b
  BY SubSeqFull DEF Ancestor, Number, Block
<1> QED BY <1>1, <1>2

\* A sealed block is its parent with one more header.
LEMMA AppendFacts ==
    ASSUME NEW b \in Block, NEW h \in Header
    PROVE  /\ Append(b, h) \in Block
           /\ Number(Append(b, h)) = Number(b) + 1
           /\ Append(b, h)[Number(b) + 1] = h
           /\ \A n \in 1 .. Number(b) : Append(b, h)[n] = b[n]
           /\ \A n \in 0 .. Number(b) : Ancestor(Append(b, h), n) = Ancestor(b, n)
<1> DEFINE c == Append(b, h)
<1>1. /\ c \in Block /\ Number(c) = Number(b) + 1 /\ c[Number(b) + 1] = h
      /\ \A n \in 1 .. Number(b) : c[n] = b[n]
  BY AppendProperties DEF Block, Number
<1> HIDE DEF c
<1>2. Number(b) \in Nat
  BY LenProperties DEF Block, Number
<1>3. ASSUME NEW n \in 0 .. Number(b) PROVE Ancestor(c, n) = Ancestor(b, n)
  <2>1. /\ Ancestor(c, n) \in Block /\ Number(Ancestor(c, n)) = n
        /\ \A i \in 1 .. n : Ancestor(c, n)[i] = c[i]
    <3>1. n \in 0 .. Number(c)
      BY <1>1, <1>2
    <3> QED BY <1>1, <3>1, AncestorFacts
  <2>2. /\ Ancestor(b, n) \in Block /\ Number(Ancestor(b, n)) = n
        /\ \A i \in 1 .. n : Ancestor(b, n)[i] = b[i]
    BY AncestorFacts
  <2>3. \A i \in 1 .. n : c[i] = b[i]
    BY <1>1, <1>2
  <2> QED BY <2>1, <2>2, <2>3, SeqEqual DEF Block, Number
<1> QED BY <1>1, <1>3, Zenon DEF c

\* What GetJustifiedBlock returns: no header above it carries votes for a
\* higher block, and when it is not 0 the next header carries votes for it.
LEMMA JustifiedFacts ==
    ASSUME NEW b \in Block
    PROVE  LET j == GetJustifiedBlock(b)
           IN  /\ j \in 0 .. Number(b)
               /\ \A n \in 1 .. Number(b) : b[n].hasFinalityVote => n - 1 <= j
               /\ j # 0 => j + 1 \in 1 .. Number(b) /\ b[j + 1].hasFinalityVote
<1> DEFINE M == {m \in 1 .. Number(b) : b[m].hasFinalityVote}
           T == {0} \cup {n - 1 : n \in M}
<1>1. Number(b) \in Nat
  BY LenProperties DEF Block, Number
<1>2. M \subseteq 1 .. Number(b)
  OBVIOUS
<1>3. ASSUME NEW x \in T PROVE x \in 0 .. Number(b)
  <2>1. CASE x = 0
    BY <1>1, <2>1
  <2>2. CASE x # 0
    <3>1. PICK n \in M : x = n - 1
      BY <2>2
    <3> QED BY <1>1, <1>2, <3>1
  <2> QED BY <2>1, <2>2
<1>4. 0 \in T
  OBVIOUS
<1>5. \A n \in M : n - 1 \in T
  OBVIOUS
<1>6. \A x \in T : x # 0 => \E n \in M : x = n - 1
  OBVIOUS
<1>7. T \subseteq Nat /\ T # {} /\ \A x \in T : x <= Number(b)
  BY <1>1, <1>3, <1>4
<1>8. GetJustifiedBlock(b) = Max(T)
  BY DEF GetJustifiedBlock
<1> HIDE DEF T
<1>9. Max(T) \in T /\ \A y \in T : y <= Max(T)
  BY <1>1, <1>7, MaxOfBounded, Zenon
<1>10. \A n \in 1 .. Number(b) : b[n].hasFinalityVote => n - 1 <= Max(T)
  BY <1>5, <1>9
<1>11. ASSUME Max(T) # 0
       PROVE  Max(T) + 1 \in 1 .. Number(b) /\ b[Max(T) + 1].hasFinalityVote
  <2>1. PICK n \in M : Max(T) = n - 1
    BY <1>6, <1>9, <1>11
  <2>2. Max(T) + 1 = n
    BY <1>1, <1>2, <2>1
  <2> QED BY <2>1, <2>2
<1> QED BY <1>3, <1>8, <1>9, <1>10, <1>11

\* What GetFinalizedBlock returns, when it is not 0: a block whose child and
\* grandchild both carry votes.
LEMMA FinalizedFacts ==
    ASSUME NEW b \in Block
    PROVE  LET n == GetFinalizedBlock(b)
           IN  /\ n \in 0 .. Number(b)
               /\ n # 0 => /\ n + 1 \in 1 .. Number(b) /\ b[n + 1].hasFinalityVote
                           /\ n + 2 \in 1 .. Number(b) /\ b[n + 2].hasFinalityVote
<1> DEFINE M == {n \in 1 .. Number(b) - 2 :
                    b[n + 1].hasFinalityVote /\ b[n + 2].hasFinalityVote}
           T == {0} \cup M
<1>1. Number(b) \in Nat
  BY LenProperties DEF Block, Number
<1>2. \A x \in T : x \in 0 .. Number(b)
  BY <1>1
<1>3. T \subseteq Nat /\ T # {} /\ \A x \in T : x <= Number(b)
  BY <1>1, <1>2
<1>4. GetFinalizedBlock(b) = Max(T)
  BY DEF GetFinalizedBlock
<1>5. \A x \in T : x # 0 => x \in M
  OBVIOUS
<1> HIDE DEF T
<1>6. Max(T) \in T
  BY <1>1, <1>3, MaxOfBounded, Zenon
<1>7. Max(T) # 0 => Max(T) \in M
  BY <1>5, <1>6
<1>8. \A x \in M : /\ x + 1 \in 1 .. Number(b) /\ b[x + 1].hasFinalityVote
                   /\ x + 2 \in 1 .. Number(b) /\ b[x + 2].hasFinalityVote
  BY <1>1
<1> HIDE DEF M
<1> QED BY <1>2, <1>4, <1>6, <1>7, <1>8

-----------------------------------------------------------------------------
(* The inductive invariant *)

\* The votes of v that exist: published, or recorded and not yet sent.
Signed(v) == votes[v] \cup unsent[v]

\* The tree of blocks holds every ancestor of its members.
TreeClosed == \A b \in blocks : \A n \in 0 .. Number(b) : Ancestor(b, n) \in blocks

\* A header in the tree carries votes only if its parent reached the threshold.
FlagsEarned ==
    \A b \in blocks : \A n \in 1 .. Number(b) :
        b[n].hasFinalityVote => ReachesThreshold(Ancestor(b, n - 1))

\* The database holds a number at least as high as every vote that was signed.
HeightRecorded ==
    \A v \in Honest : \A b \in Signed(v) : Number(b) <= highestFinalityVote[v]

\* Rule 1, for signed votes.
OneVotePerHeight ==
    \A v \in Honest : \A a, b \in Signed(v) : Number(a) = Number(b) => a = b

\* The justified block number never falls from the votes of a steady voter,
\* through its queue of head events in order, to its head.
EventsAscend ==
    \A v \in Steady :
        /\ \A i, k \in 1 .. Len(chainHeadCh[v]) : i <= k =>
             GetJustifiedBlock(chainHeadCh[v][i]) <= GetJustifiedBlock(chainHeadCh[v][k])
        /\ \A i \in 1 .. Len(chainHeadCh[v]) :
             GetJustifiedBlock(chainHeadCh[v][i]) <= GetJustifiedBlock(head[v])
        /\ \A b \in Signed(v) : \A i \in 1 .. Len(chainHeadCh[v]) :
             GetJustifiedBlock(b) <= GetJustifiedBlock(chainHeadCh[v][i])
        /\ \A b \in Signed(v) : GetJustifiedBlock(b) <= GetJustifiedBlock(head[v])

\* VotesFollowJustified, for signed votes.
SignedFollowJustified ==
    \A v \in Steady : \A a, b \in Signed(v) :
        Number(a) < Number(b) => GetJustifiedBlock(a) <= GetJustifiedBlock(b)

IInv ==
    /\ TypeOK
    /\ TreeClosed
    /\ FlagsEarned
    /\ HeightRecorded
    /\ OneVotePerHeight
    /\ EventsAscend
    /\ SignedFollowJustified

-----------------------------------------------------------------------------
(* What the steps have in common *)

\* Published votes stay published, so a block that reached the threshold keeps it.
LEMMA ThresholdStays ==
    ASSUME \A v \in Honest : votes[v] \subseteq votes'[v]
    PROVE  \A b : ReachesThreshold(b) => ReachesThreshold(b)'
BY DEF ReachesThreshold, VotersOf

\* reorgNeeded never prefers a chain with a lower justified block.
LEMMA ReorgKeepsJustified ==
    ASSUME NEW local \in Block, NEW extern \in Block,
           TRUE \in reorgNeeded(local, extern)
    PROVE  GetJustifiedBlock(local) <= GetJustifiedBlock(extern)
<1>1. GetJustifiedBlock(local) \in Int /\ GetJustifiedBlock(extern) \in Int
  BY JustifiedFacts, LenProperties DEF Number, Block
<1> DEFINE d == GetJustifiedBlock(extern) - GetJustifiedBlock(local)
           up == d > 0
<1>2. d = 0 \/ TRUE \in {up}
  BY Zenon DEF reorgNeeded
<1>3. d = 0 \/ up
  <2> HIDE DEF up
  <2> QED BY <1>2, Zenon
<1> QED BY <1>1, <1>3

\* A new head with a justified block at least as high, put at the end of the
\* queue, keeps the queue in order.
LEMMA SetHeadAscends ==
    ASSUME TypeOK, EventsAscend, NEW w \in Honest, NEW c \in Block,
           GetJustifiedBlock(head[w]) <= GetJustifiedBlock(c),
           SetHead(w, c), UNCHANGED <<unsent, votes>>
    PROVE  EventsAscend'
<1> DEFINE J(b) == GetJustifiedBlock(b)
<1>1. \A b \in Block : J(b) \in Int
  BY JustifiedFacts, LenProperties DEF Number, Block
<1> SUFFICES ASSUME NEW v \in Steady
             PROVE  /\ \A i, k \in 1 .. Len(chainHeadCh'[v]) : i <= k =>
                         J(chainHeadCh'[v][i]) <= J(chainHeadCh'[v][k])
                    /\ \A i \in 1 .. Len(chainHeadCh'[v]) :
                         J(chainHeadCh'[v][i]) <= J(head'[v])
                    /\ \A b \in Signed(v) : \A i \in 1 .. Len(chainHeadCh'[v]) :
                         J(b) <= J(chainHeadCh'[v][i])
                    /\ \A b \in Signed(v) : J(b) <= J(head'[v])
  BY DEF EventsAscend, Signed
<1>2. v \in Honest
  BY DEF Steady
<1>3. /\ \A i, k \in 1 .. Len(chainHeadCh[v]) : i <= k =>
           J(chainHeadCh[v][i]) <= J(chainHeadCh[v][k])
      /\ \A i \in 1 .. Len(chainHeadCh[v]) : J(chainHeadCh[v][i]) <= J(head[v])
      /\ \A b \in Signed(v) : \A i \in 1 .. Len(chainHeadCh[v]) :
           J(b) <= J(chainHeadCh[v][i])
      /\ \A b \in Signed(v) : J(b) <= J(head[v])
  BY DEF EventsAscend
<1>4. CASE v # w
  <2>1. chainHeadCh'[v] = chainHeadCh[v] /\ head'[v] = head[v]
    BY <1>2, <1>4 DEF SetHead, TypeOK
  <2> QED BY <1>3, <2>1
<1>5. CASE v = w
  <2> DEFINE q == chainHeadCh[v]
             n == Len(q)
  <2>1. head'[v] = c /\ chainHeadCh'[v] = Append(q, c)
    BY <1>2, <1>5 DEF SetHead, TypeOK
  <2>2. q \in Seq(Block) /\ head[v] \in Block /\ Signed(v) \subseteq Block
    BY <1>2, SeqMonotonic DEF TypeOK, Signed
  <2>3. /\ Len(chainHeadCh'[v]) = n + 1 /\ chainHeadCh'[v][n + 1] = c /\ n \in Nat
        /\ \A i \in 1 .. n : chainHeadCh'[v][i] = q[i] /\ q[i] \in Block
    BY <2>1, <2>2, AppendProperties, LenProperties, ElementOfSeq
  <2>4. J(head[v]) <= J(c)
    BY <1>5
  <2>5. \A i \in 1 .. n : J(q[i]) <= J(c)
    BY <1>1, <1>3, <2>2, <2>3, <2>4
  <2>6. \A b \in Signed(v) : J(b) <= J(c)
    BY <1>1, <1>3, <2>2, <2>4
  <2>7. \A i \in 1 .. n + 1 : i \in 1 .. n \/ i = n + 1
    BY <2>3
  <2> HIDE DEF J, q, n
  <2>8. \A i \in 1 .. n + 1 : J(chainHeadCh'[v][i]) <= J(c)
    BY <1>1, <2>3, <2>5, <2>7
  <2>9. \A i, k \in 1 .. n + 1 : i <= k =>
          J(chainHeadCh'[v][i]) <= J(chainHeadCh'[v][k])
    <3> SUFFICES ASSUME NEW i \in 1 .. n + 1, NEW k \in 1 .. n + 1, i <= k
                 PROVE  J(chainHeadCh'[v][i]) <= J(chainHeadCh'[v][k])
      OBVIOUS
    <3>1. CASE k = n + 1
      BY <2>3, <2>8, <3>1
    <3>2. CASE k # n + 1
      <4>1. i \in 1 .. n /\ k \in 1 .. n
        BY <2>3, <3>2
      <4>2. J(q[i]) <= J(q[k])
        BY <1>3, <4>1 DEF q, n
      <4> QED BY <2>3, <4>1, <4>2
    <3> QED BY <3>1, <3>2
  <2>10. \A b \in Signed(v) : \A i \in 1 .. n + 1 : J(b) <= J(chainHeadCh'[v][i])
    BY <1>3, <2>3, <2>6, <2>7 DEF q, n
  <2> QED BY <2>1, <2>3, <2>6, <2>8, <2>9, <2>10
<1> QED BY <1>4, <1>5

-----------------------------------------------------------------------------
(* The steps *)

LEMMA InitIInv == Init => IInv
<1> SUFFICES ASSUME Init PROVE IInv
  OBVIOUS
<1> USE DEF Init
<1>1. Genesis \in Block /\ Number(Genesis) = 0
  BY EmptySeq DEF Genesis, Block, Number
<1>2. TypeOK
  <2>1. << >> \in Seq(blocks)
    BY EmptySeq
  <2> QED BY <1>1, <2>1 DEF TypeOK
<1>3. TreeClosed
  BY <1>1, AncestorEnds DEF TreeClosed
<1>4. FlagsEarned
  BY <1>1 DEF FlagsEarned
<1>5. HeightRecorded /\ OneVotePerHeight
  BY DEF HeightRecorded, OneVotePerHeight, Signed
<1>6. EventsAscend /\ SignedFollowJustified
  <2>1. \A v \in Steady : chainHeadCh[v] = << >> /\ Signed(v) = {}
    BY DEF Steady, Signed
  <2>2. Len(<< >>) = 0
    BY EmptySeq
  <2> QED BY <2>1, <2>2 DEF EventsAscend, SignedFollowJustified
<1> QED BY <1>2, <1>3, <1>4, <1>5, <1>6 DEF IInv

LEMMA SealIInv ==
    ASSUME IInv, NEW w \in Range(BlockProducers), NEW parent \in blocks,
           NEW payload \in Payloads, NEW flag \in BOOLEAN,
           Seal(w, parent, payload, flag)
    PROVE  IInv'
<1> DEFINE h == [signer |-> w, payload |-> payload, hasFinalityVote |-> flag]
           c == Append(parent, h)
<1>1. h \in Header /\ h.hasFinalityVote = flag
  <2>1. w \in Voters
    BY ProducersAssumption, ElementOfSeq, LenProperties DEF Range
  <2> QED BY <2>1 DEF Header
<1>2. parent \in Block
  BY DEF IInv, TypeOK
<1> HIDE DEF h
<1>3. /\ c \in Block /\ Number(c) = Number(parent) + 1 /\ Number(parent) \in Nat
      /\ c[Number(c)] = h
      /\ \A n \in 1 .. Number(parent) : c[n] = parent[n]
      /\ \A n \in 0 .. Number(parent) : Ancestor(c, n) = Ancestor(parent, n)
      /\ Ancestor(c, Number(c)) = c /\ Ancestor(parent, Number(parent)) = parent
  <2>1. Number(parent) \in Nat
    BY <1>2, LenProperties DEF Block, Number
  <2>2. /\ c \in Block /\ Number(c) = Number(parent) + 1
        /\ c[Number(parent) + 1] = h
        /\ \A n \in 1 .. Number(parent) : c[n] = parent[n]
        /\ \A n \in 0 .. Number(parent) : Ancestor(c, n) = Ancestor(parent, n)
    BY <1>1, <1>2, AppendFacts, Zenon
  <2> HIDE DEF c
  <2> QED BY <1>2, <2>1, <2>2, AncestorEnds
<1>4. /\ flag => ReachesThreshold(parent)
      /\ blocks' = blocks \cup {c}
      /\ UNCHANGED <<highestFinalityVote, unsent, votes>>
      /\ \/ w \in Honest /\ TRUE \in reorgNeeded(head[w], c) /\ SetHead(w, c)
         \/ UNCHANGED <<head, chainHeadCh>>
  BY Zenon DEF Seal, h
<1> HIDE DEF c
<1>5. TypeOK'
  <2>1. \A q \in Seq(blocks) : q \in Seq(blocks')
    BY <1>4, SeqMonotonic
  <2>2. \A q \in Seq(blocks) : Append(q, c) \in Seq(blocks')
    BY <1>4, <2>1, AppendProperties
  <2>3. head' \in [Honest -> blocks'] /\ chainHeadCh' \in [Honest -> Seq(blocks')]
    BY <1>4, <2>1, <2>2, Zenon DEF IInv, TypeOK, SetHead
  <2> QED BY <1>3, <1>4, <2>3 DEF IInv, TypeOK
<1>6. TreeClosed'
  <2>1. ASSUME NEW n \in 0 .. Number(c) PROVE Ancestor(c, n) \in blocks'
    <3>1. CASE n = Number(c)
      BY <1>3, <1>4, <3>1
    <3>2. CASE n # Number(c)
      <4>1. n \in 0 .. Number(parent)
        BY <1>3, <3>2
      <4> QED BY <1>3, <1>4, <4>1 DEF IInv, TreeClosed
    <3> QED BY <3>1, <3>2
  <2> QED BY <1>4, <2>1 DEF IInv, TreeClosed
<1>7. FlagsEarned'
  <2>1. \A b : ReachesThreshold(b) => ReachesThreshold(b)'
    BY <1>4, ThresholdStays
  <2>2. ASSUME NEW n \in 1 .. Number(c), c[n].hasFinalityVote
        PROVE  ReachesThreshold(Ancestor(c, n - 1))
    <3>1. CASE n = Number(c)
      <4>1. n - 1 = Number(parent)
        BY <1>3, <3>1
      <4>2. Ancestor(c, n - 1) = parent
        BY <1>3, <4>1
      <4> QED BY <1>1, <1>3, <1>4, <2>2, <3>1, <4>2
    <3>2. CASE n # Number(c)
      <4>1. n \in 1 .. Number(parent) /\ n - 1 \in 0 .. Number(parent)
        BY <1>3, <3>2
      <4>2. parent[n].hasFinalityVote /\ Ancestor(c, n - 1) = Ancestor(parent, n - 1)
        BY <1>3, <2>2, <4>1
      <4> QED BY <4>1, <4>2 DEF IInv, FlagsEarned
    <3> QED BY <3>1, <3>2
  <2> QED BY <1>4, <2>1, <2>2 DEF IInv, FlagsEarned
<1>8. HeightRecorded' /\ OneVotePerHeight' /\ SignedFollowJustified'
  BY <1>4 DEF IInv, HeightRecorded, OneVotePerHeight, SignedFollowJustified, Signed
<1>9. EventsAscend'
  <2>1. CASE w \in Honest /\ TRUE \in reorgNeeded(head[w], c) /\ SetHead(w, c)
    <3>1. GetJustifiedBlock(head[w]) <= GetJustifiedBlock(c)
      BY <1>3, <2>1, ReorgKeepsJustified, Zenon DEF IInv, TypeOK
    <3> QED BY <1>3, <1>4, <2>1, <3>1, SetHeadAscends DEF IInv
  <2>2. CASE UNCHANGED <<head, chainHeadCh>>
    BY <1>4, <2>2 DEF IInv, EventsAscend, Signed
  <2> QED BY <1>4, <2>1, <2>2, Zenon
<1> QED BY <1>5, <1>6, <1>7, <1>8, <1>9 DEF IInv

LEMMA InsertChainIInv ==
    ASSUME IInv, NEW w \in Honest, NEW c \in blocks, InsertChain(w, c)
    PROVE  IInv'
<1> USE DEF InsertChain
<1>1. TypeOK'
  <2>1. Append(chainHeadCh[w], c) \in Seq(blocks)
    BY AppendProperties DEF IInv, TypeOK
  <2> QED BY <2>1 DEF IInv, TypeOK, SetHead
<1>2. TreeClosed' /\ HeightRecorded' /\ OneVotePerHeight' /\ SignedFollowJustified'
  BY DEF IInv, TreeClosed, HeightRecorded, OneVotePerHeight, SignedFollowJustified, Signed
<1>3. FlagsEarned'
  BY ThresholdStays DEF IInv, FlagsEarned
<1>4. EventsAscend'
  <2>1. c \in Block /\ head[w] \in Block
    BY DEF IInv, TypeOK
  <2>2. GetJustifiedBlock(head[w]) <= GetJustifiedBlock(c)
    BY <2>1, ReorgKeepsJustified, Zenon
  <2> QED BY <2>1, <2>2, SetHeadAscends DEF IInv
<1> QED BY <1>1, <1>2, <1>3, <1>4 DEF IInv

\* Taking the first event off a queue keeps the rest in order and below the head.
LEMMA TailAscends ==
    ASSUME IInv, NEW w \in Honest, chainHeadCh[w] # << >>, UNCHANGED head,
           chainHeadCh' = [chainHeadCh EXCEPT ![w] = Tail(@)]
    PROVE  /\ Head(chainHeadCh[w]) \in blocks
           /\ chainHeadCh[w][1] = Head(chainHeadCh[w])
           /\ 1 \in 1 .. Len(chainHeadCh[w])
           /\ chainHeadCh' \in [Honest -> Seq(blocks)]
           /\ \A v \in Honest : \A i \in 1 .. Len(chainHeadCh'[v]) :
                \E k \in 1 .. Len(chainHeadCh[v]) :
                    chainHeadCh'[v][i] = chainHeadCh[v][k] /\ (v = w => k = i + 1)
           /\ \A v \in Steady : \A i, k \in 1 .. Len(chainHeadCh'[v]) : i <= k =>
                GetJustifiedBlock(chainHeadCh'[v][i]) <= GetJustifiedBlock(chainHeadCh'[v][k])
<1>1. chainHeadCh \in [Honest -> Seq(blocks)]
  BY DEF IInv, TypeOK
<1> DEFINE q == chainHeadCh[w]
<1>2. /\ Head(q) \in blocks /\ Tail(q) \in Seq(blocks) /\ Len(Tail(q)) = Len(q) - 1
      /\ Len(q) \in Nat /\ Len(q) # 0
      /\ \A i \in 1 .. Len(Tail(q)) : Tail(q)[i] = q[i + 1]
  BY <1>1, HeadTailProperties, LenProperties, EmptySeq
<1>3. q[1] = Head(q) /\ 1 \in 1 .. Len(q)
  BY <1>1, <1>2
<1>4. chainHeadCh' \in [Honest -> Seq(blocks)]
  BY <1>1, <1>2
<1>5. chainHeadCh'[w] = Tail(q) /\ \A v \in Honest : v # w => chainHeadCh'[v] = chainHeadCh[v]
  BY <1>1
<1> HIDE DEF q
<1>6. \A v \in Honest : \A i \in 1 .. Len(chainHeadCh'[v]) :
        \E k \in 1 .. Len(chainHeadCh[v]) :
            chainHeadCh'[v][i] = chainHeadCh[v][k] /\ (v = w => k = i + 1)
  <2> TAKE v \in Honest
  <2> TAKE i \in 1 .. Len(chainHeadCh'[v])
  <2>1. CASE v = w
    <3>1. i + 1 \in 1 .. Len(q) /\ i \in 1 .. Len(Tail(q))
      BY <1>2, <1>5, <2>1
    <3> QED BY <1>2, <1>5, <2>1, <3>1, Zenon DEF q
  <2>2. CASE v # w
    BY <1>5, <2>2
  <2> QED BY <2>1, <2>2
<1>7. \A v \in Steady : \A i, k \in 1 .. Len(chainHeadCh'[v]) : i <= k =>
        GetJustifiedBlock(chainHeadCh'[v][i]) <= GetJustifiedBlock(chainHeadCh'[v][k])
  <2> SUFFICES ASSUME NEW v \in Steady, NEW i \in 1 .. Len(chainHeadCh'[v]),
                      NEW k \in 1 .. Len(chainHeadCh'[v]), i <= k
               PROVE  GetJustifiedBlock(chainHeadCh'[v][i]) <= GetJustifiedBlock(chainHeadCh'[v][k])
    BY Zenon
  <2>1. v \in Honest
    BY DEF Steady
  <2>2. CASE v = w
    <3>1. i + 1 \in 1 .. Len(q) /\ k + 1 \in 1 .. Len(q) /\ i + 1 <= k + 1
      BY <1>2, <1>5, <2>2
    <3>2. GetJustifiedBlock(q[i + 1]) <= GetJustifiedBlock(q[k + 1])
      BY <2>2, <3>1 DEF IInv, EventsAscend, q
    <3> QED BY <1>2, <1>5, <2>2, <3>2, Zenon
  <2>3. CASE v # w
    BY <1>5, <2>1, <2>3 DEF IInv, EventsAscend
  <2> QED BY <2>2, <2>3
<1> QED BY <1>2, <1>3, <1>4, <1>6, <1>7, Zenon DEF q

LEMMA SkipVoteIInv ==
    ASSUME IInv, NEW w \in Honest, SkipVote(w)
    PROVE  IInv'
<1> USE DEF SkipVote
<1>1. TypeOK'
  BY TailAscends DEF IInv, TypeOK
<1>2. TreeClosed' /\ HeightRecorded' /\ OneVotePerHeight' /\ SignedFollowJustified'
  BY DEF IInv, TreeClosed, HeightRecorded, OneVotePerHeight, SignedFollowJustified, Signed
<1>3. FlagsEarned'
  BY ThresholdStays DEF IInv, FlagsEarned
<1>4. EventsAscend'
  <2>1. \A v \in Steady : v \in Honest /\ Signed(v)' = Signed(v)
    BY DEF Steady, Signed
  <2>2. \A v \in Steady : \A i \in 1 .. Len(chainHeadCh'[v]) :
          \E k \in 1 .. Len(chainHeadCh[v]) : chainHeadCh'[v][i] = chainHeadCh[v][k]
    BY <2>1, TailAscends
  <2>3. \A v \in Steady : \A i, k \in 1 .. Len(chainHeadCh'[v]) : i <= k =>
          GetJustifiedBlock(chainHeadCh'[v][i]) <= GetJustifiedBlock(chainHeadCh'[v][k])
    BY TailAscends, Zenon
  <2> QED BY <2>1, <2>2, <2>3 DEF IInv, EventsAscend
<1> QED BY <1>1, <1>2, <1>3, <1>4 DEF IInv

LEMMA SignVoteIInv ==
    ASSUME IInv, NEW w \in Honest, SignVote(w)
    PROVE  IInv'
<1> DEFINE c == Head(chainHeadCh[w])
           J(b) == GetJustifiedBlock(b)
<1>1. /\ chainHeadCh[w] # << >> /\ unsent[w] = {} /\ Number(c) > highestFinalityVote[w]
      /\ chainHeadCh' = [chainHeadCh EXCEPT ![w] = Tail(@)]
      /\ highestFinalityVote' = [highestFinalityVote EXCEPT ![w] = Number(c)]
      /\ unsent' = [unsent EXCEPT ![w] = {c}]
      /\ UNCHANGED <<blocks, head, votes>>
  BY DEF SignVote, UnderRules
<1>2. /\ c \in blocks /\ chainHeadCh[w][1] = c /\ 1 \in 1 .. Len(chainHeadCh[w])
      /\ chainHeadCh' \in [Honest -> Seq(blocks)]
      /\ \A v \in Honest : \A i \in 1 .. Len(chainHeadCh'[v]) :
           \E k \in 1 .. Len(chainHeadCh[v]) :
               chainHeadCh'[v][i] = chainHeadCh[v][k] /\ (v = w => k = i + 1)
      /\ \A v \in Steady : \A i, k \in 1 .. Len(chainHeadCh'[v]) : i <= k =>
           J(chainHeadCh'[v][i]) <= J(chainHeadCh'[v][k])
  BY <1>1, TailAscends, Zenon
<1> HIDE DEF c, J
<1>3. Number(c) \in Nat
  BY <1>2, LenProperties DEF IInv, TypeOK, Block, Number
<1>4. TypeOK'
  BY <1>1, <1>2, <1>3 DEF IInv, TypeOK
<1>5. TreeClosed'
  BY <1>1 DEF IInv, TreeClosed
<1>6. FlagsEarned'
  BY <1>1, ThresholdStays DEF IInv, FlagsEarned
<1>7. /\ \A v \in Honest : v # w => Signed(v)' = Signed(v)
      /\ Signed(w)' = Signed(w) \cup {c}
  BY <1>1 DEF IInv, TypeOK, Signed
<1>8. \A b \in Signed(w) : Number(b) <= highestFinalityVote[w] /\ Number(b) \in Nat
  <2>1. Signed(w) \subseteq Block
    BY DEF IInv, TypeOK, Signed
  <2> QED BY <2>1, LenProperties DEF IInv, HeightRecorded, Block, Number
<1>9. highestFinalityVote[w] \in Int
  BY DEF IInv, TypeOK
<1>10. \A b \in Signed(w) : Number(b) < Number(c)
  BY <1>1, <1>3, <1>8, <1>9
<1>11. HeightRecorded'
  <2>1. highestFinalityVote'[w] = Number(c)
    BY <1>1 DEF IInv, TypeOK
  <2>2. \A v \in Honest : v # w => highestFinalityVote'[v] = highestFinalityVote[v]
    BY <1>1 DEF IInv, TypeOK
  <2> QED BY <1>3, <1>7, <1>8, <1>10, <2>1, <2>2 DEF IInv, HeightRecorded
<1>12. OneVotePerHeight'
  BY <1>3, <1>7, <1>8, <1>10 DEF IInv, OneVotePerHeight
<1>13. \A b \in Signed(w) : w \in Steady => J(b) <= J(c)
  BY <1>2 DEF IInv, EventsAscend, J
<1>14. SignedFollowJustified'
  <2>1. ASSUME NEW v \in Steady, NEW a \in Signed(v)', NEW b \in Signed(v)',
               Number(a) < Number(b)
        PROVE  J(a) <= J(b)
    <3>1. v \in Honest
      BY DEF Steady
    <3>2. CASE v # w \/ (a \in Signed(w) /\ b \in Signed(w))
      BY <1>7, <2>1, <3>1, <3>2 DEF IInv, SignedFollowJustified, J
    <3>3. CASE v = w /\ a \in Signed(w) /\ b = c
      BY <1>13, <3>3
    <3>4. CASE v = w /\ a = c
      BY <1>3, <1>7, <1>10, <2>1, <3>4, <1>8
    <3> QED BY <1>7, <3>2, <3>3, <3>4
  <2> QED BY <2>1 DEF SignedFollowJustified, J
<1>15. EventsAscend'
  <2> SUFFICES ASSUME NEW v \in Steady
               PROVE  /\ \A i \in 1 .. Len(chainHeadCh'[v]) : J(chainHeadCh'[v][i]) <= J(head[v])
                      /\ \A b \in Signed(v)' : \A i \in 1 .. Len(chainHeadCh'[v]) :
                           J(b) <= J(chainHeadCh'[v][i])
                      /\ \A b \in Signed(v)' : J(b) <= J(head[v])
    BY <1>1, <1>2, Zenon DEF EventsAscend, J
  <2>1. v \in Honest
    BY DEF Steady
  <2>2. /\ \A i, k \in 1 .. Len(chainHeadCh[v]) : i <= k =>
             J(chainHeadCh[v][i]) <= J(chainHeadCh[v][k])
        /\ \A i \in 1 .. Len(chainHeadCh[v]) : J(chainHeadCh[v][i]) <= J(head[v])
        /\ \A b \in Signed(v) : \A i \in 1 .. Len(chainHeadCh[v]) :
             J(b) <= J(chainHeadCh[v][i])
        /\ \A b \in Signed(v) : J(b) <= J(head[v])
    BY DEF IInv, EventsAscend, J
  <2>3. \A i \in 1 .. Len(chainHeadCh'[v]) :
          \E k \in 1 .. Len(chainHeadCh[v]) : chainHeadCh'[v][i] = chainHeadCh[v][k]
    BY <1>2, <2>1
  <2>4. v = w => \A k \in 1 .. Len(chainHeadCh[v]) : J(c) <= J(chainHeadCh[v][k])
    BY <1>2, <2>2
  <2>5. v = w => J(c) <= J(head[v])
    BY <1>2, <2>2
  <2>6. Signed(v)' \subseteq Signed(v) \cup (IF v = w THEN {c} ELSE {})
    BY <1>7, <2>1
  <2> QED BY <2>2, <2>3, <2>4, <2>5, <2>6
<1> QED BY <1>4, <1>5, <1>6, <1>11, <1>12, <1>14, <1>15 DEF IInv

LEMMA PutVoteIInv ==
    ASSUME IInv, NEW w \in Honest, PutVote(w)
    PROVE  IInv'
<1> USE DEF PutVote
<1>1. TypeOK'
  BY DEF IInv, TypeOK
<1>2. \A v \in Honest : Signed(v)' = Signed(v)
  BY DEF IInv, TypeOK, Signed
<1>3. TreeClosed' /\ HeightRecorded' /\ OneVotePerHeight'
  BY <1>2 DEF IInv, TreeClosed, HeightRecorded, OneVotePerHeight
<1>4. \A v \in Honest : votes[v] \subseteq votes'[v]
  BY DEF IInv, TypeOK
<1>5. FlagsEarned'
  BY <1>4, ThresholdStays DEF IInv, FlagsEarned
<1>6. EventsAscend' /\ SignedFollowJustified'
  BY <1>2 DEF IInv, EventsAscend, SignedFollowJustified, Steady
<1> QED BY <1>1, <1>3, <1>5, <1>6 DEF IInv

LEMMA RestartIInv ==
    ASSUME IInv, NEW w \in Honest, Restart(w)
    PROVE  IInv'
<1> USE DEF Restart
<1>1. << >> \in Seq(blocks) /\ Len(<< >>) = 0
  BY EmptySeq
<1>2. \A v \in Honest : head'[v] = head[v] \/ v \in Rewinders
  BY DEF IInv, TypeOK
<1>3. head' \in [Honest -> blocks]
  <2>1. head \in [Honest -> blocks]
    BY DEF IInv, TypeOK
  <2>2. \A n \in 0 .. Number(head[w]) : Ancestor(head[w], n) \in blocks
    BY <2>1 DEF IInv, TreeClosed
  <2> QED BY <2>1, <2>2
<1>4. TypeOK'
  BY <1>1, <1>3, Zenon DEF IInv, TypeOK
<1>5. \A v \in Honest : Signed(v)' \subseteq Signed(v)
  BY DEF IInv, TypeOK, Signed
<1>6. TreeClosed' /\ HeightRecorded' /\ OneVotePerHeight'
  BY <1>5 DEF IInv, TreeClosed, HeightRecorded, OneVotePerHeight
<1>7. FlagsEarned'
  BY ThresholdStays DEF IInv, FlagsEarned
<1>8. SignedFollowJustified'
  BY <1>5 DEF IInv, SignedFollowJustified, Steady
<1>9. EventsAscend'
  <2> SUFFICES ASSUME NEW v \in Steady
               PROVE  /\ chainHeadCh'[v] = << >> \/ chainHeadCh'[v] = chainHeadCh[v]
                      /\ head'[v] = head[v]
                      /\ Signed(v)' \subseteq Signed(v)
    BY <1>1 DEF IInv, EventsAscend
  <2> QED BY <1>2, <1>5 DEF IInv, TypeOK, Steady
<1> QED BY <1>4, <1>6, <1>7, <1>8, <1>9 DEF IInv

LEMMA NextIInv == IInv /\ [Next]_vars => IInv'
<1> SUFFICES ASSUME IInv, [Next]_vars PROVE IInv'
  OBVIOUS
<1>1. CASE \E v \in Range(BlockProducers), parent \in blocks,
              payload \in Payloads, flag \in BOOLEAN : Seal(v, parent, payload, flag)
  BY <1>1, SealIInv
<1>2. CASE \E v \in Honest, b \in blocks : InsertChain(v, b)
  BY <1>2, InsertChainIInv
<1>3. CASE \E v \in Honest : SignVote(v)
  BY <1>3, SignVoteIInv
<1>4. CASE \E v \in Honest : SkipVote(v)
  BY <1>4, SkipVoteIInv
<1>5. CASE \E v \in Honest : PutVote(v)
  BY <1>5, PutVoteIInv
<1>6. CASE \E v \in Honest : Restart(v)
  BY <1>6, RestartIInv
<1>7. CASE UNCHANGED vars
  <2> USE <1>7 DEF vars
  <2>1. TypeOK' /\ TreeClosed'
    BY DEF IInv, TypeOK, TreeClosed
  <2>2. FlagsEarned'
    BY ThresholdStays DEF IInv, FlagsEarned
  <2>3. HeightRecorded' /\ OneVotePerHeight' /\ SignedFollowJustified'
    BY DEF IInv, HeightRecorded, OneVotePerHeight, SignedFollowJustified, Signed
  <2>4. EventsAscend'
    BY DEF IInv, EventsAscend, Signed
  <2> QED BY <2>1, <2>2, <2>3, <2>4 DEF IInv
<1> QED BY <1>1, <1>2, <1>3, <1>4, <1>5, <1>6, <1>7 DEF Next

\* The inductive invariant holds in every reachable state.
THEOREM Invariance == Spec => []IInv
BY InitIInv, NextIInv, PTL DEF Spec

-----------------------------------------------------------------------------
(* Finality *)

\* Two blocks that reach the threshold have a steady voter in common.
LEMMA CommonVoter ==
    ASSUME NEW a, NEW b, ReachesThreshold(a), ReachesThreshold(b)
    PROVE  \E v \in Steady : a \in votes[v] /\ b \in votes[v]
<1>1. PICK P \in Quorums : P \subseteq VotersOf(a)
  BY DEF ReachesThreshold
<1>2. PICK Q \in Quorums : Q \subseteq VotersOf(b)
  BY DEF ReachesThreshold
<1>3. PICK v : v \in P \cap Q \cap Steady
  BY QuorumAssumption
<1> QED BY <1>1, <1>2, <1>3 DEF VotersOf, Steady, Honest

(***************************************************************************)
(* The core of the argument: the invariant implies FinalIsFinal.  Take the *)
(* lowest block b that would contradict it.  At the height of c or of its  *)
(* parent a common voter would have voted twice.  Above, a common voter    *)
(* voted for c and later for b, so the justified block of b is at least as *)
(* high as the parent of c; it is lower than b, so it does not contradict  *)
(* finality, and b has it in its chain.                                    *)
(***************************************************************************)
LEMMA InvariantFinal == IInv => FinalIsFinal
<1> SUFFICES ASSUME IInv, NEW c \in blocks, c # Genesis,
                    c[Number(c)].hasFinalityVote, ReachesThreshold(c)
             PROVE  \A b \in blocks :
                      ReachesThreshold(b) /\ Number(b) >= Number(Parent(c))
                        => InChain(Parent(c), b)
  BY DEF FinalIsFinal
<1> DEFINE a == Parent(c)
           N == Number(c) - 1
           J(b) == GetJustifiedBlock(b)
<1>1. \A b \in blocks : b \in Block /\ Number(b) \in Nat
  BY LenProperties DEF IInv, TypeOK, Block, Number
<1>2. N \in Nat /\ Number(c) = N + 1 /\ N + 1 \in 1 .. Number(c) /\ N \in 0 .. Number(c)
  BY <1>1, EmptySeq DEF Genesis, Block, Number
<1>3. a = Ancestor(c, N) /\ a \in Block /\ Number(a) = N /\ a \in blocks
  BY <1>1, <1>2, AncestorFacts DEF Parent, IInv, TreeClosed
<1>4. ReachesThreshold(a)
  <2>1. c[N + 1].hasFinalityVote /\ (N + 1) - 1 = N
    BY <1>2
  <2> QED BY <1>2, <1>3, <2>1 DEF IInv, FlagsEarned
<1>5. J(c) >= N /\ J(c) \in Nat
  BY <1>1, <1>2, JustifiedFacts
<1>6. InChain(a, a) /\ InChain(a, c)
  BY <1>1, <1>2, <1>3, AncestorEnds DEF InChain
<1> HIDE DEF a, N, J
<1> DEFINE Bad(b) == ReachesThreshold(b) /\ Number(b) >= N /\ ~InChain(a, b)
           T == {Number(b) : b \in {x \in blocks : Bad(x)}}
<1> SUFFICES ASSUME NEW x \in blocks, Bad(x) PROVE FALSE
  BY <1>3 DEF a
<1>7. T \subseteq Nat /\ T # {}
  BY <1>1
<1>8. PICK n \in T : \A y \in T : n <= y
  BY <1>7, LeastNumber, Zenon
<1>9. PICK b \in blocks : Bad(b) /\ Number(b) = n
  BY <1>8
<1>10. \A y \in blocks : Number(y) < Number(b) => ~Bad(y)
  BY <1>1, <1>8, <1>9
<1> HIDE DEF T
<1>11. CASE Number(b) = N
  <2>1. PICK v \in Steady : a \in votes[v] /\ b \in votes[v]
    BY <1>4, <1>9, CommonVoter
  <2>2. a = b
    BY <1>3, <1>11, <2>1 DEF IInv, OneVotePerHeight, Signed, Steady
  <2> QED BY <1>6, <1>9, <2>2
<1>12. CASE Number(b) = N + 1
  <2>1. PICK v \in Steady : c \in votes[v] /\ b \in votes[v]
    BY <1>9, CommonVoter
  <2>2. c = b
    BY <1>2, <1>12, <2>1 DEF IInv, OneVotePerHeight, Signed, Steady
  <2> QED BY <1>6, <1>9, <2>2
<1>13. CASE Number(b) > N + 1
  <2>1. PICK v \in Steady : c \in votes[v] /\ b \in votes[v]
    BY <1>9, CommonVoter
  <2>2. J(c) <= J(b)
    BY <1>2, <1>13, <2>1 DEF IInv, SignedFollowJustified, Signed, J
  <2>3. /\ J(b) \in 0 .. Number(b)
        /\ J(b) # 0 => J(b) + 1 \in 1 .. Number(b) /\ b[J(b) + 1].hasFinalityVote
    BY <1>1, JustifiedFacts DEF J
  <2>4. J(b) >= N
    BY <1>1, <1>2, <1>5, <2>2, <2>3
  <2>5. CASE J(b) = 0
    <3>1. N = 0
      BY <1>2, <2>4, <2>5
    <3>2. a = Genesis /\ Ancestor(b, 0) = Genesis
      BY <1>1, <1>3, <3>1, AncestorEnds
    <3> QED BY <1>1, <1>3, <1>9, <3>1, <3>2 DEF InChain
  <2>6. CASE J(b) # 0
    <3> DEFINE j == J(b)
               y == Ancestor(b, j)
    <3>1. j \in 0 .. Number(b) /\ j < Number(b) /\ (j + 1) - 1 = j
      BY <1>1, <2>3, <2>6
    <3>2. y \in blocks /\ Number(y) = j
      BY <1>1, <3>1, AncestorFacts DEF IInv, TreeClosed
    <3>3. ReachesThreshold(y)
      BY <2>3, <2>6, <3>1 DEF IInv, FlagsEarned
    <3>4. InChain(a, y)
      <4> HIDE DEF j, y
      <4>1. Number(y) >= N /\ Number(y) < Number(b)
        BY <2>4, <3>1, <3>2 DEF j
      <4> QED BY <1>10, <3>2, <3>3, <4>1
    <3>5. Ancestor(y, N) = a /\ Ancestor(y, N) = Ancestor(b, N)
      <4>1. N \in 0 .. j
        BY <1>2, <2>4, <3>1
      <4>2. Ancestor(y, N) = Ancestor(b, N)
        BY <1>1, <3>1, <4>1, AncestorOfAncestor
      <4> QED BY <1>3, <3>4, <4>2 DEF InChain
    <3> QED BY <1>3, <1>9, <3>5 DEF InChain
  <2> QED BY <2>5, <2>6
<1> QED BY <1>1, <1>2, <1>9, <1>11, <1>12, <1>13

\* A finalized block is in every chain with votes for a block at least as high.
FinalizedInChains ==
    \A b, c \in blocks : \A m \in 1 .. Number(c) :
        c[m].hasFinalityVote /\ GetFinalizedBlock(b) <= m - 1
            => InChain(Ancestor(b, GetFinalizedBlock(b)), c)

LEMMA InvariantFinalized == IInv => FinalizedInChains
<1> SUFFICES ASSUME IInv, NEW b \in blocks, NEW c \in blocks, NEW m \in 1 .. Number(c),
                    c[m].hasFinalityVote, GetFinalizedBlock(b) <= m - 1
             PROVE  InChain(Ancestor(b, GetFinalizedBlock(b)), c)
  BY DEF FinalizedInChains
<1> DEFINE n == GetFinalizedBlock(b)
           k == m - 1
           d == Ancestor(b, n + 1)
           y == Ancestor(c, k)
<1>1. b \in Block /\ c \in Block /\ Number(b) \in Nat /\ Number(c) \in Nat
  BY LenProperties DEF IInv, TypeOK, Block, Number
<1>2. /\ n \in 0 .. Number(b)
      /\ n # 0 => /\ n + 1 \in 1 .. Number(b) /\ b[n + 1].hasFinalityVote
                  /\ n + 2 \in 1 .. Number(b) /\ b[n + 2].hasFinalityVote
  BY <1>1, FinalizedFacts
<1>3. k \in 0 .. Number(c) /\ n <= k /\ n \in 0 .. k
  BY <1>1, <1>2
<1>4. y \in blocks /\ Number(y) = k /\ ReachesThreshold(y)
  BY <1>1, <1>3, AncestorFacts DEF IInv, TreeClosed, FlagsEarned
<1> HIDE DEF n
<1>5. CASE n = 0
  <2>1. Ancestor(b, 0) = Genesis /\ Ancestor(c, 0) = Genesis /\ Number(Genesis) = 0
    BY <1>1, AncestorEnds, EmptySeq DEF Genesis, Number
  <2> QED BY <1>1, <1>5, <2>1 DEF InChain, n
<1>6. CASE n # 0
  <2>1. n + 1 \in 0 .. Number(b) /\ (n + 1) - 1 = n /\ (n + 2) - 1 = n + 1 /\ n + 1 \in 1 .. n + 1
    BY <1>1, <1>2, <1>6
  <2>2. /\ d \in blocks /\ Number(d) = n + 1 /\ \A i \in 1 .. n + 1 : d[i] = b[i]
        /\ d \in Block
    BY <1>1, <2>1, AncestorFacts DEF IInv, TreeClosed
  <2>3. ReachesThreshold(d)
    BY <1>2, <1>6, <2>1 DEF IInv, FlagsEarned
  <2>4. d # Genesis
    BY <1>2, <2>2, EmptySeq DEF Genesis, Number
  <2>5. d[Number(d)].hasFinalityVote
    BY <1>2, <1>6, <2>1, <2>2
  <2>6. Parent(d) = Ancestor(b, n)
    <3>1. n \in 0 .. n + 1
      BY <1>2
    <3>2. Ancestor(d, n) = Ancestor(b, n)
      BY <1>1, <2>1, <3>1, AncestorOfAncestor
    <3> QED BY <2>1, <2>2, <3>2 DEF Parent
  <2>7. Number(Ancestor(b, n)) = n
    BY <1>1, <1>2, AncestorFacts
  <2> HIDE DEF d
  <2>8. InChain(Ancestor(b, n), y)
    BY <1>3, <1>4, <2>2, <2>3, <2>4, <2>5, <2>6, <2>7, InvariantFinal DEF FinalIsFinal
  <2>9. Ancestor(y, n) = Ancestor(c, n)
    BY <1>1, <1>3, AncestorOfAncestor
  <2> HIDE DEF y, k
  <2>10. n <= Number(c)
    BY <1>1, <1>2, <1>3
  <2> QED BY <2>7, <2>8, <2>9, <2>10 DEF InChain, n
<1> QED BY <1>5, <1>6

\* The invariant implies that all finalized blocks lie on one chain.
LEMMA InvariantAgreement == IInv => FinalityAgreement
<1> SUFFICES ASSUME IInv, NEW b \in blocks, NEW c \in blocks,
                    GetFinalizedBlock(b) <= GetFinalizedBlock(c)
             PROVE  Ancestor(c, GetFinalizedBlock(b)) = Ancestor(b, GetFinalizedBlock(b))
  BY DEF FinalityAgreement
<1> DEFINE n == GetFinalizedBlock(b)
           k == GetFinalizedBlock(c)
<1>1. b \in Block /\ c \in Block /\ Number(b) \in Nat /\ Number(c) \in Nat
  BY LenProperties DEF IInv, TypeOK, Block, Number
<1>2. /\ n \in 0 .. Number(b) /\ k \in 0 .. Number(c)
      /\ k # 0 => k + 1 \in 1 .. Number(c) /\ c[k + 1].hasFinalityVote
  BY <1>1, FinalizedFacts
<1>3. CASE k = 0
  <2>1. n = 0
    BY <1>1, <1>2, <1>3
  <2> QED BY <1>1, <2>1, AncestorEnds
<1>4. CASE k # 0
  <2>1. n <= (k + 1) - 1
    BY <1>1, <1>2
  <2>2. InChain(Ancestor(b, n), c)
    BY <1>2, <1>4, <2>1, InvariantFinalized DEF FinalizedInChains
  <2>3. Number(Ancestor(b, n)) = n
    BY <1>1, <1>2, AncestorFacts
  <2> QED BY <2>2, <2>3 DEF InChain
<1> QED BY <1>3, <1>4

\* A step of a steady voter keeps its head or moves it to a block with a
\* justified block at least as high.
LEMMA SteadyHeads ==
    ASSUME IInv, [Next]_vars, NEW w \in Steady
    PROVE  GetJustifiedBlock(head[w]) <= GetJustifiedBlock(head'[w])
<1>1. w \in Honest /\ w \notin Rewinders
  BY DEF Steady
<1>2. head \in [Honest -> blocks] /\ blocks \subseteq Block
  BY DEF IInv, TypeOK
<1>3. GetJustifiedBlock(head[w]) \in Int
  BY <1>1, <1>2, JustifiedFacts, LenProperties DEF Number, Block
<1>4. CASE head'[w] = head[w]
  BY <1>3, <1>4
<1> SUFFICES ASSUME head'[w] # head[w]
             PROVE  TRUE \in reorgNeeded(head[w], head'[w])
  <2>1. head[w] \in Block /\ head'[w] \in Block
    BY <1>1, <1>2, NextIInv DEF IInv, TypeOK
  <2> QED BY <1>4, <2>1, ReorgKeepsJustified, Zenon
<1>5. ASSUME NEW v \in Honest, NEW b, TRUE \in reorgNeeded(head[v], b), SetHead(v, b)
      PROVE  TRUE \in reorgNeeded(head[w], head'[w])
  <2>1. v = w
    BY <1>1, <1>2, <1>5 DEF SetHead
  <2>2. head'[w] = b
    BY <1>1, <1>2, <1>5, <2>1 DEF SetHead
  <2> QED BY <1>5, <2>1, <2>2, Zenon
<1>6. CASE \E v \in Range(BlockProducers), parent \in blocks,
              payload \in Payloads, flag \in BOOLEAN : Seal(v, parent, payload, flag)
  <2> PICK v \in Range(BlockProducers), parent \in blocks,
           payload \in Payloads, flag \in BOOLEAN : Seal(v, parent, payload, flag)
    BY <1>6
  <2> DEFINE b == Append(parent, [signer |-> v, payload |-> payload,
                                  hasFinalityVote |-> flag])
  <2>1. \/ v \in Honest /\ TRUE \in reorgNeeded(head[v], b) /\ SetHead(v, b)
        \/ UNCHANGED head
    BY Zenon DEF Seal
  <2> HIDE DEF b
  <2> QED BY <1>5, <2>1, Zenon
<1>7. CASE \E v \in Honest, b \in blocks : InsertChain(v, b)
  BY <1>5, <1>7, Zenon DEF InsertChain
<1>8. CASE \E v \in Honest : Restart(v)
  BY <1>1, <1>2, <1>8 DEF Restart
<1>9. CASE \/ UNCHANGED vars
           \/ \E v \in Honest : SignVote(v) \/ SkipVote(v) \/ PutVote(v)
  BY <1>9 DEF vars, SignVote, SkipVote, PutVote
<1> QED BY <1>6, <1>7, <1>8, <1>9, Zenon DEF Next

\* No step removes a block.
LEMMA TreeGrows ==
    ASSUME [Next]_vars
    PROVE  blocks \subseteq blocks'
<1>1. ASSUME NEW v, NEW parent, NEW payload, NEW flag, Seal(v, parent, payload, flag)
      PROVE  blocks \subseteq blocks'
  BY <1>1 DEF Seal
<1>2. ASSUME NEW v, NEW b, InsertChain(v, b) PROVE blocks \subseteq blocks'
  BY <1>2 DEF InsertChain
<1>3. ASSUME NEW v, SignVote(v) \/ SkipVote(v) PROVE blocks \subseteq blocks'
  BY <1>3 DEF SignVote, SkipVote
<1>4. ASSUME NEW v, PutVote(v) \/ Restart(v) PROVE blocks \subseteq blocks'
  BY <1>4 DEF PutVote, Restart
<1>5. CASE UNCHANGED vars
  BY <1>5 DEF vars
<1> QED BY <1>1, <1>2, <1>3, <1>4, <1>5 DEF Next

\* The step property behind FinalizedStaysCanonical.
LEMMA StepStaysCanonical ==
    ASSUME IInv, [Next]_vars, NEW w \in Steady
    PROVE  InChain(Ancestor(head[w], GetFinalizedBlock(head[w])), head'[w])
<1> DEFINE b == head[w]
           c == head'[w]
           n == GetFinalizedBlock(b)
           j == GetJustifiedBlock(c)
<1>1. IInv'
  BY NextIInv
<1>2. w \in Honest /\ b \in blocks /\ blocks \subseteq blocks' /\ c \in blocks'
  <2>1. w \in Honest
    BY DEF Steady
  <2>2. blocks \subseteq blocks'
    BY TreeGrows
  <2> QED BY <1>1, <2>1, <2>2 DEF IInv, TypeOK
<1>3. b \in Block /\ c \in Block /\ Number(b) \in Nat /\ Number(c) \in Nat
  BY <1>1, <1>2, LenProperties DEF IInv, TypeOK, Block, Number
<1>4. GetJustifiedBlock(b) <= j
  BY SteadyHeads
<1> HIDE DEF b, c
<1>5. /\ n \in 0 .. Number(b)
      /\ n # 0 => n + 2 \in 1 .. Number(b) /\ b[n + 2].hasFinalityVote
  BY <1>3, FinalizedFacts
<1>6. /\ j \in 0 .. Number(c)
      /\ j # 0 => j + 1 \in 1 .. Number(c) /\ c[j + 1].hasFinalityVote
  BY <1>3, JustifiedFacts
<1>7. GetJustifiedBlock(b) \in Int /\ n # 0 => GetJustifiedBlock(b) >= n + 1
  <2>1. GetJustifiedBlock(b) \in Int
    BY <1>3, JustifiedFacts
  <2>2. ASSUME n # 0 PROVE (n + 2) - 1 <= GetJustifiedBlock(b)
    BY <1>3, <1>5, <2>2, JustifiedFacts
  <2> QED BY <1>3, <1>5, <2>1, <2>2
<1>8. CASE n = 0
  <2>1. Ancestor(b, 0) = Genesis /\ Ancestor(c, 0) = Genesis /\ Number(Genesis) = 0
    BY <1>3, AncestorEnds, EmptySeq DEF Genesis, Number
  <2> QED BY <1>3, <1>8, <2>1 DEF InChain, b, c
<1>9. FinalizedInChains'
  BY <1>1, InvariantFinalized, PTL
<1>10. CASE n # 0
  <2>1. GetJustifiedBlock(b) \in Int
    BY <1>3, JustifiedFacts
  <2>2. j # 0 /\ n <= (j + 1) - 1
    BY <1>3, <1>4, <1>5, <1>6, <1>7, <1>10, <2>1
  <2>3. b \in blocks' /\ c \in blocks'
    BY <1>2
  <2>4. InChain(Ancestor(b, n), c)
    BY <1>6, <1>9, <2>2, <2>3 DEF FinalizedInChains
  <2> QED BY <2>4 DEF b, c
<1> QED BY <1>8, <1>10

-----------------------------------------------------------------------------
(* The theorems *)

\* Every variable keeps its type; in particular every head, event and vote is
\* a block of the tree.
THEOREM TypeCorrect == Spec => []TypeOK
BY Invariance, PTL DEF IInv

\* Rule 1 of the vote manager: no honest voter publishes two votes for one
\* height, through crashes and heads that go back.
THEOREM RuleOne == Spec => []NoDoubleVote
<1>1. IInv => NoDoubleVote
  BY DEF IInv, OneVotePerHeight, Signed, NoDoubleVote
<1> QED BY <1>1, Invariance, PTL

\* The votes of a steady voter follow the justified blocks upwards.
THEOREM VoteOrder == Spec => []VotesFollowJustified
<1>1. IInv => VotesFollowJustified
  BY DEF IInv, SignedFollowJustified, Signed, VotesFollowJustified
<1> QED BY <1>1, Invariance, PTL

\* No block that conflicts with a final block reaches the threshold at its
\* height or above.
THEOREM Finality == Spec => []FinalIsFinal
BY InvariantFinal, Invariance, PTL

\* What GetFinalizedBlock reports on any two chains is on one chain.
THEOREM Agreement == Spec => []FinalityAgreement
BY InvariantAgreement, Invariance, PTL

\* A finalized block is never reverted by the fork choice of reorgNeeded.
THEOREM StaysCanonical == Spec => FinalizedStaysCanonical
<1>1. IInv /\ [Next]_vars =>
        [\A v \in Steady :
            InChain(Ancestor(head[v], GetFinalizedBlock(head[v])), head'[v])]_vars
  BY StepStaysCanonical
<1> QED BY <1>1, Invariance, PTL DEF Spec, FinalizedStaysCanonical

=============================================================================
