---------------------------- MODULE FastFinality ----------------------------
(***************************************************************************)
(* The fast finality protocol of the Consortium v2 engine, as the nodes of *)
(* the network run it together.  A node votes for the head blocks its      *)
(* chain announces (core/vote/vote_manager.go), a sealer puts the votes    *)
(* for block N into block N+1 (consensus/consortium/v2), and every node    *)
(* prefers the chain with the higher justified block (core/blockchain.go). *)
(*                                                                         *)
(* A block is the sequence of the headers from block 1 up to itself: its   *)
(* hash commits to all of them.  The number of a block is the length of    *)
(* the sequence, its ancestors are the prefixes, genesis is << >>.         *)
(*                                                                         *)
(* The voter set and the producer list stay the same (one epoch).          *)
(***************************************************************************)
EXTENDS Integers, Sequences, FiniteSets, FiniteSetsExt

CONSTANTS
    Voters,             \* the validators of snap.ValidatorsWithBlsPub
    BlockProducers,     \* snap.validators(), the ordered list of sealers
    Byzantine,          \* voters that do not run this code
    Rewinders,          \* voters whose head may go back (SetHead, lost state)
    Quorums,            \* sets of voters that reach the finality threshold
    Payloads,           \* what else tells two headers of a signer apart
    ChainHeadChanSize,  \* head events that wait for the vote manager
    MaxNumber,          \* bound: the highest block number
    MaxBlocks           \* bound: how many blocks are sealed

Honest == Voters \ Byzantine
Steady == Honest \ Rewinders

(***************************************************************************)
(* finalityRatio is 2/3: while less than a third of the weight is faulty,  *)
(* two quorums share a voter that runs this code and keeps its head.       *)
(***************************************************************************)
ASSUME QuorumAssumption ==
    /\ Quorums \subseteq SUBSET Voters
    /\ \A P, Q \in Quorums : P \cap Q \cap Steady # {}

ASSUME ProducersAssumption == BlockProducers \in Seq(Voters)

ASSUME BoundsAssumption ==
    /\ ChainHeadChanSize \in Nat
    /\ MaxNumber \in Nat
    /\ MaxBlocks \in Nat

VARIABLES
    blocks,              \* every valid block that was sealed, with genesis
    head,                \* head[v]: v's canonical head block
    chainHeadCh,         \* chainHeadCh[v]: the head events v has not voted on
    highestFinalityVote, \* highestFinalityVote[v]: the number in v's database
    unsent,              \* unsent[v]: signed and recorded, not in a pool yet
    votes                \* votes[v]: the blocks that v published a vote for

vars == <<blocks, head, chainHeadCh, highestFinalityVote, unsent, votes>>

-----------------------------------------------------------------------------
(* Headers and chains *)

Header == [signer : Voters, payload : Payloads, hasFinalityVote : BOOLEAN]
Block == Seq(Header)
Genesis == << >>

Number(b) == Len(b)
Ancestor(b, n) == SubSeq(b, 1, n)
Parent(b) == Ancestor(b, Number(b) - 1)
InChain(a, b) == Number(a) <= Number(b) /\ Ancestor(b, Number(a)) = a

diffInTurn == 7
diffNoTurn == 3

\* CalcDifficulty: the producers take turns by block number.
CalcDifficulty(signer, n) ==
    IF BlockProducers[(n % Len(BlockProducers)) + 1] = signer
    THEN diffInTurn ELSE diffNoTurn

Td(b) ==
    LET sum[n \in 0 .. Number(b)] ==
            IF n = 0 THEN 0 ELSE sum[n - 1] + CalcDifficulty(b[n].signer, n)
    IN  sum[Number(b)]

\* snap.JustifiedBlockNumber: the parent of the last header with votes.
GetJustifiedBlock(b) ==
    Max({0} \cup {n - 1 : n \in {m \in 1 .. Number(b) : b[m].hasFinalityVote}})

\* Mutant: one justified block is taken for final.
GetFinalizedBlock_justified(b) == GetJustifiedBlock(b)

(***************************************************************************)
(* The loop of GetFinalizedBlock walks down the justified blocks of the    *)
(* chain and stops at the first whose child is justified too.              *)
(***************************************************************************)
GetFinalizedBlock(b) ==
    Max({0} \cup {n \in 1 .. Number(b) - 2 :
                     b[n + 1].hasFinalityVote /\ b[n + 2].hasFinalityVote})

\* Mutant: the fork choice looks at the difficulty only.
reorgNeeded_td(local, extern) ==
    IF Td(extern) # Td(local) THEN {Td(extern) > Td(local)} ELSE BOOLEAN

(***************************************************************************)
(* The answers reorgNeeded may give.  Two blocks that agree on all         *)
(* criteria are told apart by shouldPreserve and by a random number.       *)
(***************************************************************************)
reorgNeeded(local, extern) ==
    LET justified == GetJustifiedBlock(extern) - GetJustifiedBlock(local)
        td == Td(extern) - Td(local)
        number == Number(extern) - Number(local)
    IN  IF justified # 0 THEN {justified > 0}
        ELSE IF td # 0 THEN {td > 0}
        ELSE IF number # 0 THEN {number < 0}
        ELSE BOOLEAN

\* The votes a sealer may collect; a faulty voter votes for everything.
VotersOf(b) == Byzantine \cup {v \in Honest : b \in votes[v]}
ReachesThreshold(b) == \E Q \in Quorums : Q \subseteq VotersOf(b)

-----------------------------------------------------------------------------
(* Steps *)

Init ==
    /\ blocks = {Genesis}
    /\ head = [v \in Honest |-> Genesis]
    /\ chainHeadCh = [v \in Honest |-> << >>]
    /\ highestFinalityVote = [v \in Honest |-> -1]
    /\ unsent = [v \in Honest |-> {}]
    /\ votes = [v \in Honest |-> {}]

\* Mutant: the newest head event is handled first.
SetHead_lifo(v, b) ==
    /\ Len(chainHeadCh[v]) < ChainHeadChanSize
    /\ head' = [head EXCEPT ![v] = b]
    /\ chainHeadCh' = [chainHeadCh EXCEPT ![v] = <<b>> \o @]

\* writeHeadBlock, then the head event; the sender waits for a free place.
SetHead(v, b) ==
    /\ Len(chainHeadCh[v]) < ChainHeadChanSize
    /\ head' = [head EXCEPT ![v] = b]
    /\ chainHeadCh' = [chainHeadCh EXCEPT ![v] = Append(@, b)]

\* Mutant: a producer moves its head to a block that it does not store.
Seal_unstored(v, parent, payload, hasFinalityVote) ==
    LET b == Append(parent, [signer |-> v, payload |-> payload,
                             hasFinalityVote |-> hasFinalityVote])
    IN  /\ Number(b) <= MaxNumber
        /\ v \in Honest /\ TRUE \in reorgNeeded(head[v], b) /\ SetHead(v, b)
        /\ UNCHANGED <<blocks, highestFinalityVote, unsent, votes>>

(***************************************************************************)
(* A producer seals a block on some block of the tree: GetBestParentBlock  *)
(* may go back from the head, and the head may have moved while the work   *)
(* was prepared.  assembleFinalityVote sets the flag only when the pool    *)
(* holds enough votes for the parent, and no node accepts another header.  *)
(* An honest producer writes the block to its own chain at once.           *)
(***************************************************************************)
Seal(v, parent, payload, hasFinalityVote) ==
    LET b == Append(parent, [signer |-> v, payload |-> payload,
                             hasFinalityVote |-> hasFinalityVote])
    IN  /\ Number(b) <= MaxNumber
        /\ Cardinality(blocks) <= MaxBlocks
        /\ hasFinalityVote => ReachesThreshold(parent)
        /\ b \notin blocks
        /\ blocks' = blocks \cup {b}
        /\ \/ v \in Honest /\ TRUE \in reorgNeeded(head[v], b) /\ SetHead(v, b)
           \/ /\ v \in Honest => FALSE \in reorgNeeded(head[v], b)
              /\ UNCHANGED <<head, chainHeadCh>>
        /\ UNCHANGED <<highestFinalityVote, unsent, votes>>

(***************************************************************************)
(* v imports a chain that ends in b.  A batch announces only its last      *)
(* canonical block, so the blocks between head[v] and b leave no event.    *)
(***************************************************************************)
InsertChain(v, b) ==
    /\ b # head[v]
    /\ TRUE \in reorgNeeded(head[v], b)
    /\ SetHead(v, b)
    /\ UNCHANGED <<blocks, highestFinalityVote, unsent, votes>>

\* Mutant: a second vote for the highest height passes.
UnderRules_ge(v, b) == Number(b) >= highestFinalityVote[v]

\* Rule 1: vote only above the highest recorded vote.
UnderRules(v, b) == Number(b) > highestFinalityVote[v]


\* The vote manager signs a vote and records its height.
SignVote(v) ==
    /\ unsent[v] = {}
    /\ chainHeadCh[v] # << >>
    /\ UnderRules(v, Head(chainHeadCh[v]))
    /\ chainHeadCh' = [chainHeadCh EXCEPT ![v] = Tail(@)]
    /\ highestFinalityVote' =
            [highestFinalityVote EXCEPT ![v] = Number(Head(chainHeadCh[v]))]
    /\ unsent' = [unsent EXCEPT ![v] = {Head(chainHeadCh[v])}]
    /\ UNCHANGED <<blocks, head, votes>>

(***************************************************************************)
(* The vote manager drops a head event: the rule forbids the vote, or the  *)
(* node is syncing, not mining, or fails to sign.                          *)
(***************************************************************************)
SkipVote(v) ==
    /\ unsent[v] = {}
    /\ chainHeadCh[v] # << >>
    /\ chainHeadCh' = [chainHeadCh EXCEPT ![v] = Tail(@)]
    /\ UNCHANGED <<blocks, head, highestFinalityVote, unsent, votes>>

\* The recorded vote enters the pool and is broadcast.
PutVote(v) ==
    /\ unsent[v] # {}
    /\ votes' = [votes EXCEPT ![v] = @ \cup unsent[v]]
    /\ unsent' = [unsent EXCEPT ![v] = {}]
    /\ UNCHANGED <<blocks, head, chainHeadCh, highestFinalityVote>>

\* Mutant: the highest vote is kept in memory only.
Restart_forget(v) ==
    /\ chainHeadCh' = [chainHeadCh EXCEPT ![v] = << >>]
    /\ unsent' = [unsent EXCEPT ![v] = {}]
    /\ highestFinalityVote' = [highestFinalityVote EXCEPT ![v] = -1]
    /\ UNCHANGED <<blocks, head, votes>>

(***************************************************************************)
(* v stops and starts again.  The queue and an unsent vote are lost, the   *)
(* database is kept.  When the state of the head is missing, loadLastState *)
(* goes back to an ancestor; only rewinders do.                            *)
(***************************************************************************)
Restart(v) ==
    /\ \/ UNCHANGED head
       \/ /\ v \in Rewinders
          /\ \E n \in 0 .. Number(head[v]) :
                head' = [head EXCEPT ![v] = Ancestor(@, n)]
    /\ chainHeadCh' = [chainHeadCh EXCEPT ![v] = << >>]
    /\ unsent' = [unsent EXCEPT ![v] = {}]
    /\ UNCHANGED <<blocks, highestFinalityVote, votes>>

Next ==
    \/ \E v \in Range(BlockProducers), parent \in blocks,
          payload \in Payloads, hasFinalityVote \in BOOLEAN :
            Seal(v, parent, payload, hasFinalityVote)
    \/ \E v \in Honest, b \in blocks : InsertChain(v, b)
    \/ \E v \in Honest : SignVote(v)
    \/ \E v \in Honest : SkipVote(v)
    \/ \E v \in Honest : PutVote(v)
    \/ \E v \in Honest : Restart(v)

Spec == Init /\ [][Next]_vars

-----------------------------------------------------------------------------
(* Properties *)

TypeOK ==
    /\ blocks \subseteq Block
    /\ Genesis \in blocks
    /\ head \in [Honest -> blocks]
    /\ chainHeadCh \in [Honest -> Seq(blocks)]
    /\ highestFinalityVote \in [Honest -> Nat \cup {-1}]
    /\ unsent \in [Honest -> SUBSET blocks]
    /\ votes \in [Honest -> SUBSET blocks]

\* Rule 1 of UnderRules: a voter never publishes two distinct votes for one
\* height, whatever it imported, and also after it stopped between the
\* database write and PutVote, or restarted with a head that went back.
NoDoubleVote ==
    \A v \in Honest : \A a, b \in votes[v] : Number(a) = Number(b) => a = b

\* Rule 2 of UnderRules, "satisfied by default" (vote_manager.go:205-206): the
\* block that a voter signs is on its canonical chain at that moment.
VotesForCanonical ==
    [][\A v \in Honest : \A b \in unsent'[v] \ unsent[v] : InChain(b, head[v])]_vars

\* A voter that never rewinds does not go back below a justified block it has
\* seen: of two of its votes, the later (higher) one is for a chain whose
\* justified block is at least as high.  reorgNeeded gives this for the heads,
\* and the order of the head events carries it over to the votes.
VotesFollowJustified ==
    \A v \in Steady : \A a, b \in votes[v] :
        Number(a) < Number(b) => GetJustifiedBlock(a) <= GetJustifiedBlock(b)

\* The parent of a block with votes is final as soon as the block itself has
\* enough votes: every block at least as high that reaches the threshold has
\* that parent in its chain.
FinalIsFinal ==
    \A c, b \in blocks :
        /\ c # Genesis
        /\ c[Number(c)].hasFinalityVote
        /\ ReachesThreshold(c)
        /\ ReachesThreshold(b)
        /\ Number(b) >= Number(Parent(c))
        => InChain(Parent(c), b)

\* The blocks that GetFinalizedBlock reports for any two blocks, whoever has
\* them as head, lie on one chain.
FinalityAgreement ==
    \A b, c \in blocks :
        GetFinalizedBlock(b) <= GetFinalizedBlock(c) =>
            Ancestor(c, GetFinalizedBlock(b)) = Ancestor(b, GetFinalizedBlock(b))

\* A block that a node reports as finalized stays in the node's canonical
\* chain through every import, reorg and restart, unless the node is one whose
\* head went back.
FinalizedStaysCanonical ==
    [][\A v \in Steady :
            InChain(Ancestor(head[v], GetFinalizedBlock(head[v])), head'[v])]_vars

=============================================================================
