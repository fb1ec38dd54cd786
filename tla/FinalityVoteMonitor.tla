------------------------ MODULE FinalityVoteMonitor ------------------------
(***************************************************************************)
(* The monitor that reports voters who break the rule of fast finality,    *)
(* src/monitor/finality_vote.go.  It sees the blocks of the main chain and *)
(* of the sides in the order in which they are written, a block again when *)
(* a reorg makes it canonical, and keeps the voters of the blocks of a     *)
(* height under that height in an LRU cache.                               *)
(***************************************************************************)
EXTENDS Integers, Sequences, FiniteSets, SequencesExt

CONSTANTS
  Blocks,             \* the blocks with HasFinalityVote = 1
  finalityVoteCache   \* the number of heights the cache holds

\* A block names its parent, which is what the votes in it are for, and the
\* public keys of the voters at the set positions of FinalityVotedValidators.
ASSUME MonitorAssumption ==
  /\ finalityVoteCache \in Nat \ {0}
  /\ \A b \in Blocks : b.number \in Nat \ {0}

VARIABLES
  observedVotes,  \* the blocks that the cache holds
  recency,        \* the heights of the cache, the least recently used first
  alerts,         \* the alerts raised: a voter and the two blocks
  checked         \* every block that was checked

vars == <<observedVotes, recency, alerts, checked>>

Init ==
  /\ observedVotes = {}
  /\ recency = <<>>
  /\ alerts = {}
  /\ checked = {}

\* lru.Get and lru.Add of height n, which evict the oldest height when there is
\* no room.
Use(n) ==
  LET used == Append(Remove(recency, n), n)
  IN IF Len(used) > finalityVoteCache THEN Tail(used) ELSE used

\* Mutant of CheckFinalityVote: the new block replaces the others of its height.
CheckFinalityVote_replace(b) ==
  LET blockInfo == {c \in observedVotes : c.number = b.number}
      kept == ToSet(Use(b.number))
  IN /\ alerts' = alerts \cup
          {[voter |-> w, block1 |-> c, block2 |-> b] :
             <<c, w>> \in {<<d, x>> \in (blockInfo \ {b}) \X b.voters : x \in d.voters}}
     /\ recency' = Use(b.number)
     /\ observedVotes' =
          {c \in observedVotes : c.number \in kept /\ c.number # b.number} \cup {b}
     /\ checked' = checked \cup {b}

\* CheckFinalityVote and checkSameHeightVote: an alert for every voter that the
\* block shares with another block of its height.
CheckFinalityVote(b) ==
  LET blockInfo == {c \in observedVotes : c.number = b.number}
      kept == ToSet(Use(b.number))
  IN /\ alerts' = alerts \cup
          {[voter |-> w, block1 |-> c, block2 |-> b] :
             <<c, w>> \in {<<d, x>> \in (blockInfo \ {b}) \X b.voters : x \in d.voters}}
     /\ recency' = Use(b.number)
     /\ observedVotes' = {c \in observedVotes : c.number \in kept} \cup {b}
     /\ checked' = checked \cup {b}

Next == \E b \in Blocks : CheckFinalityVote(b)

Spec == Init /\ [][Next]_vars

-----------------------------------------------------------------------------
\* A voter whose votes for two blocks of one height are both in the checked
\* blocks is reported, in whatever order these and others came, as long as the
\* heights fit into the cache.
DoubleVotesReported ==
  Cardinality({b.number : b \in checked}) <= finalityVoteCache =>
    \A b, c \in checked : \A w \in b.voters \cap c.voters :
      b.number = c.number /\ b.parent # c.parent =>
        \E a \in alerts : a.voter = w /\ {a.block1, a.block2} = {b, c}

\* "Fast finality rule is violated" (finality_vote.go:135) is raised only for a
\* voter that voted for two distinct blocks of one height, Rule 1 of
\* vote_manager.go:184.
AlertsAreRuleOne == \A a \in alerts : a.block1.parent # a.block2.parent
=============================================================================
