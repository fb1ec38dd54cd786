# Verification of the Ronin node

Ronin is a go-ethereum node with its own consensus engine, Consortium. This
directory holds TLA+ models of the parts that Ronin adds to go-ethereum, the
TLC configurations that check them on small instances, and TLAPS proofs of the
results that matter most.

## 1. The system

A Ronin node is a go-ethereum node in which block production is delegated to a
small set of validators. What is specific to Ronin:

| Part | Source | Role |
| --- | --- | --- |
| Consortium v2 engine | `src/consensus/consortium/v2/consortium.go` | header rules, sealing, system transactions, finality votes in headers |
| Snapshot | `src/consensus/consortium/v2/snapshot.go` | validators, recent signers and justified block at a block |
| Header extra data | `src/consensus/consortium/v2/finality/` | bit set of voters, encodings before and after Tripp |
| Consortium v1 engine | `src/consensus/consortium/v1/` | proof of authority, before the v2 fork |
| Engine proxy | `src/consensus/consortium/main.go` | chooses v1 or v2 by block number |
| Common helpers | `src/consensus/consortium/common/` | contract calls, signer lists, vote weights |
| Block chain | `src/core/blockchain.go` | import, fork choice, reorganisation, rewind, events |
| Vote manager | `src/core/vote/vote_manager.go` | votes for the head when the rules allow it |
| Vote pool | `src/core/vote/vote_pool.go` | keeps votes for known and for future blocks |
| Vote gossip | `src/eth/protocols/ronin/`, `src/eth/handler_ronin.go` | sends and receives votes |
| Miner worker | `src/miner/worker.go` | prepares, seals and publishes blocks |
| Finalized feed | `src/eth/filters/filter_system.go` | tells subscribers about finalized blocks |
| Monitors | `src/monitor/` | report double signing and double voting |

The path of a finality vote crosses most of them. A block becomes the head of a
node's chain (`writeBlockWithState`), which announces it on a feed
(`chainHeadFeed`). The vote manager takes the announcement from its channel,
checks that it has not voted at that height, signs, records the height in the
database and hands the vote to the pool. The pool broadcasts it; peers verify it
and keep it, apart from the others when they do not have the block yet. A sealer
of the next block puts the votes into its header when they reach two thirds. A
block with such a child is *justified*. A justified block whose child is
justified too is *finalized*. Every node prefers the chain with the higher
justified block (`reorgNeeded`), and that is what makes the finalized block stay.

## 2. Modules

### FastFinality: the protocol between the nodes

`FastFinality.tla` models the voters of one epoch together.

A block is the sequence of the headers from block 1 up to itself, because a hash
commits to the whole chain. Its number is the length of the sequence and its
ancestors are its prefixes. A header has the signer, a payload that stands for
everything else, and the flag that says that it carries the votes for its parent.

| Variable | Code |
| --- | --- |
| `blocks` | the valid blocks that were sealed, known to whoever fetches them |
| `head[v]` | `bc.currentBlock` |
| `chainHeadCh[v]` | `voteManager.chainHeadCh`, with the event whose send is waiting |
| `highestFinalityVote[v]` | the database entry of that name, -1 when there is none |
| `unsent[v]` | the vote between `WriteHighestFinalityVote` and `PutVote` |
| `votes[v]` | the votes that reached a pool |

| Action | Code |
| --- | --- |
| `Seal` | `assembleFinalityVote`, `Seal`, `resultLoop`, `WriteBlockWithState` |
| `InsertChain` | `insertChain` with a batch that ends in the new head |
| `SignVote`, `SkipVote`, `PutVote` | the three ends of one turn of `VoteManager.loop` |
| `Restart` | the process stops; `loadLastState`, `setHeadBeyondRoot` |

Three kinds of voters exist. `Byzantine` voters vote for everything and seal
anything. `Rewinders` follow the code but may come back from a restart with an
earlier head, which happens when the state of the head block was not written, or
after `SetHead`. All others are `Steady`. The code records the height of the last
vote but not the justified block, so a rewinder keeps Rule 1 and loses the order
of its votes. This is why `QuorumAssumption` asks for a *steady* voter in the
intersection of two quorums.

More behaviours are allowed than the code has: a producer may choose any parent
(the code takes the head or what `GetBestParentBlock` returns, possibly old by
the time the block is published), may sign two blocks on one parent (`resultLoop`
drops the second until the next restart), and the recent-signer rule is left out.

`SkipVote` may drop any event, also one that the rules allow. It stands for the
checks of the loop before `UnderRules`: a running download (`startVote`), mining
switched off, no signer, not a voter at that block, and a signer that fails.

### VotePool: the votes a node keeps

`VotePool.tla` models one node's pool. Blocks come from a constant tree
(`Headers`) whose hashes become known one after the other; a batch import moves
the head several times and sends one event (`WriteHeadBlock`,
`SendChainHeadEvent`). Everything `pool.mu` guards is the record `pool`.

| Field of `pool` | Code |
| --- | --- |
| `votes["cur"]`, `votes["future"]` | `curVotes`, `futureVotes` |
| `votesPq["cur"]`, `votesPq["future"]` | `curVotesPq`, `futureVotesPq` |
| `numFutureVotePerPeer`, `lastFutureVoteBlock` | the maps of these names; 0 for a missing key |
| `originatedFrom`, `justifiedBlockNumber` | the fields of these names |

| Action | Code |
| --- | --- |
| `ProcessChainHead` | the head event case of `loop`: justified number, `prune`, `transferVotesFromFutureToCur` |
| `CheckRange` | `putIntoVotePool` before the lock, with the head of that moment |
| `putIntoVotePool` | the same function under the lock |
| `Restart` | the pool is not stored; `NewVotePool` |

A queue is the set of its entries. Its order matters at two places, where the
code pops from the front while a condition holds; the condition is monotone in
the number by which the queue is ordered, so the loop pops exactly the entries
that satisfy it. One head event is one step. The code looks up the block of every
box while others may arrive; the model lets a block arrive before or after the
step, not between two boxes. Such a block has an event or a later head of its own
that the pool still has to process. `votesCh` and `dropPeer` have no counterpart:
any vote may arrive at any time, from any peer, again.

### FinalityThreshold: how many votes

`FinalityThreshold.tla` defines the number of votes that justifies a block before
Tripp and the sets of voters that reach it.

### FinalizedFeed: what subscribers are told

`FinalizedFeed.tla` extends `FastFinality` with `lastFinalized`. Blocks are
imported one by one in it, because every block sends a chain event.

### FinalityVoteMonitor: reports of double votes

`FinalityVoteMonitor.tla` models `CheckFinalityVote` and its LRU cache of
heights. `alerts` and `checked` are history variables.

## 3. Runs

| Run | Result | Question |
| --- | --- | --- |
| `finality_long` | holds | one steady voter in every quorum, six blocks up to number 4: is a final block final, do nodes agree on finalized blocks, does a finalized block stay canonical? |
| `finality_rewind` | holds | a voter whose head may go back: does it vote twice, is a final block final? |
| `finality_four` | holds | four voters, one faulty, so two quorums may meet in different voters |
| `votes_canonical` | violated | is a vote always for the canonical chain (Rule 2)? |
| `pool_valid` | holds | votes of validators over two forks: boxes, queues, senders and counters |
| `pool_faulty` | holds | votes with a wrong number, signature or key: what reaches the sealer? |
| `pool_live` | holds | do votes that came early reach the current boxes? |
| `pool_origin` | violated | does the pool hold every vote that it refuses as contained? |
| `pool_counter` | violated | is the counter the number of queued votes, if votes disagree on a block's number? |
| `finalized_feed` | violated | is every notification about a new finalized block? |
| `monitor_double` | holds | is every double vote within the cache reported? |
| `monitor_sibling` | violated | is every report a double vote? |

The findings of the violated runs, with the lines they contradict, are in
`PROJECT.json`. None of them contradicts a theorem: Rule 2 is not used by the
proofs, and a finalized number that falls still names a block of the chain.

**Bounds of FastFinality.** The shortest conflict of two finalized blocks that a
broken rule allows needs a fork at number 1, two justified blocks on one side and
one on the other: number 3 and four or five blocks. `MaxNumber` and `MaxBlocks`
reach it in every run and leave room in `finality_long`; the mutants confirm it.
`ChainHeadChanSize` 2 lets events overtake a reorganisation. Two payloads allow
two blocks of one producer on one parent; they are symmetric.

**Bounds of VotePool.** The window is 3 below and 1 above the head, with the
order of the code's 256 and 11. The chain has four blocks, one more than the
window, so that every way to leave the pool happens: justified, too old, moved
with its block, moved without it. Limits of 2 votes are reached with three
votes. `UintModulus` 16 stands for 2^64; it is larger than any count, so a wrap is visible.

**Fairness.** Only `pool_live` needs it. Weak fairness of `SendChainHeadEvent`
and `putIntoVotePool`: a goroutine that can go on does. Strong fairness of
`ProcessChainHead`: the `select` of `loop` chooses at random among the ready
channels, so a steady stream of votes cannot keep a head event out for ever.

**Deadlock** is not checked in the runs of `FastFinality` and `FinalizedFeed`:
their block bounds end every behaviour.

## 4. Proofs

`FastFinality_proofs.tla` proves six theorems for every set of voters, every set
of quorums and every bound:

| Theorem | Statement |
| --- | --- |
| `TypeCorrect` | `Spec => []TypeOK` |
| `RuleOne` | no honest voter publishes two votes for one height |
| `VoteOrder` | the votes of a steady voter follow justified blocks upwards |
| `Finality` | nothing that conflicts with a final block reaches the threshold |
| `Agreement` | the finalized blocks of any two chains lie on one chain |
| `StaysCanonical` | no step takes a finalized block out of a steady node's chain |

They assume `QuorumAssumption` (any two quorums share a steady voter),
`ProducersAssumption` and `BoundsAssumption`. The first follows from the
threshold of the code before Tripp: `FinalityThreshold_proofs.tla` proves
(`CountQuorumsIntersect`) that two sets of at least floor(2n/3) + 1 of n voters
share a voter outside any set of fewer than n/3. `FinalityThreshold.tla` holds the
two definitions, which the runs use for their quorums; it takes the floor of the
exact quotient, from which the code's floating-point product does not differ for
any n that occurs. Vote weights after Tripp are not covered yet.

The inductive invariant `IInv` adds to `TypeOK`:

- `TreeClosed`: with a block, all its ancestors are in the tree;
- `FlagsEarned`: a header with the flag has a parent that reached the threshold;
- `HeightRecorded`: no vote, sent or not, is above the recorded height;
- `OneVotePerHeight`: sent and unsent votes together keep Rule 1, which is what
  survives a crash between the database write and `PutVote`;
- `EventsAscend`: justified numbers go up along the waiting events, from the
  blocks already voted for to the head, which is where the order of the events
  and `reorgNeeded` enter;
- `SignedFollowJustified`: the order of the votes, unsent ones included.

`Finality` follows from `IInv` by the least counterexample. Suppose the child c of
p carries votes for p and reaches the threshold, and b is the lowest block, at or
above p, that reaches the threshold without p in its chain. A steady voter voted
for c and for b. At one height these are the same block by Rule 1. If b is
higher, the justified block of b is at least p's number by `VoteOrder`; it reached
the threshold and has not p in its chain, and it is lower than b: a
contradiction. If b is at p's height, a voter common to p and b settles it.

Only model-checked: all of `VotePool`, `FinalizedFeed` and
`FinalityVoteMonitor`, and liveness, which TLAPS does not cover.

## 5. Not modelled

`PROJECT.json` lists every part. Left out for good are the parts inherited from
go-ethereum (EVM, state, transaction pool, networking, RPC): for the votes they
are block execution, which is a payload here, and delivery, which is unrestricted
here. Cryptography is perfect: a signature is valid or is not. Generated contract
bindings and the contracts behind them are inputs.

## 6. Plan

1. `Snapshot`: `apply` with recent signers, the switch of the validators at half
   a validator set into the epoch, `IsRecentlySigned`, `supposeValidator`, with
   header checks and sealing. Hazards: a validator barred too long or too short
   when the set shrinks, a set that nobody may extend, `GetFinalizedBlock` across
   a switch of the voters. An abstract specification: no validator signs twice
   within the limit.
2. `BlockChain`: `insertChain` with known, side and future blocks, `reorg`,
   `setHeadBeyondRoot`, one database write at a time, with crashes. To be shown to
   implement the head of `FastFinality`.
3. `VoteManager` with downloader events, composed with `VotePool` and shown to
   implement the votes of `FastFinality`.
4. `RoninPeer`: the known-vote cache and the bounded queue, composed with
   `VotePool` for the delivery of votes.
5. Pure algorithms against reference definitions: the loop of
   `GetFinalizedBlock`, the bit set, `NormalizeFinalityVoteWeight`,
   `RemoveOutdatedRecents`, `backOffTime`.
6. `Worker` and `DoubleSignMonitor`; Consortium v1.
7. Theorems: weighted quorums satisfy `QuorumAssumption`; the invariants
   `QueueMatchesBoxes`, `CurVotesVerified`, `HeldOnce` and
   `NothingJustifiedQueued` of `VotePool`; the recent-signer rule of `Snapshot`;
   the refinements of items 2 and 3.
