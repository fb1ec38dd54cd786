------------------------------ MODULE VotePool ------------------------------
(***************************************************************************)
(* The pool of finality votes of one node, src/core/vote/vote_pool.go, and *)
(* what it sees of the chain.                                              *)
(*                                                                         *)
(* Votes for known blocks are kept in the boxes of "cur", votes for blocks *)
(* that have not arrived in the boxes of "future".  One goroutine, loop,   *)
(* changes the pool: it takes head events and votes, in any order, while   *)
(* the chain moves on.  Any vote of Votes may come from any peer at any    *)
(* time, again and again: votesCh only delays a vote, and dropPeer only    *)
(* closes a connection, so neither limits which votes arrive.              *)
(***************************************************************************)
EXTENDS Integers, Sequences, FiniteSets, Functions

CONSTANTS
  Headers,        \* the header of a block hash: its number, parent, and the
                  \* number of the justified block of the snapshot there
  Genesis,        \* the hash of block 0
  BlsPublicKeys,  \* the voters of the snapshot at a block hash
  Voters,         \* the keys that sign votes, of validators and of others
  Votes,          \* the vote envelopes that may arrive
  Peers,          \* who sends them
  maxCurVoteAmountPerBlock,
  maxFutureVoteAmountPerBlock,
  maxFutureVotePerPeer,
  lowerLimitOfVoteBlockNumber,
  upperLimitOfVoteBlockNumber,
  chainHeadChanSize,
  UintModulus     \* 2^64 in the code: numFutureVotePerPeer counts in uint64

VARIABLES
  known,        \* the hashes for which GetHeaderByHash answers
  head,         \* CurrentBlock
  announced,    \* the last change of head was sent on chainHeadFeed
  chainHeadCh,  \* the head events that wait
  checked,      \* the vote that passed the range check and waits for pool.mu
  pool          \* what pool.mu guards

vars == <<known, head, announced, chainHeadCh, checked, pool>>

Hashes == DOMAIN Headers

Number(h) == Headers[h].number

Kinds == {"cur", "future"}

\* A vote carries the number and the hash of its target, the key of the voter,
\* and a signature that is valid for that key or is not.
VoteEnvelope ==
  [TargetNumber : Nat, TargetHash : Hashes, PublicKey : Voters, signed : BOOLEAN]

voteWithPeer == [vote : Votes, peer : Peers]

VoteData == [TargetNumber : Nat, TargetHash : Hashes]

VoteBox == [blockNumber : Nat, voteMessages : SUBSET voteWithPeer]

ASSUME LimitsAssumption ==
  /\ maxCurVoteAmountPerBlock \in Nat \ {0}
  /\ maxFutureVoteAmountPerBlock \in Nat \ {0}
  /\ maxFutureVotePerPeer \in Nat \ {0}
  /\ upperLimitOfVoteBlockNumber \in Nat \ {0}
  /\ lowerLimitOfVoteBlockNumber \in Nat
  /\ lowerLimitOfVoteBlockNumber > upperLimitOfVoteBlockNumber
  /\ chainHeadChanSize \in Nat \ {0}
  /\ UintModulus \in Nat
  /\ UintModulus > maxFutureVotePerPeer

ASSUME ChainAssumption ==
  /\ Genesis \in Hashes
  /\ \A h \in Hashes : /\ Number(h) \in Nat
                       /\ Headers[h].justified \in Nat
                       /\ h # Genesis => /\ Headers[h].parent \in Hashes
                                         /\ Number(h) = Number(Headers[h].parent) + 1
  /\ BlsPublicKeys \in [Hashes -> SUBSET Voters]
  /\ Votes \subseteq VoteEnvelope

-----------------------------------------------------------------------------
(* The chain as the pool sees it.                                          *)

\* A block is stored on a side of the chain: known, no event for the pool.
WriteSideBlock(h) ==
  /\ h \notin known
  /\ Headers[h].parent \in known
  /\ known' = known \cup {h}
  /\ UNCHANGED <<head, announced, chainHeadCh, checked, pool>>

\* A block becomes the head, new or known.  A batch of blocks moves the head
\* once for every block and sends an event for the last one only.
WriteHeadBlock(h) ==
  /\ h # head /\ h # Genesis
  /\ Headers[h].parent \in known
  /\ known' = known \cup {h}
  /\ head' = h
  /\ announced' = FALSE
  /\ UNCHANGED <<chainHeadCh, checked, pool>>


\* The end of the import: chainHeadFeed.Send, which waits while the channel
\* of the pool is full.
SendChainHeadEvent ==
  /\ ~announced
  /\ Len(chainHeadCh) < chainHeadChanSize
  /\ chainHeadCh' = Append(chainHeadCh, head)
  /\ announced' = TRUE
  /\ UNCHANGED <<known, head, checked, pool>>

-----------------------------------------------------------------------------
(* The operations of the pool, as functions of what pool.mu guards.        *)

\* The votes of the boxes m[h], h \in S.
Messages(m, S) == UNION {m[h].voteMessages : h \in S}

\* The number of votes in msgs that p believes to come from peer.
From(p, msgs, peer) ==
  Cardinality({m \in msgs : /\ m.vote \in DOMAIN p.originatedFrom
                            /\ p.originatedFrom[m.vote] = peer})
\* Mutant of Decremented: the votes that leave are not counted back.
Decremented_kept(p, msgs) == p.numFutureVotePerPeer

\* numFutureVotePerPeer[peer]-- for every vote of msgs whose sender is known.
Decremented(p, msgs) ==
  [q \in Peers |-> (p.numFutureVotePerPeer[q] - From(p, msgs, q)) % UintModulus]

\* VerifyVote of the engine.  The signature was verified before.
VerifyVote(v) ==
  /\ v.TargetHash \in known
  /\ Number(v.TargetHash) = v.TargetNumber
  /\ v.PublicKey \in BlsPublicKeys[v.TargetHash]

isExceedMaxVotePerBlock(v, m, kind) ==
  /\ v.TargetHash \in DOMAIN m
  /\ Cardinality(m[v.TargetHash].voteMessages) >=
       (IF kind = "future" THEN maxFutureVoteAmountPerBlock
                           ELSE maxCurVoteAmountPerBlock)

\* Mutant of putVote: every vote pushes an entry.
putVote_push(p, msg, kind) ==
  LET v == msg.vote
      h == v.TargetHash
      m == p.votes[kind]
      box == IF h \in DOMAIN m THEN m[h]
             ELSE [blockNumber |-> v.TargetNumber, voteMessages |-> {}]
      full == [box EXCEPT !.voteMessages = @ \cup {msg}]
  IN [p EXCEPT
       !.votes[kind] = [x \in DOMAIN m \cup {h} |-> IF x = h THEN full ELSE m[x]],
       !.votesPq[kind] = @ \cup {[TargetNumber |-> v.TargetNumber, TargetHash |-> h]}]

\* The queue gets an entry only when the box is new, with the number that the
\* first vote of the box claims.
putVote(p, msg, kind) ==
  LET v == msg.vote
      h == v.TargetHash
      m == p.votes[kind]
      box == IF h \in DOMAIN m THEN m[h]
             ELSE [blockNumber |-> v.TargetNumber, voteMessages |-> {}]
      full == [box EXCEPT !.voteMessages = @ \cup {msg}]
  IN [p EXCEPT
       !.votes[kind] = [x \in DOMAIN m \cup {h} |-> IF x = h THEN full ELSE m[x]],
       !.votesPq[kind] = IF h \in DOMAIN m THEN @
                         ELSE @ \cup {[TargetNumber |-> v.TargetNumber, TargetHash |-> h]}]
\* Mutant of pruneVote: the box stays when its entry is popped.
pruneVote_box(p, latestBlockNumber, kind) ==
  LET old == {e \in p.votesPq[kind] :
                \/ e.TargetNumber + lowerLimitOfVoteBlockNumber - 1 < latestBlockNumber
                \/ e.TargetNumber <= p.justifiedBlockNumber}
  IN [p EXCEPT !.votesPq[kind] = @ \ old]

\* The loop stops at the first entry that is young enough; the queue is ordered
\* by number, so it pops exactly the old ones.
pruneVote(p, latestBlockNumber, kind) ==
  LET m == p.votes[kind]
      old == {e \in p.votesPq[kind] :
                \/ e.TargetNumber + lowerLimitOfVoteBlockNumber - 1 < latestBlockNumber
                \/ e.TargetNumber <= p.justifiedBlockNumber}
      gone == {e.TargetHash : e \in old} \cap DOMAIN m
      msgs == Messages(m, gone)
  IN [p EXCEPT
       !.votesPq[kind] = @ \ old,
       !.votes[kind] = Restrict(@, DOMAIN @ \ gone),
       !.originatedFrom = Restrict(@, DOMAIN @ \ {x.vote : x \in msgs}),
       !.numFutureVotePerPeer = IF kind = "future" THEN Decremented(p, msgs) ELSE @]

\* The counters of the peers whose last future vote is below the window go.
\* lastFutureVoteBlock is 0 for the peers that are not in the map.
pruneFutureVoteCounter(p, latestBlockNumber) ==
  LET below == latestBlockNumber - lowerLimitOfVoteBlockNumber
      thresholdBlock == IF below > 0 THEN below ELSE 0
      idle == {q \in Peers : /\ p.lastFutureVoteBlock[q] # 0
                             /\ p.lastFutureVoteBlock[q] <= thresholdBlock}
  IN [p EXCEPT
       !.numFutureVotePerPeer = [q \in Peers |-> IF q \in idle THEN 0 ELSE @[q]],
       !.lastFutureVoteBlock = [q \in Peers |-> IF q \in idle THEN 0 ELSE @[q]]]

prune(p, latestBlockNumber) ==
  pruneFutureVoteCounter(
    pruneVote(pruneVote(p, latestBlockNumber, "cur"), latestBlockNumber, "future"),
    latestBlockNumber)
\* Mutant of transfer: the votes move without VerifyVote.
transfer_unverified(p, es) ==
  LET cur == p.votes["cur"]
      future == p.votes["future"]
      moved == {e.TargetHash : e \in es} \cap DOMAIN future
      box(h) == IF h \in DOMAIN cur
                THEN [cur[h] EXCEPT !.voteMessages = @ \cup future[h].voteMessages]
                ELSE future[h]
  IN [p EXCEPT
       !.votesPq = [cur |-> @.cur \cup {e \in es : e.TargetHash \in moved \ DOMAIN cur},
                    future |-> @.future \ es],
       !.votes = [cur |-> [h \in DOMAIN cur \cup moved |->
                             IF h \in moved THEN box(h) ELSE cur[h]],
                  future |-> Restrict(future, DOMAIN future \ moved)],
       !.numFutureVotePerPeer = Decremented(p, Messages(future, moved))]

\* Mutant of transfer: the future box replaces the current one.
transfer_replace(p, es) ==
  LET cur == p.votes["cur"]
      future == p.votes["future"]
      moved == {e.TargetHash : e \in es} \cap DOMAIN future
  IN [p EXCEPT
       !.votesPq = [cur |-> @.cur \cup {e \in es : e.TargetHash \in moved \ DOMAIN cur},
                    future |-> @.future \ es],
       !.votes = [cur |-> [h \in DOMAIN cur \cup moved |->
                             IF h \in moved THEN future[h] ELSE cur[h]],
                  future |-> Restrict(future, DOMAIN future \ moved)],
       !.numFutureVotePerPeer = Decremented(p, Messages(future, moved))]

\* The future boxes of the entries es go to the current votes, without the votes
\* that VerifyVote refuses.  The sender of a refused vote stays recorded.
transfer(p, es) ==
  LET cur == p.votes["cur"]
      future == p.votes["future"]
      moved == {e.TargetHash : e \in es} \cap DOMAIN future
      valid(h) == {m \in future[h].voteMessages : VerifyVote(m.vote)}
      box(h) == IF h \in DOMAIN cur THEN [cur[h] EXCEPT !.voteMessages = @ \cup valid(h)]
                ELSE [blockNumber |-> future[h].blockNumber, voteMessages |-> valid(h)]
  IN [p EXCEPT
       !.votesPq = [cur |-> @.cur \cup {e \in es : e.TargetHash \in moved \ DOMAIN cur},
                    future |-> @.future \ es],
       !.votes = [cur |-> [h \in DOMAIN cur \cup moved |->
                             IF h \in moved THEN box(h) ELSE cur[h]],
                  future |-> Restrict(future, DOMAIN future \ moved)],
       !.numFutureVotePerPeer = Decremented(p, Messages(future, moved))]
\* Mutant of transferVotesFromFutureToCur: the votes for the head itself stay.
transferVotes_below(p, latestBlockNumber) ==
  transfer(p, {e \in p.votesPq["future"] :
                 \/ e.TargetNumber + upperLimitOfVoteBlockNumber < latestBlockNumber
                 \/ e.TargetNumber < latestBlockNumber /\ e.TargetHash \in known})

\* Entries far below the head move whether their block is known or not, the
\* others up to the head when it is.
transferVotesFromFutureToCur(p, latestBlockNumber) ==
  transfer(p, {e \in p.votesPq["future"] :
                 \/ e.TargetNumber + upperLimitOfVoteBlockNumber < latestBlockNumber
                 \/ e.TargetNumber <= latestBlockNumber /\ e.TargetHash \in known})

-----------------------------------------------------------------------------
(* The loop.                                                               *)
\* Mutant of ProcessChainHead: the pool is pruned with the old justified number.
ProcessChainHead_late ==
  /\ chainHeadCh # <<>>
  /\ checked = {}
  /\ LET h == Head(chainHeadCh)
     IN pool' = [transferVotesFromFutureToCur(prune(pool, Number(h)), Number(h))
                   EXCEPT !.justifiedBlockNumber = Headers[h].justified]
  /\ chainHeadCh' = Tail(chainHeadCh)
  /\ UNCHANGED <<known, head, announced, checked>>

\* A head event.
ProcessChainHead ==
  /\ chainHeadCh # <<>>
  /\ checked = {}
  /\ LET h == Head(chainHeadCh)
         justified == [pool EXCEPT !.justifiedBlockNumber = Headers[h].justified]
     IN pool' = transferVotesFromFutureToCur(prune(justified, Number(h)), Number(h))
  /\ chainHeadCh' = Tail(chainHeadCh)
  /\ UNCHANGED <<known, head, announced, checked>>

\* putIntoVotePool up to the lock: the head that decides the range is the one
\* of now, not the one of the last event, and may be old at the next step.
CheckRange(v, peer) ==
  /\ checked = {}
  /\ v.TargetNumber + lowerLimitOfVoteBlockNumber - 1 >= Number(head)
  /\ v.TargetNumber <= Number(head) + upperLimitOfVoteBlockNumber
  /\ checked' = {[vote |-> v, peer |-> peer]}
  /\ UNCHANGED <<known, head, announced, chainHeadCh, pool>>
\* Mutant of Accepts: a vote that is held is taken again.
Accepts_again(p, msg, kind) ==
  LET v == msg.vote
  IN /\ v.TargetNumber > p.justifiedBlockNumber
     /\ kind = "future" => p.numFutureVotePerPeer[msg.peer] < maxFutureVotePerPeer
     /\ ~isExceedMaxVotePerBlock(v, p.votes[kind], kind)
     /\ v.signed
     /\ kind = "cur" => VerifyVote(v)


\* The checks of putIntoVotePool under the lock.
Accepts(p, msg, kind) ==
  LET v == msg.vote
  IN /\ v.TargetNumber > p.justifiedBlockNumber
     /\ v \notin DOMAIN p.originatedFrom
     /\ kind = "future" => p.numFutureVotePerPeer[msg.peer] < maxFutureVotePerPeer
     /\ ~isExceedMaxVotePerBlock(v, p.votes[kind], kind)
     /\ v.signed
     /\ kind = "cur" => VerifyVote(v)

\* The rest of putIntoVotePool.
putIntoVotePool ==
  \E msg \in checked :
    LET v == msg.vote
        kind == IF v.TargetHash \in known THEN "cur" ELSE "future"
        stored == [putVote(pool, msg, kind) EXCEPT
                     !.originatedFrom = [x \in DOMAIN @ \cup {v} |->
                                           IF x = v THEN msg.peer ELSE @[x]]]
        counted == [stored EXCEPT
                     !.numFutureVotePerPeer[msg.peer] = (@ + 1) % UintModulus,
                     !.lastFutureVoteBlock[msg.peer] =
                        IF @ < v.TargetNumber THEN v.TargetNumber ELSE @]
    IN /\ pool' = IF ~Accepts(pool, msg, kind) THEN pool
                  ELSE IF kind = "future" THEN counted ELSE stored
       /\ checked' = {}
       /\ UNCHANGED <<known, head, announced, chainHeadCh>>

EmptyPool ==
  [votes |-> [k \in Kinds |-> <<>>],
   votesPq |-> [k \in Kinds |-> {}],
   numFutureVotePerPeer |-> [q \in Peers |-> 0],
   lastFutureVoteBlock |-> [q \in Peers |-> 0],
   originatedFrom |-> <<>>,
   justifiedBlockNumber |-> 0]

\* The process stops and starts: the pool is not stored, and NewVotePool does
\* not read the justified block of the head.
Restart ==
  /\ announced' = TRUE
  /\ chainHeadCh' = <<>>
  /\ checked' = {}
  /\ pool' = EmptyPool
  /\ UNCHANGED <<known, head>>

Init ==
  /\ known = {Genesis}
  /\ head = Genesis
  /\ announced = TRUE
  /\ chainHeadCh = <<>>
  /\ checked = {}
  /\ pool = EmptyPool

Next ==
  \/ \E h \in Hashes : WriteSideBlock(h) \/ WriteHeadBlock(h)
  \/ SendChainHeadEvent
  \/ ProcessChainHead
  \/ \E v \in Votes, peer \in Peers : CheckRange(v, peer)
  \/ putIntoVotePool
  \/ Restart

Spec == Init /\ [][Next]_vars

\* The import ends and sends its event, a vote that passed the range check is
\* put, and the loop, whose select chooses among the ready channels at random,
\* takes a head event in the end even when votes never stop coming.
Fairness ==
  /\ WF_vars(SendChainHeadEvent)
  /\ WF_vars(putIntoVotePool)
  /\ SF_vars(ProcessChainHead)

FairSpec == Spec /\ Fairness

-----------------------------------------------------------------------------
(* Properties.                                                             *)

\* Every variable has its type; a box is kept under its block's hash and holds
\* votes for that hash only.
TypeOK ==
  /\ known \subseteq Hashes
  /\ head \in known
  /\ announced \in BOOLEAN
  /\ chainHeadCh \in Seq(Hashes) /\ Len(chainHeadCh) <= chainHeadChanSize
  /\ checked \subseteq voteWithPeer
  /\ \A k \in Kinds :
       /\ pool.votesPq[k] \subseteq VoteData
       /\ DOMAIN pool.votes[k] \subseteq Hashes
       /\ \A h \in DOMAIN pool.votes[k] :
            /\ pool.votes[k][h] \in VoteBox
            /\ \A m \in pool.votes[k][h].voteMessages : m.vote.TargetHash = h
  /\ pool.numFutureVotePerPeer \in [Peers -> 0 .. UintModulus - 1]
  /\ pool.lastFutureVoteBlock \in [Peers -> Nat]
  /\ DOMAIN pool.originatedFrom \subseteq Votes
  /\ \A v \in DOMAIN pool.originatedFrom : pool.originatedFrom[v] \in Peers
  /\ pool.justifiedBlockNumber \in Nat

Held(kind) == Messages(pool.votes[kind], DOMAIN pool.votes[kind])

\* The queues and the maps agree: every box has one entry in the queue of its
\* kind, with its number, and every entry has a box.  prune and transfer find
\* boxes only through the queues, so a box without entry would never leave.
QueueMatchesBoxes ==
  \A k \in Kinds :
    /\ \A h \in DOMAIN pool.votes[k] : \E e \in pool.votesPq[k] :
         e.TargetHash = h /\ e.TargetNumber = pool.votes[k][h].blockNumber
    /\ \A e \in pool.votesPq[k] : e.TargetHash \in DOMAIN pool.votes[k]
    /\ \A d, e \in pool.votesPq[k] : d.TargetHash = e.TargetHash => d = e

\* The sealer takes votes from the current boxes and checks no signature
\* (assembleFinalityVote): all of them were verified, against the block they
\* name and its voters, whether they came before or after that block.
CurVotesVerified == \A m \in Held("cur") : m.vote.signed /\ VerifyVote(m.vote)

\* A vote that came twice, from two peers or before and after its block, is
\* held once, and the pool knows from whom.
HeldOnce ==
  /\ Held("cur") \cap Held("future") = {}
  /\ \A m, n \in Held("cur") \cup Held("future") : m.vote = n.vote => m = n
  /\ \A m \in Held("cur") \cup Held("future") :
       /\ m.vote \in DOMAIN pool.originatedFrom
       /\ pool.originatedFrom[m.vote] = m.peer

\* numFutureVotePerPeer is the "number of queued votes per peer"
\* (vote_pool.go:69), after any order of puts, transfers and prunes.
CountersMatch ==
  \A q \in Peers :
    pool.numFutureVotePerPeer[q] = Cardinality({m \in Held("future") : m.peer = q})


\* No entry at or below the justified block of the last head event is left or
\* comes back, through a transfer or a late vote.
NothingJustifiedQueued ==
  \A k \in Kinds : \A e \in pool.votesPq[k] : e.TargetNumber > pool.justifiedBlockNumber

\* Once the event of the head was processed, the votes for the head are where
\* FetchVoteByBlockHash looks for them, those that came before the block too.
HeadVotesAvailable ==
  announced /\ chainHeadCh = <<>> => head \notin DOMAIN pool.votes["future"]

\* A vote leaves the current boxes in one way only: a head event makes its block
\* justified or too old.
CurVotesKept ==
  [][\/ Restart
     \/ \A h \in DOMAIN pool.votes["cur"] :
          \/ /\ h \in DOMAIN pool.votes["cur"]'
             /\ pool.votes["cur"][h].voteMessages \subseteq pool.votes["cur"]'[h].voteMessages
          \/ Number(h) <= pool.justifiedBlockNumber'
          \/ /\ chainHeadCh # <<>>
             /\ Number(h) + lowerLimitOfVoteBlockNumber <= Number(Head(chainHeadCh))]_vars

\* The pool holds every vote that it refuses as "already contained"
\* (vote_pool.go:171).
OriginsHeld ==
  DOMAIN pool.originatedFrom \subseteq {m.vote : m \in Held("cur") \cup Held("future")}

=============================================================================
