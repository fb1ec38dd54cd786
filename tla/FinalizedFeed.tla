---------------------------- MODULE FinalizedFeed ----------------------------
(***************************************************************************)
(* What a node tells the subscribers of finalized blocks,                  *)
(* src/eth/filters/filter_system.go, on top of FastFinality.               *)
(*                                                                         *)
(* Every block that becomes the head sends a ChainEvent with the finalized *)
(* block of the new head, and the event system tells its subscribers when  *)
(* the number differs from the last one it told them.                      *)
(***************************************************************************)
EXTENDS FastFinality

VARIABLE lastFinalized  \* es.lastFinalized, 0 before the first notification

feedVars == <<vars, lastFinalized>>

\* handleFinalizedEvent, for the ChainEvent that sendNewBlockEvent makes of the
\* head h.
handleFinalizedEvent(v, h) ==
    lastFinalized' =
        [lastFinalized EXCEPT ![v] =
            IF GetFinalizedBlock(h) = 0 THEN @ ELSE GetFinalizedBlock(h)]

\* Blocks are imported one by one here, because each of them sends an event: the
\* blocks of b's chain that head[v] does not have are stored on a side already.
InsertBlock(v, b) ==
    /\ \A n \in 1 .. Number(b) - 1 :
          InChain(Ancestor(b, n), head[v]) \/ FALSE \in reorgNeeded(head[v], Ancestor(b, n))
    /\ InsertChain(v, b)
    /\ handleFinalizedEvent(v, b)

\* A producer's own block sends the event when it becomes the head.
SealBlock(v, parent, payload, hasFinalityVote) ==
    /\ Seal(v, parent, payload, hasFinalityVote)
    /\ \/ v \in Honest /\ head' # head /\ handleFinalizedEvent(v, head'[v])
       \/ head' = head /\ UNCHANGED lastFinalized

FeedInit == Init /\ lastFinalized = [v \in Honest |-> 0]

FeedNext ==
    \/ \E v \in Range(BlockProducers), parent \in blocks,
          payload \in Payloads, hasFinalityVote \in BOOLEAN :
            SealBlock(v, parent, payload, hasFinalityVote)
    \/ \E v \in Honest, b \in blocks : InsertBlock(v, b)
    \/ /\ \E v \in Honest : SignVote(v) \/ SkipVote(v) \/ PutVote(v)
       /\ UNCHANGED lastFinalized

FeedSpec == FeedInit /\ [][FeedNext]_feedVars

\* Subscribers are told "each time a new block is marked as "Finalized""
\* (api.go:214): a notification is about a higher block than the last one.
NotifiesNewBlocks ==
    [][\A v \in Honest : lastFinalized'[v] # lastFinalized[v] =>
                            lastFinalized'[v] > lastFinalized[v]]_feedVars
=============================================================================
