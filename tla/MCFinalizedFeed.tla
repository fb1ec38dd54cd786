--------------------------- MODULE MCFinalizedFeed ---------------------------
(***************************************************************************)
(* An instance of FinalizedFeed with one honest voter, which is in every   *)
(* quorum, and one producer.                                               *)
(***************************************************************************)
EXTENDS FinalizedFeed, FinalityThreshold

CONSTANTS f, g, v, p

FeedProducers == <<f>>

FeedQuorums == CountQuorums(Voters)
=============================================================================
