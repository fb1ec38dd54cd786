----------------------- MODULE MCFinalityVoteMonitor -----------------------
(***************************************************************************)
(* Instances of FinalityVoteMonitor.                                       *)
(***************************************************************************)
EXTENDS FinalityVoteMonitor

CONSTANTS b1, b2, b3, b4, b5, b6, p1, p2, p3, x, y

Block(hash, number, parent, voters) ==
  [hash |-> hash, number |-> number, parent |-> parent, voters |-> voters]

\* x votes for p1 and for p3, both of height 1, and y for b1 and b2, both of
\* height 2; a third height competes for the cache.
DoubleVoters ==
  {Block(b1, 2, p1, {x}), Block(b2, 2, p2, {y}), Block(b3, 2, p3, {x}),
   Block(b4, 3, b1, {y}), Block(b5, 3, b2, {x, y}), Block(b6, 4, b4, {x, y})}

\* Two blocks on one parent carry the votes for it.
Siblings ==
  {Block(b1, 2, p1, {x, y}), Block(b2, 2, p1, {x, y}), Block(b3, 3, b1, {x, y}),
   Block(b4, 4, b3, {x, y})}
=============================================================================
