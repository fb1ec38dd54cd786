----------------------------- MODULE MCVotePool -----------------------------
(***************************************************************************)
(* Instances of VotePool.  Two forks: a1 to a4 justify nothing for a long  *)
(* time, b2 justifies b1.                                                  *)
(***************************************************************************)
EXTENDS VotePool, TLC

CONSTANTS g, a1, a2, a3, a4, b1, b2, x, y, z, p, q

Header(number, parent, justified) ==
  [number |-> number, parent |-> parent, justified |-> justified]

ForkHeaders ==
  g :> Header(0, g, 0) @@ a1 :> Header(1, g, 0) @@ a2 :> Header(2, a1, 0)
    @@ a3 :> Header(3, a2, 0) @@ a4 :> Header(4, a3, 0)
    @@ b1 :> Header(1, g, 0) @@ b2 :> Header(2, b1, 1)

ShortHeaders ==
  g :> Header(0, g, 0) @@ a1 :> Header(1, g, 0) @@ a2 :> Header(2, a1, 0)
    @@ b1 :> Header(1, g, 0)

ForkKeys == [h \in DOMAIN ForkHeaders |-> {x, y}]

ShortKeys == [h \in DOMAIN ShortHeaders |-> {x, y}]

Vote(h, n, key) ==
  [TargetNumber |-> n, TargetHash |-> h, PublicKey |-> key, signed |-> TRUE]

Unsigned(v) == [v EXCEPT !.signed = FALSE]

\* Votes of validators, with the number of their block.
ValidVotes == {Vote(a2, 2, x), Vote(a2, 2, y), Vote(b1, 1, x)}

\* Votes with a wrong number, without a valid signature, of no validator.
FaultyVotes ==
  {Vote(a2, 2, x), Vote(a2, 3, x), Unsigned(Vote(a2, 2, y)), Vote(a2, 2, z)}

\* Two votes that disagree on the number of a block.
DisagreeingVotes == {Vote(b1, 1, x), Vote(b1, 2, y)}

\* Two votes for one block.
TwoVotes == {Vote(a2, 2, x), Vote(a2, 2, y)}
=============================================================================
