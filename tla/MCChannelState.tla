--------------------------- MODULE MCChannelState ---------------------------
(* Small switchboards for TLC: a bridged pair (an inbound A-leg and the    *)
(* outbound B-leg it points to) and, in the larger one, the forked device  *)
(* leg of the same call that was never bridged.                            *)
EXTENDS ChannelState

CONSTANTS a, b, f, u1, u2

PairOwner    == [l \in {a, b} |-> IF l = a THEN u1 ELSE u2]
PairOther    == [l \in {a, b} |-> IF l = a THEN b ELSE a]
PairDirection == [l \in {a, b} |-> IF l = a THEN "inbound" ELSE "outbound"]

\* The B-leg is a gateway: its presence id names no directory user.
TrunkOwner   == [l \in {a, b} |-> IF l = a THEN u1 ELSE NoUser]

ForkOwner    == [l \in {a, b, f} |-> IF l = a THEN u1 ELSE u2]
ForkOther    == [l \in {a, b, f} |->
                   CASE l = a -> b [] l = b -> a [] l = f -> NoLeg]
ForkDirection == [l \in {a, b, f} |-> IF l = a THEN "inbound" ELSE "outbound"]
=============================================================================
