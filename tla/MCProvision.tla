---------------------------- MODULE MCProvision -----------------------------
(* Two streams, so that a reconnect meets the stream it supersedes, a channel *)
(* of one directive, so that a push may be dropped, and two goals.            *)
EXTENDS Provision

CONSTANTS k1, k2, p1, p2, g1, g2

MCStreams == {k1, k2}
MCOneOperator == {p1}
MCTwoOperators == {p1, p2}
MCGoals == {g1, g2}
=============================================================================
