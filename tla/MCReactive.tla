----------------------------- MODULE MCReactive -----------------------------
(* Three speakers, room for two windows and one latch: every new speaker at  *)
(* the cap evicts, and a second conversation finds the latch taken.          *)
EXTENDS Reactive, TLC

CONSTANTS s1, s2, s3, t1, t2

MCSpeakers == {s1, s2, s3}
MCPeers == MCSpeakers
MCTimers == {t1, t2}
MCSymmetry == Permutations(MCSpeakers) \union Permutations(MCTimers)
=============================================================================
