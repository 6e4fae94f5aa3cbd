---------------------------- MODULE MCSupervisor ----------------------------
(* Instances of Supervisor for TLC: two API goroutines racing each other,    *)
(* room for a second supervise goroutine, three runs.                        *)
EXTENDS Supervisor, TLC

CONSTANTS c1, c2, s1, s2

MCClients == {c1, c2}
MCSlots == {s1, s2}
MCSymmetry == Permutations(MCClients) \union Permutations(MCSlots)

=============================================================================
