--------------------------- MODULE MCTieredMemory ---------------------------
(* TieredMemory for TLC: one key, used by one caller, whose class is any of   *)
(* four: DefaultPolicy's goals, reputation and scratch, and a write-through   *)
(* class, which DefaultPolicy does not use and a host's own policy may.  Two  *)
(* keys of the first class for what a restart does to the journal.            *)
EXTENDS TieredMemory

CONSTANTS key1, key2, c1

AllUse == [k \in Keys |-> Callers]

Class(r, w) == [k \in Keys |-> [read |-> r, write |-> w]]

FourClasses == {Class("cached", "back"), Class("fresh", "authoritative"),
                Class("local", "around"), Class("cached", "through")}

Goals == {Class("cached", "back")}

PutsOfClass == [w \in Writes |-> CASE w = "back" -> 4 [] w = "through" -> 2 [] OTHER -> 1]
=============================================================================
