---------------------------- MODULE SessionBase -----------------------------
(* The constants of a connection (src/session/conn.go), for the modules that   *)
(* model it and the one that composes it with its users.                       *)
EXTENDS Naturals

CONSTANTS
  RecvCap, SendCap,  \* the capacities of recvCh and sendCh
  MaxFrames,         \* bound: frames the server sends
  Stalls             \* whether the server may stop reading

ASSUME CapsAssumption == RecvCap \in Nat \ {0} /\ SendCap \in Nat \ {0}
ASSUME FramesAssumption == MaxFrames \in Nat
ASSUME StallsAssumption == Stalls \in BOOLEAN

=============================================================================
