----------------------------- MODULE MCEventBus -----------------------------
(* Two publishers, one of them of the kind a plain reader reads; events that *)
(* become up to two routine events; buffers of two.                            *)
EXTENDS EventBus, TLC

CONSTANTS p1, p2, t1, h

MCPublishers == {p1, p2}
MCTranslators == {t1}
MCPlain == {h}
MCOf == h :> p1
=============================================================================
