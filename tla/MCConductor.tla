---------------------------- MODULE MCConductor -----------------------------
(* Instances of Conductor for TLC. *)
EXTENDS Conductor

CONSTANTS o1, p1

OneOperator == {o1}
OneSpeaker == {p1}
NoSpeaker == {}
AllReflexes == {"survival", "fatigue", "displacement"}
NapAndAbort == {"fatigue", "displacement"}
ParkOnly == {"survival"}

=============================================================================
