--------------------------- MODULE MCDistillation ---------------------------
(* Distillation for TLC. *)
EXTENDS Distillation
=============================================================================
