--------------------------- MODULE MCCasePipeline ---------------------------
(* Small instances of CasePipeline for TLC. *)
EXTENDS CasePipeline

CONSTANTS va, vb, submission

OneVariant == <<va>>
TwoVariants == <<va, vb>>
=============================================================================
