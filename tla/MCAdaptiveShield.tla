--------------------------- MODULE MCAdaptiveShield ---------------------------
(* Instances of AdaptiveShield for model checking, and its mutants.         *)
EXTENDS AdaptiveShield

=============================================================================
