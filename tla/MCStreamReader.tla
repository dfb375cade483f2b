---------------------------- MODULE MCStreamReader ----------------------------
(* Small instances of StreamReader for TLC. *)
EXTENDS StreamReader, TLC

CONSTANTS s1, s2, u1

StreamSymmetry == Permutations(Streams)
=============================================================================
