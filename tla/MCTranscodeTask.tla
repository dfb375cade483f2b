---------------------------- MODULE MCTranscodeTask ----------------------------
(* Small instances of TranscodeTask for TLC. *)
EXTENDS TranscodeTask

\* Requests are alike: a new one takes the first free slot.
FirstFree ==
    \A p, q \in Requests :
        (p = "p1" /\ q = "p2" /\ req[p].at = "idle" /\ req[q].at = "idle")
            => req'[q].at = "idle"
=============================================================================
