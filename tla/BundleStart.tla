------------------------------ MODULE BundleStart ------------------------------
(***************************************************************************)
(* What the scripts of the page promise: each entry module runs, and runs  *)
(* once, when every script that it needs has been evaluated, in whatever   *)
(* order the browser evaluates them.                                       *)
(***************************************************************************)
EXTENDS Naturals

CONSTANTS Scripts, Entries, Waits

VARIABLES arrived, ran

Init == arrived = {} /\ ran = [e \in Entries |-> 0]

\* Entries that may start once the given scripts have been evaluated.
Startable(scripts) == {e \in Entries : Waits[e] \subseteq scripts /\ ran[e] = 0}

Start(S) == ran' = [e \in Entries |-> IF e \in S THEN 1 ELSE ran[e]]

Arrive == \E s \in Scripts : arrived' = arrived \cup {s}

Next ==
    /\ Arrive \/ UNCHANGED arrived
    /\ \E S \in SUBSET Startable(arrived') : Start(S)

Spec == Init /\ [][Next]_<<arrived, ran>>

AllStart == \A e \in Entries : Waits[e] \subseteq arrived ~> ran[e] = 1
=============================================================================
