------------------------------- MODULE QuietCall -------------------------------
(***************************************************************************)
(* What a debounced function promises: of a burst of calls the last one is *)
(* carried out, once, when Wait has passed without another call, unless    *)
(* the call is cancelled.  If the clock is set meanwhile it may be carried *)
(* out earlier, but not twice and not with the arguments of another call.  *)
(***************************************************************************)
EXTENDS Naturals

CONSTANTS Args, None, Wait

VARIABLES
    pending,    \* the arguments of the call to be carried out, or None
    quiet,      \* time since the last call, up to Wait
    clockSet,   \* whether the clock was set since then
    done        \* the last call carried out and the number of calls that were

vars == <<pending, quiet, clockSet, done>>

Init ==
    /\ pending = None
    /\ quiet = Wait
    /\ clockSet = FALSE
    /\ done = [arg |-> None, count |-> 0]

Call ==
    /\ \E a \in Args : pending' = a
    /\ quiet' = 0
    /\ clockSet' = FALSE
    /\ UNCHANGED done

Cancel == pending' = None /\ UNCHANGED <<quiet, clockSet, done>>

Invoke ==
    /\ pending # None
    /\ quiet = Wait \/ clockSet
    /\ done' = [arg |-> pending, count |-> done.count + 1]
    /\ pending' = None
    /\ UNCHANGED <<quiet, clockSet>>

Pass == quiet < Wait /\ quiet' = quiet + 1 /\ UNCHANGED <<pending, clockSet, done>>

SetClock == clockSet' = TRUE /\ UNCHANGED <<pending, quiet, done>>

Next == Call \/ Cancel \/ Invoke \/ Pass \/ SetClock

Spec == Init /\ [][Next]_vars

FairSpec == Spec /\ WF_vars(Invoke)
=============================================================================
