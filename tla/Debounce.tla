------------------------------- MODULE Debounce -------------------------------
(***************************************************************************)
(* lodash's debounce as the page's scripts use it, debounce(func, wait)    *)
(* without options: no leading call and no maxWait.  Its timer is set by   *)
(* the browser's own clock and may fire late; the times that it compares   *)
(* are Date.now(), which the user or the network may set forward or back   *)
(* between two steps.  Times are kept relative to now: timeSinceLastCall   *)
(* grows with the clock, and the timer is what it has still to run.        *)
(***************************************************************************)
EXTENDS Integers

CONSTANTS
    Args,       \* the arguments that a call may have
    None,
    Wait,       \* wait, in ticks
    Jump,       \* the furthest that the clock is set forward or back, in ticks
    MaxBursts,  \* bound on the calls of a behaviour
    MaxJumps    \* bound on the times that the clock is set

ASSUME DebounceAssumption ==
    /\ None \notin Args \cup Int
    /\ Wait \in Nat \ {0}
    /\ Jump \in Nat
    /\ MaxBursts \in Nat
    /\ MaxJumps \in Nat

VARIABLES
    lastArgs,
    lastCall,       \* timeSinceLastCall, saturated at Wait; None without a lastCallTime
    timerId,        \* what the timer has still to run, or None
    quiet,          \* ticks that really passed since the last call, saturated at Wait
    clockSet,       \* whether the clock was set since the last call
    done,           \* the last call of func and the number of its calls
    callsMade,
    jumps

debounceVars == <<lastArgs, lastCall, timerId, quiet, clockSet, done, callsMade, jumps>>

Least(a, b) == IF a < b THEN a ELSE b

DebounceTypeOK ==
    /\ lastArgs \in Args \cup {None}
    /\ lastCall \in {None} \cup -(Jump * MaxJumps) .. Wait
    /\ timerId \in {None} \cup 0 .. Wait + Jump * MaxJumps
    /\ quiet \in 0 .. Wait
    /\ clockSet \in BOOLEAN
    /\ done \in [arg : Args \cup {None}, count : 0 .. MaxBursts]
    /\ callsMade \in 0 .. MaxBursts
    /\ jumps \in 0 .. MaxJumps

DebounceInit ==
    /\ lastArgs = None
    /\ lastCall = None
    /\ timerId = None
    /\ quiet = Wait
    /\ clockSet = FALSE
    /\ done = [arg |-> None, count |-> 0]
    /\ callsMade = 0
    /\ jumps = 0

ShouldInvoke == lastCall = None \/ lastCall >= Wait \/ lastCall < 0

\* debounced: with neither leading nor maxWait, every way through it keeps the arguments
\* and the time and sees to it that a timer runs.
Debounced(a) ==
    /\ callsMade < MaxBursts
    /\ callsMade' = callsMade + 1
    /\ lastArgs' = a
    /\ lastCall' = 0
    /\ timerId' = IF timerId = None THEN Wait ELSE timerId
    /\ quiet' = 0
    /\ clockSet' = FALSE
    /\ UNCHANGED <<done, jumps>>

\* trailingEdge and invokeFunc; the arguments are there whenever the timer is.
TrailingEdge ==
    /\ timerId' = None
    /\ lastArgs' = None
    /\ done' = IF lastArgs = None THEN done
               ELSE [arg |-> lastArgs, count |-> done.count + 1]

\* Mutant: the timer that expires is the trailing edge, however late the last call was.
TimerExpiredAlways ==
    /\ timerId = 0
    /\ TrailingEdge
    /\ UNCHANGED <<lastCall, quiet, clockSet, callsMade, jumps>>

TimerExpired ==
    /\ timerId = 0
    /\ \/ ShouldInvoke /\ TrailingEdge
       \/ /\ ~ShouldInvoke
          /\ timerId' = Wait - lastCall
          /\ UNCHANGED <<lastArgs, done>>
    /\ UNCHANGED <<lastCall, quiet, clockSet, callsMade, jumps>>

DebounceCancel ==
    /\ lastArgs' = None
    /\ lastCall' = None
    /\ timerId' = None
    /\ UNCHANGED <<quiet, clockSet, done, callsMade, jumps>>

Elapse ==
    /\ quiet < Wait \/ timerId \notin {None, 0} \/ lastCall \in -(Jump * MaxJumps) .. Wait - 1
    /\ quiet' = Least(quiet + 1, Wait)
    /\ lastCall' = IF lastCall = None THEN None ELSE Least(lastCall + 1, Wait)
    /\ timerId' = IF timerId \in {None, 0} THEN timerId ELSE timerId - 1
    /\ UNCHANGED <<lastArgs, clockSet, done, callsMade, jumps>>

SetClock ==
    /\ lastCall # None
    /\ jumps < MaxJumps
    /\ jumps' = jumps + 1
    /\ clockSet' = TRUE
    /\ \E d \in -Jump .. Jump : lastCall' = Least(lastCall + d, Wait)
    /\ UNCHANGED <<lastArgs, timerId, quiet, done, callsMade>>

DebounceNext ==
    \/ \E a \in Args : Debounced(a)
    \/ TimerExpired
    \/ DebounceCancel
    \/ Elapse
    \/ SetClock

DebounceSpec == DebounceInit /\ [][DebounceNext]_debounceVars

\* Time passes and the browser runs a timer that is due.
DebounceFairness == WF_debounceVars(Elapse) /\ WF_debounceVars(TimerExpired)

-----------------------------------------------------------------------------
Promise == INSTANCE QuietCall WITH pending <- lastArgs

\* Of a burst of calls the last one is carried out, once, not before Wait has passed
\* since it and always some time after, although the timer is not set anew by a later
\* call and the clock may jump (debounced and timerExpired implement QuietCall).
LastCallDone == Promise!FairSpec
=============================================================================
