---------------------------- MODULE AdaptiveShield ----------------------------
(***************************************************************************)
(* The adaptive corruption shield of torrstor/piece.go.  Its state is a    *)
(* handful of package-level atomics shared by every piece of every cache:  *)
(* concurrent callers of Piece.MarkNotComplete (markers) count corrupted   *)
(* pieces and may switch the reader to STRICT mode, and a watchdog         *)
(* goroutine switches it back after a clean streak.  Each action is one    *)
(* atomic operation of the code, so every interleaving of the atomics is   *)
(* explored.  ResetShield has no caller outside the tests and is left out.  *)
(***************************************************************************)
EXTENDS Integers

CONSTANTS
    Markers,        \* goroutines that may be inside MarkNotComplete
    Watchdogs,      \* names for the watchdog goroutines that may be alive
    CleanUnit,      \* the 30 s of one escalation step, in ticks
    EscalationCap,  \* strictEscalationCapSeconds, in ticks
    MaxCorruptions  \* bound on the corrupted pieces of a behaviour

ASSUME ShieldAssumption ==
    /\ CleanUnit \in Nat \ {0}
    /\ EscalationCap \in Nat /\ EscalationCap >= CleanUnit
    /\ MaxCorruptions \in Nat

VARIABLES
    age,                    \* ticks since lastCorruptionUnix, saturated above the cap
    shieldActive,
    isWatchdogRunning,
    staticCorruptionCount,
    strictCycleCount,
    marker,                 \* where each marker stands in MarkNotComplete
    watchdog,               \* where each watchdog stands in its loop, or "off"
    elapsed,                \* the clean time each watchdog sampled last
    corruptions             \* corrupted pieces so far

vars == <<age, shieldActive, isWatchdogRunning, staticCorruptionCount,
          strictCycleCount, marker, watchdog, elapsed, corruptions>>

MarkerPC == {"idle", "stored", "count", "cycle", "strict", "arm", "swap"}
WatchdogPC == {"off", "sleep", "sampled", "lift", "count", "cycle", "stop"}

TypeOK ==
    /\ age \in 0 .. EscalationCap + 1
    /\ shieldActive \in BOOLEAN
    /\ isWatchdogRunning \in BOOLEAN
    /\ staticCorruptionCount \in Nat
    /\ strictCycleCount \in Nat
    /\ marker \in [Markers -> MarkerPC]
    /\ watchdog \in [Watchdogs -> WatchdogPC]
    /\ elapsed \in [Watchdogs -> 0 .. EscalationCap + 1]
    /\ corruptions \in 0 .. MaxCorruptions

Init ==
    /\ age = EscalationCap + 1     \* lastCorruptionUnix is 0
    /\ shieldActive = FALSE
    /\ isWatchdogRunning = FALSE
    /\ staticCorruptionCount = 0
    /\ strictCycleCount = 0
    /\ marker = [m \in Markers |-> "idle"]
    /\ watchdog = [w \in Watchdogs |-> "off"]
    /\ elapsed = [w \in Watchdogs |-> 0]
    /\ corruptions = 0

-----------------------------------------------------------------------------
(* Piece.MarkNotComplete on a piece whose buffer is not nil.               *)

Goto(m, pc) == marker' = [marker EXCEPT ![m] = pc]

RecordCorruption(m) ==
    /\ marker[m] = "idle"
    /\ corruptions < MaxCorruptions
    /\ corruptions' = corruptions + 1
    /\ age' = 0
    /\ Goto(m, "stored")
    /\ UNCHANGED <<shieldActive, isWatchdogRunning, staticCorruptionCount,
                   strictCycleCount, watchdog, elapsed>>

\* ResponsiveMode is on (it is forced on when the settings are loaded).
CheckShield(m) ==
    /\ marker[m] = "stored"
    /\ Goto(m, IF shieldActive THEN "arm" ELSE "count")
    /\ UNCHANGED <<age, shieldActive, isWatchdogRunning, staticCorruptionCount,
                   strictCycleCount, watchdog, elapsed, corruptions>>

CountCorruption(m) ==
    /\ marker[m] = "count"
    /\ staticCorruptionCount' = staticCorruptionCount + 1
    /\ Goto(m, IF staticCorruptionCount' > 1 THEN "cycle" ELSE "arm")
    /\ UNCHANGED <<age, shieldActive, isWatchdogRunning, strictCycleCount,
                   watchdog, elapsed, corruptions>>

Escalate(m) ==
    /\ marker[m] = "cycle"
    /\ strictCycleCount' = strictCycleCount + 1
    /\ Goto(m, "strict")
    /\ UNCHANGED <<age, shieldActive, isWatchdogRunning, staticCorruptionCount,
                   watchdog, elapsed, corruptions>>

ActivateShield(m) ==
    /\ marker[m] = "strict"
    /\ shieldActive' = TRUE
    /\ Goto(m, "arm")
    /\ UNCHANGED <<age, isWatchdogRunning, staticCorruptionCount,
                   strictCycleCount, watchdog, elapsed, corruptions>>

CheckPending(m) ==
    /\ marker[m] = "arm"
    /\ Goto(m, IF staticCorruptionCount >= 1 THEN "swap" ELSE "idle")
    /\ UNCHANGED <<age, shieldActive, isWatchdogRunning, staticCorruptionCount,
                   strictCycleCount, watchdog, elapsed, corruptions>>

\* Mutant: the flag is stored instead of swapped.
StartWatchdogUnguarded(m) ==
    /\ marker[m] = "swap"
    /\ isWatchdogRunning' = TRUE
    /\ \E w \in Watchdogs :
          /\ watchdog[w] = "off"
          /\ watchdog' = [watchdog EXCEPT ![w] = "sleep"]
    /\ Goto(m, "idle")
    /\ UNCHANGED <<age, shieldActive, staticCorruptionCount, strictCycleCount,
                   elapsed, corruptions>>

StartWatchdog(m) ==
    /\ marker[m] = "swap"
    /\ isWatchdogRunning' = TRUE
    /\ \/ isWatchdogRunning /\ UNCHANGED watchdog
       \/ /\ ~isWatchdogRunning
          /\ \E w \in Watchdogs :
                /\ watchdog[w] = "off"
                /\ watchdog' = [watchdog EXCEPT ![w] = "sleep"]
    /\ Goto(m, "idle")
    /\ UNCHANGED <<age, shieldActive, staticCorruptionCount, strictCycleCount,
                   elapsed, corruptions>>

-----------------------------------------------------------------------------
(* The watchdog goroutine.                                                 *)

WatchdogGoto(w, pc) == watchdog' = [watchdog EXCEPT ![w] = pc]

CleanNeeded(cycle) ==
    LET needed == CleanUnit * cycle
    IN  IF needed < CleanUnit THEN CleanUnit
        ELSE IF needed > EscalationCap THEN EscalationCap
        ELSE needed

\* Mutant: the first unit of the streak is discounted.
WakeAndSampleEarly(w) ==
    /\ watchdog[w] = "sleep"
    /\ elapsed' = [elapsed EXCEPT ![w] = age - CleanUnit]
    /\ WatchdogGoto(w, "sampled")
    /\ UNCHANGED <<age, shieldActive, isWatchdogRunning, staticCorruptionCount,
                   strictCycleCount, marker, corruptions>>

\* Mutant: lastCorruptionUnix is swapped for the time of the look instead of loaded.
WakeAndSampleTouches(w) ==
    /\ watchdog[w] = "sleep"
    /\ elapsed' = [elapsed EXCEPT ![w] = age]
    /\ age' = 0
    /\ WatchdogGoto(w, "sampled")
    /\ UNCHANGED <<shieldActive, isWatchdogRunning, staticCorruptionCount,
                   strictCycleCount, marker, corruptions>>

WakeAndSample(w) ==
    /\ watchdog[w] = "sleep"
    /\ elapsed' = [elapsed EXCEPT ![w] = age]
    /\ WatchdogGoto(w, "sampled")
    /\ UNCHANGED <<age, shieldActive, isWatchdogRunning, staticCorruptionCount,
                   strictCycleCount, marker, corruptions>>

DecideClean(w) ==
    /\ watchdog[w] = "sampled"
    /\ WatchdogGoto(w, IF elapsed[w] > CleanNeeded(strictCycleCount)
                       THEN "lift" ELSE "sleep")
    /\ UNCHANGED <<age, shieldActive, isWatchdogRunning, staticCorruptionCount,
                   strictCycleCount, marker, elapsed, corruptions>>

LiftShield(w) ==
    /\ watchdog[w] = "lift"
    /\ shieldActive' = FALSE
    /\ WatchdogGoto(w, "count")
    /\ UNCHANGED <<age, isWatchdogRunning, staticCorruptionCount,
                   strictCycleCount, marker, elapsed, corruptions>>

ClearCount(w) ==
    /\ watchdog[w] = "count"
    /\ staticCorruptionCount' = 0
    /\ WatchdogGoto(w, "cycle")
    /\ UNCHANGED <<age, shieldActive, isWatchdogRunning, strictCycleCount,
                   marker, elapsed, corruptions>>

ClearCycle(w) ==
    /\ watchdog[w] = "cycle"
    /\ strictCycleCount' = 0
    /\ WatchdogGoto(w, "stop")
    /\ UNCHANGED <<age, shieldActive, isWatchdogRunning, staticCorruptionCount,
                   marker, elapsed, corruptions>>

StopWatchdog(w) ==
    /\ watchdog[w] = "stop"
    /\ isWatchdogRunning' = FALSE
    /\ WatchdogGoto(w, "off")
    /\ UNCHANGED <<age, shieldActive, staticCorruptionCount, strictCycleCount,
                   marker, elapsed, corruptions>>

-----------------------------------------------------------------------------
\* Time passes.  Beyond the cap one more tick changes no decision.
Tick ==
    /\ age <= EscalationCap
    /\ age' = age + 1
    /\ UNCHANGED <<shieldActive, isWatchdogRunning, staticCorruptionCount,
                   strictCycleCount, marker, watchdog, elapsed, corruptions>>

MarkerStep(m) ==
    \/ CheckShield(m)
    \/ CountCorruption(m)
    \/ Escalate(m)
    \/ ActivateShield(m)
    \/ CheckPending(m)
    \/ StartWatchdog(m)

WatchdogStep(w) ==
    \/ WakeAndSample(w)
    \/ DecideClean(w)
    \/ LiftShield(w)
    \/ ClearCount(w)
    \/ ClearCycle(w)
    \/ StopWatchdog(w)

Next ==
    \/ \E m \in Markers : RecordCorruption(m)
    \/ \E m \in Markers : MarkerStep(m)
    \/ \E w \in Watchdogs : WatchdogStep(w)
    \/ Tick

Spec == Init /\ [][Next]_vars

(* Goroutines that have started keep running and time passes; nothing      *)
(* obliges a piece to be corrupted or a player to stop.                    *)
Fairness ==
    /\ \A m \in Markers : WF_vars(MarkerStep(m))
    /\ \A w \in Watchdogs : WF_vars(WatchdogStep(w))
    /\ WF_vars(Tick)

FairSpec == Spec /\ Fairness

-----------------------------------------------------------------------------
(* Properties.                                                             *)

Alive(w) == watchdog[w] # "off"

\* At most one watchdog goroutine is alive, and isWatchdogRunning is set exactly while it
\* is (piece.go: "isWatchdogRunning prevents multiple goroutine spawns").  Were the flag
\* left set by a watchdog that is gone, MarkNotComplete would never start one again.
SingleWatchdog ==
    /\ \A v, w \in Watchdogs : Alive(v) /\ Alive(w) => v = w
    /\ isWatchdogRunning <=> \E w \in Watchdogs : Alive(w)

\* Once pieces stop being corrupted every watchdog goroutine exits, however often
\* STRICT was entered and escalated while it waited for its clean streak.
WatchdogsStop == <>[](\A w \in Watchdogs : ~Alive(w))

\* Once pieces stop being corrupted, STRICT mode ends ("Clean streak detected
\* - Restoring FAST mode").
ShieldLifts == <>[]~shieldActive

=============================================================================
