----------------------------- MODULE ServerProofs -----------------------------
(***************************************************************************)
(* What runs beside everything else, for any values of the constants.      *)
(*                                                                         *)
(* The server's two watchdogs, each started by whoever finds that none     *)
(* runs: at most one of a kind is alive, and its flag is set exactly while *)
(* it is.                                                                  *)
(*                                                                         *)
(* The safety parts of PageStarts and LastCallDone of the page: every step *)
(* of the chunk loader is a step of BundleStart, and every step of a       *)
(* debounced function is a step of QuietCall.  And the page's list of      *)
(* torrents never goes back to an older one.                               *)
(***************************************************************************)
EXTENDS AdaptiveShield, Warmup, ChunkLoader, Debounce, TorrentQuery, SequenceTheorems, TLAPS

\* The watchdog of the corruption shield.
LEMMA TypeInit == Init => TypeOK
<1>1. {0, EscalationCap + 1} \subseteq 0 .. EscalationCap + 1 /\ 0 \in 0 .. MaxCorruptions
  BY ShieldAssumption
<1> SUFFICES ASSUME Init  PROVE TypeOK
  OBVIOUS
<1>2. age \in 0 .. EscalationCap + 1 /\ corruptions \in 0 .. MaxCorruptions
  BY <1>1, Zenon DEF Init
<1>3. shieldActive \in BOOLEAN /\ isWatchdogRunning \in BOOLEAN
  BY Zenon DEF Init
<1>4. staticCorruptionCount \in Nat /\ strictCycleCount \in Nat
  BY Zenon DEF Init
<1>5. marker \in [Markers -> MarkerPC] /\ watchdog \in [Watchdogs -> WatchdogPC]
  BY Zenon DEF Init, MarkerPC, WatchdogPC
<1>6. elapsed \in [Watchdogs -> 0 .. EscalationCap + 1]
  BY <1>1, Zenon DEF Init
<1> QED  BY <1>2, <1>3, <1>4, <1>5, <1>6, Zenon DEF TypeOK

LEMMA MarkerType ==
  ASSUME TypeOK, NEW m \in Markers, RecordCorruption(m) \/ MarkerStep(m)
  PROVE  TypeOK'
<1> USE ShieldAssumption DEF TypeOK, MarkerPC, WatchdogPC, Goto
<1>1. CASE RecordCorruption(m)  BY <1>1 DEF RecordCorruption
<1>2. CASE CheckShield(m)  BY <1>2, Zenon DEF CheckShield
<1>3. CASE CountCorruption(m)  BY <1>3 DEF CountCorruption
<1>4. CASE Escalate(m)  BY <1>4 DEF Escalate
<1>5. CASE ActivateShield(m)  BY <1>5, Zenon DEF ActivateShield
<1>6. CASE CheckPending(m)  BY <1>6, Zenon DEF CheckPending
<1>7. CASE StartWatchdog(m)  BY <1>7, Zenon DEF StartWatchdog
<1> QED  BY <1>1, <1>2, <1>3, <1>4, <1>5, <1>6, <1>7, Zenon DEF MarkerStep

LEMMA WatchdogType ==
  ASSUME TypeOK, NEW w \in Watchdogs, WatchdogStep(w)
  PROVE  TypeOK'
<1> USE ShieldAssumption DEF TypeOK, MarkerPC, WatchdogPC, WatchdogGoto
<1>1. CASE WakeAndSample(w)  BY <1>1, Zenon DEF WakeAndSample
<1>2. CASE DecideClean(w)  BY <1>2, Zenon DEF DecideClean
<1>3. CASE LiftShield(w)  BY <1>3, Zenon DEF LiftShield
<1>4. CASE ClearCount(w)  BY <1>4, Zenon DEF ClearCount
<1>5. CASE ClearCycle(w)  BY <1>5, Zenon DEF ClearCycle
<1>6. CASE StopWatchdog(w)  BY <1>6, Zenon DEF StopWatchdog
<1> QED  BY <1>1, <1>2, <1>3, <1>4, <1>5, <1>6, Zenon DEF WatchdogStep

\* Type correctness of the shield's state (TypeOK).
THEOREM TypeCorrect == Spec => []TypeOK
<1>1. TypeOK /\ [Next]_vars => TypeOK'
  <2> SUFFICES ASSUME TypeOK, [Next]_vars  PROVE TypeOK'
    OBVIOUS
  <2>2. CASE Tick  BY <2>2, ShieldAssumption DEF Tick, TypeOK
  <2>3. CASE UNCHANGED vars  BY <2>3, Zenon DEF vars, TypeOK
  <2> QED  BY <2>2, <2>3, MarkerType, WatchdogType, Zenon DEF Next
<1> QED  BY TypeInit, <1>1, PTL DEF Spec

\* At most one watchdog goroutine is alive and isWatchdogRunning is set exactly while it is
\* (piece.go: "isWatchdogRunning prevents multiple goroutine spawns").  Neither half is
\* inductive without the other: a watchdog starts only when the flag is clear, and only the
\* one alive clears it.
THEOREM WatchdogSafety == Spec => []SingleWatchdog
<1>1. Init => SingleWatchdog
  BY Zenon DEF Init, SingleWatchdog, Alive
<1>2. TypeOK /\ SingleWatchdog /\ [Next]_vars => SingleWatchdog'
  <2> SUFFICES ASSUME TypeOK, SingleWatchdog, [Next]_vars  PROVE SingleWatchdog'
    OBVIOUS
  <2> USE DEF SingleWatchdog, Alive
  <2>1. ASSUME NEW m \in Markers, RecordCorruption(m) \/ MarkerStep(m)
        PROVE  SingleWatchdog'
    <3>1. CASE StartWatchdog(m)
      BY <3>1, ZenonT(60) DEF StartWatchdog, TypeOK, WatchdogPC
    <3>2. CASE UNCHANGED <<watchdog, isWatchdogRunning>>
      BY <3>2, Zenon
    <3> QED
      BY <2>1, <3>1, <3>2, Zenon DEF RecordCorruption, MarkerStep, CheckShield,
         CountCorruption, Escalate, ActivateShield, CheckPending
  <2>2. ASSUME NEW w \in Watchdogs, WatchdogStep(w)
        PROVE  SingleWatchdog'
    <3>1. CASE StopWatchdog(w)
      BY <3>1, Zenon DEF StopWatchdog, WatchdogGoto, TypeOK, WatchdogPC
    <3>2. ASSUME ~StopWatchdog(w)
          PROVE  /\ UNCHANGED isWatchdogRunning
                 /\ Alive(w) /\ Alive(w)'
                 /\ \A v \in Watchdogs \ {w} : watchdog'[v] = watchdog[v]
      BY <2>2, <3>2, Zenon DEF WatchdogStep, WakeAndSample, DecideClean, LiftShield,
         ClearCount, ClearCycle, WatchdogGoto, TypeOK, WatchdogPC
    <3> QED  BY <3>1, <3>2, Zenon
  <2>4. CASE Tick  BY <2>4, Zenon DEF Tick
  <2>5. CASE UNCHANGED vars  BY <2>5, Zenon DEF vars
  <2> QED  BY <2>1, <2>2, <2>4, <2>5, Zenon DEF Next
<1> QED  BY <1>1, <1>2, TypeCorrect, PTL DEF Spec

-----------------------------------------------------------------------------
\* The hedge watchdog of a torrent.  Only the swap of hedgeWatchdogRunning starts one and only
\* the watchdog itself resets the flag, so that OneHedger is inductive once the types of the
\* flag and of the watchdogs are known.
\* The types on which OneHedger rests.
HedgerTypes ==
    /\ hedgeWatchdogRunning \in [Torrents -> BOOLEAN]
    /\ hedger \in [Torrents -> [Hedgers -> {"off", "sleep", "exit"}]]

HedgerInv == HedgerTypes /\ OneHedger

LEMMA HedgerInvInit == WarmupInit => HedgerInv
BY DEF WarmupInit, HedgerInv, HedgerTypes, OneHedger, Hedged

\* A watchdog without the flag has ended, so the one that the swap starts is alone.
LEMMA StartHedgerKeeps ==
  ASSUME HedgerInv, NEW t \in Torrents, StartHedger(t)
  PROVE  HedgerInv'
<1>1. CASE hedgeWatchdogRunning[t] /\ UNCHANGED <<hedgeWatchdogRunning, hedger>>
  BY <1>1 DEF HedgerInv, HedgerTypes, OneHedger, Hedged
<1>2. CASE /\ ~hedgeWatchdogRunning[t]
           /\ hedgeWatchdogRunning' = [hedgeWatchdogRunning EXCEPT ![t] = TRUE]
           /\ hedger' = [hedger EXCEPT ![t][IdleHedger(t)] = "sleep"]
  <2> DEFINE i == IdleHedger(t)
  <2>1. \A h \in Hedgers : hedger[t][h] = "off"
    BY <1>2, Zenon DEF HedgerInv, HedgerTypes, OneHedger, Hedged
  <2>2. i \in Hedgers
    BY <2>1, WarmupAssumption, Zenon DEF IdleHedger
  <2> HIDE DEF i
  <2>3. hedger' = [hedger EXCEPT ![t][i] = "sleep"]
    BY <1>2, Zenon DEF i
  <2>4. HedgerTypes'
    <3>1. hedgeWatchdogRunning' \in [Torrents -> BOOLEAN]
      BY <1>2, Zenon DEF HedgerInv, HedgerTypes
    <3>2. hedger' \in [Torrents -> [Hedgers -> {"off", "sleep", "exit"}]]
      BY <2>2, <2>3, Zenon DEF HedgerInv, HedgerTypes
    <3> QED  BY <3>1, <3>2, Zenon DEF HedgerTypes
  <2>5. Hedged(t)' = {i} /\ hedgeWatchdogRunning'[t]
    BY <1>2, <2>1, <2>2, <2>3 DEF HedgerInv, HedgerTypes, Hedged
  <2>6. ASSUME NEW u \in Torrents, u # t
        PROVE  Hedged(u)' = Hedged(u) /\ hedgeWatchdogRunning'[u] = hedgeWatchdogRunning[u]
    BY <1>2, <2>3, <2>6, Zenon DEF HedgerInv, HedgerTypes, Hedged
  <2>7. OneHedger'
    BY <2>5, <2>6 DEF HedgerInv, OneHedger
  <2> QED  BY <2>4, <2>7, Zenon DEF HedgerInv
<1> QED  BY <1>1, <1>2, Zenon DEF StartHedger

LEMMA HedgerStepKeeps ==
  ASSUME HedgerInv, NEW t \in Torrents, NEW h \in Hedgers, HedgerStep(t, h)
  PROVE  HedgerInv'
<1>1. CASE HedgerCheck(t, h)
  <2>1. HedgerTypes' /\ UNCHANGED hedgeWatchdogRunning
    BY <1>1, Zenon DEF HedgerCheck, HedgerGoto, HedgerInv, HedgerTypes
  <2>2. \A u \in Torrents : Hedged(u)' = Hedged(u)
    BY <1>1, Zenon DEF HedgerCheck, HedgerGoto, HedgerInv, HedgerTypes, Hedged
  <2> QED  BY <2>1, <2>2 DEF HedgerInv, OneHedger
<1>2. CASE HedgerExit(t, h)
  <2>1. HedgerTypes'
    BY <1>2, Zenon DEF HedgerExit, HedgerGoto, HedgerInv, HedgerTypes
  <2>2. Hedged(t) = {h}
    BY <1>2, Zenon DEF HedgerExit, HedgerInv, OneHedger, Hedged
  <2>3. Hedged(t)' = {} /\ ~hedgeWatchdogRunning'[t]
    BY <1>2, <2>2, Zenon DEF HedgerExit, HedgerGoto, HedgerInv, HedgerTypes, Hedged
  <2>4. ASSUME NEW u \in Torrents, u # t
        PROVE  Hedged(u)' = Hedged(u) /\ hedgeWatchdogRunning'[u] = hedgeWatchdogRunning[u]
    BY <1>2, <2>4, Zenon DEF HedgerExit, HedgerGoto, HedgerInv, HedgerTypes, Hedged
  <2>5. OneHedger'
    BY <2>3, <2>4 DEF HedgerInv, OneHedger
  <2> QED  BY <2>1, <2>5, Zenon DEF HedgerInv
<1> QED  BY <1>1, <1>2, Zenon DEF HedgerStep

\* Steps that touch neither the flag nor the watchdogs.
LEMMA OthersKeep ==
  ASSUME HedgerInv, UNCHANGED <<hedgeWatchdogRunning, hedger>>
  PROVE  HedgerInv'
BY DEF HedgerInv, HedgerTypes, OneHedger, Hedged

\* At most one watchdog hedges a torrent, and hedgeWatchdogRunning is set exactly while it
\* does (SetWarmupRange, SetPlaybackPressure and hedgeWatchdog).
THEOREM HedgerSafety == WarmupSpec => []OneHedger
<1>1. HedgerInv /\ [WarmupNext]_warmupVars => HedgerInv'
  <2> SUFFICES ASSUME HedgerInv, [WarmupNext]_warmupVars  PROVE HedgerInv'
    OBVIOUS
  <2>1. ASSUME NEW s \in Streams, StreamBegin(s) \/ StreamStep(s) \/ StreamLeave(s)
        PROVE  HedgerInv'
    <3>1. Of[s] \in Torrents
      BY WarmupAssumption, Zenon
    <3>2. CASE StreamStart(s)
      BY <3>1, <3>2, StartHedgerKeeps, Zenon DEF StreamStart
    <3>3. CASE StreamBegin(s) \/ StreamWarm(s) \/ StreamRead(s) \/ StreamLeave(s) \/ StreamOver(s)
      BY <3>3, OthersKeep, Zenon DEF StreamBegin, StreamWarm, StreamRead, StreamLeave,
         StreamOver,
         StreamClose
    <3>4. CASE StreamCalm(s) \/ StreamUncount(s) \/ StreamCool(s)
      BY <3>4, OthersKeep, Zenon DEF StreamCalm, StreamUncount, StreamCool
    <3> QED  BY <2>1, <3>2, <3>3, <3>4, Zenon DEF StreamStep
  <2>2. ASSUME NEW t \in Torrents, PreloadBegin(t) \/ PreloadStart(t) \/ PreloadEnd(t) \/ CloseTorrent(t)
        PROVE  HedgerInv'
    <3>1. CASE PreloadStart(t)
      BY <3>1, StartHedgerKeeps, Zenon DEF PreloadStart
    <3>2. CASE PreloadBegin(t) \/ PreloadEnd(t) \/ CloseTorrent(t)
      BY <3>2, OthersKeep, Zenon DEF PreloadBegin, PreloadEnd, CloseTorrent
    <3> QED  BY <2>2, <3>1, <3>2, Zenon
  <2>3. CASE UNCHANGED warmupVars
    BY <2>3, OthersKeep, Zenon DEF warmupVars
  <2> QED  BY <2>1, <2>2, <2>3, HedgerStepKeeps, Zenon DEF WarmupNext
<1>2. HedgerInv => OneHedger
  BY Zenon DEF HedgerInv
<1> QED  BY HedgerInvInit, <1>1, <1>2, PTL DEF WarmupSpec

-----------------------------------------------------------------------------
\* The chunk loader.  The invariant says where its lists come from: what is installed,
\* queued on the array or carried by a deferred entry has been evaluated.
LoaderInv ==
    /\ jsonp \in Seq(evaluated \cap Chunks)
    /\ installedChunks \subseteq evaluated
    /\ \A e \in deferredModules : e \in Entries /\ Carrier[e] \in evaluated
    /\ deferredModules # {} => Runtime \in evaluated
    /\ replay # "absent" => Runtime \in evaluated
    /\ ran \in [Entries -> {0, 1}]

LEMMA LoaderInvInit == LoaderInit => LoaderInv /\ Page!Init
<1> SUFFICES ASSUME LoaderInit  PROVE LoaderInv /\ Page!Init
  OBVIOUS
<1>1. jsonp \in Seq(evaluated \cap Chunks)
  BY DEF LoaderInit
<1> QED  BY <1>1, Zenon DEF LoaderInit, LoaderInv, Page!Init

\* A longer list of evaluated scripts takes nothing away.
LEMMA SeqGrows ==
  ASSUME NEW S, NEW T, S \subseteq T, NEW q \in Seq(S)
  PROVE  q \in Seq(T)
<1>1. Len(q) \in Nat /\ q \in [1 .. Len(q) -> S]
  BY LenProperties, Zenon
<1>2. q \in [1 .. Len(q) -> T]
  BY <1>1, Zenon
<1> QED  BY <1>1, <1>2, SeqDef

\* checkDeferredModules starts only entries whose scripts have all been evaluated.
LEMMA CheckStarts ==
  ASSUME LoaderInv, NEW chunks, NEW deferred, CheckDeferredModules(chunks, deferred),
         chunks \subseteq evaluated', Runtime \in evaluated',
         \A e \in deferred : e \in Entries /\ Carrier[e] \in evaluated'
  PROVE  /\ \E S \in SUBSET Page!Startable(evaluated') : Page!Start(S)
         /\ ran' \in [Entries -> {0, 1}]
         /\ installedChunks' \subseteq evaluated'
         /\ \A e \in deferredModules' : e \in Entries /\ Carrier[e] \in evaluated'
<1> DEFINE S == {e \in deferred : Fulfilled(chunks, e) /\ ran[e] = 0}
<1>1. ran' = [e \in Entries |-> IF e \in S THEN 1 ELSE ran[e]]
  BY Zenon DEF CheckDeferredModules
<1>2. S \in SUBSET Page!Startable(evaluated')
  BY Zenon DEF Page!Startable, Waits, Fulfilled
<1>3. ran' \in [Entries -> {0, 1}]
  BY <1>1, Zenon DEF LoaderInv
<1>4. Page!Start(S)
  BY <1>1, Zenon DEF Page!Start
<1>5. installedChunks' \subseteq evaluated' /\ \A e \in deferredModules' : e \in deferred
  BY Zenon DEF CheckDeferredModules
<1> HIDE DEF S
<1> QED  BY <1>2, <1>3, <1>4, <1>5, Zenon

\* A step that runs no entry starts the empty set of them.
LEMMA NothingStarts ==
  ASSUME LoaderInv, UNCHANGED ran
  PROVE  \E S \in SUBSET Page!Startable(evaluated') : Page!Start(S)
<1>1. ran = [e \in Entries |-> IF e \in {} THEN 1 ELSE ran[e]]
  BY Zenon DEF LoaderInv
<1>2. Page!Start({})
  BY <1>1, Zenon DEF Page!Start
<1> QED  BY <1>2, Zenon

LEMMA ChunkStep ==
  ASSUME LoaderInv, NEW c \in Chunks, EvaluateChunk(c)
  PROVE  LoaderInv' /\ Page!Next
<1>1. Page!Arrive
  BY Zenon DEF EvaluateChunk, Page!Arrive
<1>2. evaluated' = evaluated \cup {c} /\ UNCHANGED replay
  BY Zenon DEF EvaluateChunk
<1>3. jsonp \in Seq(evaluated' \cap Chunks)
  BY <1>2, SeqGrows, evaluated \cap Chunks \subseteq evaluated' \cap Chunks, Zenon DEF LoaderInv
<1>4. CASE replay = "absent"
  <2>1. jsonp' = Append(jsonp, c) /\ UNCHANGED <<installedChunks, deferredModules, ran>>
    BY <1>4, Zenon DEF EvaluateChunk
  <2>2. jsonp' \in Seq(evaluated' \cap Chunks)
    BY <2>1, <1>2, <1>3, AppendProperties, Zenon
  <2>3. LoaderInv'
    BY <2>1, <2>2, <1>2, Zenon DEF LoaderInv
  <2> QED  BY <2>1, <2>3, <1>1, NothingStarts, Zenon DEF Page!Next
<1>5. CASE replay = "ready"
  <2>1. CheckDeferredModules(installedChunks \cup {c}, deferredModules \cup Carried(c)) /\ UNCHANGED jsonp
    BY <1>5, Zenon DEF EvaluateChunk, WebpackJsonpCallback
  <2>2. Runtime \in evaluated' /\ installedChunks \cup {c} \subseteq evaluated'
    BY <1>2, <1>5, Zenon DEF LoaderInv
  <2>3. \A e \in deferredModules \cup Carried(c) : e \in Entries /\ Carrier[e] \in evaluated'
    BY <1>2, Zenon DEF LoaderInv, Carried
  <2>4. /\ \E S \in SUBSET Page!Startable(evaluated') : Page!Start(S)
        /\ ran' \in [Entries -> {0, 1}]
        /\ installedChunks' \subseteq evaluated'
        /\ \A e \in deferredModules' : e \in Entries /\ Carrier[e] \in evaluated'
    BY <2>1, <2>2, <2>3, CheckStarts, Zenon
  <2>5. LoaderInv'
    BY <1>3, <2>1, <2>2, <2>4, Zenon DEF LoaderInv
  <2> QED  BY <2>4, <2>5, <1>1, Zenon DEF Page!Next
<1> QED  BY <1>4, <1>5, Zenon DEF EvaluateChunk

LEMMA RuntimeStep ==
  ASSUME LoaderInv, EvaluateRuntime
  PROVE  LoaderInv' /\ Page!Next
<1>1. Page!Arrive
  BY Zenon DEF EvaluateRuntime, Page!Arrive
<1>2. jsonp \in Seq(evaluated' \cap Chunks)
  BY SeqGrows, evaluated \cap Chunks \subseteq evaluated' \cap Chunks, Zenon DEF LoaderInv,
     EvaluateRuntime
<1>3. LoaderInv'
  BY <1>2, Zenon DEF LoaderInv, EvaluateRuntime
<1> QED  BY <1>1, <1>3, NothingStarts, Zenon DEF EvaluateRuntime, Page!Next

\* ReplayPush and FinishRuntime evaluate no script and end in checkDeferredModules.
LEMMA ReplayStep ==
  ASSUME LoaderInv, ReplayPush
  PROVE  LoaderInv' /\ Page!Next
<1> DEFINE c == Head(jsonp)
<1>1. c \in evaluated \cap Chunks /\ Tail(jsonp) \in Seq(evaluated \cap Chunks)
  BY HeadTailProperties, Zenon DEF LoaderInv, ReplayPush
<1>2. CheckDeferredModules(installedChunks \cup {c}, deferredModules \cup Carried(c))
  BY Zenon DEF ReplayPush, WebpackJsonpCallback
<1>3. UNCHANGED <<evaluated, replay>> /\ jsonp' = Tail(jsonp) /\ replay = "replay"
  BY Zenon DEF ReplayPush
<1> HIDE DEF c
<1>4. \A e \in deferredModules \cup Carried(c) : e \in Entries /\ Carrier[e] \in evaluated'
  BY <1>1, <1>3, Zenon DEF LoaderInv, Carried
<1>5. Runtime \in evaluated' /\ installedChunks \cup {c} \subseteq evaluated'
  BY <1>1, <1>3, Zenon DEF LoaderInv
<1>6. /\ \E S \in SUBSET Page!Startable(evaluated') : Page!Start(S)
      /\ ran' \in [Entries -> {0, 1}]
      /\ installedChunks' \subseteq evaluated'
      /\ \A e \in deferredModules' : e \in Entries /\ Carrier[e] \in evaluated'
  BY <1>2, <1>4, <1>5, CheckStarts, Zenon
<1>7. LoaderInv'
  BY <1>1, <1>3, <1>5, <1>6, Zenon DEF LoaderInv
<1> QED  BY <1>3, <1>6, <1>7, Zenon DEF Page!Next

LEMMA FinishStep ==
  ASSUME LoaderInv, FinishRuntime
  PROVE  LoaderInv' /\ Page!Next
<1>1. UNCHANGED <<jsonp, evaluated>> /\ replay = "replay"
      /\ CheckDeferredModules(installedChunks, deferredModules)
  BY Zenon DEF FinishRuntime
<1>2. Runtime \in evaluated' /\ installedChunks \subseteq evaluated'
  BY <1>1, Zenon DEF LoaderInv
<1>3. \A e \in deferredModules : e \in Entries /\ Carrier[e] \in evaluated'
  BY <1>1, Zenon DEF LoaderInv
<1>4. /\ \E S \in SUBSET Page!Startable(evaluated') : Page!Start(S)
      /\ ran' \in [Entries -> {0, 1}]
      /\ installedChunks' \subseteq evaluated'
      /\ \A e \in deferredModules' : e \in Entries /\ Carrier[e] \in evaluated'
  BY <1>1, <1>2, <1>3, CheckStarts, Zenon
<1>5. LoaderInv'
  BY <1>1, <1>2, <1>4, Zenon DEF LoaderInv
<1> QED  BY <1>1, <1>4, <1>5, Zenon DEF Page!Next

\* Whatever the order in which the scripts of the page are evaluated, an entry runs at most
\* once and never before the scripts it waits for (webpackJsonpCallback and
\* checkDeferredModules implement BundleStart).
THEOREM LoaderImplementsBundleStart == LoaderSpec => Page!Spec
<1>1. LoaderInv /\ [LoaderNext]_loaderVars => LoaderInv' /\ [Page!Next]_<<evaluated, ran>>
  <2> SUFFICES ASSUME LoaderInv, [LoaderNext]_loaderVars
               PROVE  LoaderInv' /\ [Page!Next]_<<evaluated, ran>>
    OBVIOUS
  <2>1. CASE UNCHANGED loaderVars
    BY <2>1, Zenon DEF loaderVars, LoaderInv
  <2> QED  BY <2>1, ChunkStep, RuntimeStep, ReplayStep, FinishStep, Zenon DEF LoaderNext
<1> QED  BY LoaderInvInit, <1>1, PTL DEF LoaderSpec, Page!Spec

-----------------------------------------------------------------------------
\* Debounce.  The invariant ties the time that the code measures to the time that really
\* passed: they agree unless the clock was set since the last call.
DebounceInv ==
    /\ lastArgs \in Args \cup {None}
    /\ lastCall = None \/ (lastCall \in Int /\ lastCall <= Wait)
    /\ timerId = None \/ timerId \in Int
    /\ quiet \in 0 .. Wait
    /\ clockSet \in BOOLEAN
    /\ timerId # None => lastArgs # None
    /\ lastArgs # None => lastCall # None
    /\ lastCall # None /\ ~clockSet => lastCall = quiet

LEMMA DebounceInvInit == DebounceInit => DebounceInv /\ Promise!Init
<1> SUFFICES ASSUME DebounceInit  PROVE DebounceInv /\ Promise!Init
  OBVIOUS
<1>1. quiet \in 0 .. Wait
  BY DebounceAssumption DEF DebounceInit
<1>2. clockSet \in BOOLEAN
  BY Zenon DEF DebounceInit
<1>3. DebounceInv
  BY <1>1, <1>2, Zenon DEF DebounceInit, DebounceInv
<1> QED  BY <1>3, Zenon DEF DebounceInit, Promise!Init

LEMMA CallStep ==
  ASSUME DebounceInv, NEW a \in Args, Debounced(a)
  PROVE  DebounceInv' /\ Promise!Call
<1>1. a # None /\ 0 # None /\ Wait # None
  BY DebounceAssumption
<1>2. quiet' \in 0 .. Wait /\ 0 <= Wait /\ (timerId' = None \/ timerId' \in Int)
  BY DebounceAssumption DEF DebounceInv, Debounced
<1>3. clockSet' \in BOOLEAN
  BY Zenon DEF Debounced
<1>4. lastArgs' = a /\ lastCall' = 0 /\ quiet' = 0
  BY Zenon DEF Debounced
<1>5. DebounceInv'
  BY <1>1, <1>2, <1>3, <1>4 DEF DebounceInv
<1> QED  BY <1>5, Zenon DEF Debounced, Promise!Call

\* A timer that expires and invokes does so after Wait, by the clock at least.
LEMMA TimerStep ==
  ASSUME DebounceInv, TimerExpired
  PROVE  DebounceInv' /\ (Promise!Invoke \/ UNCHANGED <<lastArgs, quiet, clockSet, done>>)
<1>1. lastArgs # None /\ lastCall \in Int /\ lastCall <= Wait
  BY DebounceAssumption DEF DebounceInv, TimerExpired
<1>2. CASE ShouldInvoke /\ TrailingEdge
  <2>1. quiet = Wait \/ clockSet
    BY <1>1, <1>2, DebounceAssumption DEF DebounceInv, ShouldInvoke
  <2>2. Promise!Invoke
    BY <1>1, <1>2, <2>1, Zenon DEF TrailingEdge, TimerExpired, Promise!Invoke
  <2>3. DebounceInv'
    BY <1>2, Zenon DEF DebounceInv, TrailingEdge, TimerExpired
  <2> QED  BY <2>2, <2>3, Zenon
<1>3. CASE ~ShouldInvoke /\ timerId' = Wait - lastCall /\ UNCHANGED <<lastArgs, done>>
  <2>1. Wait - lastCall \in Int
    BY <1>1, DebounceAssumption
  <2>2. DebounceInv'
    BY <1>1, <1>3, <2>1, Zenon DEF DebounceInv, TimerExpired
  <2> QED  BY <1>3, <2>2, Zenon DEF TimerExpired
<1> QED  BY <1>2, <1>3, Zenon DEF TimerExpired

LEMMA ElapseStep ==
  ASSUME DebounceInv, Elapse
  PROVE  DebounceInv' /\ (Promise!Pass \/ UNCHANGED <<lastArgs, quiet, clockSet, done>>)
<1>1. quiet' \in 0 .. Wait /\ (quiet < Wait => quiet' = quiet + 1) /\ (quiet = Wait => quiet' = Wait)
  BY DebounceAssumption DEF DebounceInv, Elapse, Least
<1>2. lastCall' = None \/ (lastCall' \in Int /\ lastCall' <= Wait)
  BY DebounceAssumption DEF DebounceInv, Elapse, Least
<1>3. (lastCall # None <=> lastCall' # None) /\ (lastCall # None /\ lastCall = quiet => lastCall' = quiet')
  <2>1. CASE lastCall = None
    BY <2>1, Zenon DEF Elapse
  <2>2. CASE lastCall # None
    BY <2>2, DebounceAssumption DEF DebounceInv, Elapse, Least
  <2> QED  BY <2>1, <2>2, Zenon
<1>4. (timerId' = None \/ timerId' \in Int) /\ (timerId' # None => timerId # None)
  BY DebounceAssumption DEF DebounceInv, Elapse
<1>5. UNCHANGED <<lastArgs, clockSet, done>>
  BY Zenon DEF Elapse
<1>6. DebounceInv'
  BY <1>1, <1>2, <1>3, <1>4, <1>5, Zenon DEF DebounceInv
<1>7. quiet < Wait \/ quiet = Wait
  BY DebounceAssumption DEF DebounceInv
<1> QED  BY <1>1, <1>5, <1>6, <1>7, Zenon DEF Promise!Pass

LEMMA CancelStep ==
  ASSUME DebounceInv, DebounceCancel
  PROVE  DebounceInv' /\ Promise!Cancel
BY Zenon DEF DebounceInv, DebounceCancel, Promise!Cancel

LEMMA SetClockStep ==
  ASSUME DebounceInv, SetClock
  PROVE  DebounceInv' /\ Promise!SetClock
<1>1. lastCall' \in Int /\ lastCall' <= Wait /\ lastCall' # None
  BY DebounceAssumption DEF DebounceInv, SetClock, Least
<1>2. clockSet' = TRUE /\ UNCHANGED <<lastArgs, timerId, quiet, done>>
  BY Zenon DEF SetClock
<1> QED  BY <1>1, <1>2, Zenon DEF DebounceInv, Promise!SetClock

\* Of a burst of calls the last one is carried out at most once, with its own arguments and
\* not before Wait has passed since it unless the clock was set (debounced, timerExpired and
\* cancel of lodash implement QuietCall).
THEOREM DebounceImplementsQuietCall == DebounceSpec => Promise!Spec
<1>1. DebounceInv /\ [DebounceNext]_debounceVars => DebounceInv' /\ [Promise!Next]_(Promise!vars)
  <2> SUFFICES ASSUME DebounceInv, [DebounceNext]_debounceVars
               PROVE  DebounceInv' /\ [Promise!Next]_(Promise!vars)
    OBVIOUS
  <2>1. CASE UNCHANGED debounceVars
    BY <2>1, Zenon DEF debounceVars, DebounceInv, Promise!vars
  <2> QED
    BY <2>1, CallStep, TimerStep, ElapseStep, CancelStep, SetClockStep, Zenon
    DEF DebounceNext, Promise!Next, Promise!vars
<1> QED  BY DebounceInvInit, <1>1, PTL DEF DebounceSpec, Promise!Spec

-----------------------------------------------------------------------------
\* The page's list.  One request is under way at most, and its answer is no older than the
\* list shown.
Wire == [at : {"free", "sent", "answer", "error"}, list : Nat]

Busy(i) == wire[i].at # "free"

QueryInv ==
    /\ version \in Nat /\ torrents \in Nat /\ torrents <= version
    /\ wire \in [Wires -> Wire]
    /\ \A i, j \in Wires : Busy(i) /\ Busy(j) => i = j
    /\ \A i \in Wires : Busy(i) => isFetching /\ retryer = "run"
    /\ retryer # "run" => isFetching
    /\ \A i \in Wires : wire[i].at = "answer" => torrents <= wire[i].list /\ wire[i].list <= version

LEMMA WireKinds ==
  /\ FreeWire \in Wire /\ SentWire \in Wire /\ FreeWire.at = "free" /\ SentWire.at = "sent"
  /\ \A v \in Nat : [at |-> "answer", list |-> v] \in Wire
  /\ [FreeWire EXCEPT !.at = "error"] \in Wire /\ [FreeWire EXCEPT !.at = "error"].at = "error"
BY Zenon DEF Wire, FreeWire, SentWire

LEMMA QueryInvInit == QueryInit => QueryInv
<1> SUFFICES ASSUME QueryInit  PROVE QueryInv
  OBVIOUS
<1>1. wire \in [Wires -> Wire] /\ \A i \in Wires : wire[i].at = IF i = First THEN "sent" ELSE "free"
  BY WireKinds, Zenon DEF QueryInit
<1> QED  BY <1>1 DEF QueryInit, QueryInv, Busy

\* A request is sent where none is under way, and the retryer runs.
LEMMA SendKeeps ==
  ASSUME QueryInv, SendRequest, \A i \in Wires : ~Busy(i), isFetching', retryer' = "run",
         UNCHANGED <<version, torrents>>
  PROVE  QueryInv'
<1>1. PICK i \in Wires : wire' = [wire EXCEPT ![i] = SentWire]
  BY Zenon DEF SendRequest
<1>2. wire' \in [Wires -> Wire] /\ wire'[i].at = "sent" /\ \A j \in Wires : j # i => wire'[j] = wire[j]
  BY <1>1, WireKinds, Zenon DEF QueryInv
<1>3. \A j \in Wires : j # i => wire'[j].at = "free"
  BY <1>2, Zenon DEF Busy
<1>4. \A j \in Wires : wire'[j].at # "answer" /\ (wire'[j].at # "free" => j = i)
  BY <1>2, <1>3, Zenon
<1> QED  BY <1>2, <1>4, Zenon DEF QueryInv, Busy

LEMMA FetchKeeps ==
  ASSUME QueryInv, Fetch, UNCHANGED <<version, torrents>>
  PROVE  QueryInv'
<1>1. CASE ~isFetching
  <2>1. SendRequest /\ isFetching' /\ retryer' = "run"
    BY <1>1, Zenon DEF Fetch
  <2>2. \A i \in Wires : ~Busy(i)  BY <1>1, Zenon DEF QueryInv
  <2> QED  BY <2>1, <2>2, SendKeeps, Zenon
<1>2. CASE isFetching
  <2>1. UNCHANGED <<isFetching, retryer, wire>>
    BY <1>2, Zenon DEF Fetch
  <2> QED  BY <2>1, Zenon DEF QueryInv, Busy
<1> QED  BY <1>1, <1>2, Zenon

\* The retryer's next request.
LEMMA RetryKeeps ==
  ASSUME QueryInv, RetryerWake \/ (Focus /\ retryer = "pause")
  PROVE  QueryInv'
<1>1. /\ retryer # "run" /\ isFetching /\ (isFetching' <=> isFetching)
      /\ UNCHANGED <<version, torrents>>
  BY Zenon DEF QueryInv, RetryerWake, Focus
<1>2. \A i \in Wires : ~Busy(i)  BY <1>1, Zenon DEF QueryInv
<1>3. CASE SendRequest /\ retryer' = "run"
  BY <1>1, <1>2, <1>3, SendKeeps, Zenon
<1>4. CASE UNCHANGED wire
  BY <1>1, <1>2, <1>4, Zenon DEF QueryInv, Busy
<1> QED  BY <1>3, <1>4, Zenon DEF RetryerWake, Focus

\* A request that ends leaves none under way.
LEMMA EndKeeps ==
  ASSUME QueryInv, NEW i \in Wires, Resolve(i) \/ Reject(i)
  PROVE  QueryInv' /\ torrents' >= torrents
<1>1. Busy(i) /\ wire' = [wire EXCEPT ![i] = FreeWire] /\ version' = version
  BY Zenon DEF Resolve, Reject, Busy
<1>2. wire' \in [Wires -> Wire] /\ \A j \in Wires : wire'[j].at = "free"
  BY <1>1, WireKinds, Zenon DEF QueryInv, Busy
<1>3. isFetching /\ retryer = "run"
  BY <1>1, Zenon DEF QueryInv
<1>4. retryer' # "run" => isFetching'
  BY <1>3, Zenon DEF Resolve, Reject
<1>5. torrents' \in Nat /\ torrents' <= version /\ torrents' >= torrents
  <2>1. CASE Resolve(i)
    <3>1. torrents' = wire[i].list /\ wire[i].at = "answer"  BY <2>1, Zenon DEF Resolve
    <3>2. wire[i] \in Wire  BY Zenon DEF QueryInv
    <3> QED  BY <3>1, <3>2, Zenon DEF QueryInv, Wire
  <2>2. CASE Reject(i)
    <3>1. torrents' = torrents  BY <2>2, Zenon DEF Reject
    <3> QED  BY <3>1 DEF QueryInv
  <2> QED  BY <2>1, <2>2, Zenon
<1> QED  BY <1>1, <1>2, <1>4, <1>5, Zenon DEF QueryInv, Busy

\* An answer brings the list of the server, which is no older than any shown.
LEMMA AnswerKeeps ==
  ASSUME QueryInv, NEW i \in Wires, ServerAnswers(i)
  PROVE  QueryInv'
<1>1. UNCHANGED <<version, isFetching, retryer, torrents>> /\ Busy(i)
  BY WireKinds, Zenon DEF ServerAnswers, Busy
<1>2. PICK w \in Wire : /\ wire' = [wire EXCEPT ![i] = w]
                        /\ w.at = "answer" => w.list = version
  BY WireKinds, Zenon DEF ServerAnswers, QueryInv
<1>3. /\ wire' \in [Wires -> Wire] /\ wire'[i] = w
      /\ \A j \in Wires : j # i => wire'[j] = wire[j]
  BY <1>2, Zenon DEF QueryInv
<1>4. \A j \in Wires : wire'[j].at # "free" => Busy(j)
  BY <1>1, <1>3, Zenon DEF Busy
<1>5. \A j \in Wires : wire'[j].at = "answer" => torrents <= wire'[j].list /\ wire'[j].list <= version
  BY <1>2, <1>3 DEF QueryInv
<1> QED  BY <1>1, <1>3, <1>4, <1>5, Zenon DEF QueryInv, Busy

LEMMA WorldKeeps ==
  ASSUME QueryInv, UNCHANGED <<isFetching, retryer, wire, torrents>>,
         version' = version \/ version' = version + 1
  PROVE  QueryInv'
<1>1. version' \in Nat /\ version <= version'  BY DEF QueryInv
<1>2. torrents' <= version'  BY <1>1 DEF QueryInv
<1>3. \A i \in Wires : wire[i].at = "answer" => torrents <= wire[i].list /\ wire[i].list <= version'
  <2> TAKE i \in Wires
  <2>1. wire[i].list \in Nat  BY Zenon DEF QueryInv, Wire
  <2> QED  BY <1>1, <2>1 DEF QueryInv
<1> QED  BY <1>1, <1>2, <1>3, Zenon DEF QueryInv, Busy

\* The list shown never goes back to an older one, for any number of requests, retries,
\* outages and changes: the polls of the page and of the dialog, the refetch on focus and
\* the retryer share one request (Query.fetch, the retryer and onFocus of react-query).
THEOREM ListNeverGoesBack == QueryInit /\ [][QueryNext]_queryVars => ListNeverOlder
<1>1. ASSUME QueryInv, QueryNext  PROVE QueryInv' /\ torrents' >= torrents
  <2>0. torrents \in Nat  BY <1>1, Zenon DEF QueryInv
  <2>1. CASE RefetchInterval \/ ObserveDialog \/ (Focus /\ retryer # "pause")
    <3>1. UNCHANGED <<version, torrents>> /\ (Fetch \/ UNCHANGED <<isFetching, retryer, wire>>)
      BY <2>1, Zenon DEF RefetchInterval, ObserveDialog, Focus
    <3>2. QueryInv'  BY <1>1, <3>1, FetchKeeps, WorldKeeps, Zenon
    <3> QED  BY <2>0, <3>1, <3>2
  <2>2. CASE RetryerWake \/ (Focus /\ retryer = "pause")
    <3>1. torrents' = torrents  BY <2>2, Zenon DEF RetryerWake, Focus
    <3> QED  BY <1>1, <2>0, <2>2, <3>1, RetryKeeps
  <2>3. CASE \E i \in Wires : Request(i)
    <3>1. ASSUME NEW i \in Wires, ServerAnswers(i)  PROVE QueryInv' /\ torrents' >= torrents
      <4>1. torrents' = torrents  BY <3>1, Zenon DEF ServerAnswers
      <4> QED  BY <1>1, <2>0, <3>1, <4>1, AnswerKeeps
    <3> QED  BY <1>1, <2>3, <3>1, EndKeeps, Zenon DEF Request
  <2>4. CASE Blur \/ ServerChanges \/ ServerFails \/ ServerReturns
    <3>1. /\ UNCHANGED <<isFetching, retryer, wire, torrents>>
          /\ version' = version \/ version' = version + 1
      BY <2>4, Zenon DEF Blur, ServerChanges, ServerFails, ServerReturns
    <3> QED  BY <1>1, <2>0, <3>1, WorldKeeps
  <2> QED  BY <1>1, <2>1, <2>2, <2>3, <2>4, Zenon DEF QueryNext
<1>2. QueryInv /\ UNCHANGED queryVars => QueryInv'
  BY DEF queryVars, QueryInv, Busy
<1>3. QueryInv /\ [QueryNext]_queryVars => QueryInv' /\ [torrents' >= torrents]_queryVars
  BY <1>1, <1>2, Zenon
<1> QED  BY <1>3, QueryInvInit, PTL DEF ListNeverOlder
===============================================================================
