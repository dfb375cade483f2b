-------------------------------- MODULE Warmup --------------------------------
(***************************************************************************)
(* When requests are hedged: the flags by which streams, preloads and      *)
(* readers (torr/stream.go, torr/preload.go, torrstor/reader.go) tell the  *)
(* engine's torrent that data is needed soon, and the watchdog goroutine   *)
(* that hedges slow requests while a flag is up (torrent.go of the         *)
(* engine).  The flags and hedgeWatchdogRunning are atomics: each action   *)
(* is one operation on them.  The streams of all torrents share the        *)
(* counter activeStreams.                                                  *)
(***************************************************************************)
EXTENDS Integers, FiniteSets

CONSTANTS
    Torrents,
    Streams,        \* calls of Stream, each for one torrent
    Of,             \* the torrent of each stream
    Preloads,       \* torrents that may be preloaded
    Hedgers,        \* names for the watchdogs of a torrent
    MaxRounds       \* bound on the streams and preloads started

ASSUME WarmupAssumption ==
    /\ Of \in [Streams -> Torrents]
    /\ Preloads \subseteq Torrents
    /\ Hedgers # {}
    /\ MaxRounds \in Nat

VARIABLES
    activeStreams,
    warmupActive,
    playbackPressureActive,
    hedgeWatchdogRunning,
    hedger,         \* where each watchdog of a torrent stands in its loop, or "off"
    closed,         \* whether the torrent is closed
    stream,         \* where each stream stands
    preload,        \* where the preload of each torrent stands
    rounds

warmupVars == <<activeStreams, warmupActive, playbackPressureActive, hedgeWatchdogRunning, hedger,
                closed, stream, preload, rounds>>

StreamPC == {"idle", "counted", "warm", "play", "push", "fail", "over", "calm", "uncount", "cool"}

WarmupTypeOK ==
    /\ activeStreams \in 0 .. Cardinality(Streams)
    /\ {warmupActive, playbackPressureActive, hedgeWatchdogRunning, closed} \subseteq [Torrents -> BOOLEAN]
    /\ hedger \in [Torrents -> [Hedgers -> {"off", "sleep", "exit"}]]
    /\ stream \in [Streams -> StreamPC]
    /\ preload \in [Torrents -> {"idle", "start", "load"}]
    /\ rounds \in 0 .. MaxRounds

WarmupInit ==
    /\ activeStreams = 0
    /\ warmupActive = [t \in Torrents |-> FALSE]
    /\ playbackPressureActive = [t \in Torrents |-> FALSE]
    /\ hedgeWatchdogRunning = [t \in Torrents |-> FALSE]
    /\ hedger = [t \in Torrents |-> [h \in Hedgers |-> "off"]]
    /\ closed = [t \in Torrents |-> FALSE]
    /\ stream = [s \in Streams |-> "idle"]
    /\ preload = [t \in Torrents |-> "idle"]
    /\ rounds = 0

StreamGoto(s, pc) == stream' = [stream EXCEPT ![s] = pc]

Begin == rounds < MaxRounds /\ rounds' = rounds + 1

\* A name for the next watchdog; OneHedger says that there is always one left.
IdleHedger(t) == CHOOSE h \in Hedgers : hedger[t][h] = "off"

\* Mutant: the flag is stored instead of swapped.
StartHedgerUnguarded(t) ==
    /\ hedgeWatchdogRunning' = [hedgeWatchdogRunning EXCEPT ![t] = TRUE]
    /\ hedger' = [hedger EXCEPT ![t][IdleHedger(t)] = "sleep"]

\* CompareAndSwap(false, true) on hedgeWatchdogRunning, and go hedgeWatchdog.
StartHedger(t) ==
    \/ hedgeWatchdogRunning[t] /\ UNCHANGED <<hedgeWatchdogRunning, hedger>>
    \/ /\ ~hedgeWatchdogRunning[t]
       /\ hedgeWatchdogRunning' = [hedgeWatchdogRunning EXCEPT ![t] = TRUE]
       /\ hedger' = [hedger EXCEPT ![t][IdleHedger(t)] = "sleep"]

-----------------------------------------------------------------------------
(* Stream: count, SetWarmupRange(true), reads that call                    *)
(* SetPlaybackPressure(true), Reader.Close, and SetWarmupRange(false) by   *)
(* the last stream of all.                                                 *)

\* A stream that finds no info or no file returns at once.
StreamBegin(s) ==
    /\ stream[s] = "idle" /\ Begin
    /\ activeStreams' = activeStreams + 1
    /\ \E pc \in {"counted", "uncount"} : StreamGoto(s, pc)
    /\ UNCHANGED <<warmupActive, playbackPressureActive, hedgeWatchdogRunning, hedger, closed, preload>>

\* NewReader, and the first half of SetWarmupRange(true).
StreamWarm(s) ==
    /\ stream[s] = "counted"
    /\ warmupActive' = [warmupActive EXCEPT ![Of[s]] = TRUE]
    /\ StreamGoto(s, "warm")
    /\ UNCHANGED <<activeStreams, playbackPressureActive, hedgeWatchdogRunning, hedger, closed, preload, rounds>>

\* Mutant: only a warm-up starts the watchdog, a read does not.
StreamStartWarm(s) ==
    /\ stream[s] \in {"warm", "push", "fail"}
    /\ IF stream[s] = "warm" THEN StartHedger(Of[s]) ELSE UNCHANGED <<hedgeWatchdogRunning, hedger>>
    /\ StreamGoto(s, IF stream[s] = "fail" THEN "over" ELSE "play")
    /\ UNCHANGED <<activeStreams, warmupActive, playbackPressureActive, closed, preload, rounds>>

\* The second half of SetWarmupRange(true) and of SetPlaybackPressure(true).
StreamStart(s) ==
    /\ stream[s] \in {"warm", "push", "fail"}
    /\ StartHedger(Of[s])
    /\ StreamGoto(s, IF stream[s] = "fail" THEN "over" ELSE "play")
    /\ UNCHANGED <<activeStreams, warmupActive, playbackPressureActive, closed, preload, rounds>>

\* The end of a Read.  One of a closed torrent fails, and reports the pressure all the same.
StreamRead(s) ==
    /\ stream[s] = "play"
    /\ playbackPressureActive' = [playbackPressureActive EXCEPT ![Of[s]] = TRUE]
    /\ StreamGoto(s, IF closed[Of[s]] THEN "fail" ELSE "push")
    /\ UNCHANGED <<activeStreams, warmupActive, hedgeWatchdogRunning, hedger, closed, preload, rounds>>

\* The other streams of the torrent with a reader, and those of them that checkReader may
\* have switched off: they have not read for a minute, or not at all.
Others(s) == {q \in Streams \ {s} : Of[q] = Of[s] /\ stream[q] \in {"warm", "play", "push", "fail", "over"}}
MayIdle(s) == {q \in Others(s) : stream[q] \in {"warm", "play"}}

\* Reader.Close: readerOff, and the count of the readers left in use.
StreamClose(s) ==
    /\ \E idle \in SUBSET MayIdle(s) : StreamGoto(s, IF Others(s) = idle THEN "calm" ELSE "uncount")
    /\ UNCHANGED <<activeStreams, warmupActive, playbackPressureActive, hedgeWatchdogRunning, hedger, closed, preload, rounds>>

StreamLeave(s) == stream[s] = "play" /\ StreamClose(s)
StreamOver(s) == stream[s] = "over" /\ StreamClose(s)

\* Reader.Close: SetPlaybackPressure(false), decided on the count of a moment ago.
StreamCalm(s) ==
    /\ stream[s] = "calm"
    /\ playbackPressureActive' = [playbackPressureActive EXCEPT ![Of[s]] = FALSE]
    /\ StreamGoto(s, "uncount")
    /\ UNCHANGED <<activeStreams, warmupActive, hedgeWatchdogRunning, hedger, closed, preload, rounds>>

StreamUncount(s) ==
    /\ stream[s] = "uncount"
    /\ activeStreams' = activeStreams - 1
    /\ StreamGoto(s, IF activeStreams' <= 0 THEN "cool" ELSE "idle")
    /\ UNCHANGED <<warmupActive, playbackPressureActive, hedgeWatchdogRunning, hedger, closed, preload, rounds>>

StreamCool(s) ==
    /\ stream[s] = "cool"
    /\ warmupActive' = [warmupActive EXCEPT ![Of[s]] = FALSE]
    /\ StreamGoto(s, "idle")
    /\ UNCHANGED <<activeStreams, playbackPressureActive, hedgeWatchdogRunning, hedger, closed, preload, rounds>>

-----------------------------------------------------------------------------
(* Preload: SetWarmupRange(true), and SetWarmupRange(false) at its end.    *)

PreloadBegin(t) ==
    /\ preload[t] = "idle" /\ t \in Preloads /\ Begin
    /\ warmupActive' = [warmupActive EXCEPT ![t] = TRUE]
    /\ preload' = [preload EXCEPT ![t] = "start"]
    /\ UNCHANGED <<activeStreams, playbackPressureActive, hedgeWatchdogRunning, hedger, closed, stream>>

PreloadStart(t) ==
    /\ preload[t] = "start"
    /\ StartHedger(t)
    /\ preload' = [preload EXCEPT ![t] = "load"]
    /\ UNCHANGED <<activeStreams, warmupActive, playbackPressureActive, closed, stream, rounds>>

PreloadEnd(t) ==
    /\ preload[t] = "load"
    /\ warmupActive' = [warmupActive EXCEPT ![t] = FALSE]
    /\ preload' = [preload EXCEPT ![t] = "idle"]
    /\ UNCHANGED <<activeStreams, playbackPressureActive, hedgeWatchdogRunning, hedger, closed, stream, rounds>>

-----------------------------------------------------------------------------
(* hedgeWatchdog.  What it hedges is left out; it changes no flag.         *)

HedgerGoto(t, h, pc) == hedger' = [hedger EXCEPT ![t][h] = pc]

\* The loop's check that ends it; otherwise the watchdog sleeps on.
HedgerCheck(t, h) ==
    /\ hedger[t][h] = "sleep"
    /\ closed[t] \/ (~warmupActive[t] /\ ~playbackPressureActive[t])
    /\ HedgerGoto(t, h, "exit")
    /\ UNCHANGED <<activeStreams, warmupActive, playbackPressureActive, hedgeWatchdogRunning, closed, stream, preload, rounds>>

\* The deferred reset of the flag.
HedgerExit(t, h) ==
    /\ hedger[t][h] = "exit"
    /\ hedgeWatchdogRunning' = [hedgeWatchdogRunning EXCEPT ![t] = FALSE]
    /\ HedgerGoto(t, h, "off")
    /\ UNCHANGED <<activeStreams, warmupActive, playbackPressureActive, closed, stream, preload, rounds>>

CloseTorrent(t) ==
    /\ ~closed[t]
    /\ closed' = [closed EXCEPT ![t] = TRUE]
    /\ UNCHANGED <<activeStreams, warmupActive, playbackPressureActive, hedgeWatchdogRunning, hedger, stream, preload, rounds>>

StreamStep(s) ==
    \/ StreamWarm(s) \/ StreamStart(s) \/ StreamRead(s)
    \/ StreamOver(s) \/ StreamCalm(s) \/ StreamUncount(s) \/ StreamCool(s)

HedgerStep(t, h) == HedgerCheck(t, h) \/ HedgerExit(t, h)

WarmupNext ==
    \/ \E s \in Streams : StreamBegin(s) \/ StreamStep(s) \/ StreamLeave(s)
    \/ \E t \in Torrents : PreloadBegin(t) \/ PreloadStart(t) \/ PreloadEnd(t) \/ CloseTorrent(t)
    \/ \E t \in Torrents, h \in Hedgers : HedgerStep(t, h)

WarmupSpec == WarmupInit /\ [][WarmupNext]_warmupVars

\* Goroutines keep running, and a stream that is not ended reads on; nothing obliges a
\* client to start or to end a stream, nor a torrent to be closed.
WarmupFairness ==
    /\ \A s \in Streams : WF_warmupVars(StreamStep(s))
    /\ \A t \in Torrents, h \in Hedgers : WF_warmupVars(HedgerStep(t, h))

-----------------------------------------------------------------------------
Hedged(t) == {h \in Hedgers : hedger[t][h] # "off"}

\* At most one watchdog hedges a torrent and the flag tells whether there is one
\* ("only spawn one watchdog per cycle ... resets this to false itself on exit").
OneHedger ==
    \A t \in Torrents :
        /\ \A g, h \in Hedged(t) : g = h
        /\ hedgeWatchdogRunning[t] <=> Hedged(t) # {}

\* A stream that goes on reading is hedged again and again: a watchdog that has decided to
\* end when the flag goes up, and swallows the attempt to start another, is made up for.
HedgingResumes ==
    \A s \in Streams : <>[](stream[s] \in {"play", "push"} /\ ~closed[Of[s]]) => []<>(Hedged(Of[s]) # {})

\* No watchdog outlives its torrent, even if a stream of another torrent was the last one
\* and left this one's warm-up on, and though the reads that fail start watchdogs too.
HedgersStop == \A t \in Torrents : <>[](closed[t] => Hedged(t) = {})

\* Hedging follows the need for it: it comes back while a stream reads, and ends with the
\* torrent.
HedgingFollows == HedgingResumes /\ HedgersStop
=============================================================================
