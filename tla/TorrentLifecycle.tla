--------------------------- MODULE TorrentLifecycle ---------------------------
(***************************************************************************)
(* The life of one torrent in the server (torr/torrent.go, btserver.go,    *)
(* apihelper.go, preload.go): requests that look it up or add it, wait for *)
(* its metadata, preload and stream it; the ticker that expires it; the    *)
(* drop and remove requests; and a change of settings, which replaces the  *)
(* engine client.  A wrapper (torr.Torrent) holds an engine torrent; the   *)
(* server's map and the engine client's map are keyed by the hash alone,   *)
(* and most of a wrapper's fields are written without a lock.              *)
(***************************************************************************)
EXTENDS Integers, FiniteSets

CONSTANTS
    Viewers,        \* requests that add, preload or stream the torrent
    Removers,       \* drop and remove requests
    Changers,       \* SetSettings and SetDefSettings requests
    ReadOnly        \* settings.ReadOnly

\* A viewer makes at most one wrapper and one engine torrent, a changer one client.
Wrappers == 1 .. Cardinality(Viewers)
Engines == 1 .. Cardinality(Viewers)
Clients == 1 .. 1 + Cardinality(Changers)
Ticker == "ticker"
Procs == Viewers \cup Removers \cup Changers \cup {Ticker}

ASSUME LifecycleAssumption ==
    /\ IsFiniteSet(Viewers) /\ IsFiniteSet(Changers)
    /\ Ticker \notin Viewers \cup Removers \cup Changers
    /\ ReadOnly \in BOOLEAN
    /\ Viewers \cap Removers = {} /\ Viewers \cap Changers = {} /\ Removers \cap Changers = {}

VARIABLES
    client,         \* the last client that Connect made, with its storage
    connected,      \* BTServer.client is not nil
    torrents,       \* BTServer.torrents at the hash: a wrapper or 0
    storageCache,   \* Storage.caches of each client at the hash: an engine torrent or 0
    stat,           \* Torrent.Stat of each wrapper
    tor,            \* Torrent.Torrent: the engine torrent, or 0 for nil
    done,           \* Torrent.closed: the engine torrent whose end the wrapper sees
    cache,          \* Torrent.cache: the engine torrent it belongs to, or 0 for nil
    fresh,          \* wrappers whose expiredTime is still ahead
    clTorrents,     \* engine: Client.torrents of each client at the hash
    owner,          \* engine: the client of each engine torrent, or 0
    closed, info,   \* engine: torrents that are closed, that have metadata
    readers,        \* readers registered in the cache of each engine torrent
    pc, w, e,       \* each process: where it stands, its wrapper, its engine torrent
    raced,          \* a wrapper's engine torrent or storage went away behind its back
    panicked        \* whether the program has panicked, and where

bt_vars == <<client, connected, torrents, storageCache>>
wrap_vars == <<stat, tor, done, cache, fresh>>
eng_vars == <<clTorrents, owner, closed, info, readers>>
proc_vars == <<pc, w, e>>
vars == <<bt_vars, wrap_vars, eng_vars, proc_vars, raced, panicked>>

PC == {"start", "add", "register", "check", "getting", "wait", "gotInfo",
       "load", "loadWait", "ready", "preload", "open", "serve", "close", "closeSet", "closeMap", "closeDrop",
       "idle", "update", "remove", "disconnect", "connect", "end"}
Waiting == {"wait", "loadWait"}

TypeOK ==
    /\ client \in Clients /\ connected \in BOOLEAN
    /\ torrents \in {0} \cup Wrappers
    /\ storageCache \in [Clients -> {0} \cup Engines]
    /\ stat \in [Wrappers -> {"none", "Added", "GettingInfo", "Preload", "Working", "Closed"}]
    /\ tor \in [Wrappers -> {0} \cup Engines]
    /\ done \in [Wrappers -> {0} \cup Engines]
    /\ cache \in [Wrappers -> {0} \cup Engines]
    /\ fresh \subseteq Wrappers
    /\ clTorrents \in [Clients -> {0} \cup Engines]
    /\ owner \in [Engines -> {0} \cup Clients]
    /\ closed \subseteq Engines /\ info \subseteq Engines
    /\ readers \in [Engines -> SUBSET Viewers]
    /\ pc \in [Procs -> PC]
    /\ w \in [Procs -> {0} \cup Wrappers]
    /\ e \in [Procs -> {0} \cup Engines]
    /\ raced \in BOOLEAN /\ panicked \in {"no", "drop", "cache"}

\* At the start, without the requests in absent.
InitWithout(absent) ==
    /\ client = 1 /\ connected = TRUE /\ torrents = 0
    /\ storageCache = [g \in Clients |-> 0]
    /\ stat = [i \in Wrappers |-> "none"]
    /\ tor = [i \in Wrappers |-> 0]
    /\ done = [i \in Wrappers |-> 0]
    /\ cache = [i \in Wrappers |-> 0]
    /\ fresh = {}
    /\ clTorrents = [g \in Clients |-> 0]
    /\ owner = [i \in Engines |-> 0]
    /\ closed = {} /\ info = {}
    /\ readers = [i \in Engines |-> {}]
    /\ pc = [p \in Procs |-> IF p = Ticker THEN "idle"
                             ELSE IF p \in absent THEN "end" ELSE "start"]
    /\ w = [p \in Procs |-> 0]
    /\ e = [p \in Procs |-> 0]
    /\ raced = FALSE /\ panicked = "no"

Init == InitWithout({})

Goto(p, l) == pc' = [pc EXCEPT ![p] = l]

-----------------------------------------------------------------------------
(* A viewer: GetTorrent, else NewTorrent.                                  *)

\* BTServer.GetTorrent; a torrent that is known gets more time to live.  AddTorrent, and
\* LoadTorrent for a torrent of the database, call NewTorrent whether it is known or not.
GetTorrent(v) ==
    /\ v \in Viewers /\ pc[v] = "start"
    /\ \/ /\ torrents # 0
          /\ w' = [w EXCEPT ![v] = torrents]
          /\ fresh' = fresh \cup {torrents}
          /\ Goto(v, "check")
       \/ Goto(v, "add") /\ UNCHANGED <<w, fresh>>
    /\ UNCHANGED <<bt_vars, eng_vars, stat, tor, done, cache, e, raced, panicked>>

\* NewTorrent up to AddTorrentSpec, which returns the engine torrent the client
\* has for the hash or makes one.
AddTorrentSpec(v) ==
    /\ pc[v] = "add"
    /\ IF ~connected
         THEN Goto(v, "end") /\ UNCHANGED <<e, clTorrents, owner>>
         ELSE /\ Goto(v, "register")
              /\ IF clTorrents[client] # 0
                   THEN /\ e' = [e EXCEPT ![v] = clTorrents[client]]
                        /\ UNCHANGED <<clTorrents, owner>>
                   ELSE \E n \in Engines :
                          /\ owner[n] = 0 /\ \A m \in 1 .. n - 1 : owner[m] # 0
                          /\ e' = [e EXCEPT ![v] = n]
                          /\ clTorrents' = [clTorrents EXCEPT ![client] = n]
                          /\ owner' = [owner EXCEPT ![n] = client]
    /\ UNCHANGED <<bt_vars, wrap_vars, closed, info, readers, w, raced, panicked>>

\* The engine torrent is closed, of a client that has been replaced, or another wrapper's.
Stale(n) == n \in closed \/ owner[n] # client \/ \E i \in Wrappers : tor[i] = n

\* The rest of NewTorrent, under bt.mu.  Its callers go on to GotInfo, but LoadTorrent to
\* WaitInfo.
Register(v) ==
    /\ pc[v] = "register"
    /\ IF torrents # 0
         THEN /\ w' = [w EXCEPT ![v] = torrents]
              /\ UNCHANGED <<torrents, stat, tor, done, fresh, raced>>
         ELSE \E i \in Wrappers :
                /\ stat[i] = "none" /\ \A j \in 1 .. i - 1 : stat[j] # "none"
                /\ w' = [w EXCEPT ![v] = i]
                /\ torrents' = i
                /\ stat' = [stat EXCEPT ![i] = "Added"]
                /\ tor' = [tor EXCEPT ![i] = e[v]]
                /\ done' = [done EXCEPT ![i] = e[v]]
                /\ fresh' = fresh \cup {i}
                /\ raced' = (raced \/ Stale(e[v]))
    /\ Goto(v, "check") \/ Goto(v, "load")
    /\ UNCHANGED <<client, connected, storageCache, cache, eng_vars, e, panicked>>

-----------------------------------------------------------------------------
(* A viewer: GotInfo and WaitInfo, whose reads and writes take no lock.    *)

GotInfoCheck(v) ==
    /\ pc[v] = "check"
    /\ Goto(v, CASE stat[w[v]] = "Closed" -> "end"
                 [] stat[w[v]] = "Preload" -> "ready"
                 [] OTHER -> "getting")
    /\ UNCHANGED <<bt_vars, wrap_vars, eng_vars, w, e, raced, panicked>>

\* The state is set whatever it has become; without an engine torrent WaitInfo
\* fails at once.
GotInfoSet(v) ==
    /\ pc[v] = "getting"
    /\ stat' = [stat EXCEPT ![w[v]] = "GettingInfo"]
    /\ e' = [e EXCEPT ![v] = tor[w[v]]]
    /\ Goto(v, IF tor[w[v]] = 0 THEN "close" ELSE "wait")
    /\ UNCHANGED <<bt_vars, tor, done, cache, fresh, eng_vars, w, raced, panicked>>

\* LoadTorrent: WaitInfo without the change of state.
LoadTorrent(v) ==
    /\ pc[v] = "load"
    /\ e' = [e EXCEPT ![v] = tor[w[v]]]
    /\ Goto(v, IF tor[w[v]] = 0 THEN "end" ELSE "loadWait")
    /\ UNCHANGED <<bt_vars, wrap_vars, eng_vars, w, raced, panicked>>

\* WaitInfo: the metadata is there.  The cache is looked up in the storage of
\* the current client; it is a nil dereference if that has none.
WaitInfoGot(v) ==
    /\ pc[v] \in Waiting /\ e[v] \in info
    /\ cache' = [cache EXCEPT ![w[v]] = storageCache[client]]
    /\ panicked' = IF storageCache[client] = 0 THEN "cache" ELSE panicked
    /\ Goto(v, IF pc[v] = "wait" THEN "gotInfo" ELSE "end")
    /\ UNCHANGED <<bt_vars, stat, tor, done, fresh, eng_vars, w, e, raced>>

\* WaitInfo: the torrent was closed or the timer fired; select takes any case that
\* is ready, so the metadata may have come as well.  Only GotInfo closes the wrapper.
WaitInfoFailed(v) ==
    /\ pc[v] \in Waiting
    /\ Goto(v, IF pc[v] = "wait" THEN "close" ELSE "end")
    /\ UNCHANGED <<bt_vars, wrap_vars, eng_vars, w, e, raced, panicked>>

GotInfoDone(v) ==
    /\ pc[v] = "gotInfo"
    /\ stat' = [stat EXCEPT ![w[v]] = "Working"]
    /\ fresh' = fresh \cup {w[v]}
    /\ Goto(v, "ready")
    /\ UNCHANGED <<bt_vars, tor, done, cache, eng_vars, w, e, raced, panicked>>

-----------------------------------------------------------------------------
(* A viewer: Preload, Stream.                                              *)

\* Torrent.Preload takes the state from Working to Preload under muTorrent ...
PreloadBegin(v) ==
    /\ pc[v] = "ready" /\ stat[w[v]] = "Working"
    /\ stat' = [stat EXCEPT ![w[v]] = "Preload"]
    /\ Goto(v, "preload")
    /\ UNCHANGED <<bt_vars, tor, done, cache, fresh, eng_vars, w, e, raced, panicked>>

\* ... and its deferred function back, unless the torrent was closed meanwhile.
PreloadEnd(v) ==
    /\ pc[v] = "preload"
    /\ stat' = [stat EXCEPT ![w[v]] = IF @ = "Preload" THEN "Working" ELSE @]
    /\ Goto(v, "open")
    /\ UNCHANGED <<bt_vars, tor, done, cache, fresh, eng_vars, w, e, raced, panicked>>

\* A request that only wanted the metadata, or is not to be preloaded.
SkipPreload(v) ==
    /\ pc[v] = "ready"
    /\ Goto(v, "open") \/ Goto(v, "end")
    /\ UNCHANGED <<bt_vars, wrap_vars, eng_vars, w, e, raced, panicked>>

\* Stream: the file is looked up in the engine torrent, then NewReader.
NewReader(v) ==
    /\ pc[v] = "open"
    /\ IF tor[w[v]] = 0 \/ stat[w[v]] = "Closed"
         THEN Goto(v, "end") /\ UNCHANGED readers
         ELSE /\ Goto(v, "serve")
              /\ readers' = [readers EXCEPT ![cache[w[v]]] =
                               IF cache[w[v]] \in closed THEN @ ELSE @ \cup {v}]
    /\ UNCHANGED <<bt_vars, wrap_vars, clTorrents, owner, closed, info, w, e, raced,
                   panicked>>

CloseReader(v) ==
    /\ pc[v] = "serve"
    /\ readers' = [readers EXCEPT ![cache[w[v]]] = @ \ {v}]
    /\ fresh' = fresh \cup {w[v]}
    /\ Goto(v, "end")
    /\ UNCHANGED <<bt_vars, stat, tor, done, cache, clTorrents, owner, closed, info,
                   w, e, raced, panicked>>

-----------------------------------------------------------------------------
(* Torrent.Close, in the steps of its unlocked check and its two locks.    *)

\* Where a process goes when Close has returned.
AfterClose(p) == IF p = Ticker THEN "idle" ELSE "end"

\* Close lets a torrent be that has readers in use (isUse; any of those registered).
MayRefuse(i) == ReadOnly /\ cache[i] # 0 /\ readers[cache[i]] # {}

CloseCheck(p) ==
    /\ pc[p] = "close"
    /\ \E l \in {"closeSet", AfterClose(p)} :
          /\ l = "closeSet" => stat[w[p]] # "Closed"
          /\ l = AfterClose(p) => stat[w[p]] = "Closed" \/ MayRefuse(w[p])
          /\ Goto(p, l)
    /\ UNCHANGED <<bt_vars, wrap_vars, eng_vars, w, e, raced, panicked>>

CloseSet(p) ==
    /\ pc[p] = "closeSet"
    /\ stat' = [stat EXCEPT ![w[p]] = "Closed"]
    /\ Goto(p, "closeMap")
    /\ UNCHANGED <<bt_vars, tor, done, cache, fresh, eng_vars, w, e, raced, panicked>>

\* The entry of the hash is deleted, whichever wrapper it is.
CloseMap(p) ==
    /\ pc[p] = "closeMap"
    /\ torrents' = 0
    /\ Goto(p, "closeDrop")
    /\ raced' = (raced \/ torrents \notin {0, w[p]})
    /\ UNCHANGED <<client, connected, storageCache, wrap_vars, eng_vars, w, e, panicked>>

\* The engine's Torrent.Drop looks its client's map up by the hash and panics if
\* there is no torrent or it is closed already.
EngineDrop(i) ==
    LET g == owner[tor[i]]
        n == clTorrents[g]
    IN  IF n = 0 \/ n \in closed
          THEN panicked' = "drop" /\ UNCHANGED <<clTorrents, closed, readers>>
          ELSE /\ closed' = closed \cup {n}
               /\ clTorrents' = [clTorrents EXCEPT ![g] = 0]
               /\ readers' = [readers EXCEPT ![n] = {}]
               /\ UNCHANGED panicked

\* Mutant: the engine torrent is not looked at before it is dropped.
dropUnchecked(i) ==
    IF tor[i] = 0
      THEN panicked' = "drop" /\ UNCHANGED <<tor, clTorrents, closed, readers>>
      ELSE EngineDrop(i) /\ tor' = [tor EXCEPT ![i] = 0]

\* Mutant: the engine torrent is marked -1, which no one takes for nil.
dropMarks(i) ==
    IF tor[i] = 0
      THEN UNCHANGED <<tor, clTorrents, closed, readers, panicked>>
      ELSE EngineDrop(i) /\ tor' = [tor EXCEPT ![i] = -1]

\* Torrent.drop, under muTorrent.
drop(i) ==
    IF tor[i] = 0
      THEN UNCHANGED <<tor, clTorrents, closed, readers, panicked>>
      ELSE EngineDrop(i) /\ tor' = [tor EXCEPT ![i] = 0]

\* Mutant: Close only takes the wrapper out of the map.
CloseDropForgets(p) ==
    /\ pc[p] = "closeDrop"
    /\ UNCHANGED <<tor, clTorrents, closed, readers, panicked>>
    /\ Goto(p, AfterClose(p))
    /\ UNCHANGED <<bt_vars, stat, done, cache, fresh, owner, info, w, e, raced>>

CloseDrop(p) ==
    /\ pc[p] = "closeDrop"
    /\ drop(w[p])
    /\ Goto(p, AfterClose(p))
    /\ UNCHANGED <<bt_vars, stat, done, cache, fresh, owner, info, w, e, raced>>

CloseTorrent(p) == CloseCheck(p) \/ CloseSet(p) \/ CloseMap(p) \/ CloseDrop(p)

-----------------------------------------------------------------------------
(* The ticker, removers and changes of settings.                           *)

\* StartTicker takes a snapshot of the torrents ...
TickerList ==
    /\ pc[Ticker] = "idle" /\ connected /\ torrents # 0
    /\ w' = [w EXCEPT ![Ticker] = torrents]
    /\ Goto(Ticker, "update")
    /\ UNCHANGED <<bt_vars, wrap_vars, eng_vars, e, raced, panicked>>


\* Torrent.expired.
expired(i) ==
    /\ cache[i] # 0 /\ readers[cache[i]] = {}
    /\ i \notin fresh
    /\ stat[i] \in {"Working", "Closed"}

\* ... and UpdateStats looks at each under its lock,
UpdateStats ==
    /\ pc[Ticker] = "update"
    /\ Goto(Ticker, IF expired(w[Ticker]) THEN "remove" ELSE "idle")
    /\ UNCHANGED <<bt_vars, wrap_vars, eng_vars, w, e, raced, panicked>>

\* BTServer.RemoveTorrent: the ticker without the lock, or a drop or remove request.
RemoveTorrent(p) ==
    /\ \/ p = Ticker /\ pc[p] = "remove"
       \/ p \in Removers /\ pc[p] = "start"
    /\ IF torrents # 0
         THEN w' = [w EXCEPT ![p] = torrents] /\ Goto(p, "close")
         ELSE UNCHANGED w /\ Goto(p, AfterClose(p))
    /\ UNCHANGED <<bt_vars, wrap_vars, eng_vars, e, raced, panicked>>

\* SetSettings: dropAllTorrent drops the listed wrapper,
DropAllTorrent(c) ==
    /\ c \in Changers /\ pc[c] = "start" /\ ~ReadOnly
    /\ IF torrents = 0
         THEN UNCHANGED <<tor, clTorrents, closed, readers, panicked>>
         ELSE drop(torrents)
    /\ w' = [w EXCEPT ![c] = torrents]
    /\ Goto(c, "disconnect")
    /\ UNCHANGED <<bt_vars, stat, done, cache, fresh, owner, info, e, raced>>

\* waits for the end of its engine torrent; after a second Disconnect closes the
\* client with every torrent it still has,
Disconnect(c) ==
    /\ pc[c] = "disconnect"
    /\ w[c] # 0 => done[w[c]] \in closed
    /\ connected' = FALSE
    /\ LET live == IF connected THEN {clTorrents[client]} \ ({0} \cup closed) ELSE {}
       IN  /\ closed' = closed \cup live
           /\ readers' = [n \in Engines |-> IF n \in live THEN {} ELSE readers[n]]
           /\ raced' = (raced \/ live # {})
    /\ Goto(c, "connect")
    /\ UNCHANGED <<client, torrents, storageCache, wrap_vars, clTorrents, owner, info,
                   w, e, panicked>>

\* and Connect makes a new client, a new storage and a new map.
Connect(c) ==
    /\ pc[c] = "connect"
    /\ client' = client + 1 /\ connected' = TRUE
    /\ torrents' = 0
    /\ raced' = \/ raced
                \/ \E i \in Wrappers : tor[i] # 0
                \/ \E v \in Viewers : pc[v] \in Waiting
    /\ Goto(c, "end")
    /\ UNCHANGED <<storageCache, wrap_vars, eng_vars, w, e, panicked>>

-----------------------------------------------------------------------------
(* The engine and the clock.                                               *)

\* The metadata arrives: the client's storage opens a cache for the torrent.
InfoArrives(n) ==
    /\ owner[n] # 0 /\ n \notin info /\ n \notin closed
    /\ info' = info \cup {n}
    /\ storageCache' = [storageCache EXCEPT ![owner[n]] = n]
    /\ UNCHANGED <<client, connected, torrents, wrap_vars, clTorrents, owner, closed, readers,
                   proc_vars, raced, panicked>>

\* TorrentDisconnectTimeout passes.
Expire(i) ==
    /\ i \in fresh
    /\ fresh' = fresh \ {i}
    /\ UNCHANGED <<bt_vars, stat, tor, done, cache, eng_vars, proc_vars, raced,
                   panicked>>

View(v) ==
    \/ GetTorrent(v) \/ AddTorrentSpec(v) \/ Register(v)
    \/ GotInfoCheck(v) \/ GotInfoSet(v) \/ LoadTorrent(v) \/ WaitInfoGot(v) \/ WaitInfoFailed(v)
    \/ GotInfoDone(v) \/ PreloadBegin(v) \/ PreloadEnd(v) \/ SkipPreload(v)
    \/ NewReader(v) \/ CloseReader(v)

Change(c) == DropAllTorrent(c) \/ Disconnect(c) \/ Connect(c)

Tick == TickerList \/ UpdateStats

Running == panicked = "no"

Next ==
    /\ Running
    /\ \/ \E v \in Viewers : View(v)
       \/ \E p \in Procs : CloseTorrent(p) \/ RemoveTorrent(p)
       \/ \E c \in Changers : Change(c)
       \/ Tick
       \/ \E n \in Engines : InfoArrives(n)
       \/ \E i \in Wrappers : Expire(i)

Spec == Init /\ [][Next]_vars

\* Goroutines that have started go on, streams end, the ticker ticks and time
\* passes; no one has to remove a torrent, and metadata need not arrive.
Fairness ==
    /\ \A v \in Viewers : WF_vars(Running /\ pc[v] # "start" /\ View(v))
    /\ \A p \in Procs : WF_vars(Running /\ CloseTorrent(p))
    /\ WF_vars(Running /\ Tick) /\ WF_vars(Running /\ RemoveTorrent(Ticker))
    /\ \A i \in Wrappers : WF_vars(Running /\ Expire(i))

FairSpec == Spec /\ Fairness

-----------------------------------------------------------------------------
(* Properties.                                                             *)

Quiet == \A p \in Procs : pc[p] \in {"start", "end", "idle", "update"}

\* The engine's Drop and the cache lookup of WaitInfo never panic, however many
\* requests close the same torrent, unless its engine torrent was shared with or
\* closed behind the back of its wrapper (raced).
NoPanicUnraced == panicked # "no" => raced

\* The engine's Drop never panics: "It's always safe to do this" (t.go).
DropAlwaysSafe == panicked # "drop"

\* When nothing is under way, a torrent that the server no longer lists is not
\* left running in the engine: nobody would ever expire it.
NoHiddenTorrent ==
    Quiet /\ ~raced => \A i \in Wrappers : tor[i] # 0 => torrents = i

=============================================================================
