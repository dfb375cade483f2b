------------------------ MODULE TorrentLifecycleProofs ------------------------
EXTENDS TorrentLifecycle, FiniteSetTheorems, TLAPS
(***************************************************************************)
(* What TorrentLifecycle promises, for any number of requests of each      *)
(* kind.  The invariant has two parts: what always holds between the       *)
(* processes, the clients and the engine torrents (Structure), and what    *)
(* holds of the wrappers until one of the named races has happened         *)
(* (Orderly).                                                              *)
(***************************************************************************)

HasWrapper == {"check", "getting", "wait", "gotInfo", "load", "loadWait", "ready", "preload",
               "open", "serve", "close", "closeSet", "closeMap", "closeDrop", "update"}
HasEngine == {"register", "wait", "loadWait"}

\* A process past its lookup has a wrapper, one that registers or waits an engine torrent.
Placed(p) ==
    /\ pc[p] \in HasWrapper => w[p] # 0
    /\ pc[p] \in HasEngine => e[p] # 0 /\ owner[e[p]] # 0

\* A client is only made by a change of settings that then ends.
Counted ==
    /\ \A c \in Changers : pc[c] \in {"start", "disconnect", "connect", "end"}
    /\ client <= 1 + Cardinality({c \in Changers : pc[c] = "end"})

\* A client's map holds its one open torrent, and a torrent with metadata has a cache.
EnginesOK ==
    /\ \A n \in Engines : owner[n] # 0 /\ n \notin closed => clTorrents[owner[n]] = n
    /\ \A g \in Clients : clTorrents[g] # 0 => owner[clTorrents[g]] = g
    /\ \A n \in info : owner[n] # 0 /\ storageCache[owner[n]] # 0
    /\ \A i \in Wrappers : tor[i] # 0 => owner[tor[i]] # 0

Structure == (\A p \in Procs : Placed(p)) /\ Counted /\ EnginesOK

\* Each wrapper has an open engine torrent of the current client to itself, and is in the
\* server's map unless somebody is about to drop it.
Orderly ==
    /\ \A i \in Wrappers : tor[i] # 0 => tor[i] \notin closed /\ owner[tor[i]] = client
    /\ \A i, j \in Wrappers : tor[i] # 0 /\ tor[i] = tor[j] => i = j
    /\ \A v \in Viewers : pc[v] \in Waiting => owner[e[v]] = client
    /\ \A i \in Wrappers : tor[i] # 0 =>
          torrents = i \/ \E p \in Procs : pc[p] = "closeDrop" /\ w[p] = i
    /\ panicked = "no"

-----------------------------------------------------------------------------
(* TypeOK by parts.                                                        *)

Flags == BOOLEAN
Stats == {"none", "Added", "GettingInfo", "Preload", "Working", "Closed"}
Panics == {"no", "drop", "cache"}
WrapperIds == {0} \cup Wrappers
EngineIds == {0} \cup Engines
ClientIds == {0} \cup Clients

ServerTypes ==
    /\ client \in Clients /\ connected \in Flags /\ torrents \in WrapperIds
    /\ storageCache \in [Clients -> EngineIds]
WrapperTypes ==
    /\ stat \in [Wrappers -> Stats] /\ tor \in [Wrappers -> EngineIds]
    /\ done \in [Wrappers -> EngineIds] /\ cache \in [Wrappers -> EngineIds]
    /\ fresh \subseteq Wrappers
EngineTypes ==
    /\ clTorrents \in [Clients -> EngineIds] /\ owner \in [Engines -> ClientIds]
    /\ closed \subseteq Engines /\ info \subseteq Engines
    /\ readers \in [Engines -> SUBSET Viewers]
ProcessTypes ==
    /\ pc \in [Procs -> PC] /\ w \in [Procs -> WrapperIds] /\ e \in [Procs -> EngineIds]
Typed ==
    /\ ServerTypes /\ WrapperTypes /\ EngineTypes /\ ProcessTypes
    /\ raced \in Flags /\ panicked \in Panics

LEMMA TypeParts == TypeOK <=> Typed
BY Zenon DEF TypeOK, Typed, ServerTypes, WrapperTypes, EngineTypes, ProcessTypes, Flags, Stats,
   Panics, WrapperIds, EngineIds, ClientIds

IInv == Typed /\ Structure /\ (raced \/ Orderly)

LEMMA SetFacts ==
  /\ Cardinality(Viewers) \in Nat /\ Cardinality(Changers) \in Nat
  /\ 0 \notin Wrappers /\ 0 \notin Engines /\ 0 \notin Clients /\ 1 \in Clients
  /\ \A i \in WrapperIds : i # 0 => i \in Wrappers
  /\ \A n \in EngineIds : n # 0 => n \in Engines
  /\ \A g \in ClientIds : g # 0 => g \in Clients
  /\ Viewers \subseteq Procs \ Changers /\ Removers \subseteq Procs \ Changers
  /\ Ticker \in Procs \ Changers /\ Changers \subseteq Procs /\ Ticker \notin Viewers
  /\ Removers \cap Viewers = {}
<1>1. Cardinality(Viewers) \in Nat /\ Cardinality(Changers) \in Nat
  BY LifecycleAssumption, FS_CardinalityType, Zenon
<1>2. /\ 0 \notin Wrappers /\ 0 \notin Engines /\ 0 \notin Clients /\ 1 \in Clients
  BY <1>1 DEF Wrappers, Engines, Clients
<1>3. /\ \A i \in WrapperIds : i # 0 => i \in Wrappers
      /\ \A n \in EngineIds : n # 0 => n \in Engines
      /\ \A g \in ClientIds : g # 0 => g \in Clients
  BY Zenon DEF WrapperIds, EngineIds, ClientIds
<1>4. /\ Viewers \subseteq Procs \ Changers /\ Removers \subseteq Procs \ Changers
      /\ Ticker \in Procs \ Changers /\ Changers \subseteq Procs /\ Ticker \notin Viewers
      /\ Removers \cap Viewers = {}
  BY LifecycleAssumption, Zenon DEF Procs
<1> QED  BY <1>1, <1>2, <1>3, <1>4, Zenon

\* Who waits for metadata has a wrapper and an engine torrent.
LEMMA WaitingFacts == Waiting \subseteq PC \cap HasWrapper \cap HasEngine
BY Zenon DEF Waiting, PC, HasWrapper, HasEngine

LEMMA InitOK == Init => IInv
<1> SUFFICES ASSUME Init  PROVE IInv
  OBVIOUS
<1>1. ServerTypes
  <2>1. connected \in Flags  BY Zenon DEF Init, InitWithout, Flags
  <2> QED  BY <2>1, SetFacts, Zenon DEF Init, InitWithout, ServerTypes, WrapperIds, EngineIds
<1>2. WrapperTypes
  <2>1. stat \in [Wrappers -> Stats]  BY Zenon DEF Init, InitWithout, Stats
  <2> QED  BY <2>1, Zenon DEF Init, InitWithout, WrapperTypes, EngineIds
<1>3. EngineTypes
  BY Zenon DEF Init, InitWithout, EngineTypes, EngineIds, ClientIds
<1>4. ProcessTypes
  <2>1. pc \in [Procs -> PC]  BY Zenon DEF Init, InitWithout, PC
  <2> QED  BY <2>1, Zenon DEF Init, InitWithout, ProcessTypes, WrapperIds, EngineIds
<1>5. raced \in Flags /\ panicked \in Panics
  <2>1. raced \in Flags  BY Zenon DEF Init, InitWithout, Flags
  <2>2. panicked \in Panics  BY Zenon DEF Init, InitWithout, Panics
  <2> QED  BY <2>1, <2>2, Zenon
<1>6. \A p \in Procs : pc[p] \in {"start", "idle"}
  BY Zenon DEF Init, InitWithout
<1>7. \A p \in Procs : Placed(p)
  BY <1>6, Zenon DEF Placed, HasWrapper, HasEngine
<1>8. Counted
  <2>1. \A c \in Changers : pc[c] = "start"
    BY SetFacts, Zenon DEF Init, InitWithout
  <2>2. {c \in Changers : pc[c] = "end"} = {}
    BY <2>1, Zenon
  <2>3. Cardinality({c \in Changers : pc[c] = "end"}) = 0
    BY <2>2, FS_EmptySet, Zenon
  <2> QED  BY <2>1, <2>3 DEF Init, InitWithout, Counted
<1>9. EnginesOK
  BY Zenon DEF Init, InitWithout, EnginesOK
<1>10. Orderly
  <2>1. \A p \in Procs : pc[p] \notin Waiting
    BY <1>6, Zenon DEF Waiting
  <2> QED  BY <2>1, SetFacts, Zenon DEF Init, InitWithout, Orderly
<1> QED  BY <1>1, <1>2, <1>3, <1>4, <1>5, <1>7, <1>8, <1>9, <1>10, Zenon DEF IInv, Typed,
            Structure

-----------------------------------------------------------------------------
(* Steps that leave the engine, the clients and the map alone.             *)

Others(p) ==
    \A x \in Procs : x # p => pc'[x] = pc[x] /\ w'[x] = w[x] /\ e'[x] = e[x]

LEMMA GotoOK ==
  ASSUME Typed, NEW p \in Procs, NEW l \in PC, Goto(p, l)
  PROVE  /\ pc' \in [Procs -> PC] /\ pc'[p] = l
         /\ \A x \in Procs : x # p => pc'[x] = pc[x]
BY Zenon DEF Goto, Typed, ProcessTypes

\* The count of clients, when no change of settings moves.
LEMMA CountedOK ==
  ASSUME Counted, client' = client, \A c \in Changers : pc'[c] = pc[c]
  PROVE  Counted'
<1>1. {c \in Changers : pc'[c] = "end"} = {c \in Changers : pc[c] = "end"}
  OBVIOUS
<1> QED  BY <1>1, Zenon DEF Counted

LEMMA StillOK ==
  ASSUME IInv, Typed', NEW p \in Procs \ Changers, Others(p), pc[p] # "closeDrop",
         Placed(p)', pc'[p] \in Waiting => raced \/ owner[e'[p]] = client,
         UNCHANGED <<client, storageCache, torrents, tor, clTorrents, owner, closed, info,
                     raced, panicked>>
  PROVE  IInv'
<1>1. \A x \in Procs : Placed(x)'
  BY Zenon DEF IInv, Structure, Placed, Others
<1>2. Counted'
  BY CountedOK, SetFacts, Zenon DEF IInv, Structure, Others
<1>3. EnginesOK'
  BY Zenon DEF IInv, Structure, EnginesOK
<1>4. raced' \/ Orderly'
  <2> SUFFICES ASSUME ~raced  PROVE Orderly'
    OBVIOUS
  <2>1. Orderly
    BY Zenon DEF IInv
  <2>2. \A v \in Viewers : pc'[v] \in Waiting => owner[e'[v]] = client
    BY <2>1, SetFacts, Zenon DEF Orderly, Others
  <2>3. \A i \in Wrappers : tor[i] # 0 =>
           torrents = i \/ \E x \in Procs : pc'[x] = "closeDrop" /\ w'[x] = i
    BY <2>1 DEF Orderly, Others
  <2> QED  BY <2>1, <2>2, <2>3, Zenon DEF Orderly
<1> QED  BY <1>1, <1>2, <1>3, <1>4, Zenon DEF IInv, Structure

\* StillOK with the step's data checked by kind: what a quiet step does to types.
LEMMA QuietOK ==
  ASSUME IInv, NEW p \in Procs \ Changers, NEW l \in PC, Goto(p, l), pc[p] # "closeDrop",
         w' \in [Procs -> WrapperIds], e' \in [Procs -> EngineIds],
         \A x \in Procs : x # p => w'[x] = w[x] /\ e'[x] = e[x],
         stat' \in [Wrappers -> Stats], fresh' \subseteq Wrappers,
         readers' \in [Engines -> SUBSET Viewers],
         l \in HasWrapper => w'[p] # 0,
         l \in HasEngine => e'[p] # 0 /\ owner[e'[p]] # 0,
         l \in Waiting => raced \/ owner[e'[p]] = client,
         UNCHANGED <<bt_vars, tor, done, cache, clTorrents, owner, closed, info, raced,
                     panicked>>
  PROVE  IInv'
<1>1. pc' \in [Procs -> PC] /\ pc'[p] = l /\ Others(p)
  BY GotoOK, Zenon DEF IInv, Others
<1>2. UNCHANGED <<client, connected, storageCache, torrents>>
  BY Zenon DEF bt_vars
<1>3. Typed'
  <2>1. ServerTypes'  BY <1>2, Zenon DEF IInv, Typed, ServerTypes
  <2>2. WrapperTypes'  BY Zenon DEF IInv, Typed, WrapperTypes
  <2>3. EngineTypes'  BY Zenon DEF IInv, Typed, EngineTypes
  <2>4. ProcessTypes'  BY <1>1, Zenon DEF ProcessTypes
  <2> QED  BY <2>1, <2>2, <2>3, <2>4, Zenon DEF IInv, Typed
<1>4. Placed(p)'
  BY <1>1, Zenon DEF Placed
<1> QED  BY <1>1, <1>2, <1>3, <1>4, StillOK, Zenon

\* What every step starts from.
LEMMA Given ==
  ASSUME IInv, NEW p \in Procs
  PROVE  /\ w \in [Procs -> WrapperIds] /\ e \in [Procs -> EngineIds]
         /\ stat \in [Wrappers -> Stats] /\ fresh \subseteq Wrappers
         /\ readers \in [Engines -> SUBSET Viewers] /\ torrents \in WrapperIds
         /\ torrents # 0 => torrents \in Wrappers
         /\ pc[p] \in HasWrapper => w[p] # 0 /\ w[p] \in Wrappers
         /\ pc[p] \in HasEngine => e[p] \in Engines /\ owner[e[p]] # 0
<1>1. /\ w \in [Procs -> WrapperIds] /\ e \in [Procs -> EngineIds]
      /\ stat \in [Wrappers -> Stats] /\ fresh \subseteq Wrappers
      /\ readers \in [Engines -> SUBSET Viewers] /\ torrents \in WrapperIds
  BY Zenon DEF IInv, Typed, ServerTypes, WrapperTypes, EngineTypes, ProcessTypes
<1>2. Placed(p)
  BY Zenon DEF IInv, Structure
<1> QED  BY <1>1, <1>2, SetFacts, Zenon DEF Placed

LEMMA GetTorrentOK ==
  ASSUME IInv, NEW v \in Viewers, GetTorrent(v)
  PROVE  IInv'
<1>1. /\ v \in Procs \ Changers /\ pc[v] # "closeDrop"
      /\ UNCHANGED <<bt_vars, tor, done, cache, clTorrents, owner, closed, info, raced, panicked>>
      /\ UNCHANGED <<stat, readers, e>>
  BY SetFacts, Zenon DEF GetTorrent, eng_vars
<1>2. CASE /\ torrents # 0 /\ w' = [w EXCEPT ![v] = torrents]
           /\ fresh' = fresh \cup {torrents} /\ Goto(v, "check")
  <2>1. /\ w' \in [Procs -> WrapperIds] /\ w'[v] # 0 /\ fresh' \subseteq Wrappers
        /\ \A x \in Procs : x # v => w'[x] = w[x]
    BY <1>1, <1>2, Given, Zenon
  <2>2. "check" \in PC \ HasEngine  BY Zenon DEF PC, HasEngine
  <2> QED  BY <1>1, <1>2, <2>1, <2>2, WaitingFacts, Given, QuietOK, Zenon
<1>3. CASE Goto(v, "add") /\ UNCHANGED <<w, fresh>>
  <2>1. "add" \in PC \ HasEngine /\ "add" \notin HasWrapper
    BY Zenon DEF PC, HasEngine, HasWrapper
  <2> QED  BY <1>1, <1>3, <2>1, WaitingFacts, Given, QuietOK, Zenon
<1> QED  BY <1>2, <1>3, Zenon DEF GetTorrent

\* Steps that only move a process that has its wrapper, or lets it go.
LEMMA MoveOK ==
  ASSUME IInv, NEW p \in Procs \ Changers, NEW l \in PC \ HasEngine, Goto(p, l),
         pc[p] # "closeDrop", pc[p] \in HasWrapper \/ l \notin HasWrapper,
         stat' \in [Wrappers -> Stats], fresh' \subseteq Wrappers,
         readers' \in [Engines -> SUBSET Viewers],
         UNCHANGED <<bt_vars, tor, done, cache, clTorrents, owner, closed, info, w, e, raced,
                     panicked>>
  PROVE  IInv'
BY WaitingFacts, Given, QuietOK, Zenon

LEMMA GotInfoCheckOK ==
  ASSUME IInv, NEW v \in Viewers, GotInfoCheck(v)
  PROVE  IInv'
<1>1. PICK l \in {"end", "ready", "getting"} : Goto(v, l)
  BY Zenon DEF GotInfoCheck
<1>2. l \in PC \ HasEngine  BY Zenon DEF PC, HasEngine
<1>3. pc[v] # "closeDrop" /\ pc[v] \in HasWrapper /\ v \in Procs \ Changers
  BY SetFacts, Zenon DEF GotInfoCheck, HasWrapper
<1>4. UNCHANGED <<bt_vars, stat, tor, done, cache, fresh, clTorrents, owner, closed, info,
                  readers, w, e, raced, panicked>>
  BY Zenon DEF GotInfoCheck, wrap_vars, eng_vars
<1> QED  BY <1>1, <1>2, <1>3, <1>4, Given, MoveOK, Zenon

LEMMA GotInfoSetOK ==
  ASSUME IInv, NEW v \in Viewers, GotInfoSet(v)
  PROVE  IInv'
<1>1. /\ v \in Procs \ Changers /\ pc[v] # "closeDrop" /\ pc[v] \in HasWrapper
      /\ UNCHANGED <<bt_vars, tor, done, cache, clTorrents, owner, closed, info, raced, panicked>>
      /\ UNCHANGED <<fresh, readers, w>>
  BY SetFacts, Zenon DEF GotInfoSet, eng_vars, HasWrapper
<1>2. w[v] # 0 /\ w[v] \in Wrappers
  BY <1>1, Given, Zenon
<1>3. stat' \in [Wrappers -> Stats]
  <2>1. "GettingInfo" \in Stats  BY Zenon DEF Stats
  <2> QED  BY <2>1, Given, <1>1, Zenon DEF GotInfoSet
<1>4. tor[w[v]] \in EngineIds
  BY <1>2, Zenon DEF IInv, Typed, WrapperTypes
<1>5. /\ e' \in [Procs -> EngineIds] /\ e'[v] = tor[w[v]]
      /\ \A x \in Procs : x # v => e'[x] = e[x]
  BY <1>1, <1>4, Given, Zenon DEF GotInfoSet
<1>6. CASE tor[w[v]] = 0
  <2>1. "close" \in PC \ HasEngine  BY Zenon DEF PC, HasEngine
  <2>2. Goto(v, "close")  BY <1>6, Zenon DEF GotInfoSet
  <2> QED  BY <1>1, <1>2, <1>3, <1>5, <2>1, <2>2, WaitingFacts, Given, QuietOK, Zenon
<1>7. CASE tor[w[v]] # 0
  <2>1. "wait" \in PC  BY Zenon DEF PC
  <2>2. Goto(v, "wait")  BY <1>7, Zenon DEF GotInfoSet
  <2>3. owner[e'[v]] # 0
    BY <1>2, <1>5, <1>7, Zenon DEF IInv, Structure, EnginesOK
  <2>4. raced \/ owner[e'[v]] = client
    BY <1>2, <1>5, <1>7 DEF IInv, Orderly
  <2> QED  BY <1>1, <1>2, <1>3, <1>5, <1>7, <2>1, <2>2, <2>3, <2>4, Given, QuietOK, Zenon
<1> QED  BY <1>6, <1>7, Zenon

LEMMA LoadTorrentOK ==
  ASSUME IInv, NEW v \in Viewers, LoadTorrent(v)
  PROVE  IInv'
<1>1. /\ v \in Procs \ Changers /\ pc[v] # "closeDrop" /\ pc[v] \in HasWrapper
      /\ UNCHANGED <<bt_vars, tor, done, cache, clTorrents, owner, closed, info, raced, panicked>>
      /\ UNCHANGED <<stat, fresh, readers, w>>
  BY SetFacts, Zenon DEF LoadTorrent, wrap_vars, eng_vars, HasWrapper
<1>2. w[v] # 0 /\ w[v] \in Wrappers
  BY <1>1, Given, Zenon
<1>3. tor[w[v]] \in EngineIds
  BY <1>2, Zenon DEF IInv, Typed, WrapperTypes
<1>4. /\ e' \in [Procs -> EngineIds] /\ e'[v] = tor[w[v]]
      /\ \A x \in Procs : x # v => e'[x] = e[x]
  BY <1>1, <1>3, Given, Zenon DEF LoadTorrent
<1>5. CASE tor[w[v]] = 0
  <2>1. "end" \in PC \ HasEngine  BY Zenon DEF PC, HasEngine
  <2>2. Goto(v, "end")  BY <1>5, Zenon DEF LoadTorrent
  <2> QED  BY <1>1, <1>2, <1>4, <2>1, <2>2, WaitingFacts, Given, QuietOK, Zenon
<1>6. CASE tor[w[v]] # 0
  <2>1. "loadWait" \in PC  BY Zenon DEF PC
  <2>2. Goto(v, "loadWait")  BY <1>6, Zenon DEF LoadTorrent
  <2>3. owner[e'[v]] # 0
    BY <1>2, <1>4, <1>6, Zenon DEF IInv, Structure, EnginesOK
  <2>4. raced \/ owner[e'[v]] = client
    BY <1>2, <1>4, <1>6 DEF IInv, Orderly
  <2> QED  BY <1>1, <1>2, <1>4, <1>6, <2>1, <2>2, <2>3, <2>4, Given, QuietOK, Zenon
<1> QED  BY <1>5, <1>6, Zenon

LEMMA WaitInfoFailedOK ==
  ASSUME IInv, NEW v \in Viewers, WaitInfoFailed(v)
  PROVE  IInv'
<1>1. pc[v] # "closeDrop" /\ pc[v] \in HasWrapper /\ v \in Procs \ Changers
  BY SetFacts, WaitingFacts, Zenon DEF WaitInfoFailed, Waiting
<1>2. UNCHANGED <<bt_vars, stat, tor, done, cache, fresh, clTorrents, owner, closed, info,
                  readers, w, e, raced, panicked>>
  BY Zenon DEF WaitInfoFailed, wrap_vars, eng_vars
<1>3. PICK l \in {"close", "end"} : Goto(v, l)
  BY Zenon DEF WaitInfoFailed
<1>4. l \in PC \ HasEngine  BY Zenon DEF PC, HasEngine
<1> QED  BY <1>1, <1>2, <1>3, <1>4, Given, MoveOK, Zenon

LEMMA GotInfoDoneOK ==
  ASSUME IInv, NEW v \in Viewers, GotInfoDone(v)
  PROVE  IInv'
<1>1. pc[v] # "closeDrop" /\ pc[v] \in HasWrapper /\ v \in Procs \ Changers
  BY SetFacts, Zenon DEF GotInfoDone, HasWrapper
<1>2. UNCHANGED <<bt_vars, tor, done, cache, clTorrents, owner, closed, info, readers, w, e,
                  raced, panicked>>
  BY Zenon DEF GotInfoDone, eng_vars
<1>3. "ready" \in PC \ HasEngine /\ "Working" \in Stats  BY Zenon DEF PC, HasEngine, Stats
<1>4. stat' \in [Wrappers -> Stats] /\ fresh' \subseteq Wrappers
  BY <1>1, <1>3, Given, Zenon DEF GotInfoDone
<1> QED  BY <1>1, <1>2, <1>3, <1>4, Given, MoveOK, Zenon DEF GotInfoDone

LEMMA PreloadBeginOK ==
  ASSUME IInv, NEW v \in Viewers, PreloadBegin(v)
  PROVE  IInv'
<1>1. pc[v] # "closeDrop" /\ pc[v] \in HasWrapper /\ v \in Procs \ Changers
  BY SetFacts, Zenon DEF PreloadBegin, HasWrapper
<1>2. UNCHANGED <<bt_vars, tor, done, cache, fresh, clTorrents, owner, closed, info, readers,
                  w, e, raced, panicked>>
  BY Zenon DEF PreloadBegin, eng_vars
<1>3. "preload" \in PC \ HasEngine /\ "Preload" \in Stats  BY Zenon DEF PC, HasEngine, Stats
<1>4. stat' \in [Wrappers -> Stats]
  BY <1>1, <1>3, Given, Zenon DEF PreloadBegin
<1> QED  BY <1>1, <1>2, <1>3, <1>4, Given, MoveOK, Zenon DEF PreloadBegin

LEMMA PreloadEndOK ==
  ASSUME IInv, NEW v \in Viewers, PreloadEnd(v)
  PROVE  IInv'
<1>1. pc[v] # "closeDrop" /\ pc[v] \in HasWrapper /\ v \in Procs \ Changers
  BY SetFacts, Zenon DEF PreloadEnd, HasWrapper
<1>2. UNCHANGED <<bt_vars, tor, done, cache, fresh, clTorrents, owner, closed, info, readers,
                  w, e, raced, panicked>>
  BY Zenon DEF PreloadEnd, eng_vars
<1>3. "open" \in PC \ HasEngine /\ "Working" \in Stats  BY Zenon DEF PC, HasEngine, Stats
<1>4. stat' \in [Wrappers -> Stats]
  BY <1>1, <1>3, Given, Zenon DEF PreloadEnd
<1> QED  BY <1>1, <1>2, <1>3, <1>4, Given, MoveOK, Zenon DEF PreloadEnd

LEMMA SkipPreloadOK ==
  ASSUME IInv, NEW v \in Viewers, SkipPreload(v)
  PROVE  IInv'
<1>1. PICK l \in {"open", "end"} : Goto(v, l)
  BY Zenon DEF SkipPreload
<1>2. l \in PC \ HasEngine  BY Zenon DEF PC, HasEngine
<1>3. pc[v] # "closeDrop" /\ pc[v] \in HasWrapper /\ v \in Procs \ Changers
  BY SetFacts, Zenon DEF SkipPreload, HasWrapper
<1>4. UNCHANGED <<bt_vars, stat, tor, done, cache, fresh, clTorrents, owner, closed, info,
                  readers, w, e, raced, panicked>>
  BY Zenon DEF SkipPreload, wrap_vars, eng_vars
<1> QED  BY <1>1, <1>2, <1>3, <1>4, Given, MoveOK, Zenon

LEMMA NewReaderOK ==
  ASSUME IInv, NEW v \in Viewers, NewReader(v)
  PROVE  IInv'
<1>1. PICK l \in {"serve", "end"} : Goto(v, l)
  BY Zenon DEF NewReader
<1>2. l \in PC \ HasEngine  BY Zenon DEF PC, HasEngine
<1>3. pc[v] # "closeDrop" /\ pc[v] \in HasWrapper /\ v \in Procs \ Changers
  BY SetFacts, Zenon DEF NewReader, HasWrapper
<1>4. UNCHANGED <<bt_vars, stat, tor, done, cache, fresh, clTorrents, owner, closed, info,
                  w, e, raced, panicked>>
  BY Zenon DEF NewReader, wrap_vars
<1>5. readers' \in [Engines -> SUBSET Viewers]
  BY <1>3, Given DEF NewReader
<1> QED  BY <1>1, <1>2, <1>3, <1>4, <1>5, Given, MoveOK, Zenon

LEMMA CloseReaderOK ==
  ASSUME IInv, NEW v \in Viewers, CloseReader(v)
  PROVE  IInv'
<1>1. pc[v] # "closeDrop" /\ pc[v] \in HasWrapper /\ v \in Procs \ Changers
  BY SetFacts, Zenon DEF CloseReader, HasWrapper
<1>2. UNCHANGED <<bt_vars, stat, tor, done, cache, clTorrents, owner, closed, info, w, e,
                  raced, panicked>>
  BY Zenon DEF CloseReader
<1>3. "end" \in PC \ HasEngine  BY Zenon DEF PC, HasEngine
<1>4. fresh' \subseteq Wrappers
  BY <1>1, Given, Zenon DEF CloseReader
<1>5. readers' \in [Engines -> SUBSET Viewers]
  BY <1>1, Given, Zenon DEF CloseReader
<1> QED  BY <1>1, <1>2, <1>3, <1>4, <1>5, Given, MoveOK, Zenon DEF CloseReader

\* Changes of settings do not close torrents this way, and end nowhere else.
LEMMA NoChanger ==
  ASSUME IInv, NEW p \in Procs, pc[p] \notin {"start", "disconnect", "connect", "end"}
  PROVE  p \in Procs \ Changers
BY Zenon DEF IInv, Structure, Counted

LEMMA CloseCheckOK ==
  ASSUME IInv, NEW p \in Procs, CloseCheck(p)
  PROVE  IInv'
<1>1. PICK l \in {"idle", "end", "closeSet"} : Goto(p, l)
  BY Zenon DEF CloseCheck, AfterClose
<1>2. l \in PC \ HasEngine  BY Zenon DEF PC, HasEngine
<1>3. pc[p] # "closeDrop" /\ pc[p] \in HasWrapper /\ p \in Procs \ Changers
  BY NoChanger, Zenon DEF CloseCheck, HasWrapper
<1>4. UNCHANGED <<bt_vars, stat, tor, done, cache, fresh, clTorrents, owner, closed, info,
                  readers, w, e, raced, panicked>>
  BY Zenon DEF CloseCheck, wrap_vars, eng_vars
<1> QED  BY <1>1, <1>2, <1>3, <1>4, Given, MoveOK, Zenon

LEMMA CloseSetOK ==
  ASSUME IInv, NEW p \in Procs, CloseSet(p)
  PROVE  IInv'
<1>1. pc[p] # "closeDrop" /\ pc[p] \in HasWrapper /\ p \in Procs \ Changers
  BY NoChanger, Zenon DEF CloseSet, HasWrapper
<1>2. UNCHANGED <<bt_vars, tor, done, cache, fresh, clTorrents, owner, closed, info, readers,
                  w, e, raced, panicked>>
  BY Zenon DEF CloseSet, eng_vars
<1>3. "closeMap" \in PC \ HasEngine /\ "Closed" \in Stats  BY Zenon DEF PC, HasEngine, Stats
<1>4. stat' \in [Wrappers -> Stats]
  BY <1>1, <1>3, Given, Zenon DEF CloseSet
<1> QED  BY <1>1, <1>2, <1>3, <1>4, Given, MoveOK, Zenon DEF CloseSet

\* Steps that take the wrapper the server lists.
LEMMA LookUpOK ==
  ASSUME IInv, NEW p \in Procs \ Changers, NEW l \in PC \ HasEngine, Goto(p, l),
         pc[p] # "closeDrop", torrents # 0, w' = [w EXCEPT ![p] = torrents],
         UNCHANGED <<bt_vars, wrap_vars, eng_vars, e, raced, panicked>>
  PROVE  IInv'
<1>1. /\ w' \in [Procs -> WrapperIds] /\ w'[p] # 0
      /\ \A x \in Procs : x # p => w'[x] = w[x]
  BY Given, Zenon
<1>2. UNCHANGED <<bt_vars, stat, tor, done, cache, fresh, clTorrents, owner, closed, info,
                  readers, e, raced, panicked>>
  BY Zenon DEF wrap_vars, eng_vars
<1> QED  BY <1>1, <1>2, WaitingFacts, Given, QuietOK, Zenon

LEMMA TickerListOK ==
  ASSUME IInv, TickerList
  PROVE  IInv'
<1>1. "update" \in PC \ HasEngine  BY Zenon DEF PC, HasEngine
<1>2. Ticker \in Procs \ Changers /\ pc[Ticker] # "closeDrop"
  BY SetFacts, Zenon DEF TickerList
<1> QED  BY <1>1, <1>2, LookUpOK, Zenon DEF TickerList

LEMMA UpdateStatsOK ==
  ASSUME IInv, UpdateStats
  PROVE  IInv'
<1>1. PICK l \in {"remove", "idle"} : Goto(Ticker, l)
  BY Zenon DEF UpdateStats
<1>2. l \in PC \ HasEngine  BY Zenon DEF PC, HasEngine
<1>3. pc[Ticker] # "closeDrop" /\ pc[Ticker] \in HasWrapper /\ Ticker \in Procs \ Changers
  BY SetFacts, Zenon DEF UpdateStats, HasWrapper
<1>4. UNCHANGED <<bt_vars, stat, tor, done, cache, fresh, clTorrents, owner, closed, info,
                  readers, w, e, raced, panicked>>
  BY Zenon DEF UpdateStats, wrap_vars, eng_vars
<1> QED  BY <1>1, <1>2, <1>3, <1>4, Given, MoveOK, Zenon

LEMMA RemoveTorrentOK ==
  ASSUME IInv, NEW p \in Procs, RemoveTorrent(p)
  PROVE  IInv'
<1>1. p \in Procs \ Changers /\ pc[p] # "closeDrop"
  BY SetFacts, Zenon DEF RemoveTorrent
<1>2. CASE torrents # 0
  <2>1. "close" \in PC \ HasEngine  BY Zenon DEF PC, HasEngine
  <2> QED  BY <1>1, <1>2, <2>1, LookUpOK, Zenon DEF RemoveTorrent
<1>3. CASE torrents = 0
  <2>1. PICK l \in {"idle", "end"} : Goto(p, l)
    BY <1>3, Zenon DEF RemoveTorrent, AfterClose
  <2>2. l \in PC \ HasEngine /\ l \notin HasWrapper  BY Zenon DEF PC, HasEngine, HasWrapper
  <2>3. UNCHANGED <<bt_vars, stat, tor, done, cache, fresh, clTorrents, owner, closed, info,
                    readers, w, e, raced, panicked>>
    BY <1>3, Zenon DEF RemoveTorrent, wrap_vars, eng_vars
  <2> QED  BY <1>1, <2>1, <2>2, <2>3, Given, MoveOK, Zenon
<1> QED  BY <1>2, <1>3, Zenon

-----------------------------------------------------------------------------
(* Steps of the engine and the clock.                                      *)

LEMMA ExpireOK ==
  ASSUME IInv, NEW i \in Wrappers, Expire(i)
  PROVE  IInv'
<1>1. UNCHANGED <<client, connected, storageCache, torrents, stat, tor, done, cache, clTorrents,
                  owner, closed, info, readers, pc, w, e, raced, panicked>>
  BY Zenon DEF Expire, bt_vars, eng_vars, proc_vars
<1>2. fresh' \subseteq Wrappers
  BY Zenon DEF Expire, IInv, Typed, WrapperTypes
<1>3. Typed'
  BY <1>1, <1>2, Zenon DEF IInv, Typed, ServerTypes, WrapperTypes, EngineTypes, ProcessTypes
<1>4. Counted'
  BY <1>1, CountedOK, SetFacts, Zenon DEF IInv, Structure
<1>5. (\A p \in Procs : Placed(p)') /\ EnginesOK'
  BY <1>1, Zenon DEF IInv, Structure, Placed, EnginesOK
<1>6. raced' \/ Orderly'
  BY <1>1, Zenon DEF IInv, Orderly
<1> QED  BY <1>3, <1>4, <1>5, <1>6, Zenon DEF IInv, Structure

LEMMA InfoArrivesOK ==
  ASSUME IInv, NEW n \in Engines, InfoArrives(n)
  PROVE  IInv'
<1>1. UNCHANGED <<client, connected, torrents, stat, tor, done, cache, fresh, clTorrents, owner,
                  closed, readers, pc, w, e, raced, panicked>>
  BY Zenon DEF InfoArrives, wrap_vars, proc_vars
<1>2. n # 0 /\ n \in EngineIds /\ owner[n] \in Clients
  BY SetFacts, Zenon DEF InfoArrives, EngineIds, IInv, Typed, EngineTypes
<1>3. /\ info' = info \cup {n} /\ info' \subseteq Engines
      /\ storageCache' \in [Clients -> EngineIds] /\ storageCache'[owner[n]] = n
      /\ \A g \in Clients : g # owner[n] => storageCache'[g] = storageCache[g]
  BY <1>2, Zenon DEF InfoArrives, IInv, Typed, ServerTypes, EngineTypes
<1>4. Typed'
  BY <1>1, <1>3, Zenon DEF IInv, Typed, ServerTypes, WrapperTypes, EngineTypes, ProcessTypes
<1>5. Counted'
  BY <1>1, CountedOK, SetFacts, Zenon DEF IInv, Structure
<1>6. \A p \in Procs : Placed(p)'
  BY <1>1, Zenon DEF IInv, Structure, Placed
<1>7. EnginesOK'
  <2>1. \A m \in info : owner[m] # 0 /\ storageCache[owner[m]] # 0 /\ owner[m] \in Clients
    BY SetFacts, Zenon DEF IInv, Typed, EngineTypes, Structure, EnginesOK
  <2>2. \A m \in info' : owner[m] # 0 /\ storageCache'[owner[m]] # 0
    BY <1>2, <1>3, <2>1, Zenon DEF InfoArrives
  <2> QED  BY <1>1, <2>2, Zenon DEF IInv, Structure, EnginesOK
<1>8. raced' \/ Orderly'
  BY <1>1, Zenon DEF IInv, Orderly
<1> QED  BY <1>4, <1>5, <1>6, <1>7, <1>8, Zenon DEF IInv, Structure

-----------------------------------------------------------------------------
(* A viewer's steps that touch the engine or the map.                      *)

LEMMA AddTorrentSpecOK ==
  ASSUME IInv, NEW v \in Viewers, AddTorrentSpec(v)
  PROVE  IInv'
<1>1. /\ v \in Procs \ Changers /\ pc[v] = "add"
      /\ UNCHANGED <<bt_vars, stat, tor, done, cache, fresh, closed, info, readers, w, raced,
                     panicked>>
  BY SetFacts, Zenon DEF AddTorrentSpec, wrap_vars
<1>2. CASE ~connected
  <2>1. Goto(v, "end") /\ UNCHANGED <<e, clTorrents, owner>>
    BY <1>2, Zenon DEF AddTorrentSpec
  <2>2. "end" \in PC \ HasEngine /\ "end" \notin HasWrapper  BY Zenon DEF PC, HasEngine,
                                                                           HasWrapper
  <2> QED  BY <1>1, <2>1, <2>2, Given, MoveOK, Zenon
<1>3. client \in Clients /\ client # 0 /\ clTorrents[client] \in EngineIds
  BY SetFacts, Zenon DEF IInv, Typed, ServerTypes, EngineTypes
<1>4. "register" \in PC /\ "register" \notin HasWrapper /\ "register" \notin Waiting
  BY Zenon DEF PC, HasWrapper, Waiting
<1>5. CASE connected /\ clTorrents[client] # 0
  <2>1. /\ Goto(v, "register") /\ UNCHANGED <<clTorrents, owner>>
        /\ e' = [e EXCEPT ![v] = clTorrents[client]]
    BY <1>5, Zenon DEF AddTorrentSpec
  <2>2. /\ e' \in [Procs -> EngineIds] /\ e'[v] = clTorrents[client]
        /\ \A x \in Procs : x # v => e'[x] = e[x]
    BY <1>1, <1>3, <2>1, Given, Zenon
  <2>3. e'[v] # 0 /\ owner[e'[v]] # 0
    BY <1>3, <1>5, <2>2, Zenon DEF IInv, Structure, EnginesOK
  <2> QED  BY <1>1, <1>4, <2>1, <2>2, <2>3, Given, QuietOK, Zenon
<1>6. CASE connected /\ clTorrents[client] = 0
  <2>1. PICK n \in Engines : /\ owner[n] = 0
                             /\ e' = [e EXCEPT ![v] = n]
                             /\ clTorrents' = [clTorrents EXCEPT ![client] = n]
                             /\ owner' = [owner EXCEPT ![n] = client]
    BY <1>6, Zenon DEF AddTorrentSpec
  <2>2. /\ pc' \in [Procs -> PC] /\ pc'[v] = "register"
        /\ \A x \in Procs : x # v => pc'[x] = pc[x]
    <3>1. Goto(v, "register")  BY <1>6, Zenon DEF AddTorrentSpec
    <3> QED  BY <1>1, <1>4, <3>1, GotoOK, Zenon DEF IInv
  <2>3. n # 0 /\ n \in EngineIds /\ client \in ClientIds
    BY <1>3, SetFacts, Zenon DEF EngineIds, ClientIds
  <2>4. /\ e' \in [Procs -> EngineIds] /\ e'[v] = n
        /\ \A x \in Procs : x # v => e'[x] = e[x]
    BY <1>1, <2>1, <2>3, Given, Zenon
  <2>5. /\ clTorrents' \in [Clients -> EngineIds] /\ clTorrents'[client] = n
        /\ \A g \in Clients : g # client => clTorrents'[g] = clTorrents[g]
    BY <1>3, <2>1, <2>3, Zenon DEF IInv, Typed, EngineTypes
  <2>6. /\ owner' \in [Engines -> ClientIds] /\ owner'[n] = client
        /\ \A m \in Engines : m # n => owner'[m] = owner[m]
    BY <2>1, <2>3, Zenon DEF IInv, Typed, EngineTypes
  <2>7. UNCHANGED <<client, connected, torrents, storageCache>>
    BY <1>1, Zenon DEF bt_vars
  <2>8. Typed'
    BY <1>1, <2>2, <2>4, <2>5, <2>6, <2>7, Zenon
       DEF IInv, Typed, ServerTypes, WrapperTypes, EngineTypes, ProcessTypes
  <2>9. \A m \in EngineIds : m # 0 /\ owner[m] # 0 => m \in Engines /\ m # n /\ owner'[m] = owner[m]
    BY <2>1, <2>6, SetFacts, Zenon
  <2>10. \A p \in Procs : Placed(p)'
    <3> SUFFICES ASSUME NEW p \in Procs  PROVE Placed(p)'
      OBVIOUS
    <3>1. CASE p = v
      BY <1>1, <1>3, <1>4, <2>2, <2>3, <2>4, <2>6, <3>1, Zenon DEF Placed
    <3>2. CASE p # v
      <4>1. e[p] \in EngineIds  BY Given, Zenon
      <4> QED  BY <1>1, <2>2, <2>4, <2>9, <3>2, <4>1 DEF Placed, IInv, Structure
    <3> QED  BY <3>1, <3>2, Zenon
  <2>11. Counted'
    BY <1>1, <2>2, <2>7, CountedOK, SetFacts, Zenon DEF IInv, Structure
  <2>12. tor \in [Wrappers -> EngineIds] /\ clTorrents \in [Clients -> EngineIds] /\ info \subseteq EngineIds
    BY Zenon DEF IInv, Typed, WrapperTypes, EngineTypes, EngineIds
  <2>13. EnginesOK'
    <3>1. \A m \in Engines : owner'[m] # 0 /\ m \notin closed => clTorrents'[owner'[m]] = m
      <4> SUFFICES ASSUME NEW m \in Engines, owner'[m] # 0, m \notin closed
                   PROVE  clTorrents'[owner'[m]] = m
        OBVIOUS
      <4>1. CASE m = n  BY <2>5, <2>6, <4>1, Zenon
      <4>2. CASE m # n
        <5>1. clTorrents[owner[m]] = m /\ owner[m] \in Clients /\ m # 0
          BY <2>6, <4>2, SetFacts, Zenon DEF IInv, Typed, EngineTypes, Structure, EnginesOK
        <5> QED  BY <1>6, <2>5, <2>6, <4>2, <5>1, Zenon
      <4> QED  BY <4>1, <4>2, Zenon
    <3>2. \A g \in Clients : clTorrents'[g] # 0 => owner'[clTorrents'[g]] = g
      <4> SUFFICES ASSUME NEW g \in Clients, clTorrents'[g] # 0
                   PROVE  owner'[clTorrents'[g]] = g
        OBVIOUS
      <4>1. CASE g = client  BY <2>5, <2>6, <4>1, Zenon
      <4>2. CASE g # client
        <5>1. owner[clTorrents[g]] = g /\ clTorrents[g] # 0 /\ clTorrents[g] \in EngineIds /\ g # 0
          BY <2>5, <2>12, <4>2, SetFacts, Zenon DEF IInv, Structure, EnginesOK
        <5> QED  BY <2>5, <2>9, <4>2, <5>1, Zenon
      <4> QED  BY <4>1, <4>2, Zenon
    <3>3. \A m \in info : owner'[m] # 0 /\ storageCache[owner'[m]] # 0
      <4>1. \A m \in info : m \in EngineIds /\ m # 0 /\ owner[m] # 0 /\ storageCache[owner[m]] # 0
        BY <2>12, SetFacts, ZenonT(60) DEF IInv, Typed, EngineTypes, Structure, EnginesOK
      <4> QED  BY <2>9, <4>1, Zenon
    <3>4. \A i \in Wrappers : tor[i] # 0 => owner'[tor[i]] # 0
      BY <2>9, <2>12, Zenon DEF IInv, Structure, EnginesOK
    <3> QED  BY <1>1, <2>7, <3>1, <3>2, <3>3, <3>4, Zenon DEF EnginesOK
  <2>14. raced' \/ Orderly'
    <3> SUFFICES ASSUME ~raced  PROVE Orderly'
      BY <1>1, Zenon
    <3>1. Orderly  BY Zenon DEF IInv
    <3>2. \A i \in Wrappers : tor[i] # 0 => owner'[tor[i]] = client
      BY <2>9, <2>12, <3>1 DEF IInv, Structure, EnginesOK, Orderly
    <3>3. \A x \in Viewers : pc'[x] \in Waiting => owner'[e'[x]] = client
      <4> SUFFICES ASSUME NEW x \in Viewers, pc'[x] \in Waiting  PROVE owner'[e'[x]] = client
        OBVIOUS
      <4>1. x # v /\ x \in Procs /\ pc[x] \in Waiting  BY <1>4, <2>2, SetFacts, Zenon
      <4>2. e[x] \in Engines /\ owner[e[x]] # 0 /\ e[x] # n
        BY <4>1, <2>1, WaitingFacts, Given, Zenon
      <4> QED  BY <2>4, <2>6, <3>1, <4>1, <4>2 DEF Orderly
    <3>4. \A i \in Wrappers : tor[i] # 0 =>
             torrents = i \/ \E x \in Procs : pc'[x] = "closeDrop" /\ w[x] = i
      BY <1>1, <2>2, <3>1 DEF Orderly
    <3> QED  BY <1>1, <2>7, <3>1, <3>2, <3>3, <3>4 DEF Orderly
  <2> QED  BY <2>8, <2>10, <2>11, <2>13, <2>14, Zenon DEF IInv, Structure
<1> QED  BY <1>2, <1>5, <1>6, Zenon

LEMMA RegisterOK ==
  ASSUME IInv, NEW v \in Viewers, Register(v)
  PROVE  IInv'
<1>0. PICK l \in {"check", "load"} : Goto(v, l)
  BY Zenon DEF Register
<1>1. /\ v \in Procs \ Changers /\ pc[v] = "register" /\ Goto(v, l)
      /\ UNCHANGED <<client, connected, storageCache, cache, clTorrents, owner, closed, info,
                     readers, e, panicked>>
  BY <1>0, SetFacts, Zenon DEF Register, eng_vars
<1>2. l \in PC \ HasEngine /\ l # "closeDrop"  BY Zenon DEF PC, HasEngine
<1>3. CASE torrents # 0
  <2>1. /\ w' = [w EXCEPT ![v] = torrents]
        /\ UNCHANGED <<bt_vars, wrap_vars, eng_vars, e, raced, panicked>>
    BY <1>1, <1>3, Zenon DEF Register, bt_vars, wrap_vars, eng_vars
  <2> QED  BY <1>1, <1>2, <1>3, <2>1, LookUpOK, Zenon
<1>4. CASE torrents = 0
  <2>0. "register" \in HasEngine  BY Zenon DEF HasEngine
  <2>1. PICK i \in Wrappers : /\ w' = [w EXCEPT ![v] = i]
                              /\ torrents' = i
                              /\ stat' = [stat EXCEPT ![i] = "Added"]
                              /\ tor' = [tor EXCEPT ![i] = e[v]]
                              /\ done' = [done EXCEPT ![i] = e[v]]
                              /\ fresh' = fresh \cup {i}
                              /\ raced' = (raced \/ Stale(e[v]))
    BY <1>4, Zenon DEF Register
  <2>2. /\ pc' \in [Procs -> PC] /\ pc'[v] = l
        /\ \A x \in Procs : x # v => pc'[x] = pc[x]
    BY <1>1, <1>2, GotoOK, Zenon DEF IInv
  <2>3. /\ e[v] \in EngineIds /\ e[v] # 0 /\ owner[e[v]] # 0 /\ i \in WrapperIds /\ i # 0
    BY <1>1, <2>0, SetFacts, Given, Zenon DEF WrapperIds, EngineIds
  <2>4. /\ w' \in [Procs -> WrapperIds] /\ w'[v] = i
        /\ \A x \in Procs : x # v => w'[x] = w[x]
    BY <1>1, <2>1, <2>3, Given, Zenon
  <2>5. /\ tor' \in [Wrappers -> EngineIds] /\ tor'[i] = e[v]
        /\ \A j \in Wrappers : j # i => tor'[j] = tor[j]
    BY <2>1, <2>3, Zenon DEF IInv, Typed, WrapperTypes
  <2>6. Typed'
    <3>1. stat' \in [Wrappers -> Stats]
      <4>1. "Added" \in Stats  BY Zenon DEF Stats
      <4> QED  BY <1>1, <2>1, <4>1, Given, Zenon
    <3>2. done' \in [Wrappers -> EngineIds] /\ fresh' \subseteq Wrappers
      BY <2>1, <2>3, Zenon DEF IInv, Typed, WrapperTypes
    <3>3. WrapperTypes'
      BY <1>1, <2>5, <3>1, <3>2, Zenon DEF IInv, Typed, WrapperTypes
    <3>4. ServerTypes' /\ EngineTypes' /\ ProcessTypes'
      BY <1>1, <2>1, <2>2, <2>3, <2>4, Zenon
         DEF IInv, Typed, ServerTypes, EngineTypes, ProcessTypes
    <3>5. raced' \in Flags
      BY <2>1, Zenon DEF Flags, IInv, Typed
    <3> QED  BY <1>1, <3>3, <3>4, <3>5, Zenon DEF IInv, Typed
  <2>7. \A p \in Procs : Placed(p)'
    BY <1>1, <1>2, <2>2, <2>3, <2>4, Zenon DEF Placed, IInv, Structure
  <2>8. Counted'
    BY <1>1, <2>2, CountedOK, SetFacts, Zenon DEF IInv, Structure
  <2>9. EnginesOK'
    BY <1>1, <2>3, <2>5, Zenon DEF IInv, Structure, EnginesOK
  <2>10. raced' \/ Orderly'
    <3> SUFFICES ASSUME ~raced'  PROVE Orderly'
      OBVIOUS
    <3>1. Orderly /\ ~Stale(e[v])
      BY <2>1, Zenon DEF IInv
    <3>2. \A j \in Wrappers : tor'[j] # 0 => tor'[j] \notin closed /\ owner[tor'[j]] = client
      BY <2>5, <3>1, ZenonT(60) DEF Orderly, Stale
    <3>3. \A j, k \in Wrappers : tor'[j] # 0 /\ tor'[j] = tor'[k] => j = k
      BY <2>5, <3>1 DEF Orderly, Stale
    <3>4. \A x \in Viewers : pc'[x] \in Waiting => owner[e[x]] = client
      BY <1>2, <2>2, <3>1, SetFacts, WaitingFacts, Zenon DEF Orderly
    <3>5. \A j \in Wrappers : tor'[j] # 0 =>
             torrents' = j \/ \E x \in Procs : pc'[x] = "closeDrop" /\ w'[x] = j
      <4> SUFFICES ASSUME NEW j \in Wrappers, tor'[j] # 0, j # i
                   PROVE  \E x \in Procs : pc'[x] = "closeDrop" /\ w'[x] = j
        BY <2>1, Zenon
      <4>1. PICK x \in Procs : pc[x] = "closeDrop" /\ w[x] = j
        BY <1>4, <2>5, <3>1, SetFacts, Zenon DEF Orderly
      <4> QED  BY <1>1, <2>2, <2>4, <4>1, Zenon
    <3> QED  BY <1>1, <3>1, <3>2, <3>3, <3>4, <3>5, Zenon DEF Orderly
  <2> QED  BY <2>6, <2>7, <2>8, <2>9, <2>10, Zenon DEF IInv, Structure
<1> QED  BY <1>3, <1>4, Zenon

\* The metadata of a torrent of the current client: its storage has the cache.
LEMMA WaitInfoGotOK ==
  ASSUME IInv, NEW v \in Viewers, WaitInfoGot(v)
  PROVE  IInv'
<1>0. PICK l \in {"gotInfo", "end"} : Goto(v, l)
  BY Zenon DEF WaitInfoGot
<1>1. /\ v \in Procs \ Changers /\ pc[v] \in Waiting /\ Goto(v, l) /\ e[v] \in info
      /\ UNCHANGED <<client, connected, storageCache, torrents, stat, tor, done, fresh,
                     clTorrents, owner, closed, info, readers, w, e, raced>>
  BY <1>0, SetFacts, Zenon DEF WaitInfoGot, bt_vars, eng_vars
<1>2. /\ pc' \in [Procs -> PC] /\ pc'[v] = l /\ l \notin HasEngine
      /\ \A x \in Procs : x # v => pc'[x] = pc[x]
  <2>1. l \in PC \ HasEngine  BY Zenon DEF PC, HasEngine
  <2> QED  BY <1>1, <2>1, GotoOK, Zenon DEF IInv
<1>3. pc[v] \in HasWrapper  BY <1>1, WaitingFacts, Zenon
<1>4. Typed'
  <2>1. storageCache[client] \in EngineIds
    BY Zenon DEF IInv, Typed, ServerTypes
  <2>2. cache' \in [Wrappers -> EngineIds]
    BY <2>1, Zenon DEF IInv, Typed, WrapperTypes, WaitInfoGot
  <2>3. panicked' \in Panics
    <3>1. "cache" \in Panics  BY Zenon DEF Panics
    <3> QED  BY <3>1, Zenon DEF IInv, Typed, WaitInfoGot
  <2>4. WrapperTypes'  BY <1>1, <2>2, Zenon DEF IInv, Typed, WrapperTypes
  <2> QED  BY <1>1, <1>2, <2>3, <2>4, Zenon DEF IInv, Typed, ServerTypes, EngineTypes,
              ProcessTypes
<1>5. \A p \in Procs : Placed(p)'
  BY <1>1, <1>2, <1>3, Zenon DEF Placed, IInv, Structure
<1>6. Counted'
  BY <1>1, <1>2, CountedOK, SetFacts, Zenon DEF IInv, Structure
<1>7. EnginesOK'
  BY <1>1, Zenon DEF IInv, Structure, EnginesOK
<1>8. raced' \/ Orderly'
  <2> SUFFICES ASSUME ~raced  PROVE Orderly'
    BY <1>1, Zenon
  <2>1. Orderly  BY Zenon DEF IInv
  <2>2. storageCache[client] # 0
    BY <1>1, <2>1 DEF Orderly, IInv, Structure, EnginesOK
  <2>3. panicked' = panicked
    BY <2>2, Zenon DEF WaitInfoGot
  <2>4. \A x \in Viewers : pc'[x] \in Waiting => owner[e[x]] = client
    BY <1>2, <2>1, SetFacts, WaitingFacts, Zenon DEF Orderly
  <2>5. \A i \in Wrappers : tor[i] # 0 =>
           torrents = i \/ \E x \in Procs : pc'[x] = "closeDrop" /\ w[x] = i
    BY <1>1, <1>2, <2>1 DEF Orderly, Waiting
  <2> QED  BY <1>1, <2>1, <2>3, <2>4, <2>5 DEF Orderly
<1> QED  BY <1>4, <1>5, <1>6, <1>7, <1>8, Zenon DEF IInv, Structure

-----------------------------------------------------------------------------
(* Torrent.Close and dropping.                                             *)

LEMMA CloseMapOK ==
  ASSUME IInv, NEW p \in Procs, CloseMap(p)
  PROVE  IInv'
<1>1. /\ pc[p] = "closeMap" /\ Goto(p, "closeDrop") /\ torrents' = 0
      /\ UNCHANGED <<client, connected, storageCache, stat, tor, done, cache, fresh,
                     clTorrents, owner, closed, info, readers, w, e, panicked>>
  BY Zenon DEF CloseMap, wrap_vars, eng_vars
<1>2. /\ pc' \in [Procs -> PC] /\ pc'[p] = "closeDrop"
      /\ \A x \in Procs : x # p => pc'[x] = pc[x]
  <2>1. "closeDrop" \in PC  BY Zenon DEF PC
  <2> QED  BY <1>1, <2>1, GotoOK, Zenon DEF IInv
<1>3. pc[p] \in HasWrapper /\ p \in Procs \ Changers
  BY <1>1, NoChanger, Zenon DEF HasWrapper
<1>4. Typed'
  <2>1. raced' \in Flags  BY Zenon DEF CloseMap, Flags, IInv, Typed
  <2>2. 0 \in WrapperIds  BY Zenon DEF WrapperIds
  <2> QED  BY <1>1, <1>2, <2>1, <2>2, Zenon
             DEF IInv, Typed, ServerTypes, WrapperTypes, EngineTypes, ProcessTypes
<1>5. \A x \in Procs : Placed(x)'
  <2>1. "closeDrop" \notin HasEngine  BY Zenon DEF HasEngine
  <2> QED  BY <1>1, <1>2, <1>3, <2>1, Zenon DEF Placed, IInv, Structure
<1>6. Counted'
  BY <1>1, <1>2, <1>3, CountedOK, SetFacts, Zenon DEF IInv, Structure
<1>7. EnginesOK'
  BY <1>1, Zenon DEF IInv, Structure, EnginesOK
<1>8. raced' \/ Orderly'
  <2> SUFFICES ASSUME ~raced'  PROVE Orderly'
    OBVIOUS
  <2>1. Orderly /\ torrents \in {0, w[p]}
    BY Zenon DEF IInv, CloseMap
  <2>2. \A x \in Viewers : pc'[x] \in Waiting => owner[e[x]] = client
    BY <1>2, <2>1, SetFacts, Zenon DEF Orderly, Waiting
  <2>3. \A i \in Wrappers : tor[i] # 0 => \E x \in Procs : pc'[x] = "closeDrop" /\ w[x] = i
    BY <1>1, <1>2, <2>1, SetFacts DEF Orderly
  <2> QED  BY <1>1, <2>1, <2>2, <2>3 DEF Orderly
<1> QED  BY <1>4, <1>5, <1>6, <1>7, <1>8, Zenon DEF IInv, Structure

\* Torrent.drop: the engine torrent is its client's open one, so its Drop closes that one
\* and nothing else, and does not panic.
LEMMA DropOK ==
  ASSUME IInv, NEW i \in Wrappers, drop(i),
         UNCHANGED <<client, storageCache, owner, info>>
  PROVE  /\ tor' \in [Wrappers -> EngineIds] /\ clTorrents' \in [Clients -> EngineIds]
         /\ closed' \subseteq Engines /\ readers' \in [Engines -> SUBSET Viewers]
         /\ panicked' \in Panics
         /\ EnginesOK'
         /\ tor'[i] = 0 /\ \A j \in Wrappers : j # i => tor'[j] = tor[j]
         /\ ~raced => /\ panicked' = panicked
                      /\ \A j \in Wrappers : tor'[j] # 0 => tor'[j] \notin closed'
<1>1. /\ tor \in [Wrappers -> EngineIds] /\ clTorrents \in [Clients -> EngineIds]
      /\ owner \in [Engines -> ClientIds] /\ closed \subseteq Engines
      /\ readers \in [Engines -> SUBSET Viewers] /\ panicked \in Panics /\ 0 \in EngineIds
  BY Zenon DEF IInv, Typed, WrapperTypes, EngineTypes, EngineIds
<1>2. EnginesOK /\ (raced \/ Orderly)
  BY Zenon DEF IInv, Structure
<1>3. CASE tor[i] = 0
  <2>1. UNCHANGED <<tor, clTorrents, closed, readers, panicked>>
    BY <1>3, Zenon DEF drop
  <2>2. EnginesOK'
    BY <1>2, <2>1, Zenon DEF EnginesOK
  <2> QED  BY <1>1, <1>2, <1>3, <2>1, <2>2, Zenon DEF Orderly
<1>4. CASE tor[i] # 0
  <2> DEFINE g == owner[tor[i]]
             n == clTorrents[g]
  <2>1. tor' = [tor EXCEPT ![i] = 0] /\ EngineDrop(i)
    BY <1>4, Zenon DEF drop
  <2>2. /\ tor' \in [Wrappers -> EngineIds] /\ tor'[i] = 0
        /\ \A j \in Wrappers : j # i => tor'[j] = tor[j]
    BY <1>1, <2>1, Zenon
  <2>3. tor[i] \in Engines /\ g \in Clients /\ n \in EngineIds
    BY <1>1, <1>2, <1>4, SetFacts, Zenon DEF EnginesOK
  <2>4. raced \/ (tor[i] \notin closed /\ n = tor[i] /\ n \notin closed /\ n # 0)
    BY <1>2, <1>4, <2>3, Zenon DEF Orderly, EnginesOK
  <2>5. CASE n = 0 \/ n \in closed
    <3>1. panicked' = "drop" /\ UNCHANGED <<clTorrents, closed, readers>>
      BY <2>1, <2>5, Zenon DEF EngineDrop
    <3>2. panicked' \in Panics  BY <3>1, Zenon DEF Panics
    <3>3. EnginesOK'
      BY <1>2, <2>2, <3>1, Zenon DEF EnginesOK
    <3> QED  BY <1>1, <2>2, <2>4, <2>5, <3>1, <3>2, <3>3, Zenon
  <2>6. CASE n # 0 /\ n \notin closed
    <3>1. /\ closed' = closed \cup {n} /\ clTorrents' = [clTorrents EXCEPT ![g] = 0]
          /\ readers' = [readers EXCEPT ![n] = {}] /\ panicked' = panicked
      BY <2>1, <2>6, Zenon DEF EngineDrop
    <3>2. n \in Engines
      BY <2>3, <2>6, SetFacts, Zenon
    <3>3. /\ clTorrents' \in [Clients -> EngineIds] /\ clTorrents'[g] = 0
          /\ \A h \in Clients : h # g => clTorrents'[h] = clTorrents[h]
      BY <1>1, <2>3, <3>1, Zenon
    <3>4. closed' \subseteq Engines /\ readers' \in [Engines -> SUBSET Viewers]
      BY <1>1, <3>1, <3>2, Zenon
    <3>5. \A m \in Engines : owner[m] # 0 /\ m \notin closed' => clTorrents'[owner[m]] = m
      <4> SUFFICES ASSUME NEW m \in Engines, owner[m] # 0, m \notin closed, m # n
                   PROVE  clTorrents'[owner[m]] = m
        BY <3>1, Zenon
      <4>1. clTorrents[owner[m]] = m /\ owner[m] \in Clients
        BY <1>1, <1>2, SetFacts, Zenon DEF EnginesOK
      <4>2. owner[m] # g  BY <4>1, Zenon
      <4> QED  BY <3>3, <4>1, <4>2, Zenon
    <3>6. \A h \in Clients : clTorrents'[h] # 0 => owner[clTorrents'[h]] = h
      BY <1>2, <3>3, Zenon DEF EnginesOK
    <3>7. \A j \in Wrappers : tor'[j] # 0 => owner[tor'[j]] # 0
      BY <1>2, <2>2, Zenon DEF EnginesOK
    <3>8. EnginesOK'
      BY <1>2, <3>5, <3>6, <3>7 DEF EnginesOK
    <3>9. ~raced => \A j \in Wrappers : tor'[j] # 0 => tor'[j] \notin closed'
      BY <1>2, <1>4, <2>2, <2>4, <3>1 DEF Orderly
    <3> QED  BY <1>1, <2>2, <3>1, <3>3, <3>4, <3>8, <3>9, Zenon
  <2> QED  BY <2>5, <2>6, Zenon
<1> QED  BY <1>3, <1>4, Zenon

LEMMA CloseDropOK ==
  ASSUME IInv, NEW p \in Procs, CloseDrop(p)
  PROVE  IInv'
<1>1. /\ pc[p] = "closeDrop" /\ drop(w[p])
      /\ UNCHANGED <<client, connected, storageCache, torrents, stat, done, cache, fresh, owner,
                     info, w, e, raced>>
  BY Zenon DEF CloseDrop, bt_vars
<1>2. PICK l \in {"idle", "end"} : Goto(p, l)
  BY Zenon DEF CloseDrop, AfterClose
<1>3. /\ pc' \in [Procs -> PC] /\ pc'[p] = l
      /\ \A x \in Procs : x # p => pc'[x] = pc[x]
  <2>1. l \in PC  BY Zenon DEF PC
  <2> QED  BY <1>2, <2>1, GotoOK, Zenon DEF IInv
<1>4. w[p] \in Wrappers /\ p \in Procs \ Changers
  <2>1. pc[p] \in HasWrapper  BY <1>1, Zenon DEF HasWrapper
  <2> QED  BY <1>1, <2>1, Given, NoChanger, Zenon
<1>5. /\ tor' \in [Wrappers -> EngineIds] /\ clTorrents' \in [Clients -> EngineIds]
      /\ closed' \subseteq Engines /\ readers' \in [Engines -> SUBSET Viewers]
      /\ panicked' \in Panics
      /\ EnginesOK'
      /\ tor'[w[p]] = 0 /\ \A j \in Wrappers : j # w[p] => tor'[j] = tor[j]
      /\ ~raced => /\ panicked' = panicked
                   /\ \A j \in Wrappers : tor'[j] # 0 => tor'[j] \notin closed'
  BY <1>1, <1>4, DropOK, Zenon
<1>6. Typed'
  BY <1>1, <1>3, <1>5, Zenon DEF IInv, Typed, ServerTypes, WrapperTypes, EngineTypes,
     ProcessTypes
<1>7. \A x \in Procs : Placed(x)'
  <2>1. l \notin HasWrapper \cup HasEngine  BY Zenon DEF HasWrapper, HasEngine
  <2> QED  BY <1>1, <1>3, <2>1, Zenon DEF Placed, IInv, Structure
<1>8. Counted'
  BY <1>1, <1>3, <1>4, CountedOK, SetFacts, Zenon DEF IInv, Structure
<1>9. raced' \/ Orderly'
  <2> SUFFICES ASSUME ~raced  PROVE Orderly'
    BY <1>1, Zenon
  <2>1. Orderly  BY Zenon DEF IInv
  <2>2. \A j \in Wrappers : tor'[j] # 0 => j # w[p] /\ tor'[j] = tor[j]
    BY <1>5, Zenon
  <2>3. \A j \in Wrappers : tor'[j] # 0 => tor'[j] \notin closed' /\ owner[tor'[j]] = client
    BY <1>5, <2>1, <2>2 DEF Orderly
  <2>4. \A j, k \in Wrappers : tor'[j] # 0 /\ tor'[j] = tor'[k] => j = k
    BY <2>1, <2>2 DEF Orderly
  <2>5. \A x \in Viewers : pc'[x] \in Waiting => owner[e[x]] = client
    BY <1>2, <1>3, <2>1, SetFacts, Zenon DEF Orderly, Waiting
  <2>6. \A j \in Wrappers : tor'[j] # 0 =>
           torrents = j \/ \E x \in Procs : pc'[x] = "closeDrop" /\ w[x] = j
    <3> SUFFICES ASSUME NEW j \in Wrappers, tor'[j] # 0, torrents # j
                 PROVE  \E x \in Procs : pc'[x] = "closeDrop" /\ w[x] = j
      OBVIOUS
    <3>1. PICK x \in Procs : pc[x] = "closeDrop" /\ w[x] = j
      BY <2>1, <2>2, Zenon DEF Orderly
    <3> QED  BY <1>3, <2>2, <3>1, Zenon
  <2> QED  BY <1>1, <1>5, <2>1, <2>3, <2>4, <2>5, <2>6, Zenon DEF Orderly
<1> QED  BY <1>5, <1>6, <1>7, <1>8, <1>9, Zenon DEF IInv, Structure

-----------------------------------------------------------------------------
(* A change of settings.                                                   *)

\* A changer that has not ended yet, and does not end, leaves the count alone.
LEMMA ChangerCountOK ==
  ASSUME IInv, NEW c \in Changers, client' = client, pc[c] # "end",
         pc'[c] \in {"disconnect", "connect"}, \A x \in Procs : x # c => pc'[x] = pc[x]
  PROVE  Counted'
<1>1. {d \in Changers : pc'[d] = "end"} = {d \in Changers : pc[d] = "end"}
  BY SetFacts, Zenon
<1> QED  BY <1>1, SetFacts, Zenon DEF IInv, Structure, Counted

LEMMA DropAllTorrentOK ==
  ASSUME IInv, NEW c \in Changers, DropAllTorrent(c)
  PROVE  IInv'
<1>1. /\ pc[c] = "start" /\ c \in Procs /\ Goto(c, "disconnect")
      /\ UNCHANGED <<client, connected, storageCache, torrents, stat, done, cache, fresh, owner,
                     info, e, raced>>
  BY SetFacts, Zenon DEF DropAllTorrent, bt_vars
<1>2. /\ pc' \in [Procs -> PC] /\ pc'[c] = "disconnect"
      /\ \A x \in Procs : x # c => pc'[x] = pc[x]
  <2>1. "disconnect" \in PC  BY Zenon DEF PC
  <2> QED  BY <1>1, <2>1, GotoOK, Zenon DEF IInv
<1>3. w' \in [Procs -> WrapperIds] /\ \A x \in Procs : x # c => w'[x] = w[x]
  BY <1>1, Given, Zenon DEF DropAllTorrent
<1>4. /\ tor' \in [Wrappers -> EngineIds] /\ clTorrents' \in [Clients -> EngineIds]
      /\ closed' \subseteq Engines /\ readers' \in [Engines -> SUBSET Viewers]
      /\ panicked' \in Panics
      /\ EnginesOK'
      /\ \A j \in Wrappers : tor'[j] # 0 => tor'[j] = tor[j]
      /\ ~raced => /\ panicked' = panicked
                   /\ \A j \in Wrappers : tor'[j] # 0 => tor'[j] \notin closed'
  <2>1. CASE torrents = 0
    <3>1. UNCHANGED <<tor, clTorrents, closed, readers, panicked>>
      BY <2>1, Zenon DEF DropAllTorrent
    <3>2. EnginesOK'
      BY <1>1, <3>1, Zenon DEF IInv, Structure, EnginesOK
    <3> QED  BY <3>1, <3>2, Zenon DEF IInv, Typed, WrapperTypes, EngineTypes, Orderly
  <2>2. CASE torrents # 0
    <3>1. drop(torrents) /\ torrents \in Wrappers
      BY <1>1, <2>2, Given, Zenon DEF DropAllTorrent
    <3> QED  BY <1>1, <3>1, DropOK, Zenon
  <2> QED  BY <2>1, <2>2, Zenon
<1>5. Typed'
  BY <1>1, <1>2, <1>3, <1>4, Zenon DEF IInv, Typed, ServerTypes, WrapperTypes, EngineTypes,
     ProcessTypes
<1>6. \A x \in Procs : Placed(x)'
  <2>1. "disconnect" \notin HasWrapper \cup HasEngine  BY Zenon DEF HasWrapper, HasEngine
  <2> QED  BY <1>1, <1>2, <1>3, <2>1, Zenon DEF Placed, IInv, Structure
<1>7. Counted'
  BY <1>1, <1>2, ChangerCountOK, Zenon
<1>8. raced' \/ Orderly'
  <2> SUFFICES ASSUME ~raced  PROVE Orderly'
    BY <1>1, Zenon
  <2>1. Orderly  BY Zenon DEF IInv
  <2>2. \A j \in Wrappers : tor'[j] # 0 => tor'[j] \notin closed' /\ owner[tor'[j]] = client
    BY <1>4, <2>1, Zenon DEF Orderly
  <2>3. \A j, k \in Wrappers : tor'[j] # 0 /\ tor'[j] = tor'[k] => j = k
    BY <1>4, <2>1 DEF Orderly
  <2>4. \A x \in Viewers : pc'[x] \in Waiting => owner[e[x]] = client
    BY <1>2, <2>1, SetFacts, Zenon DEF Orderly
  <2>5. \A j \in Wrappers : tor'[j] # 0 =>
           torrents = j \/ \E x \in Procs : pc'[x] = "closeDrop" /\ w'[x] = j
    <3> SUFFICES ASSUME NEW j \in Wrappers, tor'[j] # 0, torrents # j
                 PROVE  \E x \in Procs : pc'[x] = "closeDrop" /\ w'[x] = j
      OBVIOUS
    <3>1. PICK x \in Procs : pc[x] = "closeDrop" /\ w[x] = j
      BY <1>4, <2>1, Zenon DEF Orderly
    <3> QED  BY <1>1, <1>2, <1>3, <3>1, Zenon
  <2> QED  BY <1>1, <1>4, <2>1, <2>2, <2>3, <2>4, <2>5, Zenon DEF Orderly
<1> QED  BY <1>4, <1>5, <1>6, <1>7, <1>8, Zenon DEF IInv, Structure

LEMMA DisconnectOK ==
  ASSUME IInv, NEW c \in Changers, Disconnect(c)
  PROVE  IInv'
<1> DEFINE live == IF connected THEN {clTorrents[client]} \ ({0} \cup closed) ELSE {}
<1>1. /\ pc[c] = "disconnect" /\ c \in Procs /\ Goto(c, "connect")
      /\ UNCHANGED <<client, torrents, storageCache, stat, tor, done, cache, fresh, clTorrents,
                     owner, info, w, e, panicked>>
  BY SetFacts, Zenon DEF Disconnect, wrap_vars
<1>2. /\ closed' = closed \cup live /\ raced' = (raced \/ live # {}) /\ connected' = FALSE
      /\ readers' = [n \in Engines |-> IF n \in live THEN {} ELSE readers[n]]
  BY Zenon DEF Disconnect
<1>3. live \subseteq Engines
  BY SetFacts, Zenon DEF IInv, Typed, ServerTypes, EngineTypes
<1> HIDE DEF live
<1>4. /\ pc' \in [Procs -> PC] /\ pc'[c] = "connect"
      /\ \A x \in Procs : x # c => pc'[x] = pc[x]
  <2>1. "connect" \in PC  BY Zenon DEF PC
  <2> QED  BY <1>1, <2>1, GotoOK, Zenon DEF IInv
<1>5. Typed'
  <2>1. raced' \in Flags /\ connected' \in Flags  BY <1>2, Zenon DEF Flags
  <2>2. closed' \subseteq Engines /\ readers' \in [Engines -> SUBSET Viewers]
    BY <1>2, <1>3, Zenon DEF IInv, Typed, EngineTypes
  <2> QED  BY <1>1, <1>4, <2>1, <2>2, Zenon
             DEF IInv, Typed, ServerTypes, WrapperTypes, EngineTypes, ProcessTypes
<1>6. \A x \in Procs : Placed(x)'
  <2>1. "connect" \notin HasWrapper \cup HasEngine  BY Zenon DEF HasWrapper, HasEngine
  <2> QED  BY <1>1, <1>4, <2>1, Zenon DEF Placed, IInv, Structure
<1>7. Counted'
  BY <1>1, <1>4, ChangerCountOK, Zenon
<1>8. EnginesOK'
  BY <1>1, <1>2, Zenon DEF IInv, Structure, EnginesOK
<1>9. raced' \/ Orderly'
  <2> SUFFICES ASSUME ~raced'  PROVE Orderly'
    OBVIOUS
  <2>1. Orderly /\ closed' = closed
    BY <1>2, Zenon DEF IInv
  <2>2. \A x \in Viewers : pc'[x] \in Waiting => owner[e[x]] = client
    BY <1>4, <2>1, SetFacts, Zenon DEF Orderly
  <2>3. \A i \in Wrappers : tor[i] # 0 =>
           torrents = i \/ \E x \in Procs : pc'[x] = "closeDrop" /\ w[x] = i
    BY <1>1, <1>4, <2>1 DEF Orderly
  <2> QED  BY <1>1, <2>1, <2>2, <2>3, Zenon DEF Orderly
<1> QED  BY <1>5, <1>6, <1>7, <1>8, <1>9, Zenon DEF IInv, Structure

\* Each change of settings makes one client.
LEMMA ConnectOK ==
  ASSUME IInv, NEW c \in Changers, Connect(c)
  PROVE  IInv'
<1>1. /\ pc[c] = "connect" /\ c \in Procs /\ Goto(c, "end") /\ client' = client + 1
      /\ connected' = TRUE /\ torrents' = 0
      /\ UNCHANGED <<storageCache, stat, tor, done, cache, fresh, clTorrents, owner, closed,
                     info, readers, w, e, panicked>>
  BY SetFacts, Zenon DEF Connect, wrap_vars, eng_vars
<1>2. /\ pc' \in [Procs -> PC] /\ pc'[c] = "end"
      /\ \A x \in Procs : x # c => pc'[x] = pc[x]
  <2>1. "end" \in PC  BY Zenon DEF PC
  <2> QED  BY <1>1, <2>1, GotoOK, Zenon DEF IInv
<1>3. Counted' /\ client' \in Clients
  <2> DEFINE before == {d \in Changers : pc[d] = "end"}
             after == {d \in Changers : pc'[d] = "end"}
  <2>1. after = before \cup {c} /\ c \notin before /\ before \subseteq Changers /\ after \subseteq Changers
    BY <1>1, <1>2, SetFacts, Zenon
  <2>2. client <= 1 + Cardinality(before) /\ client \in Clients
    BY Zenon DEF IInv, Structure, Counted, Typed, ServerTypes
  <2>3. \A d \in Changers : pc'[d] \in {"start", "disconnect", "connect", "end"}
    BY <1>2, SetFacts, Zenon DEF IInv, Structure, Counted
  <2> HIDE DEF before, after
  <2>4. IsFiniteSet(before) /\ IsFiniteSet(after)
    BY <2>1, LifecycleAssumption, FS_Subset, Zenon
  <2>5. Cardinality(before) \in Nat /\ Cardinality(after) = Cardinality(before) + 1
    BY <2>1, <2>4, FS_AddElement, FS_CardinalityType, Zenon
  <2>6. Cardinality(after) <= Cardinality(Changers)
    BY <2>1, LifecycleAssumption, FS_Subset, Zenon
  <2>7. client' \in Clients /\ client' <= 1 + Cardinality(after)
    BY <1>1, <2>2, <2>5, <2>6, SetFacts DEF Clients
  <2> QED  BY <2>3, <2>7, Zenon DEF Counted, after
<1>4. Typed'
  <2>1. raced' \in Flags /\ connected' \in Flags  BY Zenon DEF Flags, Connect, IInv, Typed
  <2>2. 0 \in WrapperIds  BY Zenon DEF WrapperIds
  <2> QED  BY <1>1, <1>2, <1>3, <2>1, <2>2, Zenon
             DEF IInv, Typed, ServerTypes, WrapperTypes, EngineTypes, ProcessTypes
<1>5. \A x \in Procs : Placed(x)'
  <2>1. "end" \notin HasWrapper \cup HasEngine  BY Zenon DEF HasWrapper, HasEngine
  <2> QED  BY <1>1, <1>2, <2>1, Zenon DEF Placed, IInv, Structure
<1>6. EnginesOK'
  BY <1>1, Zenon DEF IInv, Structure, EnginesOK
<1>7. raced' \/ Orderly'
  <2> SUFFICES ASSUME ~raced'  PROVE Orderly'
    OBVIOUS
  <2>1. Orderly /\ (\A i \in Wrappers : tor[i] = 0) /\ (\A v \in Viewers : pc[v] \notin Waiting)
    BY Zenon DEF Connect, IInv
  <2>2. \A v \in Viewers : pc'[v] \notin Waiting
    BY <1>2, <2>1, SetFacts, Zenon
  <2> QED  BY <1>1, <2>1, <2>2, Zenon DEF Orderly
<1> QED  BY <1>3, <1>4, <1>5, <1>6, <1>7, Zenon DEF IInv, Structure

-----------------------------------------------------------------------------
LEMMA UnchangedOK == IInv /\ UNCHANGED vars => IInv'
<1> SUFFICES ASSUME IInv, UNCHANGED vars  PROVE IInv'
  OBVIOUS
<1>1. UNCHANGED <<client, connected, storageCache, torrents, stat, tor, done, cache, fresh,
                  clTorrents, owner, closed, info, readers, pc, w, e, raced, panicked>>
  BY Zenon DEF vars, bt_vars, wrap_vars, eng_vars, proc_vars
<1>2. Typed'
  BY <1>1, Zenon DEF IInv, Typed, ServerTypes, WrapperTypes, EngineTypes, ProcessTypes
<1>3. Counted'
  BY <1>1, CountedOK, Zenon DEF IInv, Structure
<1>4. (\A p \in Procs : Placed(p)') /\ EnginesOK' /\ (raced' \/ Orderly')
  BY <1>1, Zenon DEF IInv, Structure, Placed, EnginesOK, Orderly
<1> QED  BY <1>2, <1>3, <1>4, Zenon DEF IInv, Structure

\* The invariant holds in every state.
THEOREM LifecycleInvariant == Spec => []IInv
<1>1. IInv /\ [Next]_vars => IInv'
  <2> SUFFICES ASSUME IInv, [Next]_vars  PROVE IInv'
    OBVIOUS
  <2>1. CASE \E v \in Viewers : View(v)
    <3>1. PICK v \in Viewers : View(v)  BY <2>1, Zenon
    <3> QED  BY <3>1, GetTorrentOK, AddTorrentSpecOK, RegisterOK, GotInfoCheckOK, GotInfoSetOK,
                LoadTorrentOK, WaitInfoGotOK, WaitInfoFailedOK, GotInfoDoneOK, PreloadBeginOK, PreloadEndOK,
                SkipPreloadOK, NewReaderOK, CloseReaderOK DEF View
  <2>2. CASE \E p \in Procs : CloseTorrent(p) \/ RemoveTorrent(p)
    BY <2>2, CloseCheckOK, CloseSetOK, CloseMapOK, CloseDropOK, RemoveTorrentOK, Zenon
       DEF CloseTorrent
  <2>3. CASE \E c \in Changers : Change(c)
    BY <2>3, DropAllTorrentOK, DisconnectOK, ConnectOK, Zenon DEF Change
  <2>4. CASE Tick
    BY <2>4, TickerListOK, UpdateStatsOK, Zenon DEF Tick
  <2>5. CASE \E n \in Engines : InfoArrives(n)
    BY <2>5, InfoArrivesOK, Zenon
  <2>6. CASE \E i \in Wrappers : Expire(i)
    BY <2>6, ExpireOK, Zenon
  <2>7. CASE UNCHANGED vars
    BY <2>7, UnchangedOK, Zenon
  <2> QED  BY <2>1, <2>2, <2>3, <2>4, <2>5, <2>6, <2>7, Zenon DEF Next
<1> QED  BY <1>1, InitOK, PTL DEF Spec

\* The server's, the wrappers' and the engine's fields stay of their types; the client count
\* never outgrows the changes of settings (BTServer, Torrent).
THEOREM LifecycleTypes == Spec => []TypeOK
<1>1. IInv => TypeOK
  BY TypeParts, Zenon DEF IInv
<1> QED  BY <1>1, LifecycleInvariant, PTL

\* However many requests add, wait for, stream, drop and expire the torrent and change the
\* settings, Torrent.drop and the cache lookup of WaitInfo panic only after one of the races.
THEOREM NoPanicWithoutRace == Spec => []NoPanicUnraced
<1>1. IInv => NoPanicUnraced
  BY Zenon DEF IInv, Orderly, NoPanicUnraced
<1> QED  BY <1>1, LifecycleInvariant, PTL

\* When every request has ended, an engine torrent that still runs is one the server lists
\* (Torrent.Close and BTServer.RemoveTorrent leave no hidden torrent), unless there was a race.
THEOREM NothingHidden == Spec => []NoHiddenTorrent
<1>1. IInv => NoHiddenTorrent
  BY Zenon DEF IInv, Orderly, NoHiddenTorrent, Quiet
<1> QED  BY <1>1, LifecycleInvariant, PTL
=============================================================================
