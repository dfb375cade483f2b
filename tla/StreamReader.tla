----------------------------- MODULE StreamReader -----------------------------
(***************************************************************************)
(* The stream readers of a piece cache (torrstor/reader.go and the reader  *)
(* section of cache.go) over the engine readers they wrap.  Every stream   *)
(* has a user goroutine that seeks, reads and finally closes; background   *)
(* passes over the cache's readers (getRemPieces, clearPriority) switch    *)
(* readers that have been idle for a minute off and on again, by moving    *)
(* the engine reader's position and readahead under the user's feet.       *)
(* Offsets are counted in blocks; a read returns one block.                *)
(***************************************************************************)
EXTENDS Integers, FiniteSets

CONSTANTS
    Streams,        \* readers of HTTP and file-system streams (closed by CloseReader)
    Uploads,        \* readers of the Telegram upload worker (closed by Reader.Close)
    FileLength,     \* length of the file, in blocks
    MaxReads        \* bound on the reads and seeks of a behaviour

OpenedReaders == Streams \cup Uploads

ASSUME ReaderAssumption ==
    /\ IsFiniteSet(Streams) /\ IsFiniteSet(Uploads)
    /\ Streams \cap Uploads = {}

VARIABLES
    user,           \* where the user of each reader stands
    inMap,          \* Cache.readers
    isNil,          \* Cache.readers is nil: the cache is closed
    activeReaders,  \* Cache.activeReaders
    readerClosed, isUse, offset,    \* fields of Reader
    idle,           \* lastAccess is more than 60 s old
    check,          \* what a pass over the readers has decided for each
    pos,            \* engine: the position of each engine reader
    readahead,      \* engine: whether it has a readahead, its default or one we set
    from,           \* engine: the position the read under way started at
    pressure,       \* engine: playbackPressureActive of the torrent
    adjust,         \* readers AdjustRA found in use and is about to set
    misread,        \* a read returned bytes that were not at Reader.offset
    ops             \* reads and seeks so far

map_vars == <<inMap, isNil>>
switch_vars == <<isUse, activeReaders, pos, readahead>>
pass_vars == <<check, adjust>>
log_vars == <<from, misread, ops>>
readerVars == <<user, map_vars, switch_vars, pass_vars, log_vars, readerClosed, offset,
          idle, pressure>>

UserPC == {"none", "ready", "readOn", "read", "wait", "got", "failed", "seekOn",
           "seek", "seekEnd", "closing", "closed"}

ReaderTypeOK ==
    /\ user \in [OpenedReaders -> UserPC]
    /\ inMap \subseteq OpenedReaders
    /\ isNil \in BOOLEAN
    /\ activeReaders \in 0 .. Cardinality(OpenedReaders)
    /\ readerClosed \in [OpenedReaders -> BOOLEAN]
    /\ isUse \in [OpenedReaders -> BOOLEAN]
    /\ offset \in [OpenedReaders -> 0 .. FileLength + MaxReads]
    /\ idle \in [OpenedReaders -> BOOLEAN]
    /\ check \in [OpenedReaders -> {"no", "on", "off"}]
    /\ pos \in [OpenedReaders -> 0 .. FileLength + MaxReads]
    /\ readahead \in [OpenedReaders -> BOOLEAN]
    /\ from \in [OpenedReaders -> 0 .. FileLength + MaxReads]
    /\ pressure \in BOOLEAN
    /\ adjust \subseteq OpenedReaders
    /\ misread \in BOOLEAN
    /\ ops \in 0 .. MaxReads

ReaderInit ==
    /\ user = [r \in OpenedReaders |-> "none"]
    /\ inMap = {} /\ isNil = FALSE /\ activeReaders = 0
    /\ readerClosed = [r \in OpenedReaders |-> FALSE]
    /\ isUse = [r \in OpenedReaders |-> FALSE]
    /\ offset = [r \in OpenedReaders |-> 0]
    /\ idle = [r \in OpenedReaders |-> TRUE]
    /\ check = [r \in OpenedReaders |-> "no"]
    /\ pos = [r \in OpenedReaders |-> 0]
    /\ readahead = [r \in OpenedReaders |-> FALSE]
    /\ from = [r \in OpenedReaders |-> 0]
    /\ pressure = FALSE /\ adjust = {}
    /\ misread = FALSE
    /\ ops = 0

-----------------------------------------------------------------------------
Goto(r, p) == user' = [user EXCEPT ![r] = p]

\* muReaders is not held for reading by a pass over the readers.
NoPass == adjust = {} /\ \A r \in OpenedReaders : check[r] = "no"

\* newReader.  Its SetReadahead does nothing, for the reader has no cache yet:
\* the engine reader keeps its default readahead.  lastAccess is 0.
NewReader(r) ==
    /\ user[r] = "none" /\ NoPass
    /\ Goto(r, "ready")
    /\ isUse' = [isUse EXCEPT ![r] = TRUE]
    /\ readahead' = [readahead EXCEPT ![r] = TRUE]
    /\ activeReaders' = activeReaders + 1
    /\ inMap' = IF isNil THEN inMap ELSE inMap \cup {r}
    /\ UNCHANGED <<log_vars, pass_vars, isNil, readerClosed, offset, idle, pos, pressure>>

\* Reader.readerOn, under the reader's lock.  SetReadahead does not reach the
\* engine reader, for isUse is still false.  The engine reader is moved back
\* only if it is at 0, where readerOff has left it.
readerOn(r) ==
    IF isUse[r]
      THEN UNCHANGED switch_vars
      ELSE /\ isUse' = [isUse EXCEPT ![r] = TRUE]
           /\ activeReaders' = activeReaders + 1
           /\ pos' = [pos EXCEPT ![r] = IF @ = 0 THEN offset[r] ELSE @]
           /\ UNCHANGED readahead

\* Reader.readerOff, under the reader's lock.
readerOff(r) ==
    IF isUse[r]
      THEN /\ isUse' = [isUse EXCEPT ![r] = FALSE]
           /\ activeReaders' = activeReaders - 1
           /\ readahead' = [readahead EXCEPT ![r] = FALSE]
           /\ pos' = [pos EXCEPT ![r] = IF offset[r] > 0 THEN 0 ELSE @]
      ELSE UNCHANGED switch_vars

-----------------------------------------------------------------------------
(* Reader.Read and ReadContext: the closed check, readerOn, the engine     *)
(* read (which takes its position when it starts and adds to the reader's  *)
(* position when it returns) and the bookkeeping are separate steps.       *)

ReadStart(r) ==
    /\ user[r] = "ready" /\ ~readerClosed[r] /\ ops < MaxReads
    /\ ops' = ops + 1
    /\ Goto(r, "readOn")
    /\ UNCHANGED <<map_vars, switch_vars, pass_vars, from, misread, readerClosed,
                   offset, idle, pressure>>

ReadOn(r) ==
    /\ user[r] = "readOn"
    /\ readerOn(r)
    /\ Goto(r, "read")
    /\ UNCHANGED <<map_vars, pass_vars, log_vars, readerClosed, offset, idle, pressure>>

EngineRead(r) ==
    /\ user[r] = "read"
    /\ from' = [from EXCEPT ![r] = pos[r]]
    /\ Goto(r, "wait")
    /\ UNCHANGED <<map_vars, switch_vars, pass_vars, misread, ops, readerClosed,
                   offset, idle, pressure>>

\* The data is there: the block at from is returned.
EngineGot(r) ==
    /\ user[r] = "wait" /\ from[r] < FileLength
    /\ misread' = (misread \/ from[r] # offset[r])
    /\ pos' = [pos EXCEPT ![r] = @ + 1]
    /\ Goto(r, "got")
    /\ UNCHANGED <<map_vars, pass_vars, from, ops, isUse, activeReaders,
                   readahead, readerClosed, offset, idle, pressure>>

\* The end of the file, a torrent that was closed, a context that is over.
EngineFailed(r) ==
    /\ user[r] = "wait"
    /\ Goto(r, "failed")
    /\ UNCHANGED <<map_vars, switch_vars, pass_vars, log_vars, readerClosed, offset,
                   idle, pressure>>

ReadEnd(r) ==
    /\ user[r] \in {"got", "failed"}
    /\ offset' = [offset EXCEPT ![r] = IF user[r] = "got" THEN @ + 1 ELSE @]
    /\ idle' = [idle EXCEPT ![r] = FALSE]
    /\ pressure' = TRUE
    /\ Goto(r, "ready")
    /\ UNCHANGED <<map_vars, switch_vars, pass_vars, log_vars, readerClosed>>

-----------------------------------------------------------------------------
(* Reader.Seek: offset, readerOn, the engine seek and the bookkeeping.  No *)
(* caller seeks relative to the current position, so to stands for the     *)
(* target of SeekStart and SeekEnd.                                        *)

SeekStart(r, to) ==
    /\ user[r] = "ready" /\ ~readerClosed[r] /\ ops < MaxReads
    /\ ops' = ops + 1
    /\ offset' = [offset EXCEPT ![r] = to]
    /\ Goto(r, "seekOn")
    /\ UNCHANGED <<map_vars, switch_vars, pass_vars, from, misread, readerClosed,
                   idle, pressure>>

SeekOn(r) ==
    /\ user[r] = "seekOn"
    /\ readerOn(r)
    /\ Goto(r, "seek")
    /\ UNCHANGED <<map_vars, pass_vars, log_vars, readerClosed, offset, idle, pressure>>

EngineSeek(r) ==
    /\ user[r] = "seek"
    /\ pos' = [pos EXCEPT ![r] = offset[r]]
    /\ Goto(r, "seekEnd")
    /\ UNCHANGED <<map_vars, pass_vars, log_vars, isUse, activeReaders, readahead,
                   readerClosed, offset, idle, pressure>>

SeekEnd(r) ==
    /\ user[r] = "seekEnd"
    /\ idle' = [idle EXCEPT ![r] = FALSE]
    /\ pressure' = TRUE
    /\ Goto(r, "ready")
    /\ UNCHANGED <<map_vars, switch_vars, pass_vars, log_vars, readerClosed, offset>>

-----------------------------------------------------------------------------
(* Closing a reader, closing the cache.                                    *)

\* Mutant: the pressure is lifted only by a reader that finds others in use.
LiftPressureLate == pressure' = (pressure /\ activeReaders' <= 0)

\* The end of Reader.Close: the last reader in use lifts the pressure.
LiftPressure == pressure' = (pressure /\ activeReaders' > 0)

\* Cache.CloseReader, which holds muReaders for writing throughout.  Once the
\* cache is closed it returns at once.
CloseReader(r) ==
    /\ r \in Streams /\ user[r] = "ready" /\ NoPass
    /\ Goto(r, "closed")
    /\ IF isNil
         THEN UNCHANGED <<switch_vars, readerClosed, inMap, pressure>>
         ELSE /\ readerClosed' = [readerClosed EXCEPT ![r] = TRUE]
              /\ readerOff(r)
              /\ LiftPressure
              /\ inMap' = inMap \ {r}
    /\ UNCHANGED <<pass_vars, log_vars, isNil, offset, idle>>

\* Reader.Close as the upload worker calls it: no muReaders, and the reader
\* stays in the map.
UploadClose(r) ==
    /\ r \in Uploads /\ user[r] = "ready"
    /\ readerClosed' = [readerClosed EXCEPT ![r] = TRUE]
    /\ Goto(r, "closing")
    /\ UNCHANGED <<map_vars, switch_vars, pass_vars, log_vars, offset, idle, pressure>>

UploadCloseOff(r) ==
    /\ user[r] = "closing"
    /\ readerOff(r)
    /\ LiftPressure
    /\ Goto(r, "closed")
    /\ UNCHANGED <<map_vars, pass_vars, log_vars, readerClosed, offset, idle>>

CloseCache ==
    /\ ~isNil /\ NoPass
    /\ isNil' = TRUE /\ inMap' = {}
    /\ UNCHANGED <<user, switch_vars, pass_vars, log_vars, readerClosed, offset, idle,
                   pressure>>

-----------------------------------------------------------------------------
(* The passes over the readers, and the clock.                             *)

\* The condition of checkReader.
GoesOff(r) == idle[r] /\ Cardinality(inMap) > 1

\* checkReader reads lastAccess ...
CheckReader(r) ==
    /\ r \in inMap /\ \A q \in OpenedReaders : check[q] = "no"
    /\ check' = [check EXCEPT ![r] = IF GoesOff(r) THEN "off" ELSE "on"]
    /\ UNCHANGED <<user, map_vars, switch_vars, log_vars, readerClosed, offset, idle,
                   pressure, adjust>>

\* ... and acts on it.
CheckAct(r) ==
    /\ check[r] # "no"
    /\ IF check[r] = "off" THEN readerOff(r) ELSE readerOn(r)
    /\ check' = [check EXCEPT ![r] = "no"]
    /\ UNCHANGED <<user, map_vars, log_vars, readerClosed, offset, idle, pressure, adjust>>

\* Mutant: SetReadahead reaches only readers that are switched off.
AdjustRAInverted ==
    /\ inMap # {} /\ adjust = {}
    /\ adjust' = {r \in inMap : ~isUse[r]}
    /\ UNCHANGED <<user, map_vars, switch_vars, log_vars, readerClosed, offset, idle,
                   pressure, check>>

\* Cache.AdjustRA, once a second: SetReadahead looks at isUse without a lock ...
AdjustRA ==
    /\ inMap # {} /\ adjust = {}
    /\ adjust' = {r \in inMap : isUse[r]}
    /\ UNCHANGED <<user, map_vars, switch_vars, log_vars, readerClosed, offset, idle,
                   pressure, check>>

\* ... and then sets the engine reader's readahead.
SetReadahead(r) ==
    /\ r \in adjust
    /\ adjust' = adjust \ {r}
    /\ readahead' = [readahead EXCEPT ![r] = TRUE]
    /\ UNCHANGED <<user, map_vars, log_vars, isUse, activeReaders, pos, readerClosed,
                   offset, idle, pressure, check>>

\* A minute passes without the end of a read or a seek.
Minute(r) ==
    /\ user[r] # "none" /\ ~idle[r]
    /\ idle' = [idle EXCEPT ![r] = TRUE]
    /\ UNCHANGED <<user, map_vars, switch_vars, pass_vars, log_vars, readerClosed,
                   offset, pressure>>

User(r) ==
    \/ NewReader(r)
    \/ ReadStart(r) \/ ReadOn(r) \/ EngineRead(r) \/ EngineGot(r)
    \/ EngineFailed(r) \/ ReadEnd(r)
    \/ \E to \in 0 .. FileLength : SeekStart(r, to)
    \/ SeekOn(r) \/ EngineSeek(r) \/ SeekEnd(r)
    \/ CloseReader(r) \/ UploadClose(r) \/ UploadCloseOff(r)

Pass(r) == CheckReader(r) \/ CheckAct(r) \/ SetReadahead(r)

ReaderNext ==
    \/ \E r \in OpenedReaders : User(r) \/ Pass(r) \/ Minute(r)
    \/ AdjustRA
    \/ CloseCache

ReaderSpec == ReaderInit /\ [][ReaderNext]_readerVars

\* updateRA starts AdjustRA every second as long as the torrent is served.
ReaderFairSpec == ReaderSpec /\ WF_readerVars(AdjustRA) /\ \A r \in OpenedReaders : WF_readerVars(SetReadahead(r))

-----------------------------------------------------------------------------
(* Properties.                                                             *)

\* activeReaders, which divides the cache among the readers, counts exactly the
\* readers in use (Reader.isUse), whoever switches them.
ActiveCount == activeReaders = Cardinality({r \in OpenedReaders : isUse[r]})

\* A stream closed through CloseReader is gone for good: no pass that was under
\* way puts it back in use, and Torrent.expired no longer counts it.
ClosedStreamGone ==
    ~isNil => \A r \in Streams : user[r] = "closed" => r \notin inMap /\ ~isUse[r]

\* When the last stream of an open cache is closed, the playback pressure that
\* its reads and seeks raised (SetPlaybackPressure) is lifted, in whatever order
\* the readers were switched off and closed.  (Upload readers may be put back in
\* use by a pass after their Close, and then nobody lifts it.)
NoPressureLeft ==
    (/\ ~isNil
     /\ \A r \in Streams : user[r] \in {"none", "closed"}
     /\ \A r \in Uploads : user[r] = "none")
      => ~pressure

\* The cache's account of its readers is right: the count of those in use, the streams
\* that are closed and the playback pressure agree with what was opened, switched and closed.
ReadersAccounted == ActiveCount /\ ClosedStreamGone /\ NoPressureLeft

\* A read returns the bytes at the reader's offset.  checkReader moves the
\* engine reader, which is "Not safe for concurrent use".
ReadsAtOffset == ~misread

\* A reader in use gets a readahead back, although readerOn does not restore it.
ReadaheadReturns ==
    \A r \in OpenedReaders : (r \in inMap /\ isUse[r]) ~>
                          (readahead[r] \/ r \notin inMap \/ ~isUse[r])
=============================================================================
