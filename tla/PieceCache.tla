------------------------------ MODULE PieceCache ------------------------------
(***************************************************************************)
(* The RAM piece cache of torrstor (cache.go, mempiece.go, piece.go)       *)
(* together with the part of the torrent engine that fills it: the chunk   *)
(* bookkeeping, the piece hasher and the completion cache of               *)
(* anacrolix-torrent.  The two keep separate records of what a piece       *)
(* holds, under separate locks, and three parties change them at the same  *)
(* time: connections that write chunks, hashers that mark pieces complete, *)
(* and the cleaner goroutine that evicts.  A closing torrent and stream    *)
(* readers that meet an evicted piece join in.                             *)
(*                                                                         *)
(* A piece's contents are abstracted to what each chunk of its buffer      *)
(* holds: nothing of this piece ("none"), what the metainfo promises       *)
(* ("good"), or corrupt bytes ("bad").                                     *)
(***************************************************************************)
EXTENDS Integers, FiniteSets

CONSTANTS
    Pieces,         \* the pieces of the torrent
    IndexPieces,    \* those with isIndexPiece set
    Chunks,         \* the chunks of a piece
    Buffers,        \* names for the piece buffers in existence
    NoBuffer,       \* the nil buffer
    NoPiece,        \* no piece in hand
    Capacity,       \* Cache.capacity, in chunks
    FreeCap,        \* Cache.freeCap
    Readers,        \* engine readers that may be inside readOnceAt
    Corrupts,       \* whether a peer may send corrupt chunks
    MaxWrites       \* bound on the chunks received in a behaviour

ASSUME CacheAssumption ==
    /\ IndexPieces \subseteq Pieces
    /\ NoBuffer \notin Buffers /\ NoPiece \notin Pieces
    /\ IsFiniteSet(Chunks) /\ Chunks # {}
    /\ Capacity \in Nat /\ FreeCap \in Nat /\ MaxWrites \in Nat
    /\ Corrupts \in BOOLEAN

VARIABLES
    buf,            \* MemPiece.buffer of each piece
    data,           \* what each chunk of that buffer holds
    size,           \* Piece.Size, in chunks
    complete,       \* Piece.Complete
    free,           \* Cache.free (its order is of no consequence)
    cleanTrigger,   \* the one slot of Cache.cleanTrigger
    isClosed,       \* Cache.isClosed
    window,         \* pieces inside the window of some reader in use
    pc,             \* where the cleaner goroutine stands
    scan,           \* its getRemPieces: ranges, pieces left to look at, fill
    cand,           \* its remPieces
    rems,           \* its rems
    cur,            \* the piece it is releasing
    closer,         \* the goroutine inside Cache.Close
    toDrop,         \* the pieces Cache.Close has still to drop
    dirty,          \* engine: the chunks of each piece in dirtyChunks
    wr,             \* engine: chunks between unpendChunkIndex and the end of receiveChunk
    queued,         \* engine: piecesQueuedForHash
    hash,           \* engine: where each piece stands between startHash and pieceHashed
    engDone,        \* engine: _completedPieces
    engClosed,      \* engine: Torrent.closed
    rd,             \* readers inside readOnceAt
    falseAlarm,     \* a reader's miss of an evicted piece was counted as corruption
    overtaken,      \* a piece was evicted before its hasher, having marked it, told the engine
    writes          \* chunks received so far

pieceVars == <<buf, data, size, complete>>
cleanVars == <<pc, scan, cand, rems, cur>>
closeVars == <<isClosed, closer, toDrop, engClosed>>
engVars == <<dirty, wr, queued, hash, engDone, writes>>
rdVars == <<rd, falseAlarm, overtaken>>
vars == <<pieceVars, free, cleanTrigger, window, cleanVars, closeVars, engVars, rdVars>>

PieceLength == Cardinality(Chunks)
Empty == [c \in Chunks |-> "none"]
Whole(p) == \A c \in Chunks : data[p][c] = "good"

CleanerPC == {"idle", "scan", "evict", "lock", "put", "clear", "engine"}

TypeOK ==
    /\ buf \in [Pieces -> Buffers \cup {NoBuffer}]
    /\ data \in [Pieces -> [Chunks -> {"none", "good", "bad"}]]
    /\ size \in [Pieces -> 0 .. PieceLength]
    /\ complete \in [Pieces -> BOOLEAN]
    /\ free \subseteq Buffers
    /\ cleanTrigger \in BOOLEAN
    /\ isClosed \in BOOLEAN
    /\ window \subseteq Pieces
    /\ pc \in CleanerPC
    /\ scan \in [ranges : SUBSET Pieces, todo : SUBSET Pieces, fill : Nat]
    /\ cand \subseteq Pieces
    /\ rems \in Int
    /\ cur \in Pieces \cup {NoPiece}
    /\ closer \in {"off", "drop", "done"}
    /\ toDrop \subseteq Pieces
    /\ dirty \in [Pieces -> SUBSET Chunks]
    /\ wr \in [Pieces -> [Chunks -> {"no", "received", "written"}]]
    /\ queued \subseteq Pieces
    /\ hash \in [Pieces -> {"no", "hashing", "passed", "failed", "marked"}]
    /\ engDone \in [Pieces -> BOOLEAN]
    /\ engClosed \in BOOLEAN
    /\ rd \in [Readers -> [pc : {"idle", "avail", "missed", "marked"},
                           piece : Pieces \cup {NoPiece}]]
    /\ falseAlarm \in BOOLEAN /\ overtaken \in BOOLEAN
    /\ writes \in 0 .. MaxWrites

\* A new cache: index pieces found on disk are loaded into fresh buffers and
\* marked complete before the engine asks for their completion.
Init ==
    /\ \E loaded \in SUBSET IndexPieces :
         \E b \in [Pieces -> Buffers \cup {NoBuffer}] :
            /\ \A p \in Pieces : b[p] = NoBuffer <=> p \notin loaded
            /\ \A p, q \in loaded : b[p] = b[q] => p = q
            /\ buf = b
            /\ data = [p \in Pieces |-> [c \in Chunks |->
                          IF p \in loaded THEN "good" ELSE "none"]]
            /\ size = [p \in Pieces |-> IF p \in loaded THEN PieceLength ELSE 0]
            /\ complete = [p \in Pieces |-> p \in loaded]
            /\ engDone = [p \in Pieces |-> p \in loaded]
            /\ cleanTrigger = (loaded # {})
    /\ free = {} /\ window = {}
    /\ isClosed = FALSE /\ closer = "off" /\ toDrop = {} /\ engClosed = FALSE
    /\ pc = "idle" /\ cand = {} /\ rems = 0 /\ cur = NoPiece
    /\ scan = [ranges |-> {}, todo |-> {}, fill |-> 0]
    /\ dirty = [p \in Pieces |-> {}]
    /\ wr = [p \in Pieces |-> [c \in Chunks |-> "no"]]
    /\ queued = {} /\ hash = [p \in Pieces |-> "no"]
    /\ rd = [r \in Readers |-> [pc |-> "idle", piece |-> NoPiece]]
    /\ falseAlarm = FALSE /\ overtaken = FALSE /\ writes = 0

-----------------------------------------------------------------------------
(* The engine: a chunk arrives, is written, and the piece is hashed.       *)

\* MemPiece.mu is held across steps only by the cleaner, from the lock in
\* MemPiece.Release to its unlock.
Unlocked(p) == ~(cur = p /\ pc \in {"put", "clear"})

NoPendingWrites(p) == \A c \in Chunks : wr[p][c] = "no"

haveChunk(p, c) == engDone[p] \/ c \in dirty[p]

\* Peer.receiveChunk up to the point where it releases the client lock.
ReceiveChunk(p, c) ==
    /\ ~engClosed /\ ~haveChunk(p, c)
    /\ wr[p][c] = "no" /\ writes < MaxWrites
    /\ writes' = writes + 1
    /\ dirty' = [dirty EXCEPT ![p] = @ \cup {c}]
    /\ wr' = [wr EXCEPT ![p][c] = "received"]
    /\ UNCHANGED <<pieceVars, free, cleanTrigger, window, cleanVars, closeVars,
                   queued, hash, engDone, rdVars>>

Unused == Buffers \ (free \cup {buf[p] : p \in Pieces})

\* Cache.getBuffer, or make when it returns nil.
getBuffer(b) ==
    IF free # {} THEN b \in free /\ free' = free \ {b}
                 ELSE b \in Unused /\ UNCHANGED free

\* Mutant: Size counts a chunk written again after a failed hash.
WriteAtUncapped(p, c, d) ==
    /\ wr[p][c] = "received" /\ Unlocked(p)
    /\ wr' = [wr EXCEPT ![p][c] = "written"]
    /\ size' = [size EXCEPT ![p] = @ + 1]
    /\ IF buf[p] = NoBuffer
         THEN /\ \E b \in Buffers : getBuffer(b) /\ buf' = [buf EXCEPT ![p] = b]
              /\ cleanTrigger' = TRUE
              /\ data' = [data EXCEPT ![p] = [Empty EXCEPT ![c] = d]]
         ELSE /\ data' = [data EXCEPT ![p][c] = d]
              /\ UNCHANGED <<buf, free, cleanTrigger>>
    /\ UNCHANGED <<complete, window, cleanVars, closeVars, dirty, queued, hash,
                   engDone, writes, rdVars>>

\* MemPiece.WriteAt: a nil buffer wakes the cleaner and is replaced, by a
\* recycled buffer with another piece's bytes in it or by a new one.
WriteAt(p, c, d) ==
    /\ wr[p][c] = "received" /\ Unlocked(p)
    /\ wr' = [wr EXCEPT ![p][c] = "written"]
    /\ size' = [size EXCEPT ![p] = IF @ < PieceLength THEN @ + 1 ELSE @]
    /\ IF buf[p] = NoBuffer
         THEN /\ \E b \in Buffers : getBuffer(b) /\ buf' = [buf EXCEPT ![p] = b]
              /\ cleanTrigger' = TRUE
              /\ data' = [data EXCEPT ![p] = [Empty EXCEPT ![c] = d]]
         ELSE /\ data' = [data EXCEPT ![p][c] = d]
              /\ UNCHANGED <<buf, free, cleanTrigger>>
    /\ UNCHANGED <<complete, window, cleanVars, closeVars, dirty, queued, hash,
                   engDone, writes, rdVars>>

\* The rest of receiveChunk: the last writer of the piece queues it.
FinishChunk(p, c) ==
    /\ wr[p][c] = "written"
    /\ wr' = [wr EXCEPT ![p][c] = "no"]
    /\ queued' = IF dirty[p] = Chunks /\ \A e \in Chunks : wr'[p][e] = "no"
                   THEN queued \cup {p} ELSE queued
    /\ UNCHANGED <<pieceVars, free, cleanTrigger, window, cleanVars, closeVars,
                   dirty, hash, engDone, writes, rdVars>>

\* getPieceToHash passes over a piece being hashed or marked.
StartHash(p) ==
    /\ ~engClosed /\ p \in queued /\ hash[p] = "no"
    /\ queued' = queued \ {p}
    /\ hash' = [hash EXCEPT ![p] = "hashing"]
    /\ UNCHANGED <<pieceVars, free, cleanTrigger, window, cleanVars, closeVars,
                   dirty, wr, engDone, writes, rdVars>>

\* hashPiece reads the piece through the storage wrapper, which marks a piece
\* whose read hits EOF not complete.
HashPiece(p) ==
    /\ hash[p] = "hashing" /\ NoPendingWrites(p) /\ Unlocked(p)
    /\ hash' = [hash EXCEPT ![p] = IF Whole(p) THEN "passed" ELSE "failed"]
    /\ complete' = [complete EXCEPT ![p] = @ /\ buf[p] # NoBuffer]
    /\ UNCHANGED <<buf, data, size, free, cleanTrigger, window, cleanVars,
                   closeVars, dirty, wr, queued, engDone, writes, rdVars>>

\* What updatePieceCompletion makes of the storage's answer comp, with drt the
\* piece's dirty chunks when it asks.
CompletionUpdated(p, comp, drt) ==
    /\ engDone' = [engDone EXCEPT ![p] = comp]
    /\ dirty' = [dirty EXCEPT ![p] =
                    IF comp # engDone[p] /\ (comp \/ drt = Chunks) THEN {} ELSE drt]

\* pieceHashed, good hash: the client lock is released for MarkComplete.
MarkComplete(p) ==
    /\ hash[p] = "passed"
    /\ IF engClosed
         THEN hash' = [hash EXCEPT ![p] = "no"] /\ UNCHANGED complete
         ELSE /\ hash' = [hash EXCEPT ![p] = "marked"]
              /\ complete' = [complete EXCEPT ![p] = TRUE]
    /\ UNCHANGED <<buf, data, size, free, cleanTrigger, window, cleanVars,
                   closeVars, dirty, wr, queued, engDone, writes, rdVars>>

\* pieceHashed after MarkComplete, with the client lock again.
PieceHashedGood(p) ==
    /\ hash[p] = "marked"
    /\ hash' = [hash EXCEPT ![p] = "no"]
    /\ IF engClosed THEN UNCHANGED <<dirty, engDone>>
                    ELSE CompletionUpdated(p, complete[p], {})
    /\ UNCHANGED <<pieceVars, free, cleanTrigger, window, cleanVars, closeVars,
                   wr, queued, writes, rdVars>>

\* pieceHashed, bad hash: onIncompletePiece, MarkNotComplete and
\* updatePieceCompletion under the client lock.  The peers it bans and the
\* shield MarkNotComplete may raise are not part of this module.
PieceHashedBad(p) ==
    /\ hash[p] = "failed"
    /\ hash' = [hash EXCEPT ![p] = "no"]
    /\ IF engClosed
         THEN UNCHANGED <<complete, dirty, engDone>>
         ELSE /\ complete' = [complete EXCEPT ![p] = FALSE]
              /\ CompletionUpdated(p, FALSE, IF dirty[p] = Chunks THEN {} ELSE dirty[p])
    /\ UNCHANGED <<buf, data, size, free, cleanTrigger, window, cleanVars,
                   closeVars, wr, queued, writes, rdVars>>

-----------------------------------------------------------------------------
(* The cleaner goroutine: cleanPieces, getRemPieces, removePiece, Release. *)

\* A reader seeks, starts, ends or goes idle.
MoveWindow(w) ==
    /\ ~isClosed /\ window' = w /\ w # window
    /\ UNCHANGED <<pieceVars, free, cleanTrigger, cleanVars, closeVars, engVars, rdVars>>

\* cleanPieces returns early: the cache is closed, or the last cleanup is less
\* than a second old.
CleanThrottled ==
    /\ pc = "idle" /\ cleanTrigger
    /\ cleanTrigger' = FALSE
    /\ UNCHANGED <<pieceVars, free, window, cleanVars, closeVars, engVars, rdVars>>

\* getRemPieces takes the readers' windows and the map under muReaders, which
\* Cache.Close holds while it drops.
ScanStart ==
    /\ pc = "idle" /\ cleanTrigger /\ ~isClosed
    /\ cleanTrigger' = FALSE
    /\ pc' = "scan" /\ cand' = {}
    /\ scan' = [ranges |-> window, todo |-> Pieces, fill |-> 0]
    /\ UNCHANGED <<pieceVars, free, window, rems, cur, closeVars, engVars, rdVars>>

\* Mutant: a partly written piece may be evicted.
pieceEvictableAnySize(sz, comp, inRange) == sz > 0 /\ ~inRange

pieceEvictable(sz, comp, inRange) == sz > 0 /\ comp /\ ~inRange

ScanPiece(p) ==
    /\ pc = "scan" /\ p \in scan.todo
    /\ scan' = [scan EXCEPT !.todo = @ \ {p}, !.fill = @ + size[p]]
    /\ cand' = IF pieceEvictable(size[p], complete[p], p \in scan.ranges)
                    /\ p \notin IndexPieces
                 THEN cand \cup {p} ELSE cand
    /\ UNCHANGED <<pieceVars, free, cleanTrigger, window, pc, rems, cur,
                   closeVars, engVars, rdVars>>

ScanEnd ==
    /\ pc = "scan" /\ scan.todo = {}
    /\ IF scan.fill > Capacity /\ cand # {}
         THEN /\ pc' = "evict"
              /\ rems' = (scan.fill - Capacity) \div PieceLength + 1
         ELSE pc' = "idle" /\ UNCHANGED rems
    /\ UNCHANGED <<pieceVars, free, cleanTrigger, window, scan, cand, cur,
                   closeVars, engVars, rdVars>>

\* One turn of the eviction loop ends.
EvictedOne(p) ==
    /\ cand' = cand \ {p}
    /\ rems' = rems - 1
    /\ pc' = IF rems - 1 <= 0 \/ cand' = {} THEN "idle" ELSE "evict"
    /\ cur' = NoPiece

\* removePiece and the guard of Piece.Release.  The candidates are sorted by
\* last access, in seconds; any of them may come first.
EvictNext(p) ==
    /\ pc = "evict" /\ p \in cand
    /\ IF isClosed \/ p \in IndexPieces
         THEN EvictedOne(p)
         ELSE pc' = "lock" /\ cur' = p /\ UNCHANGED <<cand, rems>>
    /\ UNCHANGED <<pieceVars, free, cleanTrigger, window, scan, closeVars, engVars, rdVars>>

\* MemPiece.Release takes the lock and putBuffer looks at isClosed.
ReleaseLock ==
    /\ pc = "lock"
    /\ pc' = IF buf[cur] # NoBuffer /\ ~isClosed THEN "put" ELSE "clear"
    /\ UNCHANGED <<pieceVars, free, cleanTrigger, window, scan, cand, rems, cur,
                   closeVars, engVars, rdVars>>

putBuffer ==
    /\ pc = "put" /\ pc' = "clear"
    /\ free' = IF Cardinality(free) < FreeCap THEN free \cup {buf[cur]} ELSE free
    /\ UNCHANGED <<pieceVars, cleanTrigger, window, scan, cand, rems, cur,
                   closeVars, engVars, rdVars>>

\* What MemPiece.Release and MemPiece.drop leave of a piece.
Emptied(p) ==
    /\ buf' = [buf EXCEPT ![p] = NoBuffer]
    /\ data' = [data EXCEPT ![p] = Empty]
    /\ size' = [size EXCEPT ![p] = 0]
    /\ complete' = [complete EXCEPT ![p] = FALSE]

\* Mutant: the recycled buffer stays in the piece.
ReleaseClearKeepsBuffer ==
    /\ pc = "clear" /\ pc' = "engine"
    /\ size' = [size EXCEPT ![cur] = 0]
    /\ complete' = [complete EXCEPT ![cur] = FALSE]
    /\ UNCHANGED <<buf, data, free, cleanTrigger, window, scan, cand, rems, cur,
                   closeVars, engVars, rdVars>>

ReleaseClear ==
    /\ pc = "clear" /\ pc' = "engine"
    /\ Emptied(cur)
    /\ overtaken' = (overtaken \/ hash[cur] = "marked")
    /\ UNCHANGED <<free, cleanTrigger, window, scan, cand, rems, cur,
                   closeVars, engVars, rd, falseAlarm>>

\* Mutant: the engine is not told.
ReleaseEngineSilent ==
    /\ pc = "engine" /\ closer # "drop"
    /\ UNCHANGED <<dirty, engDone>>
    /\ EvictedOne(cur)
    /\ UNCHANGED <<pieceVars, free, cleanTrigger, window, scan, closeVars, wr,
                   queued, hash, writes, rdVars>>

\* The end of Piece.Release: isClosed is read under muReaders, then the engine
\* is asked to look at the piece again.
ReleaseEngine ==
    /\ pc = "engine" /\ closer # "drop"
    /\ IF isClosed THEN UNCHANGED <<dirty, engDone>>
                   ELSE CompletionUpdated(cur, complete[cur], dirty[cur])
    /\ EvictedOne(cur)
    /\ UNCHANGED <<pieceVars, free, cleanTrigger, window, scan, closeVars, wr,
                   queued, hash, writes, rdVars>>

-----------------------------------------------------------------------------
(* Torrent.close, and Cache.Close in the goroutine it starts.              *)

EngineClose ==
    /\ ~engClosed /\ engClosed' = TRUE
    /\ UNCHANGED <<pieceVars, free, cleanTrigger, window, cleanVars, isClosed,
                   closer, toDrop, engVars, rdVars>>

\* storageLock is held for reading by every piece being hashed.
CloseBegin ==
    /\ engClosed /\ closer = "off"
    /\ \A p \in Pieces : hash[p] # "hashing"
    /\ isClosed' = TRUE /\ closer' = "drop" /\ toDrop' = Pieces
    /\ UNCHANGED <<pieceVars, free, cleanTrigger, window, cleanVars, engClosed,
                   engVars, rdVars>>

\* Mutant: Close calls Piece.Release, which waits for the muReaders Close holds.
CloseDropReleases(p) ==
    /\ closer = "drop" /\ p \in toDrop /\ Unlocked(p) /\ closer # "drop"
    /\ toDrop' = toDrop \ {p}
    /\ Emptied(p)
    /\ UNCHANGED <<free, cleanTrigger, window, cleanVars, isClosed, closer,
                   engClosed, engVars, rdVars>>

CloseDrop(p) ==
    /\ closer = "drop" /\ p \in toDrop /\ Unlocked(p)
    /\ toDrop' = toDrop \ {p}
    /\ Emptied(p)
    /\ UNCHANGED <<free, cleanTrigger, window, cleanVars, isClosed, closer,
                   engClosed, engVars, rdVars>>

\* Mutant: the free list is cleared without waiting for the pieces.
CloseFreeFirst ==
    /\ closer = "drop"
    /\ free' = {} /\ closer' = "done"
    /\ UNCHANGED <<pieceVars, cleanTrigger, window, cleanVars, isClosed, toDrop,
                   engClosed, engVars, rdVars>>

CloseFree ==
    /\ closer = "drop" /\ toDrop = {}
    /\ free' = {} /\ closer' = "done"
    /\ UNCHANGED <<pieceVars, cleanTrigger, window, cleanVars, isClosed, toDrop,
                   engClosed, engVars, rdVars>>

-----------------------------------------------------------------------------
(* An engine reader inside readOnceAt, or a peer being served.             *)

ReaderAvail(r, p) ==
    /\ rd[r].pc = "idle" /\ ~engClosed
    /\ engDone[p] \/ dirty[p] # {}
    /\ rd' = [rd EXCEPT ![r] = [pc |-> "avail", piece |-> p]]
    /\ UNCHANGED <<pieceVars, free, cleanTrigger, window, cleanVars, closeVars,
                   engVars, falseAlarm, overtaken>>

ReaderIdle(r) == rd' = [rd EXCEPT ![r] = [pc |-> "idle", piece |-> NoPiece]]

\* MemPiece.ReadAt: a read that reaches the end of the piece wakes the cleaner.
ReadAt(r) ==
    LET p == rd[r].piece IN
    /\ rd[r].pc = "avail" /\ NoPendingWrites(p) /\ Unlocked(p)
    /\ IF buf[p] = NoBuffer
         THEN rd' = [rd EXCEPT ![r].pc = "missed"] /\ UNCHANGED cleanTrigger
         ELSE ReaderIdle(r) /\ cleanTrigger' \in {cleanTrigger, TRUE}
    /\ UNCHANGED <<pieceVars, free, window, cleanVars, closeVars, engVars, falseAlarm, overtaken>>

\* The storage wrapper answers EOF with MarkNotComplete, whose guard takes a
\* non-nil buffer for a sign of corruption.
MarkNotComplete(r) ==
    LET p == rd[r].piece IN
    /\ rd[r].pc = "missed" /\ Unlocked(p)
    /\ complete' = [complete EXCEPT ![p] = FALSE]
    /\ falseAlarm' = (falseAlarm \/ buf[p] # NoBuffer)
    /\ rd' = [rd EXCEPT ![r].pc = "marked"]
    /\ UNCHANGED <<buf, data, size, free, cleanTrigger, window, cleanVars,
                   closeVars, engVars, overtaken>>

\* updatePieceCompletion of several pieces in turn.
CompletionsUpdated(S) ==
    /\ engDone' = [p \in Pieces |-> IF p \in S THEN complete[p] ELSE engDone[p]]
    /\ dirty' = [p \in Pieces |-> IF /\ p \in S /\ complete[p] # engDone[p]
                                     /\ complete[p] \/ dirty[p] = Chunks
                                   THEN {} ELSE dirty[p]]

\* Back in readOnceAt, under the client lock: the piece that was missed and the
\* rest of the reader's readahead window, whatever pieces that is.
ReaderUpdate(r) ==
    /\ rd[r].pc = "marked"
    /\ IF engClosed THEN UNCHANGED <<dirty, engDone>>
                    ELSE \E ahead \in SUBSET Pieces : CompletionsUpdated({rd[r].piece} \cup ahead)
    /\ ReaderIdle(r)
    /\ UNCHANGED <<pieceVars, free, cleanTrigger, window, cleanVars, closeVars,
                   wr, queued, hash, writes, falseAlarm, overtaken>>

-----------------------------------------------------------------------------
Download ==
    \E p \in Pieces :
       \/ \E c \in Chunks :
             \/ ReceiveChunk(p, c)
             \/ \E d \in IF Corrupts THEN {"good", "bad"} ELSE {"good"} : WriteAt(p, c, d)
             \/ FinishChunk(p, c)
       \/ StartHash(p)
       \/ HashPiece(p)
       \/ MarkComplete(p)
       \/ PieceHashedGood(p)
       \/ PieceHashedBad(p)

Clean ==
    \/ CleanThrottled
    \/ ScanStart
    \/ \E p \in Pieces : ScanPiece(p)
    \/ ScanEnd
    \/ \E p \in Pieces : EvictNext(p)
    \/ ReleaseLock
    \/ putBuffer
    \/ ReleaseClear
    \/ ReleaseEngine

Close == CloseBegin \/ (\E p \in Pieces : CloseDrop(p)) \/ CloseFree

Read == \E r \in Readers :
          \/ \E p \in Pieces : ReaderAvail(r, p)
          \/ ReadAt(r)
          \/ MarkNotComplete(r)
          \/ ReaderUpdate(r)

\* A closed cache with nothing in flight stops.
Next ==
    \/ Download
    \/ \E w \in SUBSET Pieces : MoveWindow(w)
    \/ Clean
    \/ EngineClose
    \/ Close
    \/ Read

Spec == Init /\ [][Next]_vars

\* The goroutines that are under way are scheduled: a chunk that was received
\* is written, a hash that was started ends, the cleaner and Close go on.
Fairness ==
    /\ \A p \in Pieces : \A c \in Chunks :
          WF_vars(\E d \in {"good", "bad"} : WriteAt(p, c, d)) /\ WF_vars(FinishChunk(p, c))
    /\ \A p \in Pieces : WF_vars(HashPiece(p))
    /\ WF_vars(Clean)
    /\ WF_vars(Close)

FairSpec == Spec /\ Fairness

-----------------------------------------------------------------------------
(* Properties.                                                             *)

\* A piece buffer has one owner: pieces whose lock is free never share one, and
\* hold none that is on the free list.  (MemPiece.Release hands the buffer over
\* before it clears the field, so another piece may have it by then; the
\* piece's lock hides that.)
BufferOwnership ==
    \A p \in Pieces : Unlocked(p) /\ buf[p] # NoBuffer =>
       /\ buf[p] \notin free
       /\ \A q \in Pieces : Unlocked(q) /\ buf[q] = buf[p] => q = p

\* Once Close has returned the free list is empty, and stays so, although
\* putBuffer looks at isClosed before it takes muFree: a Release past that look
\* holds the lock of a piece Close has still to drop.
ClosedFreeListEmpty == closer = "done" => free = {}

\* While the torrent is open, every chunk the engine counts as downloaded is in
\* the piece's buffer (or still being written): ranges.go pieceEvictable keeps
\* partly written pieces because "anacrolix keeps its own chunk bookkeeping, so
\* dropping one fails the hash check and bans the peer that supplied it".  (Two
\* things defeat this: a false alarm, which takes the completion of a whole piece
\* back, and the eviction of a piece that its hasher has marked complete and not
\* yet reported to the engine, which forgets the chunks of the next download.)
DirtyChunksHeld ==
    ~engClosed /\ ~falseAlarm /\ ~overtaken =>
      \A p \in Pieces : \A c \in dirty[p] : wr[p][c] = "received" \/ data[p][c] # "none"

\* A piece the storage calls complete holds all its data, verified (but for the
\* same two), and the engine's cached completion of a piece is the storage's,
\* except while someone is on the way to update it: the cleaner releasing the
\* piece, a hasher marking it, a reader that missed it.
RecordsAgree ==
  /\ ~falseAlarm /\ ~overtaken => \A p \in Pieces : complete[p] => Whole(p)
  /\ ~engClosed =>
      \A p \in Pieces :
         \/ engDone[p] = complete[p]
         \/ cur = p
         \/ hash[p] \in {"failed", "marked"}
         \/ \E r \in Readers : rd[r].pc = "marked" /\ rd[r].piece = p

\* A torrent that closes gets its cache closed: nothing Close waits for waits
\* for Close.
CloseFinishes == engClosed ~> closer = "done"

=============================================================================
