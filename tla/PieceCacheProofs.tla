--------------------------- MODULE PieceCacheProofs ---------------------------
(***************************************************************************)
(* Buffer safety of the piece cache for any number of pieces, chunks,      *)
(* buffers and readers.  BufferOwnership is not inductive: it says nothing *)
(* of the piece whose lock the cleaner holds.  The strengthening adds what *)
(* is true of that piece between the lock and the hand-over of its buffer  *)
(* (Releasing), and ClosedFreeListEmpty needs to know that Close has still *)
(* to drop a piece that is about to put its buffer back (Closing).         *)
(*                                                                         *)
(* The second half is about the two records of a piece, the storage's and  *)
(* the engine's.  DirtyChunksHeld and RecordsAgree relate them at rest;    *)
(* the invariant RInv follows a piece through its life, from the first     *)
(* chunk that is written to the hash of exactly that download and to the   *)
(* report of it (Sound), for as long as no circumstance has upset it (Ok). *)
(***************************************************************************)
EXTENDS PieceCache, FiniteSetTheorems, TLAPS

\* The types the argument needs.
Types ==
    /\ buf \in [Pieces -> Buffers \cup {NoBuffer}]
    /\ free \subseteq Buffers
    /\ toDrop \subseteq Pieces
    /\ closer \in {"off", "drop", "done"}
    /\ isClosed \in BOOLEAN
    /\ pc \in CleanerPC
    /\ cand \subseteq Pieces

\* A piece in hand is a piece, and before putBuffer nobody else has its buffer.
Releasing ==
    /\ pc \in {"lock", "put", "clear", "engine"} => cur \in Pieces
    /\ pc = "put" =>
         /\ buf[cur] \in Buffers /\ buf[cur] \notin free
         /\ \A q \in Pieces : buf[q] = buf[cur] => q = cur

\* A closing cache has still to drop the piece that is in putBuffer.
Closing ==
    /\ isClosed <=> closer # "off"
    /\ closer # "off" /\ pc = "put" => cur \in toDrop
    /\ closer = "done" => toDrop = {} /\ free = {}

Inv == Types /\ Releasing /\ Closing /\ BufferOwnership

\* The state a cache starts in satisfies the strengthening (Cache.Init).
LEMMA InitInv == Init => Inv
<1> SUFFICES ASSUME Init PROVE Inv
  OBVIOUS
<1> USE CacheAssumption
<1>1. Types
  BY Zenon DEF Init, Types, CleanerPC
<1>2. Releasing /\ Closing
  BY Zenon DEF Init, Releasing, Closing
<1>3. BufferOwnership
  BY Zenon DEF Init, BufferOwnership, Unlocked
<1>4. QED
  BY <1>1, <1>2, <1>3, Zenon DEF Inv

\* A chunk write keeps it: the buffer it takes belongs to nobody (getBuffer).
LEMMA WriteAtInv ==
  ASSUME Inv, NEW p \in Pieces, NEW c \in Chunks, NEW d, WriteAt(p, c, d)
  PROVE  Inv'
<1> USE CacheAssumption
<1>1. CASE buf[p] # NoBuffer
  BY <1>1 DEF WriteAt, Inv, Types, Releasing, Closing, BufferOwnership, Unlocked, cleanVars,
     closeVars
<1>2. CASE buf[p] = NoBuffer
  <2>1. PICK b \in Buffers : getBuffer(b) /\ buf' = [buf EXCEPT ![p] = b]
    BY <1>2, Zenon DEF WriteAt
  <2>2. /\ UNCHANGED <<cleanVars, closeVars>> /\ Unlocked(p)
    BY Zenon DEF WriteAt
  <2>3. /\ free' \subseteq free /\ b \notin free'
        /\ \A q \in Pieces : Unlocked(q) => buf[q] # b
        /\ pc = "put" => buf[cur] # b
    <3>1. CASE free # {}
      BY <2>1, <3>1, Zenon DEF getBuffer, Inv, BufferOwnership, Types, Releasing
    <3>2. CASE free = {}
      BY <2>1, <3>2, Zenon DEF getBuffer, Unused, Inv, Releasing
    <3>3. QED
      BY <3>1, <3>2, Zenon
  <2>4. Types'
    BY <2>1, <2>2, <2>3, Zenon DEF Inv, Types, cleanVars, closeVars
  <2>5. Releasing'
    BY <2>1, <2>2, <2>3, Zenon DEF Inv, Types, Releasing, Unlocked, cleanVars
  <2>6. Closing'
    BY <2>2, <2>3, Zenon DEF Inv, Closing, cleanVars, closeVars
  <2>7. BufferOwnership'
    BY <2>1, <2>2, <2>3, Zenon DEF Inv, Types, BufferOwnership, Unlocked, cleanVars
  <2>8. QED
    BY <2>4, <2>5, <2>6, <2>7, Zenon DEF Inv
<1>3. QED
  BY <1>1, <1>2, Zenon

\* Steps that touch neither buffers nor the cleaner's and Close's positions.
LEMMA UnchangedInv ==
  ASSUME Inv, UNCHANGED <<buf, free, toDrop, closer, isClosed, pc, cur, cand>>
  PROVE  Inv'
BY Zenon DEF Inv, Types, Releasing, Closing, BufferOwnership, Unlocked

\* Every step of the engine keeps it (receiveChunk, the hasher, pieceHashed).
LEMMA DownloadInv == Inv /\ Download => Inv'
<1> SUFFICES ASSUME Inv, Download PROVE Inv'
  OBVIOUS
<1>1. PICK p \in Pieces :
        \/ \E c \in Chunks :
              \/ ReceiveChunk(p, c)
              \/ \E d \in IF Corrupts THEN {"good", "bad"} ELSE {"good"} : WriteAt(p, c, d)
              \/ FinishChunk(p, c)
        \/ StartHash(p) \/ HashPiece(p) \/ MarkComplete(p)
        \/ PieceHashedGood(p) \/ PieceHashedBad(p)
  BY Zenon DEF Download
<1>2. ASSUME NEW c \in Chunks, ReceiveChunk(p, c) \/ FinishChunk(p, c) PROVE Inv'
  BY <1>2, UnchangedInv, Zenon DEF ReceiveChunk, FinishChunk, pieceVars, cleanVars, closeVars
<1>3. ASSUME NEW c \in Chunks, NEW d, WriteAt(p, c, d) PROVE Inv'
  BY <1>3, WriteAtInv, Zenon
<1>4. CASE StartHash(p) \/ HashPiece(p) \/ MarkComplete(p)
  BY <1>4, UnchangedInv, Zenon DEF StartHash, HashPiece, MarkComplete, pieceVars, cleanVars,
     closeVars
<1>5. CASE PieceHashedGood(p) \/ PieceHashedBad(p)
  BY <1>5, UnchangedInv, Zenon DEF PieceHashedGood, PieceHashedBad, pieceVars, cleanVars,
     closeVars
<1>6. QED
  BY <1>1, <1>2, <1>3, <1>4, <1>5, Zenon

\* Every step of the cleaner keeps it (cleanPieces, getRemPieces, Release).
LEMMA CleanInv == Inv /\ Clean => Inv'
<1> SUFFICES ASSUME Inv, Clean PROVE Inv'
  OBVIOUS
<1> USE CacheAssumption DEF pieceVars, cleanVars, closeVars
<1>1. CASE CleanThrottled
  BY <1>1, UnchangedInv, Zenon DEF CleanThrottled
<1>2. CASE ScanStart
  BY <1>2, Zenon DEF ScanStart, Inv, Types, Releasing, Closing, BufferOwnership, Unlocked,
     CleanerPC
<1>3. ASSUME NEW p \in Pieces, ScanPiece(p) PROVE Inv'
  BY <1>3, Zenon DEF ScanPiece, Inv, Types, Releasing, Closing, BufferOwnership, Unlocked
<1>4. CASE ScanEnd
  BY <1>4, Zenon DEF ScanEnd, Inv, Types, Releasing, Closing, BufferOwnership, Unlocked,
     CleanerPC
<1>5. ASSUME NEW p \in Pieces, EvictNext(p) PROVE Inv'
  BY <1>5, Zenon DEF EvictNext, EvictedOne, Inv, Types, Releasing, Closing, BufferOwnership,
     Unlocked, CleanerPC
<1>6. CASE ReleaseLock
  <2>1. Unlocked(cur) /\ cur \in Pieces
    BY <1>6, Zenon DEF ReleaseLock, Inv, Releasing, Unlocked
  <2>2. Releasing'
    BY <1>6, <2>1, Zenon DEF ReleaseLock, Inv, Types, Releasing, BufferOwnership, Unlocked
  <2>3. Types' /\ Closing'
    BY <1>6, Zenon DEF ReleaseLock, Inv, Types, Closing, CleanerPC
  <2>4. BufferOwnership'
    BY <1>6, Zenon DEF ReleaseLock, Inv, BufferOwnership, Unlocked
  <2>5. QED
    BY <2>2, <2>3, <2>4, Zenon DEF Inv
<1>7. CASE putBuffer
  <2>1. free' \subseteq free \cup {buf[cur]}
    BY <1>7, Zenon DEF putBuffer
  <2>2. Types'
    BY <1>7, <2>1, Zenon DEF putBuffer, Inv, Types, Releasing, CleanerPC
  <2>3. Releasing'
    BY <1>7, Zenon DEF putBuffer, Inv, Releasing
  <2>4. Closing'
    BY <1>7, Zenon DEF putBuffer, Inv, Closing
  <2>5. BufferOwnership'
    BY <1>7, <2>1, Zenon DEF putBuffer, Inv, Types, BufferOwnership, Releasing, Unlocked
  <2>6. QED
    BY <2>2, <2>3, <2>4, <2>5, Zenon DEF Inv
<1>8. CASE ReleaseClear
  BY <1>8, Zenon DEF ReleaseClear, Emptied, Inv, Types, Releasing, Closing, BufferOwnership,
     Unlocked, CleanerPC
<1>9. CASE ReleaseEngine
  BY <1>9, Zenon DEF ReleaseEngine, EvictedOne, Inv, Types, Releasing, Closing,
     BufferOwnership, Unlocked, CleanerPC
<1>10. QED
  BY <1>1, <1>2, <1>3, <1>4, <1>5, <1>6, <1>7, <1>8, <1>9, Zenon DEF Clean

\* Every step of Cache.Close keeps it.
LEMMA CloseInv == Inv /\ Close => Inv'
<1> SUFFICES ASSUME Inv, Close PROVE Inv'
  OBVIOUS
<1> USE CacheAssumption DEF pieceVars, cleanVars
<1>1. CASE CloseBegin
  BY <1>1, Zenon DEF CloseBegin, Inv, Types, Releasing, Closing, BufferOwnership, Unlocked
<1>2. ASSUME NEW p \in Pieces, CloseDrop(p) PROVE Inv'
  BY <1>2, Zenon DEF CloseDrop, Emptied, Inv, Types, Releasing, Closing, BufferOwnership,
     Unlocked
<1>3. CASE CloseFree
  BY <1>3, Zenon DEF CloseFree, Inv, Types, Releasing, Closing, BufferOwnership, Unlocked
<1>4. QED
  BY <1>1, <1>2, <1>3, Zenon DEF Close

\* Readers never touch a buffer (ReadAt, MarkNotComplete, readOnceAt).
LEMMA ReadInv == Inv /\ Read => Inv'
BY UnchangedInv, Zenon DEF Read, ReaderAvail, ReadAt, MarkNotComplete, ReaderUpdate, ReaderIdle,
   pieceVars, cleanVars, closeVars

\* The strengthening is an invariant.
THEOREM CacheInvariant == Spec => []Inv
<1>1. Inv /\ [Next]_vars => Inv'
  <2> SUFFICES ASSUME Inv, [Next]_vars PROVE Inv'
    OBVIOUS
  <2>1. CASE \E w \in SUBSET Pieces : MoveWindow(w)
    BY <2>1, UnchangedInv, Zenon DEF MoveWindow, pieceVars, cleanVars, closeVars
  <2>2. CASE EngineClose
    BY <2>2, UnchangedInv, Zenon DEF EngineClose, pieceVars, cleanVars
  <2>3. CASE UNCHANGED vars
    BY <2>3, UnchangedInv, Zenon DEF vars, pieceVars, cleanVars, closeVars
  <2>4. QED
    BY <2>1, <2>2, <2>3, DownloadInv, CleanInv, CloseInv, ReadInv, Zenon DEF Next
<1>2. QED
  BY <1>1, InitInv, PTL DEF Spec

\* Pieces whose lock is free never share a buffer, and hold none that is on the
\* free list: WriteAt, MemPiece.Release and Cache.Close hand buffers on safely.
THEOREM BufferSafety == Spec => []BufferOwnership
<1>1. Inv => BufferOwnership
  BY Zenon DEF Inv
<1>2. QED
  BY <1>1, CacheInvariant, PTL

\* A closed cache's free list is empty and stays empty, whatever Release was
\* under way when Close began.
THEOREM CloseSafety == Spec => []ClosedFreeListEmpty
<1>1. Inv => ClosedFreeListEmpty
  BY Zenon DEF Inv, Closing, ClosedFreeListEmpty
<1>2. QED
  BY <1>1, CacheInvariant, PTL

-----------------------------------------------------------------------------
(* What the records of the storage and of the engine say of each other.    *)

Flags == BOOLEAN
Contents == [Chunks -> {"none", "good", "bad"}]
Writing == [Chunks -> {"no", "received", "written"}]
Hashing == {"no", "hashing", "passed", "failed", "marked"}
Scans == [ranges : SUBSET Pieces, todo : SUBSET Pieces, fill : Nat]
Reading == [pc : {"idle", "avail", "missed", "marked"}, piece : Pieces \cup {NoPiece}]

\* TypeOK, by the parts the steps change.
PieceTypes ==
    /\ buf \in [Pieces -> Buffers \cup {NoBuffer}] /\ data \in [Pieces -> Contents]
    /\ size \in [Pieces -> 0 .. PieceLength] /\ complete \in [Pieces -> Flags]
CleanTypes ==
    /\ free \subseteq Buffers /\ cleanTrigger \in Flags /\ window \subseteq Pieces
    /\ pc \in CleanerPC /\ scan \in Scans /\ cand \subseteq Pieces /\ rems \in Int
    /\ cur \in Pieces \cup {NoPiece}
CloseTypes ==
    /\ isClosed \in Flags /\ closer \in {"off", "drop", "done"} /\ toDrop \subseteq Pieces
    /\ engClosed \in Flags
EngineTypes ==
    /\ dirty \in [Pieces -> SUBSET Chunks] /\ wr \in [Pieces -> Writing]
    /\ queued \subseteq Pieces /\ hash \in [Pieces -> Hashing] /\ engDone \in [Pieces -> Flags]
    /\ writes \in 0 .. MaxWrites
ReaderTypes ==
    /\ rd \in [Readers -> Reading] /\ falseAlarm \in Flags /\ overtaken \in Flags
Typed == PieceTypes /\ CleanTypes /\ CloseTypes /\ EngineTypes /\ ReaderTypes

LEMMA TypeParts == TypeOK <=> Typed
BY Zenon DEF TypeOK, Typed, PieceTypes, CleanTypes, CloseTypes, EngineTypes, ReaderTypes, Flags,
   Contents, Writing, Hashing, Scans, Reading

\* The piece in the cleaner's or a reader's hand, and a piece without a buffer.
Hands ==
    /\ IF pc \in {"lock", "put", "clear", "engine"} THEN cur \in cand ELSE cur = NoPiece
    /\ isClosed => engClosed
    /\ \A p \in Pieces : buf[p] = NoBuffer => \A c \in Chunks : data[p][c] = "none"
    /\ \A r \in Readers : rd[r].pc # "idle" => rd[r].piece \in Pieces

\* The second half of RecordsAgree, of one piece.
AgreeAt(p) ==
    \/ engClosed
    \/ engDone[p] = complete[p]
    \/ cur = p
    \/ hash[p] \in {"failed", "marked"}
    \/ \E r \in Readers : rd[r].pc = "marked" /\ rd[r].piece = p

Ok == ~falseAlarm /\ ~overtaken

\* A candidate is complete until it has been released.
Evictable(p) == p \in cand => complete[p] \/ isClosed \/ (cur = p /\ pc = "engine")

\* The life of a piece: a download, a hash of exactly that download, complete.
Sound(p) ==
    /\ complete[p] => Whole(p)
    /\ p \in queued \/ hash[p] \in {"hashing", "passed", "failed"} =>
          dirty[p] = Chunks /\ NoPendingWrites(p) /\ ~engDone[p] /\ ~complete[p]
    /\ \A c \in Chunks : wr[p][c] # "no" =>
          c \in dirty[p] /\ ~engDone[p] /\ ~complete[p] /\ hash[p] = "no"
    /\ hash[p] # "no" => p \notin queued
    /\ hash[p] = "passed" => Whole(p) \/ isClosed
    /\ hash[p] = "marked" => (complete[p] \/ isClosed) /\ (engDone[p] \/ dirty[p] = Chunks)
    /\ complete[p] /\ ~engDone[p] /\ ~engClosed => hash[p] = "marked"
    /\ engDone[p] => dirty[p] = {}
    /\ \A c \in dirty[p] : wr[p][c] = "received" \/ data[p][c] # "none" \/ engClosed
    /\ Evictable(p)

RInv ==
    /\ Typed /\ Hands
    /\ \A p \in Pieces : AgreeAt(p)
    /\ Ok => \A p \in Pieces : Sound(p)

LEMMA InitRecords == Init => RInv
<1> SUFFICES ASSUME Init  PROVE RInv
  OBVIOUS
<1>0. PieceLength \in Nat
  BY CacheAssumption, FS_CardinalityType, Zenon DEF PieceLength
<1>1. PICK loaded \in SUBSET IndexPieces : \E b \in [Pieces -> Buffers \cup {NoBuffer}] :
            /\ \A p \in Pieces : b[p] = NoBuffer <=> p \notin loaded
            /\ buf = b
            /\ data = [p \in Pieces |-> [c \in Chunks |->
                          IF p \in loaded THEN "good" ELSE "none"]]
            /\ size = [p \in Pieces |-> IF p \in loaded THEN PieceLength ELSE 0]
            /\ complete = [p \in Pieces |-> p \in loaded]
            /\ engDone = [p \in Pieces |-> p \in loaded]
            /\ cleanTrigger = (loaded # {})
  BY Zenon DEF Init
<1>2. Typed
  <2>1. complete \in [Pieces -> Flags] /\ engDone \in [Pieces -> Flags] /\ cleanTrigger \in Flags
    BY <1>1 DEF Flags
  <2>2. buf \in [Pieces -> Buffers \cup {NoBuffer}] /\ data \in [Pieces -> Contents]
    BY <1>1 DEF Contents
  <2>3. size \in [Pieces -> 0 .. PieceLength]
    BY <1>0, <1>1
  <2>4. CleanTypes
    <3>1. pc \in CleanerPC  BY Zenon DEF Init, CleanerPC
    <3>2. scan \in Scans  BY Zenon DEF Init, Scans
    <3> QED  BY <2>1, <3>1, <3>2 DEF Init, CleanTypes
  <2>5. CloseTypes
    <3>1. isClosed \in Flags /\ engClosed \in Flags  BY Zenon DEF Init, Flags
    <3> QED  BY <3>1, Zenon DEF Init, CloseTypes
  <2>6. EngineTypes
    <3>1. wr \in [Pieces -> Writing]  BY Zenon DEF Init, Writing
    <3>2. hash \in [Pieces -> Hashing]  BY Zenon DEF Init, Hashing
    <3>3. writes \in 0 .. MaxWrites  BY CacheAssumption DEF Init
    <3> QED  BY <2>1, <3>1, <3>2, <3>3, Zenon DEF Init, EngineTypes
  <2>7. ReaderTypes
    <3>1. falseAlarm \in Flags /\ overtaken \in Flags  BY Zenon DEF Init, Flags
    <3>2. rd \in [Readers -> Reading]  BY Zenon DEF Init, Reading
    <3> QED  BY <3>1, <3>2, Zenon DEF ReaderTypes
  <2> QED  BY <2>1, <2>2, <2>3, <2>4, <2>5, <2>6, <2>7, Zenon DEF Typed, PieceTypes
<1>3. Hands
  BY <1>1 DEF Init, Hands
<1>4. \A p \in Pieces : AgreeAt(p)
  BY <1>1, Zenon DEF AgreeAt
<1>5. \A p \in Pieces : Sound(p)
  <2> SUFFICES ASSUME NEW p \in Pieces  PROVE Sound(p)
    OBVIOUS
  <2>1. complete[p] = (p \in loaded) /\ engDone[p] = (p \in loaded)
    BY <1>1, Zenon
  <2>2. complete[p] => Whole(p)
    <3>1. p \in loaded => \A c \in Chunks : data[p][c] = "good"
      BY <1>1
    <3> QED  BY <2>1, <3>1, Zenon DEF Whole
  <2>3. hash[p] = "no" /\ p \notin queued /\ dirty[p] = {} /\ p \notin cand
        /\ \A c \in Chunks : wr[p][c] = "no"
    BY Zenon DEF Init
  <2> QED  BY <2>1, <2>2, <2>3, Zenon DEF Sound, Evictable
<1> QED  BY <1>2, <1>3, <1>4, <1>5, Zenon DEF RInv

-----------------------------------------------------------------------------
(* Steps, by what they touch.                                              *)

\* Nothing the records say of the piece changes.
Same(p) ==
    /\ complete'[p] = complete[p] /\ data'[p] = data[p]
    /\ dirty'[p] = dirty[p] /\ wr'[p] = wr[p] /\ hash'[p] = hash[p] /\ engDone'[p] = engDone[p]
    /\ p \in queued' <=> p \in queued

\* Closing and the two mishaps are for good.
Forward == (isClosed => isClosed') /\ (engClosed => engClosed') /\ (Ok' => Ok)

LEMMA SameSound ==
  ASSUME NEW p \in Pieces, Sound(p), Same(p), Forward, Evictable(p)'
  PROVE  Sound(p)'
<1>1. (Whole(p)' <=> Whole(p)) /\ (NoPendingWrites(p)' <=> NoPendingWrites(p))
  BY Zenon DEF Same, Whole, NoPendingWrites
<1> QED  BY <1>1, Zenon DEF Sound, Same, Forward

LEMMA SameAgree ==
  ASSUME NEW p \in Pieces, AgreeAt(p), Same(p), Forward, cur = p => cur' = p,
         \A r \in Readers : rd[r].pc = "marked" => rd'[r] = rd[r]
  PROVE  AgreeAt(p)'
BY Zenon DEF AgreeAt, Same, Forward

\* A step of the engine on one piece.
LEMMA PieceStep ==
  ASSUME RInv, NEW x \in Pieces, Typed', Hands',
         UNCHANGED <<pc, cand, cur, isClosed, engClosed, rd, falseAlarm, overtaken>>,
         \A p \in Pieces : p # x => Same(p),
         AgreeAt(x)', Ok => Sound(x)'
  PROVE  RInv'
<1>1. Forward /\ (Ok' <=> Ok)
  BY Zenon DEF Forward, Ok
<1>2. \A p \in Pieces : AgreeAt(p)'
  BY <1>1, SameAgree, Zenon DEF RInv
<1>3. ASSUME Ok, NEW p \in Pieces, p # x  PROVE Sound(p)'
  <2>1. Sound(p) /\ Same(p)
    BY <1>3, Zenon DEF RInv
  <2>2. Evictable(p)'
    BY <2>1, Zenon DEF Sound, Evictable, Same
  <2> QED  BY <1>1, <2>1, <2>2, SameSound, Zenon
<1> QED  BY <1>1, <1>2, <1>3, Zenon DEF RInv

\* A step that leaves every piece alone.
LEMMA QuietStep ==
  ASSUME RInv, Typed', Hands', Forward, cur \in Pieces => cur' = cur,
         UNCHANGED <<complete, data, dirty, wr, hash, engDone, queued>>,
         \A r \in Readers : rd[r].pc = "marked" => rd'[r] = rd[r],
         \A p \in Pieces : Ok /\ Evictable(p) => Evictable(p)'
  PROVE  RInv'
<1>1. \A p \in Pieces : Same(p)
  BY Zenon DEF Same
<1>2. \A p \in Pieces : AgreeAt(p)'
  BY <1>1, SameAgree, Zenon DEF RInv
<1>3. ASSUME Ok', NEW p \in Pieces  PROVE Sound(p)'
  <2>1. Ok /\ Sound(p) /\ Evictable(p)
    BY <1>3, Zenon DEF Forward, RInv, Sound
  <2> QED  BY <1>1, <2>1, SameSound, Zenon
<1> QED  BY <1>2, <1>3, Zenon DEF RInv

-----------------------------------------------------------------------------
(* The engine.                                                             *)

\* The types of what the engine's steps leave alone.
LEMMA OtherTypes ==
  ASSUME RInv
  PROVE  /\ UNCHANGED <<free, cleanTrigger, window, cleanVars>> => CleanTypes'
         /\ UNCHANGED closeVars => CloseTypes'
         /\ UNCHANGED rdVars => ReaderTypes'
         /\ UNCHANGED pieceVars => PieceTypes'
         /\ UNCHANGED engVars => EngineTypes'
<1>1. UNCHANGED <<free, cleanTrigger, window, cleanVars>> => CleanTypes'
  BY Zenon DEF RInv, Typed, CleanTypes, cleanVars
<1>2. UNCHANGED closeVars => CloseTypes'
  BY Zenon DEF RInv, Typed, CloseTypes, closeVars
<1>3. UNCHANGED rdVars => ReaderTypes'
  BY Zenon DEF RInv, Typed, ReaderTypes, rdVars
<1>4. UNCHANGED pieceVars => PieceTypes'
  BY Zenon DEF RInv, Typed, PieceTypes, pieceVars
<1>5. UNCHANGED engVars => EngineTypes'
  BY Zenon DEF RInv, Typed, EngineTypes, engVars
<1> QED  BY <1>1, <1>2, <1>3, <1>4, <1>5, Zenon

LEMMA HandsStill ==
  ASSUME RInv, UNCHANGED <<buf, data, pc, cur, cand, isClosed, engClosed, rd>>
  PROVE  Hands'
BY Zenon DEF RInv, Hands

\* The marks of a chunk being written.
LEMMA WrOK ==
  ASSUME RInv, NEW x \in Pieces, NEW y \in Chunks, NEW v \in {"no", "received", "written"},
         wr' = [wr EXCEPT ![x][y] = v]
  PROVE  /\ wr' \in [Pieces -> Writing] /\ wr'[x][y] = v
         /\ \A c \in Chunks : c # y => wr'[x][c] = wr[x][c]
         /\ \A p \in Pieces : p # x => wr'[p] = wr[p]
<1>1. wr \in [Pieces -> Writing]
  BY Zenon DEF RInv, Typed, EngineTypes
<1>2. wr[x] \in Writing /\ wr'[x] = [wr[x] EXCEPT ![y] = v]
  BY <1>1, Zenon
<1>3. wr'[x] \in Writing /\ wr'[x][y] = v /\ \A c \in Chunks : c # y => wr'[x][c] = wr[x][c]
  BY <1>2, Zenon DEF Writing
<1> QED  BY <1>1, <1>3, Zenon

LEMMA ReceiveChunkRecords ==
  ASSUME RInv, NEW x \in Pieces, NEW y \in Chunks, ReceiveChunk(x, y)
  PROVE  RInv'
<1>1. /\ ~engClosed /\ ~engDone[x] /\ y \notin dirty[x] /\ writes' = writes + 1
      /\ writes < MaxWrites
      /\ UNCHANGED <<pieceVars, free, cleanTrigger, window, cleanVars, closeVars, queued, hash,
                     engDone, rdVars>>
  BY Zenon DEF ReceiveChunk, haveChunk
<1>2. UNCHANGED <<buf, data, complete, pc, cand, cur, isClosed, engClosed, rd, falseAlarm, overtaken>>
  BY <1>1, Zenon DEF pieceVars, cleanVars, closeVars, rdVars
<1>3. /\ wr' \in [Pieces -> Writing] /\ wr'[x][y] = "received"
      /\ \A c \in Chunks : c # y => wr'[x][c] = wr[x][c]
      /\ \A p \in Pieces : p # x => wr'[p] = wr[p]
  BY WrOK, Zenon DEF ReceiveChunk
<1>4. /\ dirty' \in [Pieces -> SUBSET Chunks] /\ dirty'[x] = dirty[x] \cup {y}
      /\ \A p \in Pieces : p # x => dirty'[p] = dirty[p]
  BY Zenon DEF ReceiveChunk, RInv, Typed, EngineTypes
<1>5. Typed'
  <2>1. writes' \in 0 .. MaxWrites
    BY <1>1, CacheAssumption DEF RInv, Typed, EngineTypes
  <2>2. EngineTypes'
    BY <1>1, <1>3, <1>4, <2>1, Zenon DEF RInv, Typed, EngineTypes
  <2> QED  BY <1>1, <2>2, OtherTypes, Zenon DEF Typed
<1>6. Hands'
  BY <1>2, HandsStill, Zenon
<1>7. AgreeAt(x)'
  BY <1>1, <1>2, Zenon DEF RInv, AgreeAt
<1>8. ASSUME Ok  PROVE Sound(x)'
  <2>1. Sound(x)
    BY <1>8, Zenon DEF RInv
  <2>2. x \notin queued /\ hash[x] \notin {"hashing", "passed", "failed"}
    BY <1>1, <2>1, Zenon DEF Sound
  <2>3. hash[x] # "marked" /\ ~complete[x]
    BY <1>1, <2>1, Zenon DEF Sound
  <2>4. hash[x] = "no"
    BY <2>2, <2>3, Zenon DEF RInv, Typed, EngineTypes, Hashing
  <2>5. Evictable(x)'
    BY <1>2, <2>1, Zenon DEF Sound, Evictable
  <2>6. \A c \in dirty'[x] : wr'[x][c] = "received" \/ data'[x][c] # "none" \/ engClosed'
    BY <1>2, <1>3, <1>4, <2>1 DEF Sound, RInv, Typed, EngineTypes
  <2>7. \A c \in Chunks : wr'[x][c] # "no" => c \in dirty'[x]
    BY <1>3, <1>4, <2>1, Zenon DEF Sound
  <2> QED  BY <1>1, <1>2, <2>2, <2>3, <2>4, <2>5, <2>6, <2>7, Zenon DEF Sound, Whole
<1>9. \A p \in Pieces : p # x => Same(p)
  BY <1>1, <1>2, <1>3, <1>4, Zenon DEF Same
<1> QED  BY <1>2, <1>5, <1>6, <1>7, <1>8, <1>9, PieceStep, Zenon

LEMMA WriteAtRecords ==
  ASSUME RInv, NEW x \in Pieces, NEW y \in Chunks, NEW d \in {"good", "bad"}, WriteAt(x, y, d)
  PROVE  RInv'
<1>1. /\ wr[x][y] = "received" /\ wr' = [wr EXCEPT ![x][y] = "written"]
      /\ UNCHANGED <<complete, window, cleanVars, closeVars, dirty, queued, hash, engDone,
                     writes, rdVars>>
  BY Zenon DEF WriteAt
<1>2. UNCHANGED <<pc, scan, cand, rems, cur, isClosed, engClosed, rd, falseAlarm, overtaken>>
  BY <1>1, Zenon DEF cleanVars, closeVars, rdVars
<1>3. /\ wr' \in [Pieces -> Writing] /\ wr'[x][y] = "written"
      /\ \A c \in Chunks : c # y => wr'[x][c] = wr[x][c]
      /\ \A p \in Pieces : p # x => wr'[p] = wr[p]
  BY <1>1, WrOK, Zenon
<1>4. /\ buf \in [Pieces -> Buffers \cup {NoBuffer}] /\ data \in [Pieces -> Contents]
      /\ size \in [Pieces -> 0 .. PieceLength] /\ free \subseteq Buffers /\ cleanTrigger \in Flags
      /\ data[x] \in Contents /\ size[x] \in 0 .. PieceLength
  BY Zenon DEF RInv, Typed, PieceTypes, CleanTypes
<1>5. /\ buf' \in [Pieces -> Buffers \cup {NoBuffer}] /\ buf'[x] # NoBuffer
      /\ \A p \in Pieces : p # x => buf'[p] = buf[p]
      /\ free' \subseteq Buffers /\ cleanTrigger' \in Flags
  <2>1. CASE buf[x] = NoBuffer
    <3>1. PICK b \in Buffers : getBuffer(b) /\ buf' = [buf EXCEPT ![x] = b]
      BY <2>1, Zenon DEF WriteAt
    <3>2. cleanTrigger' \in Flags
      BY <2>1, Zenon DEF WriteAt, Flags
    <3> QED  BY <1>4, <3>1, <3>2, CacheAssumption, Zenon DEF getBuffer
  <2>2. CASE buf[x] # NoBuffer
    BY <1>4, <2>2, Zenon DEF WriteAt
  <2> QED  BY <2>1, <2>2, Zenon
<1>6. /\ data' \in [Pieces -> Contents] /\ data'[x][y] = d
      /\ \A p \in Pieces : p # x => data'[p] = data[p]
      /\ \A c \in Chunks : c # y => data'[x][c] = data[x][c]
  <2>1. CASE buf[x] = NoBuffer
    <3>1. data' = [data EXCEPT ![x] = [Empty EXCEPT ![y] = d]]
      BY <2>1, Zenon DEF WriteAt
    <3>2. /\ [Empty EXCEPT ![y] = d] \in Contents /\ [Empty EXCEPT ![y] = d][y] = d
          /\ \A c \in Chunks : c # y => [Empty EXCEPT ![y] = d][c] = "none"
      BY Zenon DEF Empty, Contents
    <3>3. \A c \in Chunks : data[x][c] = "none"
      BY <2>1, Zenon DEF RInv, Hands
    <3> QED  BY <1>4, <3>1, <3>2, <3>3, Zenon
  <2>2. CASE buf[x] # NoBuffer
    <3>1. data' = [data EXCEPT ![x][y] = d]
      BY <2>2, Zenon DEF WriteAt
    <3>2. data'[x] = [data[x] EXCEPT ![y] = d] /\ \A p \in Pieces : p # x => data'[p] = data[p]
      BY <1>4, <3>1, Zenon
    <3>3. data'[x] \in Contents
      BY <1>4, <3>2, Zenon DEF Contents
    <3>4. data'[x][y] = d /\ \A c \in Chunks : c # y => data'[x][c] = data[x][c]
      BY <1>4, <3>2, Zenon DEF Contents
    <3> QED  BY <1>4, <3>1, <3>2, <3>3, <3>4, Zenon
  <2> QED  BY <2>1, <2>2, Zenon
<1>7. Typed'
  <2>1. size' \in [Pieces -> 0 .. PieceLength]
    <3>1. PieceLength \in Nat  BY CacheAssumption, FS_CardinalityType, Zenon DEF PieceLength
    <3>2. (IF size[x] < PieceLength THEN size[x] + 1 ELSE size[x]) \in 0 .. PieceLength
      BY <1>4, <3>1
    <3> QED  BY <1>4, <3>2, Zenon DEF WriteAt
  <2>2. PieceTypes'
    BY <1>1, <1>5, <1>6, <2>1, Zenon DEF RInv, Typed, PieceTypes
  <2>3. CleanTypes'
    BY <1>1, <1>2, <1>5, Zenon DEF RInv, Typed, CleanTypes
  <2>4. EngineTypes'
    BY <1>1, <1>3, Zenon DEF RInv, Typed, EngineTypes
  <2> QED  BY <1>1, <2>2, <2>3, <2>4, OtherTypes, Zenon DEF Typed
<1>8. Hands'
  BY <1>2, <1>5, <1>6 DEF RInv, Hands
<1>9. AgreeAt(x)'
  BY <1>1, <1>2, Zenon DEF RInv, AgreeAt
<1>10. ASSUME Ok  PROVE Sound(x)'
  <2>1. Sound(x)
    BY <1>10, Zenon DEF RInv
  <2>2. y \in dirty[x] /\ ~engDone[x] /\ ~complete[x] /\ hash[x] = "no"
    BY <1>1, <2>1, Zenon DEF Sound
  <2>3. x \notin queued
    BY <1>1, <2>1, Zenon DEF Sound, NoPendingWrites
  <2>4. Evictable(x)'
    BY <1>1, <1>2, <2>1, Zenon DEF Sound, Evictable
  <2>5. \A c \in dirty'[x] : wr'[x][c] = "received" \/ data'[x][c] # "none" \/ engClosed'
    <3>1. dirty[x] \subseteq Chunks  BY Zenon DEF RInv, Typed, EngineTypes
    <3> QED  BY <1>1, <1>2, <1>3, <1>6, <2>1, <3>1, ZenonT(60) DEF Sound
  <2>6. \A c \in Chunks : wr'[x][c] # "no" => c \in dirty'[x]
    BY <1>1, <1>3, <2>1, <2>2, Zenon DEF Sound
  <2> QED  BY <1>1, <1>2, <2>2, <2>3, <2>4, <2>5, <2>6, Zenon DEF Sound
<1>11. \A p \in Pieces : p # x => Same(p)
  BY <1>1, <1>3, <1>6, Zenon DEF Same
<1> QED  BY <1>2, <1>7, <1>8, <1>9, <1>10, <1>11, PieceStep, Zenon

LEMMA FinishChunkRecords ==
  ASSUME RInv, NEW x \in Pieces, NEW y \in Chunks, FinishChunk(x, y)
  PROVE  RInv'
<1>1. /\ wr[x][y] = "written" /\ wr' = [wr EXCEPT ![x][y] = "no"]
      /\ UNCHANGED <<pieceVars, free, cleanTrigger, window, cleanVars, closeVars, dirty, hash,
                     engDone, writes, rdVars>>
  BY Zenon DEF FinishChunk
<1>2. UNCHANGED <<buf, data, complete, pc, cand, cur, isClosed, engClosed, rd, falseAlarm, overtaken>>
  BY <1>1, Zenon DEF pieceVars, cleanVars, closeVars, rdVars
<1>3. /\ wr' \in [Pieces -> Writing] /\ wr'[x][y] = "no"
      /\ \A c \in Chunks : c # y => wr'[x][c] = wr[x][c]
      /\ \A p \in Pieces : p # x => wr'[p] = wr[p]
  BY <1>1, WrOK, Zenon
<1>4. /\ queued' \subseteq Pieces /\ \A p \in Pieces : p # x => (p \in queued' <=> p \in queued)
      /\ x \in queued' => x \in queued \/ (dirty[x] = Chunks /\ NoPendingWrites(x)')
  BY Zenon DEF FinishChunk, NoPendingWrites, RInv, Typed, EngineTypes
<1>5. Typed'
  <2>1. EngineTypes'
    BY <1>1, <1>3, <1>4, Zenon DEF RInv, Typed, EngineTypes
  <2> QED  BY <1>1, <2>1, OtherTypes, Zenon DEF Typed
<1>6. Hands'
  BY <1>2, HandsStill, Zenon
<1>7. AgreeAt(x)'
  BY <1>1, <1>2, Zenon DEF RInv, AgreeAt
<1>8. ASSUME Ok  PROVE Sound(x)'
  <2>1. Sound(x)
    BY <1>8, Zenon DEF RInv
  <2>2. y \in dirty[x] /\ ~engDone[x] /\ ~complete[x] /\ hash[x] = "no"
    BY <1>1, <2>1, Zenon DEF Sound
  <2>3. x \notin queued
    BY <1>1, <2>1, Zenon DEF Sound, NoPendingWrites
  <2>4. Evictable(x)'
    BY <1>1, <1>2, <2>1, Zenon DEF Sound, Evictable
  <2>5. \A c \in dirty'[x] : wr'[x][c] = "received" \/ data'[x][c] # "none" \/ engClosed'
    <3>1. dirty[x] \subseteq Chunks  BY Zenon DEF RInv, Typed, EngineTypes
    <3> QED  BY <1>1, <1>2, <1>3, <2>1, <3>1, Zenon DEF Sound
  <2>6. \A c \in Chunks : wr'[x][c] # "no" => c \in dirty'[x]
    BY <1>1, <1>3, <2>1, <2>2, Zenon DEF Sound
  <2> QED  BY <1>1, <1>2, <1>4, <2>2, <2>3, <2>4, <2>5, <2>6, Zenon DEF Sound
<1>9. \A p \in Pieces : p # x => Same(p)
  BY <1>1, <1>2, <1>3, <1>4, Zenon DEF Same
<1> QED  BY <1>2, <1>5, <1>6, <1>7, <1>8, <1>9, PieceStep, Zenon

\* Where a piece stands with its hasher.
LEMMA HashOK ==
  ASSUME RInv, NEW x \in Pieces, NEW h \in Hashing, hash' = [hash EXCEPT ![x] = h]
  PROVE  /\ hash' \in [Pieces -> Hashing] /\ hash'[x] = h
         /\ \A p \in Pieces : p # x => hash'[p] = hash[p]
BY Zenon DEF RInv, Typed, EngineTypes

LEMMA CompleteOK ==
  ASSUME RInv, NEW x \in Pieces, NEW v \in Flags, complete' = [complete EXCEPT ![x] = v]
  PROVE  /\ complete' \in [Pieces -> Flags] /\ complete'[x] = v
         /\ \A p \in Pieces : p # x => complete'[p] = complete[p]
BY Zenon DEF RInv, Typed, PieceTypes

LEMMA StartHashRecords ==
  ASSUME RInv, NEW x \in Pieces, StartHash(x)
  PROVE  RInv'
<1>1. /\ x \in queued /\ hash[x] = "no" /\ queued' = queued \ {x}
      /\ hash' = [hash EXCEPT ![x] = "hashing"]
      /\ UNCHANGED <<pieceVars, free, cleanTrigger, window, cleanVars, closeVars, dirty, wr,
                     engDone, writes, rdVars>>
  BY Zenon DEF StartHash
<1>2. UNCHANGED <<buf, data, complete, pc, cand, cur, isClosed, engClosed, rd, falseAlarm, overtaken>>
  BY <1>1, Zenon DEF pieceVars, cleanVars, closeVars, rdVars
<1>3. /\ hash' \in [Pieces -> Hashing] /\ hash'[x] = "hashing"
      /\ \A p \in Pieces : p # x => hash'[p] = hash[p]
  <2>1. "hashing" \in Hashing  BY Zenon DEF Hashing
  <2> QED  BY <1>1, <2>1, HashOK, Zenon
<1>4. Typed'
  <2>1. EngineTypes'
    BY <1>1, <1>3, Zenon DEF RInv, Typed, EngineTypes
  <2> QED  BY <1>1, <2>1, OtherTypes, Zenon DEF Typed
<1>5. Hands'
  BY <1>2, HandsStill, Zenon
<1>6. AgreeAt(x)'
  BY <1>1, <1>2, Zenon DEF RInv, AgreeAt
<1>7. ASSUME Ok  PROVE Sound(x)'
  <2>1. Sound(x)
    BY <1>7, Zenon DEF RInv
  <2>2. dirty[x] = Chunks /\ NoPendingWrites(x) /\ ~engDone[x] /\ ~complete[x]
    BY <1>1, <2>1, Zenon DEF Sound
  <2>3. NoPendingWrites(x)'
    BY <1>1, <2>2, Zenon DEF NoPendingWrites
  <2>4. Evictable(x)'
    BY <1>1, <1>2, <2>1, Zenon DEF Sound, Evictable
  <2>5. \A c \in dirty'[x] : wr'[x][c] = "received" \/ data'[x][c] # "none" \/ engClosed'
    BY <1>1, <1>2, <2>1, Zenon DEF Sound
  <2> QED  BY <1>1, <1>2, <1>3, <2>2, <2>3, <2>4, <2>5, Zenon DEF Sound, NoPendingWrites
<1>8. \A p \in Pieces : p # x => Same(p)
  BY <1>1, <1>2, <1>3, Zenon DEF Same
<1> QED  BY <1>2, <1>4, <1>5, <1>6, <1>7, <1>8, PieceStep, Zenon

\* What updatePieceCompletion leaves in the engine's records.
LEMMA UpdatedOK ==
  ASSUME RInv, NEW x \in Pieces, NEW comp \in Flags, NEW drt \in SUBSET Chunks,
         CompletionUpdated(x, comp, drt)
  PROVE  /\ engDone' \in [Pieces -> Flags] /\ engDone'[x] = comp
         /\ dirty' \in [Pieces -> SUBSET Chunks]
         /\ dirty'[x] = IF comp # engDone[x] /\ (comp \/ drt = Chunks) THEN {} ELSE drt
         /\ \A p \in Pieces : p # x => engDone'[p] = engDone[p] /\ dirty'[p] = dirty[p]
<1>1. engDone \in [Pieces -> Flags] /\ dirty \in [Pieces -> SUBSET Chunks]
  BY Zenon DEF RInv, Typed, EngineTypes
<1>2. /\ engDone' \in [Pieces -> Flags] /\ engDone'[x] = comp
      /\ \A p \in Pieces : p # x => engDone'[p] = engDone[p]
  BY <1>1, Zenon DEF CompletionUpdated
<1>3. /\ dirty' \in [Pieces -> SUBSET Chunks]
      /\ dirty'[x] = IF comp # engDone[x] /\ (comp \/ drt = Chunks) THEN {} ELSE drt
      /\ \A p \in Pieces : p # x => dirty'[p] = dirty[p]
  BY <1>1, Zenon DEF CompletionUpdated
<1> QED  BY <1>2, <1>3, Zenon

LEMMA HashPieceRecords ==
  ASSUME RInv, NEW x \in Pieces, HashPiece(x)
  PROVE  RInv'
<1> DEFINE h == IF Whole(x) THEN "passed" ELSE "failed"
           v == complete[x] /\ buf[x] # NoBuffer
<1>1. /\ hash[x] = "hashing" /\ NoPendingWrites(x)
      /\ hash' = [hash EXCEPT ![x] = h]
      /\ UNCHANGED <<buf, data, size, free, cleanTrigger, window, cleanVars,
                     closeVars, dirty, wr, queued, engDone, writes, rdVars>>
  BY Zenon DEF HashPiece
<1>2. UNCHANGED <<pc, cand, cur, isClosed, engClosed, rd, falseAlarm, overtaken>>
  BY <1>1, Zenon DEF cleanVars, closeVars, rdVars
<1>3. /\ hash' \in [Pieces -> Hashing] /\ hash'[x] = h
      /\ \A p \in Pieces : p # x => hash'[p] = hash[p]
  <2>1. h \in Hashing  BY Zenon DEF Hashing
  <2> QED  BY <1>1, <2>1, HashOK, Zenon
<1>4. /\ complete' \in [Pieces -> Flags] /\ complete'[x] = v
      /\ \A p \in Pieces : p # x => complete'[p] = complete[p]
  <2>1. v \in Flags  BY Zenon DEF Flags
  <2>2. complete' = [complete EXCEPT ![x] = v]
    BY Zenon DEF HashPiece, RInv, Typed, PieceTypes
  <2> HIDE DEF v
  <2> QED  BY <2>1, <2>2, CompleteOK, Zenon
<1>5. Typed'
  <2>1. EngineTypes'
    BY <1>1, <1>3, Zenon DEF RInv, Typed, EngineTypes
  <2>2. PieceTypes'
    BY <1>1, <1>4, Zenon DEF RInv, Typed, PieceTypes
  <2> QED  BY <1>1, <2>1, <2>2, OtherTypes, Zenon DEF Typed
<1>6. Hands'
  BY <1>1, <1>2, HandsStill, Zenon
<1>7. AgreeAt(x)'
  <2>1. CASE buf[x] = NoBuffer
    <3>1. ~Whole(x)
      BY <2>1, CacheAssumption, Zenon DEF Whole, RInv, Hands
    <3> QED  BY <1>3, <3>1, Zenon DEF AgreeAt
  <2>2. CASE buf[x] # NoBuffer
    <3>1. complete'[x] = complete[x]
      BY <1>4, <2>2, Zenon DEF RInv, Typed, PieceTypes, Flags
    <3> QED  BY <1>1, <1>2, <3>1, Zenon DEF RInv, AgreeAt
  <2> QED  BY <2>1, <2>2, Zenon
<1>8. ASSUME Ok  PROVE Sound(x)'
  <2>1. Sound(x)
    BY <1>8, Zenon DEF RInv
  <2>2. dirty[x] = Chunks /\ ~engDone[x] /\ ~complete[x] /\ x \notin queued
    BY <1>1, <2>1, Zenon DEF Sound
  <2>3. NoPendingWrites(x)' /\ (Whole(x)' <=> Whole(x)) /\ ~complete'[x]
    BY <1>1, <1>4, <2>2, Zenon DEF NoPendingWrites, Whole
  <2>4. Evictable(x)'
    BY <1>2, <2>1, <2>2, <2>3, Zenon DEF Sound, Evictable
  <2>5. \A c \in dirty'[x] : wr'[x][c] = "received" \/ data'[x][c] # "none" \/ engClosed'
    BY <1>1, <1>2, <2>1, Zenon DEF Sound
  <2>6. hash'[x] = "passed" => Whole(x)'
    BY <1>3, <2>3, Zenon
  <2>7. hash'[x] \in {"passed", "failed"}
    BY <1>3, Zenon
  <2> QED  BY <1>1, <2>2, <2>3, <2>4, <2>5, <2>6, <2>7, Zenon DEF Sound, NoPendingWrites
<1>9. \A p \in Pieces : p # x => Same(p)
  BY <1>1, <1>3, <1>4, Zenon DEF Same
<1> QED  BY <1>2, <1>5, <1>6, <1>7, <1>8, <1>9, PieceStep, Zenon

LEMMA MarkCompleteRecords ==
  ASSUME RInv, NEW x \in Pieces, MarkComplete(x)
  PROVE  RInv'
<1>1. /\ hash[x] = "passed"
      /\ UNCHANGED <<buf, data, size, free, cleanTrigger, window, cleanVars,
                     closeVars, dirty, wr, queued, engDone, writes, rdVars>>
  BY Zenon DEF MarkComplete
<1>2. UNCHANGED <<pc, cand, cur, isClosed, engClosed, rd, falseAlarm, overtaken>>
  BY <1>1, Zenon DEF cleanVars, closeVars, rdVars
<1>3. /\ hash' \in [Pieces -> Hashing] /\ hash'[x] = (IF engClosed THEN "no" ELSE "marked")
      /\ \A p \in Pieces : p # x => hash'[p] = hash[p]
  <2>1. "no" \in Hashing /\ "marked" \in Hashing  BY Zenon DEF Hashing
  <2> QED  BY <2>1, HashOK, Zenon DEF MarkComplete
<1>4. /\ complete' \in [Pieces -> Flags] /\ (engClosed => complete'[x] = complete[x])
      /\ (~engClosed => complete'[x])
      /\ \A p \in Pieces : p # x => complete'[p] = complete[p]
  <2>1. TRUE \in Flags  BY Zenon DEF Flags
  <2> QED  BY <2>1, CompleteOK, Zenon DEF MarkComplete, RInv, Typed, PieceTypes
<1>5. Typed'
  <2>1. EngineTypes'
    BY <1>1, <1>3, Zenon DEF RInv, Typed, EngineTypes
  <2>2. PieceTypes'
    BY <1>1, <1>4, Zenon DEF RInv, Typed, PieceTypes
  <2> QED  BY <1>1, <2>1, <2>2, OtherTypes, Zenon DEF Typed
<1>6. Hands'
  BY <1>1, <1>2, HandsStill, Zenon
<1>7. AgreeAt(x)'
  BY <1>2, <1>3, Zenon DEF AgreeAt
<1>8. ASSUME Ok  PROVE Sound(x)'
  <2>1. Sound(x)
    BY <1>8, Zenon DEF RInv
  <2>2. dirty[x] = Chunks /\ NoPendingWrites(x) /\ ~engDone[x] /\ ~complete[x] /\ x \notin queued
    BY <1>1, <2>1, Zenon DEF Sound
  <2>3. NoPendingWrites(x)' /\ (Whole(x)' <=> Whole(x))
    BY <1>1, <2>2, Zenon DEF NoPendingWrites, Whole
  <2>4. ~engClosed => Whole(x)
    BY <1>1, <2>1, Zenon DEF Sound, RInv, Hands
  <2>5. Evictable(x)'
    BY <1>2, <1>4, <2>1, <2>2, Zenon DEF Sound, Evictable
  <2>6. \A c \in dirty'[x] : wr'[x][c] = "received" \/ data'[x][c] # "none" \/ engClosed'
    BY <1>1, <1>2, <2>1, Zenon DEF Sound
  <2>7. hash'[x] \in {"no", "marked"} /\ (engClosed => hash'[x] = "no") /\ (~engClosed => hash'[x] = "marked")
    BY <1>3, Zenon
  <2> QED  BY <1>1, <1>2, <1>4, <2>2, <2>3, <2>4, <2>5, <2>6, <2>7, Zenon DEF Sound,
              NoPendingWrites
<1>9. \A p \in Pieces : p # x => Same(p)
  BY <1>1, <1>3, <1>4, Zenon DEF Same
<1> QED  BY <1>2, <1>5, <1>6, <1>7, <1>8, <1>9, PieceStep, Zenon

LEMMA PieceHashedGoodRecords ==
  ASSUME RInv, NEW x \in Pieces, PieceHashedGood(x)
  PROVE  RInv'
<1>1. /\ hash[x] = "marked" /\ hash' = [hash EXCEPT ![x] = "no"]
      /\ UNCHANGED <<pieceVars, free, cleanTrigger, window, cleanVars, closeVars,
                     wr, queued, writes, rdVars>>
  BY Zenon DEF PieceHashedGood
<1>2. UNCHANGED <<buf, data, complete, pc, cand, cur, isClosed, engClosed, rd, falseAlarm, overtaken>>
  BY <1>1, Zenon DEF pieceVars, cleanVars, closeVars, rdVars
<1>3. /\ hash' \in [Pieces -> Hashing] /\ hash'[x] = "no"
      /\ \A p \in Pieces : p # x => hash'[p] = hash[p]
  <2>1. "no" \in Hashing  BY Zenon DEF Hashing
  <2> QED  BY <1>1, <2>1, HashOK, Zenon
<1>4. complete[x] \in Flags  BY Zenon DEF RInv, Typed, PieceTypes
<1>5. /\ engDone' \in [Pieces -> Flags] /\ dirty' \in [Pieces -> SUBSET Chunks]
      /\ engClosed => engDone'[x] = engDone[x] /\ dirty'[x] = dirty[x]
      /\ ~engClosed => engDone'[x] = complete[x] /\ dirty'[x] = {}
      /\ \A p \in Pieces : p # x => engDone'[p] = engDone[p] /\ dirty'[p] = dirty[p]
  <2>1. CASE engClosed
    BY <2>1, Zenon DEF PieceHashedGood, RInv, Typed, EngineTypes
  <2>2. CASE ~engClosed
    <3>1. CompletionUpdated(x, complete[x], {})
      BY <2>2, Zenon DEF PieceHashedGood
    <3> QED  BY <1>4, <2>2, <3>1, UpdatedOK
  <2> QED  BY <2>1, <2>2, Zenon
<1>6. Typed'
  <2>1. EngineTypes'
    BY <1>1, <1>3, <1>5, Zenon DEF RInv, Typed, EngineTypes
  <2> QED  BY <1>1, <2>1, OtherTypes, Zenon DEF Typed
<1>7. Hands'
  BY <1>2, HandsStill, Zenon
<1>8. AgreeAt(x)'
  BY <1>2, <1>5, Zenon DEF AgreeAt
<1>9. ASSUME Ok  PROVE Sound(x)'
  <2>1. Sound(x)
    BY <1>9, Zenon DEF RInv
  <2>2. x \notin queued /\ \A c \in Chunks : wr[x][c] = "no"
    BY <1>1, <2>1, Zenon DEF Sound
  <2>3. engClosed \/ complete[x]
    BY <1>1, <2>1, Zenon DEF Sound, RInv, Hands
  <2>4. Whole(x)' <=> Whole(x)
    BY <1>2, Zenon DEF Whole
  <2>5. Evictable(x)'
    BY <1>2, <2>1, Zenon DEF Sound, Evictable
  <2>6. CASE engClosed
    BY <1>1, <1>2, <1>3, <1>5, <2>1, <2>2, <2>4, <2>5, <2>6, Zenon DEF Sound
  <2>7. CASE ~engClosed
    BY <1>1, <1>2, <1>3, <1>5, <2>1, <2>2, <2>3, <2>4, <2>5, <2>7, Zenon DEF Sound
  <2> QED  BY <2>6, <2>7, Zenon
<1>10. \A p \in Pieces : p # x => Same(p)
  BY <1>1, <1>2, <1>3, <1>5, Zenon DEF Same
<1> QED  BY <1>2, <1>6, <1>7, <1>8, <1>9, <1>10, PieceStep, Zenon

LEMMA PieceHashedBadRecords ==
  ASSUME RInv, NEW x \in Pieces, PieceHashedBad(x)
  PROVE  RInv'
<1>1. /\ hash[x] = "failed" /\ hash' = [hash EXCEPT ![x] = "no"]
      /\ UNCHANGED <<buf, data, size, free, cleanTrigger, window, cleanVars,
                     closeVars, wr, queued, writes, rdVars>>
  BY Zenon DEF PieceHashedBad
<1>2. UNCHANGED <<pc, cand, cur, isClosed, engClosed, rd, falseAlarm, overtaken>>
  BY <1>1, Zenon DEF cleanVars, closeVars, rdVars
<1>3. /\ hash' \in [Pieces -> Hashing] /\ hash'[x] = "no"
      /\ \A p \in Pieces : p # x => hash'[p] = hash[p]
  <2>1. "no" \in Hashing  BY Zenon DEF Hashing
  <2> QED  BY <1>1, <2>1, HashOK, Zenon
<1>4. FALSE \in Flags /\ dirty[x] \subseteq Chunks
  BY Zenon DEF Flags, RInv, Typed, EngineTypes
<1>5. /\ complete' \in [Pieces -> Flags] /\ (engClosed => complete'[x] = complete[x])
      /\ (~engClosed => ~complete'[x])
      /\ \A p \in Pieces : p # x => complete'[p] = complete[p]
  BY <1>4, CompleteOK, Zenon DEF PieceHashedBad, RInv, Typed, PieceTypes
<1>6. /\ engDone' \in [Pieces -> Flags] /\ dirty' \in [Pieces -> SUBSET Chunks]
      /\ engClosed => engDone'[x] = engDone[x] /\ dirty'[x] = dirty[x]
      /\ ~engClosed => ~engDone'[x] /\ (dirty[x] = Chunks => dirty'[x] = {})
      /\ \A p \in Pieces : p # x => engDone'[p] = engDone[p] /\ dirty'[p] = dirty[p]
  <2>1. CASE engClosed
    BY <2>1, Zenon DEF PieceHashedBad, RInv, Typed, EngineTypes
  <2>2. CASE ~engClosed
    <3> DEFINE drt == IF dirty[x] = Chunks THEN {} ELSE dirty[x]
    <3>1. CompletionUpdated(x, FALSE, drt)
      BY <2>2, Zenon DEF PieceHashedBad
    <3>2. drt \in SUBSET Chunks  BY <1>4, Zenon
    <3>3. /\ engDone' \in [Pieces -> Flags] /\ engDone'[x] = FALSE
          /\ dirty' \in [Pieces -> SUBSET Chunks]
          /\ dirty'[x] \in {drt, {}}
          /\ \A p \in Pieces : p # x => engDone'[p] = engDone[p] /\ dirty'[p] = dirty[p]
      <4> HIDE DEF drt
      <4> QED  BY <1>4, <3>1, <3>2, UpdatedOK, ZenonT(60)
    <3> QED  BY <2>2, <3>3, Zenon
  <2> QED  BY <2>1, <2>2, Zenon
<1>7. Typed'
  <2>1. EngineTypes'
    BY <1>1, <1>3, <1>6, Zenon DEF RInv, Typed, EngineTypes
  <2>2. PieceTypes'
    BY <1>1, <1>5, Zenon DEF RInv, Typed, PieceTypes
  <2> QED  BY <1>1, <2>1, <2>2, OtherTypes, Zenon DEF Typed
<1>8. Hands'
  BY <1>1, <1>2, HandsStill, Zenon
<1>9. AgreeAt(x)'
  <2>1. ~engClosed => engDone'[x] = complete'[x]
    BY <1>4, <1>5, <1>6, Zenon DEF Flags
  <2> QED  BY <1>2, <2>1, Zenon DEF AgreeAt
<1>10. ASSUME Ok  PROVE Sound(x)'
  <2>1. Sound(x)
    BY <1>10, Zenon DEF RInv
  <2>2. dirty[x] = Chunks /\ ~engDone[x] /\ ~complete[x] /\ x \notin queued
        /\ \A c \in Chunks : wr[x][c] = "no"
    BY <1>1, <2>1, Zenon DEF Sound, NoPendingWrites
  <2>3. Evictable(x)'
    BY <1>2, <1>5, <2>1, <2>2, Zenon DEF Sound, Evictable
  <2>4. ~complete'[x] /\ ~engDone'[x]
    BY <1>5, <1>6, <2>2, Zenon
  <2>5. \A c \in dirty'[x] : wr'[x][c] = "received" \/ data'[x][c] # "none" \/ engClosed'
    BY <1>1, <1>2, <1>6, <2>1, <2>2, Zenon DEF Sound
  <2> QED  BY <1>1, <1>3, <2>2, <2>3, <2>4, <2>5, Zenon DEF Sound
<1>11. \A p \in Pieces : p # x => Same(p)
  BY <1>1, <1>3, <1>5, <1>6, Zenon DEF Same
<1> QED  BY <1>2, <1>7, <1>8, <1>9, <1>10, <1>11, PieceStep, Zenon

-----------------------------------------------------------------------------
(* The cleaner.                                                            *)

LEMMA PieceLengthOK == PieceLength \in Nat /\ PieceLength > 0
<1>1. PieceLength \in Nat
  BY CacheAssumption, FS_CardinalityType, Zenon DEF PieceLength
<1>2. PieceLength # 0
  BY CacheAssumption, FS_EmptySet, Zenon DEF PieceLength
<1> QED  BY <1>1, <1>2

LEMMA ScanRecords ==
  ASSUME RInv, CleanThrottled \/ ScanStart \/ (\E p \in Pieces : ScanPiece(p)) \/ ScanEnd
  PROVE  RInv'
<1>1. /\ UNCHANGED <<pieceVars, free, window, closeVars, engVars, rdVars>>
      /\ pc \in {"idle", "scan"} /\ pc' \in {"idle", "scan", "evict"} /\ cur' = cur
  BY Zenon DEF CleanThrottled, ScanStart, ScanPiece, ScanEnd, cleanVars
<1>2. UNCHANGED <<complete, data, buf, dirty, wr, hash, engDone, queued, isClosed, engClosed, rd,
                  falseAlarm, overtaken>>
  BY <1>1, Zenon DEF pieceVars, engVars, closeVars, rdVars
<1>3. /\ scan \in Scans /\ cleanTrigger \in Flags /\ window \subseteq Pieces /\ cand \subseteq Pieces
      /\ rems \in Int /\ free \subseteq Buffers /\ size \in [Pieces -> 0 .. PieceLength]
  BY Zenon DEF RInv, Typed, CleanTypes, PieceTypes
<1>4. cleanTrigger' \in Flags /\ pc' \in CleanerPC
  <2>1. pc' \in CleanerPC  BY <1>1, Zenon DEF CleanerPC
  <2>2. cleanTrigger' \in Flags
    BY <1>3, Zenon DEF CleanThrottled, ScanStart, ScanPiece, ScanEnd, Flags
  <2> QED  BY <2>1, <2>2, Zenon
<1>5. /\ cand' \subseteq Pieces
      /\ \A p \in Pieces : p \in cand' => p \in cand \/ complete[p]
  BY <1>3, Zenon DEF CleanThrottled, ScanStart, ScanPiece, ScanEnd, cleanVars, pieceEvictable
<1>6. scan' \in Scans
  <2>1. CASE ScanStart
    BY <1>3, <2>1, Zenon DEF ScanStart, Scans
  <2>2. ASSUME NEW p \in Pieces, ScanPiece(p)  PROVE scan' \in Scans
    <3>1. scan.todo \ {p} \in SUBSET Pieces /\ scan.ranges \in SUBSET Pieces
      BY <1>3, Zenon DEF Scans
    <3>2. scan.fill \in Nat  BY <1>3, Zenon DEF Scans
    <3>3. scan.fill + size[p] \in Nat  BY <1>3, <3>2, PieceLengthOK
    <3>4. scan' = [ranges |-> scan.ranges, todo |-> scan.todo \ {p}, fill |-> scan.fill + size[p]]
      BY <1>3, <2>2, Zenon DEF ScanPiece, Scans
    <3> QED  BY <3>1, <3>3, <3>4, Zenon DEF Scans
  <2>3. CASE CleanThrottled \/ ScanEnd
    BY <1>3, <2>3, Zenon DEF CleanThrottled, ScanEnd, cleanVars
  <2> QED  BY <2>1, <2>2, <2>3, Zenon
<1>7. rems' \in Int
  <2>1. CASE ScanEnd
    <3>1. scan.fill \in Nat  BY <1>3, Zenon DEF Scans
    <3>2. (scan.fill - Capacity) \div PieceLength + 1 \in Int
      BY <3>1, PieceLengthOK, CacheAssumption
    <3> QED  BY <1>3, <2>1, <3>2, Zenon DEF ScanEnd
  <2>2. CASE CleanThrottled \/ ScanStart \/ (\E p \in Pieces : ScanPiece(p))
    BY <1>3, <2>2, Zenon DEF CleanThrottled, ScanStart, ScanPiece, cleanVars
  <2> QED  BY <2>1, <2>2, Zenon
<1>8. Typed'
  <2>1. CleanTypes'
    BY <1>1, <1>3, <1>4, <1>5, <1>6, <1>7, Zenon DEF CleanTypes, RInv, Typed
  <2> QED  BY <1>1, <2>1, OtherTypes, Zenon DEF Typed
<1>9. Hands'
  BY <1>1, <1>2, Zenon DEF RInv, Hands
<1>10. Forward
  BY <1>2, Zenon DEF Forward, Ok
<1>11. \A p \in Pieces : Evictable(p) => Evictable(p)'
  BY <1>1, <1>2, <1>5, Zenon DEF Evictable
<1> QED  BY <1>1, <1>2, <1>8, <1>9, <1>10, <1>11, QuietStep, Zenon

LEMMA EvictNextRecords ==
  ASSUME RInv, NEW x \in Pieces, EvictNext(x)
  PROVE  RInv'
<1>1. /\ UNCHANGED <<pieceVars, free, cleanTrigger, window, scan, closeVars, engVars, rdVars>>
      /\ pc = "evict" /\ x \in cand
  BY Zenon DEF EvictNext
<1>2. UNCHANGED <<complete, data, buf, dirty, wr, hash, engDone, queued, isClosed, engClosed, rd,
                  falseAlarm, overtaken>>
  BY <1>1, Zenon DEF pieceVars, engVars, closeVars, rdVars
<1>3. /\ cand' \subseteq cand /\ rems' \in Int /\ cur' \in Pieces \cup {NoPiece}
      /\ \/ pc' \in {"idle", "evict"} /\ cur' = NoPiece
         \/ pc' = "lock" /\ cur' \in cand'
  <2>1. CASE EvictedOne(x)
    <3>1. rems - 1 \in Int  BY DEF RInv, Typed, CleanTypes
    <3> QED  BY <2>1, <3>1, Zenon DEF EvictedOne
  <2>2. CASE pc' = "lock" /\ cur' = x /\ UNCHANGED <<cand, rems>>
    BY <1>1, <2>2, Zenon DEF RInv, Typed, CleanTypes
  <2> QED  BY <2>1, <2>2, Zenon DEF EvictNext
<1>4. Typed'
  <2>1. pc' \in CleanerPC  BY <1>3, Zenon DEF CleanerPC
  <2>2. CleanTypes'
    BY <1>1, <1>3, <2>1, Zenon DEF CleanTypes, RInv, Typed
  <2> QED  BY <1>1, <2>2, OtherTypes, Zenon DEF Typed
<1>5. Hands'
  BY <1>1, <1>2, <1>3, Zenon DEF RInv, Hands
<1>6. Forward
  BY <1>2, Zenon DEF Forward, Ok
<1>7. cur = NoPiece /\ cur \notin Pieces
  BY <1>1, CacheAssumption, Zenon DEF RInv, Hands
<1>8. \A p \in Pieces : Evictable(p) => Evictable(p)'
  BY <1>1, <1>2, <1>3, Zenon DEF Evictable
<1> QED  BY <1>2, <1>4, <1>5, <1>6, <1>7, <1>8, QuietStep, Zenon

LEMMA ReleaseLockRecords ==
  ASSUME Inv, RInv, ReleaseLock \/ putBuffer
  PROVE  RInv'
<1>1. /\ UNCHANGED <<pieceVars, cleanTrigger, window, scan, cand, rems, cur, closeVars, engVars, rdVars>>
      /\ pc \in {"lock", "put"} /\ pc' \in {"put", "clear"}
  BY Zenon DEF ReleaseLock, putBuffer
<1>2. UNCHANGED <<complete, data, buf, dirty, wr, hash, engDone, queued, isClosed, engClosed, rd,
                  falseAlarm, overtaken>>
  BY <1>1, Zenon DEF pieceVars, engVars, closeVars, rdVars
<1>3. cur \in cand /\ cur \in Pieces
  BY <1>1, Zenon DEF RInv, Hands, Typed, CleanTypes
<1>4. free' \subseteq Buffers
  BY Zenon DEF Inv, Types, Releasing, ReleaseLock, putBuffer
<1>5. Hands'
  BY <1>1, <1>2, <1>3, Zenon DEF RInv, Hands
<1>6. Forward
  BY <1>2, Zenon DEF Forward, Ok
<1>7. \A p \in Pieces : Evictable(p) => Evictable(p)'
  BY <1>1, <1>2, Zenon DEF Evictable
<1>8. Typed'
  <2>1. pc' \in CleanerPC  BY <1>1, Zenon DEF CleanerPC
  <2>2. CleanTypes'
    BY <1>1, <1>4, <2>1, Zenon DEF CleanTypes, RInv, Typed
  <2> QED  BY <1>1, <2>2, OtherTypes, Zenon DEF Typed
<1> QED  BY <1>1, <1>2, <1>5, <1>6, <1>7, <1>8, QuietStep, Zenon

\* A piece that Release or Close empties: nothing is left to disagree about.
LEMMA EmptiedOK ==
  ASSUME RInv, NEW x \in Pieces, Emptied(x)
  PROVE  /\ PieceTypes' /\ ~complete'[x]
         /\ \A p \in Pieces : p # x =>
               buf'[p] = buf[p] /\ data'[p] = data[p] /\ complete'[p] = complete[p]
         /\ \A c \in Chunks : data'[x][c] = "none"
<1>1. /\ buf \in [Pieces -> Buffers \cup {NoBuffer}] /\ data \in [Pieces -> Contents]
      /\ size \in [Pieces -> 0 .. PieceLength]
  BY Zenon DEF RInv, Typed, PieceTypes
<1>2. /\ complete' \in [Pieces -> Flags] /\ complete'[x] = FALSE
      /\ \A p \in Pieces : p # x => complete'[p] = complete[p]
  <2>1. FALSE \in Flags  BY Zenon DEF Flags
  <2> QED  BY <2>1, CompleteOK, Zenon DEF Emptied
<1>3. Empty \in Contents /\ \A c \in Chunks : Empty[c] = "none"
  BY Zenon DEF Empty, Contents
<1>4. /\ data' \in [Pieces -> Contents] /\ data'[x] = Empty
      /\ \A p \in Pieces : p # x => data'[p] = data[p]
  BY <1>1, <1>3, Zenon DEF Emptied
<1>5. size' \in [Pieces -> 0 .. PieceLength]
  BY <1>1, PieceLengthOK DEF Emptied
<1>6. /\ buf' \in [Pieces -> Buffers \cup {NoBuffer}]
      /\ \A p \in Pieces : p # x => buf'[p] = buf[p]
  BY <1>1, Zenon DEF Emptied
<1> QED  BY <1>2, <1>3, <1>4, <1>5, <1>6, Zenon DEF PieceTypes

\* MemPiece.Release of a complete piece: the engine has no chunks of it to lose.
LEMMA ReleaseClearRecords ==
  ASSUME RInv, ReleaseClear
  PROVE  RInv'
<1>1. /\ pc = "clear" /\ pc' = "engine" /\ Emptied(cur)
      /\ overtaken' = (overtaken \/ hash[cur] = "marked")
      /\ UNCHANGED <<free, cleanTrigger, window, scan, cand, rems, cur,
                     closeVars, engVars, rd, falseAlarm>>
  BY Zenon DEF ReleaseClear
<1>2. UNCHANGED <<dirty, wr, hash, engDone, queued, isClosed, engClosed>>
  BY <1>1, Zenon DEF engVars, closeVars
<1>3. cur \in cand /\ cur \in Pieces
  BY <1>1, Zenon DEF RInv, Hands, Typed, CleanTypes
<1>4. /\ PieceTypes' /\ ~complete'[cur]
      /\ \A p \in Pieces : p # cur =>
            buf'[p] = buf[p] /\ data'[p] = data[p] /\ complete'[p] = complete[p]
      /\ \A c \in Chunks : data'[cur][c] = "none"
  BY <1>1, <1>3, EmptiedOK, Zenon
<1>5. Typed'
  <2>1. pc' \in CleanerPC  BY <1>1, Zenon DEF CleanerPC
  <2>2. CleanTypes'  BY <1>1, <2>1, Zenon DEF CleanTypes, RInv, Typed
  <2>3. overtaken' \in Flags  BY <1>1, Zenon DEF Flags, RInv, Typed, ReaderTypes
  <2>4. ReaderTypes'  BY <1>1, <2>3, Zenon DEF RInv, Typed, ReaderTypes
  <2> QED  BY <1>1, <1>4, <2>2, <2>4, OtherTypes, Zenon DEF Typed
<1>6. Hands'
  BY <1>1, <1>2, <1>3, <1>4 DEF RInv, Hands
<1>7. Forward /\ (Ok' => hash[cur] # "marked")
  BY <1>1, <1>2, Zenon DEF Forward, Ok
<1>8. \A p \in Pieces : p # cur => Same(p)
  BY <1>2, <1>4, Zenon DEF Same
<1>9. \A p \in Pieces : AgreeAt(p)'
  <2>1. ASSUME NEW p \in Pieces, p = cur  PROVE AgreeAt(p)'
    BY <1>1, <2>1, Zenon DEF AgreeAt
  <2>2. ASSUME NEW p \in Pieces, p # cur  PROVE AgreeAt(p)'
    BY <1>1, <1>7, <1>8, <2>2, SameAgree, Zenon DEF RInv
  <2> QED  BY <2>1, <2>2, Zenon
<1>10. ASSUME Ok', NEW p \in Pieces  PROVE Sound(p)'
  <2>1. Sound(p)
    BY <1>7, <1>10, Zenon DEF Forward, RInv
  <2>2. CASE p # cur
    <3>1. Evictable(p)'
      BY <1>1, <1>2, <1>4, <2>1, <2>2, ZenonT(60) DEF Sound, Evictable
    <3> QED  BY <1>7, <1>8, <2>1, <2>2, <3>1, SameSound, Zenon
  <2>3. CASE p = cur
    <3>1. complete[p] \/ isClosed
      BY <1>1, <1>3, <2>1, <2>3, Zenon DEF Sound, Evictable
    <3>2. isClosed => engClosed
      BY Zenon DEF RInv, Hands
    <3>3. hash[p] # "marked"
      BY <1>7, <1>10, <2>3, Zenon
    <3>4. engClosed \/ dirty[p] = {}
      BY <2>1, <3>1, <3>2, <3>3, Zenon DEF Sound
    <3>5. isClosed \/ hash[p] # "passed"
      BY <2>1, <3>1, Zenon DEF Sound
    <3>6. Evictable(p)'
      BY <1>1, <2>3, Zenon DEF Evictable
    <3>7. NoPendingWrites(p)' <=> NoPendingWrites(p)
      BY <1>2, Zenon DEF NoPendingWrites
    <3> QED  BY <1>1, <1>2, <1>4, <2>1, <2>3, <3>3, <3>4, <3>5, <3>6, <3>7 DEF Sound
  <2> QED  BY <2>2, <2>3, Zenon
<1> QED  BY <1>5, <1>6, <1>9, <1>10, Zenon DEF RInv

\* The engine looks at a piece's completion again.
UpdatedAt(x) ==
    /\ engDone'[x] = complete[x]
    /\ dirty'[x] = IF complete[x] # engDone[x] /\ (complete[x] \/ dirty[x] = Chunks)
                     THEN {} ELSE dirty[x]

LEMMA UpdateSound ==
  ASSUME RInv, NEW x \in Pieces, Sound(x), ~isClosed, UpdatedAt(x),
         UNCHANGED <<complete, data, wr, queued, hash, isClosed, engClosed>>, Evictable(x)'
  PROVE  Sound(x)'
<1>1. complete[x] \in Flags /\ engDone[x] \in Flags /\ dirty[x] \subseteq Chunks
  BY Zenon DEF RInv, Typed, PieceTypes, EngineTypes
<1>2. /\ engDone'[x] = complete[x]
      /\ dirty'[x] = IF complete[x] # engDone[x] /\ (complete[x] \/ dirty[x] = Chunks)
                       THEN {} ELSE dirty[x]
  BY Zenon DEF UpdatedAt
<1>3. (Whole(x)' <=> Whole(x)) /\ (NoPendingWrites(x)' <=> NoPendingWrites(x))
  BY Zenon DEF Whole, NoPendingWrites
<1>4. CASE complete[x]
  <2>1. engDone'[x] /\ dirty'[x] = {}
    BY <1>1, <1>2, <1>4, Zenon DEF Sound, Flags
  <2> QED  BY <1>3, <1>4, <2>1, Zenon DEF Sound
<1>5. CASE ~complete[x]
  <2>1. ~engDone'[x] /\ hash[x] # "marked"
    BY <1>2, <1>5, Zenon DEF Sound
  <2>2. dirty'[x] = dirty[x]
    BY <1>1, <1>2, <1>5, Zenon DEF Sound, Flags
  <2> QED  BY <1>3, <1>5, <2>1, <2>2, Zenon DEF Sound
<1> QED  BY <1>4, <1>5, Zenon

LEMMA ReleaseEngineRecords ==
  ASSUME RInv, ReleaseEngine
  PROVE  RInv'
<1>1. /\ pc = "engine" /\ EvictedOne(cur)
      /\ UNCHANGED <<pieceVars, free, cleanTrigger, window, scan, closeVars, wr,
                     queued, hash, writes, rdVars>>
  BY Zenon DEF ReleaseEngine
<1>2. UNCHANGED <<complete, data, buf, isClosed, engClosed, rd, falseAlarm, overtaken>>
  BY <1>1, Zenon DEF pieceVars, closeVars, rdVars
<1>3. cur \in cand /\ cur \in Pieces /\ (isClosed => engClosed)
  BY <1>1, Zenon DEF RInv, Hands, Typed, CleanTypes
<1>4. cand' = cand \ {cur} /\ rems' = rems - 1 /\ pc' \in {"idle", "evict"} /\ cur' = NoPiece
  BY <1>1, Zenon DEF EvictedOne
<1>5. complete[cur] \in Flags /\ dirty[cur] \in SUBSET Chunks
  BY <1>3, Zenon DEF RInv, Typed, PieceTypes, EngineTypes
<1>6. /\ engDone' \in [Pieces -> Flags] /\ dirty' \in [Pieces -> SUBSET Chunks]
      /\ \A p \in Pieces : p # cur => engDone'[p] = engDone[p] /\ dirty'[p] = dirty[p]
      /\ isClosed \/ engDone'[cur] = complete[cur]
  <2>1. CASE isClosed
    BY <2>1, Zenon DEF ReleaseEngine, RInv, Typed, EngineTypes
  <2>2. CASE ~isClosed
    <3>1. CompletionUpdated(cur, complete[cur], dirty[cur])
      BY <2>2, Zenon DEF ReleaseEngine
    <3> QED  BY <1>3, <1>5, <3>1, UpdatedOK, Zenon
  <2> QED  BY <2>1, <2>2, Zenon
<1>7. Typed'
  <2>1. pc' \in CleanerPC  BY <1>4, Zenon DEF CleanerPC
  <2>2. rems' \in Int  BY <1>4 DEF RInv, Typed, CleanTypes
  <2>3. CleanTypes'  BY <1>1, <1>4, <2>1, <2>2, Zenon DEF CleanTypes, RInv, Typed
  <2>4. EngineTypes'  BY <1>1, <1>6, Zenon DEF RInv, Typed, EngineTypes
  <2> QED  BY <1>1, <2>3, <2>4, OtherTypes, Zenon DEF Typed
<1>8. Hands'
  BY <1>2, <1>4, Zenon DEF RInv, Hands
<1>9. Forward /\ (Ok' <=> Ok)
  BY <1>2, Zenon DEF Forward, Ok
<1>10. \A p \in Pieces : p # cur => Same(p)
  BY <1>1, <1>2, <1>6, Zenon DEF Same
<1>11. \A p \in Pieces : AgreeAt(p)'
  <2>1. ASSUME NEW p \in Pieces, p = cur  PROVE AgreeAt(p)'
    BY <1>2, <1>3, <1>6, <2>1, Zenon DEF AgreeAt
  <2>2. ASSUME NEW p \in Pieces, p # cur  PROVE AgreeAt(p)'
    BY <1>2, <1>9, <1>10, <2>2, SameAgree, Zenon DEF RInv
  <2> QED  BY <2>1, <2>2, Zenon
<1>12. ASSUME Ok, NEW p \in Pieces  PROVE Sound(p)'
  <2>1. Sound(p)
    BY <1>12, Zenon DEF RInv
  <2>2. Evictable(p)'
    BY <1>2, <1>4, <2>1, Zenon DEF Sound, Evictable
  <2>3. CASE p # cur
    BY <1>9, <1>10, <2>1, <2>2, <2>3, SameSound, Zenon
  <2>4. CASE p = cur /\ isClosed
    <3>1. Same(p)
      BY <1>1, <1>2, <2>4, Zenon DEF Same, ReleaseEngine
    <3> QED  BY <1>9, <2>1, <2>2, <3>1, SameSound, Zenon
  <2>5. CASE p = cur /\ ~isClosed
    <3>1. CompletionUpdated(p, complete[p], dirty[p])
      BY <2>5, Zenon DEF ReleaseEngine
    <3>2. UpdatedAt(p)
      BY <1>5, <2>5, <3>1, UpdatedOK DEF UpdatedAt
    <3> QED  BY <1>1, <1>2, <2>1, <2>2, <2>5, <3>2, UpdateSound, Zenon
  <2> QED  BY <2>3, <2>4, <2>5, Zenon
<1> QED  BY <1>7, <1>8, <1>9, <1>11, <1>12, Zenon DEF RInv

-----------------------------------------------------------------------------
(* Closing.                                                                *)

LEMMA CloseRecords ==
  ASSUME RInv, EngineClose \/ CloseBegin \/ CloseFree
  PROVE  RInv'
<1>1. UNCHANGED <<pieceVars, cleanTrigger, window, cleanVars, engVars, rdVars>>
  BY Zenon DEF EngineClose, CloseBegin, CloseFree
<1>2. UNCHANGED <<complete, data, buf, dirty, wr, hash, engDone, queued, pc, scan, cand, rems, cur,
                  rd, falseAlarm, overtaken>>
  BY <1>1, Zenon DEF pieceVars, engVars, cleanVars, rdVars
<1>3. /\ isClosed \in Flags /\ engClosed \in Flags /\ closer \in {"off", "drop", "done"}
      /\ toDrop \subseteq Pieces /\ free \subseteq Buffers
  BY Zenon DEF RInv, Typed, CloseTypes, CleanTypes
<1>4. isClosed' \in Flags /\ engClosed' \in Flags
  BY <1>3, Zenon DEF EngineClose, CloseBegin, CloseFree, Flags
<1>5. /\ free' \subseteq Buffers /\ closer' \in {"off", "drop", "done"} /\ toDrop' \subseteq Pieces
  BY <1>3, Zenon DEF EngineClose, CloseBegin, CloseFree
<1>6. (isClosed => isClosed') /\ (engClosed => engClosed') /\ (isClosed' => engClosed')
  BY DEF EngineClose, CloseBegin, CloseFree, RInv, Hands
<1>7. Typed'
  <2>1. CleanTypes'  BY <1>1, <1>2, <1>5, Zenon DEF RInv, Typed, CleanTypes
  <2>2. CloseTypes'  BY <1>4, <1>5, Zenon DEF CloseTypes
  <2> QED  BY <1>1, <2>1, <2>2, OtherTypes, Zenon DEF Typed
<1>8. Hands'
  BY <1>2, <1>6, Zenon DEF RInv, Hands
<1>9. Forward
  BY <1>2, <1>6, Zenon DEF Forward, Ok
<1>10. \A p \in Pieces : Evictable(p) => Evictable(p)'
  BY <1>2, <1>6, Zenon DEF Evictable
<1> QED  BY <1>2, <1>7, <1>8, <1>9, <1>10, QuietStep, Zenon

LEMMA CloseDropRecords ==
  ASSUME Inv, RInv, NEW x \in Pieces, CloseDrop(x)
  PROVE  RInv'
<1>1. /\ Emptied(x) /\ toDrop' = toDrop \ {x}
      /\ UNCHANGED <<free, cleanTrigger, window, cleanVars, isClosed, closer, engClosed, engVars,
                     rdVars>>
  BY Zenon DEF CloseDrop
<1>2. UNCHANGED <<dirty, wr, hash, engDone, queued, pc, cand, cur, isClosed, engClosed, rd,
                  falseAlarm, overtaken>>
  BY <1>1, Zenon DEF engVars, cleanVars, rdVars
<1>3. isClosed /\ engClosed
  BY Zenon DEF CloseDrop, Inv, Closing, RInv, Hands
<1>4. /\ PieceTypes' /\ ~complete'[x]
      /\ \A p \in Pieces : p # x =>
            buf'[p] = buf[p] /\ data'[p] = data[p] /\ complete'[p] = complete[p]
      /\ \A c \in Chunks : data'[x][c] = "none"
  BY <1>1, EmptiedOK, Zenon
<1>5. Typed'
  <2>1. CloseTypes'  BY <1>1, Zenon DEF RInv, Typed, CloseTypes
  <2> QED  BY <1>1, <1>4, <2>1, OtherTypes, Zenon DEF Typed
<1>6. Hands'
  BY <1>2, <1>4 DEF RInv, Hands
<1>7. AgreeAt(x)'
  BY <1>2, <1>3, Zenon DEF AgreeAt
<1>8. ASSUME Ok  PROVE Sound(x)'
  <2>1. Sound(x)
    BY <1>8, Zenon DEF RInv
  <2>2. NoPendingWrites(x)' <=> NoPendingWrites(x)
    BY <1>2, Zenon DEF NoPendingWrites
  <2>3. Evictable(x)'
    BY <1>2, <1>3, Zenon DEF Evictable
  <2> QED  BY <1>2, <1>3, <1>4, <2>1, <2>2, <2>3, Zenon DEF Sound
<1>9. \A p \in Pieces : p # x => Same(p)
  BY <1>2, <1>4, Zenon DEF Same
<1> QED  BY <1>2, <1>5, <1>6, <1>7, <1>8, <1>9, PieceStep, Zenon

-----------------------------------------------------------------------------
(* Readers.                                                                *)

\* A reader moves; one that has marked its piece keeps it in hand.
LEMMA ReaderMoves ==
  ASSUME RInv, NEW r \in Readers, NEW v \in Reading, rd' = [rd EXCEPT ![r] = v],
         v.pc # "idle" => v.piece \in Pieces
  PROVE  /\ rd' \in [Readers -> Reading] /\ rd'[r] = v
         /\ \A q \in Readers : q # r => rd'[q] = rd[q]
         /\ \A q \in Readers : rd'[q].pc # "idle" => rd'[q].piece \in Pieces
<1>1. rd \in [Readers -> Reading]
  BY Zenon DEF RInv, Typed, ReaderTypes
<1> QED  BY <1>1, Zenon DEF RInv, Hands

\* A reader's record with another pc.
LEMMA ReaderAt ==
  ASSUME RInv, NEW r \in Readers, NEW s \in {"idle", "avail", "missed", "marked"},
         rd' = [rd EXCEPT ![r].pc = s]
  PROVE  \E v \in Reading : /\ rd' = [rd EXCEPT ![r] = v]
                            /\ v.pc = s /\ v.piece = rd[r].piece
<1>1. rd \in [Readers -> Reading] /\ rd[r] \in Reading
  BY Zenon DEF RInv, Typed, ReaderTypes
<1> DEFINE v == [pc |-> s, piece |-> rd[r].piece]
<1>2. v \in Reading /\ v = [rd[r] EXCEPT !.pc = s]
  BY <1>1 DEF Reading
<1>3. rd' = [rd EXCEPT ![r] = v]
  BY <1>1, <1>2, Zenon
<1> QED  BY <1>2, <1>3, Zenon

LEMMA IdleReading == [pc |-> "idle", piece |-> NoPiece] \in Reading
BY Zenon DEF Reading

LEMMA ReaderLooks ==
  ASSUME RInv, NEW r \in Readers, (\E p \in Pieces : ReaderAvail(r, p)) \/ ReadAt(r)
  PROVE  RInv'
<1>1. /\ UNCHANGED <<pieceVars, free, window, cleanVars, closeVars, engVars, falseAlarm, overtaken>>
      /\ rd[r].pc # "marked"
  BY Zenon DEF ReaderAvail, ReadAt
<1>2. UNCHANGED <<complete, data, buf, dirty, wr, hash, engDone, queued, pc, scan, cand, rems, cur,
                  isClosed, engClosed>>
  BY <1>1, Zenon DEF pieceVars, engVars, cleanVars, closeVars
<1>3. PICK v \in Reading : rd' = [rd EXCEPT ![r] = v] /\ (v.pc # "idle" => v.piece \in Pieces)
  <2>1. ASSUME NEW p \in Pieces, ReaderAvail(r, p)
        PROVE  \E v \in Reading : rd' = [rd EXCEPT ![r] = v] /\ (v.pc # "idle" => v.piece \in Pieces)
    <3>1. [pc |-> "avail", piece |-> p] \in Reading  BY Zenon DEF Reading
    <3> QED  BY <2>1, <3>1, Zenon DEF ReaderAvail
  <2>2. CASE ReadAt(r)
    <3>1. rd[r].pc = "avail" /\ rd[r].piece \in Pieces
      BY <2>2, Zenon DEF ReadAt, RInv, Hands
    <3>2. CASE rd' = [rd EXCEPT ![r].pc = "missed"]
      BY <3>1, <3>2, ReaderAt, Zenon
    <3>3. CASE ReaderIdle(r)
      BY <3>3, IdleReading, Zenon DEF ReaderIdle
    <3> QED  BY <2>2, <3>2, <3>3, Zenon DEF ReadAt
  <2> QED  BY <2>1, <2>2, Zenon
<1>4. /\ rd' \in [Readers -> Reading] /\ \A q \in Readers : q # r => rd'[q] = rd[q]
      /\ \A q \in Readers : rd'[q].pc # "idle" => rd'[q].piece \in Pieces
  BY <1>3, ReaderMoves, Zenon
<1>5. cleanTrigger' \in Flags
  BY Zenon DEF ReaderAvail, ReadAt, RInv, Typed, CleanTypes, Flags
<1>6. Typed'
  <2>1. CleanTypes'  BY <1>1, <1>2, <1>5, Zenon DEF RInv, Typed, CleanTypes
  <2>2. ReaderTypes'  BY <1>1, <1>4, Zenon DEF RInv, Typed, ReaderTypes
  <2> QED  BY <1>1, <2>1, <2>2, OtherTypes, Zenon DEF Typed
<1>7. Hands'
  BY <1>2, <1>4, Zenon DEF RInv, Hands
<1>8. Forward
  BY <1>1, <1>2, Zenon DEF Forward, Ok
<1>9. \A p \in Pieces : Evictable(p) => Evictable(p)'
  BY <1>2, Zenon DEF Evictable
<1>10. \A q \in Readers : rd[q].pc = "marked" => rd'[q] = rd[q]
  BY <1>1, <1>4, Zenon
<1> QED  BY <1>2, <1>6, <1>7, <1>8, <1>9, <1>10, QuietStep, Zenon

\* A reader that missed an evicted piece finds it still without a buffer, or raises the
\* false alarm.
LEMMA MarkNotCompleteRecords ==
  ASSUME RInv, NEW r \in Readers, MarkNotComplete(r)
  PROVE  RInv'
<1>1. PICK x \in Pieces : x = rd[r].piece
  BY Zenon DEF MarkNotComplete, RInv, Hands
<1>2. /\ rd[r].pc = "missed" /\ complete' = [complete EXCEPT ![x] = FALSE]
      /\ falseAlarm' = (falseAlarm \/ buf[x] # NoBuffer)
      /\ rd' = [rd EXCEPT ![r].pc = "marked"]
      /\ UNCHANGED <<buf, data, size, free, cleanTrigger, window, cleanVars,
                     closeVars, engVars, overtaken>>
  BY <1>1, Zenon DEF MarkNotComplete
<1>3. UNCHANGED <<dirty, wr, hash, engDone, queued, pc, cand, cur, isClosed, engClosed>>
  BY <1>2, Zenon DEF engVars, cleanVars, closeVars
<1>4. PICK v \in Reading : rd' = [rd EXCEPT ![r] = v] /\ v.pc = "marked" /\ v.piece = x
  BY <1>1, <1>2, ReaderAt, Zenon
<1>5. /\ rd' \in [Readers -> Reading] /\ rd'[r] = v
      /\ \A q \in Readers : q # r => rd'[q] = rd[q]
      /\ \A q \in Readers : rd'[q].pc # "idle" => rd'[q].piece \in Pieces
  BY <1>4, ReaderMoves, Zenon
<1>6. /\ complete' \in [Pieces -> Flags] /\ complete'[x] = FALSE
      /\ \A p \in Pieces : p # x => complete'[p] = complete[p]
  <2>1. FALSE \in Flags  BY Zenon DEF Flags
  <2> QED  BY <1>2, <2>1, CompleteOK, Zenon
<1>7. Typed'
  <2>1. PieceTypes'  BY <1>2, <1>6, Zenon DEF RInv, Typed, PieceTypes
  <2>2. falseAlarm' \in Flags  BY <1>2, Zenon DEF Flags, RInv, Typed, ReaderTypes
  <2>3. ReaderTypes'  BY <1>2, <1>5, <2>2, Zenon DEF RInv, Typed, ReaderTypes
  <2> QED  BY <1>2, <2>1, <2>3, OtherTypes, Zenon DEF Typed
<1>8. Hands'
  BY <1>2, <1>3, <1>5, Zenon DEF RInv, Hands
<1>9. Forward /\ (Ok' => buf[x] = NoBuffer)
  BY <1>2, <1>3, Zenon DEF Forward, Ok
<1>10. \A p \in Pieces : p # x => Same(p)
  BY <1>2, <1>3, <1>6, Zenon DEF Same
<1>11. \A p \in Pieces : AgreeAt(p)'
  <2>1. AgreeAt(x)'
    BY <1>4, <1>5, Zenon DEF AgreeAt
  <2>2. \A q \in Readers : rd[q].pc = "marked" => rd'[q] = rd[q]
    BY <1>2, <1>5, Zenon
  <2>3. ASSUME NEW p \in Pieces, p # x  PROVE AgreeAt(p)'
    BY <1>3, <1>9, <1>10, <2>2, <2>3, SameAgree, Zenon DEF RInv
  <2> QED  BY <2>1, <2>3, Zenon
<1>12. ASSUME Ok', NEW p \in Pieces  PROVE Sound(p)'
  <2>1. Sound(p)
    BY <1>9, <1>12, Zenon DEF Forward, RInv
  <2>2. buf[x] = NoBuffer => ~Whole(x)
    BY CacheAssumption, Zenon DEF Whole, RInv, Hands
  <2>3. p = x => ~complete[x]
    BY <1>9, <1>12, <2>1, <2>2, Zenon DEF Sound
  <2>4. complete[x] \in Flags
    BY Zenon DEF RInv, Typed, PieceTypes
  <2>5. Same(p)
    <3>1. p = x => complete'[p] = complete[p]
      BY <1>6, <2>3, <2>4, Zenon DEF Flags
    <3> QED  BY <1>2, <1>3, <1>6, <3>1, Zenon DEF Same
  <2>6. Evictable(p)'
    BY <1>3, <2>1, <2>5, Zenon DEF Sound, Evictable, Same
  <2> QED  BY <1>9, <2>1, <2>5, <2>6, SameSound, Zenon
<1> QED  BY <1>7, <1>8, <1>11, <1>12, Zenon DEF RInv

LEMMA ReaderUpdateRecords ==
  ASSUME RInv, NEW r \in Readers, ReaderUpdate(r)
  PROVE  RInv'
<1>1. /\ rd[r].pc = "marked" /\ ReaderIdle(r)
      /\ UNCHANGED <<pieceVars, free, cleanTrigger, window, cleanVars, closeVars,
                     wr, queued, hash, writes, falseAlarm, overtaken>>
  BY Zenon DEF ReaderUpdate
<1>2. UNCHANGED <<buf, data, complete, pc, cand, cur, isClosed, engClosed>>
  BY <1>1, Zenon DEF pieceVars, cleanVars, closeVars
<1>3. /\ rd' \in [Readers -> Reading]
      /\ \A q \in Readers : q # r => rd'[q] = rd[q]
      /\ \A q \in Readers : rd'[q].pc # "idle" => rd'[q].piece \in Pieces
  BY <1>1, IdleReading, ReaderMoves, Zenon DEF ReaderIdle
<1>4. /\ engDone \in [Pieces -> Flags] /\ dirty \in [Pieces -> SUBSET Chunks]
      /\ complete \in [Pieces -> Flags]
  BY Zenon DEF RInv, Typed, PieceTypes, EngineTypes
<1>5. /\ engDone' \in [Pieces -> Flags] /\ dirty' \in [Pieces -> SUBSET Chunks]
      /\ \A p \in Pieces : Same(p) \/ (~engClosed /\ UpdatedAt(p))
      /\ \A p \in Pieces : p = rd[r].piece => engClosed \/ UpdatedAt(p)
  <2>1. CASE engClosed
    <3>1. UNCHANGED <<dirty, engDone>>
      BY <2>1, Zenon DEF ReaderUpdate
    <3> QED  BY <1>1, <1>2, <1>4, <2>1, <3>1, Zenon DEF Same
  <2>2. CASE ~engClosed
    <3>1. PICK S : CompletionsUpdated(S) /\ rd[r].piece \in S
      BY <2>2, Zenon DEF ReaderUpdate
    <3>2. engDone' \in [Pieces -> Flags] /\ dirty' \in [Pieces -> SUBSET Chunks]
      BY <1>4, <3>1 DEF CompletionsUpdated
    <3>3. ASSUME NEW p \in Pieces  PROVE IF p \in S THEN UpdatedAt(p) ELSE Same(p)
      BY <1>1, <1>2, <3>1 DEF CompletionsUpdated, UpdatedAt, Same
    <3> QED  BY <2>2, <3>1, <3>2, <3>3, Zenon
  <2> QED  BY <2>1, <2>2, Zenon
<1>6. Typed'
  <2>1. EngineTypes'  BY <1>1, <1>5, Zenon DEF RInv, Typed, EngineTypes
  <2>2. ReaderTypes'  BY <1>1, <1>3, Zenon DEF RInv, Typed, ReaderTypes
  <2> QED  BY <1>1, <2>1, <2>2, OtherTypes, Zenon DEF Typed
<1>7. Hands'
  BY <1>2, <1>3, Zenon DEF RInv, Hands
<1>8. Forward /\ (Ok' <=> Ok)
  BY <1>1, <1>2, Zenon DEF Forward, Ok
<1>9. ASSUME NEW p \in Pieces  PROVE AgreeAt(p)'
  <2>1. CASE engClosed \/ UpdatedAt(p)
    BY <1>2, <2>1, Zenon DEF AgreeAt, UpdatedAt
  <2>2. CASE p # rd[r].piece /\ Same(p)
    <3>1. (\E q \in Readers : rd[q].pc = "marked" /\ rd[q].piece = p)
             => \E q \in Readers : rd'[q].pc = "marked" /\ rd'[q].piece = p
      BY <1>3, <2>2, Zenon
    <3> QED  BY <1>2, <2>2, <3>1, Zenon DEF AgreeAt, Same, RInv
  <2> QED  BY <1>5, <2>1, <2>2, Zenon
<1>10. ASSUME Ok, NEW p \in Pieces  PROVE Sound(p)'
  <2>1. Sound(p)
    BY <1>10, Zenon DEF RInv
  <2>2. Evictable(p)'
    BY <1>2, <2>1, Zenon DEF Sound, Evictable
  <2>3. CASE Same(p)
    BY <1>8, <2>1, <2>2, <2>3, SameSound, Zenon
  <2>4. CASE ~engClosed /\ UpdatedAt(p)
    <3>1. ~isClosed  BY <2>4, Zenon DEF RInv, Hands
    <3> QED  BY <1>1, <1>2, <2>1, <2>2, <2>4, <3>1, UpdateSound, Zenon
  <2> QED  BY <1>5, <2>3, <2>4, Zenon
<1> QED  BY <1>6, <1>7, <1>8, <1>9, <1>10, Zenon DEF RInv

LEMMA StutterRecords ==
  ASSUME RInv, UNCHANGED <<pieceVars, free, cleanTrigger, cleanVars, closeVars, engVars, rdVars>>,
         window' \subseteq Pieces
  PROVE  RInv'
<1>1. UNCHANGED <<complete, data, buf, dirty, wr, hash, engDone, queued, pc, scan, cand, rems, cur,
                  isClosed, engClosed, rd, falseAlarm, overtaken>>
  BY Zenon DEF pieceVars, engVars, cleanVars, closeVars, rdVars
<1>2. CleanTypes'
  BY <1>1, Zenon DEF RInv, Typed, CleanTypes
<1>3. Typed'
  BY <1>2, OtherTypes, Zenon DEF Typed
<1>4. Hands'
  BY <1>1, HandsStill, Zenon
<1>5. Forward
  BY <1>1, Zenon DEF Forward, Ok
<1>6. \A p \in Pieces : Evictable(p) => Evictable(p)'
  BY <1>1, Zenon DEF Evictable
<1> QED  BY <1>1, <1>3, <1>4, <1>5, <1>6, QuietStep, Zenon

-----------------------------------------------------------------------------
\* The records' invariant holds in every state.
THEOREM RecordsInvariant == Spec => []RInv
<1>1. Inv /\ RInv /\ [Next]_vars => RInv'
  <2> SUFFICES ASSUME Inv, RInv, [Next]_vars  PROVE RInv'
    OBVIOUS
  <2>1. CASE Download
    <3>1. PICK p \in Pieces :
            \/ \E c \in Chunks :
                  \/ ReceiveChunk(p, c)
                  \/ \E d \in {"good", "bad"} : WriteAt(p, c, d)
                  \/ FinishChunk(p, c)
            \/ StartHash(p) \/ HashPiece(p) \/ MarkComplete(p)
            \/ PieceHashedGood(p) \/ PieceHashedBad(p)
      BY <2>1, Zenon DEF Download
    <3> QED  BY <3>1, ReceiveChunkRecords, WriteAtRecords, FinishChunkRecords, StartHashRecords,
                HashPieceRecords, MarkCompleteRecords, PieceHashedGoodRecords, PieceHashedBadRecords, Zenon
  <2>2. CASE \E u \in SUBSET Pieces : MoveWindow(u)
    BY <2>2, StutterRecords, Zenon DEF MoveWindow
  <2>3. CASE Clean
    BY <2>3, ScanRecords, EvictNextRecords, ReleaseLockRecords, ReleaseClearRecords,
       ReleaseEngineRecords, Zenon DEF Clean
  <2>4. CASE EngineClose \/ Close
    BY <2>4, CloseRecords, CloseDropRecords, Zenon DEF Close
  <2>5. CASE Read
    BY <2>5, ReaderLooks, MarkNotCompleteRecords, ReaderUpdateRecords, Zenon DEF Read
  <2>6. CASE UNCHANGED vars
    <3>1. window' \subseteq Pieces  BY <2>6, Zenon DEF vars, RInv, Typed, CleanTypes
    <3> QED  BY <2>6, <3>1, StutterRecords, Zenon DEF vars
  <2> QED  BY <2>1, <2>2, <2>3, <2>4, <2>5, <2>6, Zenon DEF Next
<1> QED  BY <1>1, InitRecords, CacheInvariant, PTL DEF Spec

\* Every field of the cache, the cleaner, Close, the engine's records and the readers keeps
\* its type; Piece.Size stays within the piece (MemPiece.WriteAt).
THEOREM CacheTypesHold == Spec => []TypeOK
<1>1. RInv => TypeOK
  BY TypeParts, Zenon DEF RInv
<1> QED  BY <1>1, RecordsInvariant, PTL

\* What the engine counts as downloaded of an open torrent is in the cache: the cleaner
\* (pieceEvictable, Release) never drops a piece that is being downloaded, save after the two
\* mishaps.
THEOREM DownloadsHeld == Spec => []DirtyChunksHeld
<1>1. RInv => DirtyChunksHeld
  BY Zenon DEF RInv, Ok, Sound, DirtyChunksHeld
<1> QED  BY <1>1, RecordsInvariant, PTL

\* A complete piece is whole, save after the two mishaps, and the engine's completion is the
\* storage's whenever nobody is on the way to update it (pieceHashed, Release, readOnceAt).
THEOREM RecordsInAgreement == Spec => []RecordsAgree
<1>1. RInv => RecordsAgree
  BY Zenon DEF RInv, Ok, Sound, AgreeAt, RecordsAgree
<1> QED  BY <1>1, RecordsInvariant, PTL
=============================================================================
