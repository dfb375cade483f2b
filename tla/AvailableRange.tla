---------------------------- MODULE AvailableRange ----------------------------
(***************************************************************************)
(* How many bytes a reader may read at once: AvailableRange of the         *)
(* engine's torrent.go, over the pieces that are complete and the chunks   *)
(* that are written but not yet hashed (dirty).  Its doc promises "the     *)
(* number of contiguous bytes available from offset up to max"; Contiguous *)
(* is that number, byte by byte.                                           *)
(***************************************************************************)
EXTENDS Integers, FiniteSets, FiniteSetsExt

CONSTANTS
    TorrentLength,
    PieceLength,
    ChunkSize,
    MaxWanted       \* bound on the bytes a read asks for

ASSUME RangeAssumption ==
    /\ {TorrentLength, PieceLength, ChunkSize} \subseteq Nat \ {0}
    /\ PieceLength % ChunkSize = 0
    /\ MaxWanted \in Nat

VARIABLES
    completedPieces,
    dirtyChunks     \* request indices

rangeVars == <<completedPieces, dirtyChunks>>

ChunksPerPiece == PieceLength \div ChunkSize
PieceIndices == 0 .. (TorrentLength - 1) \div PieceLength
RequestIndices == 0 .. (TorrentLength - 1) \div ChunkSize
PieceChunks(p) == {c \in RequestIndices : c \div ChunksPerPiece = p}

\* Pieces that the cache preloaded from disk are complete from the start.
RangeInit == completedPieces \in SUBSET PieceIndices /\ dirtyChunks = {}

\* A chunk is written; the piece is not complete.
ChunkWritten(c) ==
    /\ c \notin dirtyChunks /\ c \div ChunksPerPiece \notin completedPieces
    /\ dirtyChunks' = dirtyChunks \cup {c}
    /\ UNCHANGED completedPieces

\* A piece with all its chunks is hashed.  It is complete or, if the hash is wrong or the
\* cache has dropped it by then, is not; either way its chunks are pended again.
PieceHashed(p) ==
    /\ p \notin completedPieces /\ PieceChunks(p) \subseteq dirtyChunks
    /\ completedPieces' \in {completedPieces, completedPieces \cup {p}}
    /\ dirtyChunks' = dirtyChunks \ PieceChunks(p)

\* updatePieceCompletion finds that the cache has dropped the piece.
PieceDropped(p) ==
    /\ p \in completedPieces
    /\ completedPieces' = completedPieces \ {p}
    /\ UNCHANGED dirtyChunks

RangeNext ==
    \/ \E c \in RequestIndices : ChunkWritten(c)
    \/ \E p \in PieceIndices : PieceHashed(p) \/ PieceDropped(p)

RangeSpec == RangeInit /\ [][RangeNext]_rangeVars

-----------------------------------------------------------------------------
\* requestOffset of offsetRequest: where the chunk that holds the offset begins.
RequestOffset(off) == PieceLength * (off \div PieceLength) + ((off % PieceLength) \div ChunkSize) * ChunkSize

\* currBit behind the run of dirty chunks that starts at startBit and ends with its piece.
CurrBit(startBit) ==
    LET piece == startBit \div ChunksPerPiece
    IN  Min({b \in startBit .. (piece + 1) * ChunksPerPiece :
                b = (piece + 1) * ChunksPerPiece \/ b \notin dirtyChunks})

\* Mutant: a run may go on only while it does not fill its piece.
ServeChunksAlone(off, max) ==
    LET startBit == RequestOffset(off) \div ChunkSize
        ready == (CurrBit(startBit) - startBit) * ChunkSize - (off - RequestOffset(off))
    IN  [serve |-> Min({ready, PieceLength - (off - RequestOffset(off)), max}), goOn |-> FALSE]

\* One round of the loop over an incomplete piece: the bytes it adds, and whether it goes on.
ServeChunks(off, max) ==
    LET startBit == RequestOffset(off) \div ChunkSize
        ready == (CurrBit(startBit) - startBit) * ChunkSize - (off - RequestOffset(off))
    IN  [serve |-> Min({ready, PieceLength - (off - RequestOffset(off)), max}),
         goOn |-> CurrBit(startBit) % ChunksPerPiece = 0]

\* The loop, by the bytes that are still wanted.
Available(off, max, responsive) ==
    LET avail[m \in 0 .. max] ==
            LET at == off + (max - m)
                served == Min({PieceLength - (at - RequestOffset(at)), m})
                chunks == ServeChunks(at, m)
            IN  IF m = 0 \/ at \notin 0 .. TorrentLength - 1 THEN 0
                ELSE IF at \div PieceLength \in completedPieces THEN served + avail[m - served]
                ELSE IF ~responsive \/ RequestOffset(at) \div ChunkSize \notin dirtyChunks THEN 0
                ELSE chunks.serve + (IF chunks.goOn THEN avail[m - chunks.serve] ELSE 0)
    IN  avail[max]

-----------------------------------------------------------------------------
\* The byte is there: its piece is complete or, in responsive mode, its chunk is written.
Present(b, responsive) ==
    /\ b \in 0 .. TorrentLength - 1
    /\ \/ b \div PieceLength \in completedPieces
       \/ responsive /\ b \div ChunkSize \in dirtyChunks

Contiguous(off, max, responsive) ==
    Max({n \in 0 .. max : \A b \in off .. off + n - 1 : Present(b, responsive)})

RangeTypeOK == completedPieces \subseteq PieceIndices /\ dirtyChunks \subseteq RequestIndices

\* A reader is told that bytes are available exactly if the byte at its offset is there, it
\* is never told less than what is contiguously there, and it is told exactly that much
\* unless its offset is behind the first chunk of a complete piece or the end is near.
RangeExact ==
    \A off \in 0 .. TorrentLength, max \in 1 .. MaxWanted, responsive \in BOOLEAN :
        LET n == Available(off, max, responsive)
            there == Contiguous(off, max, responsive)
        IN  /\ n > 0 <=> Present(off, responsive)
            /\ n \in there .. max
            /\ \/ n = there \/ off + max > TorrentLength
               \/ off \div PieceLength \in completedPieces /\ off % PieceLength >= ChunkSize
\* RangeExact, wherever there is something to read: AvailableRange tells a reader that bytes
\* are there exactly when the next one is, never too few, and exactly how many except behind
\* the first chunk of a complete piece.  (With nothing there it returns 0 in its first round.)
RangeReadable == completedPieces \cup dirtyChunks # {} => RangeExact
=============================================================================
