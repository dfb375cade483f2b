------------------------------ MODULE MCTorrstor ------------------------------
(***************************************************************************)
(* The piece cache and the stream readers of torrstor, each on an instance *)
(* of its own: a behaviour is one of the part that "part" names, and the   *)
(* other part keeps its first state.                                       *)
(***************************************************************************)
EXTENDS PieceCache, StreamReader, TLC

VARIABLE part

allVars == <<part, vars, readerVars>>

TorrstorInit ==
    /\ part \in {"cache", "readers"} /\ Init /\ ReaderInit
    /\ part = "readers" => \A p \in Pieces : buf[p] = NoBuffer

TorrstorNext ==
    /\ UNCHANGED part
    /\ \/ part = "cache" /\ Next /\ UNCHANGED readerVars
       \/ part = "readers" /\ ReaderNext /\ UNCHANGED vars

TorrstorSpec == TorrstorInit /\ [][TorrstorNext]_allVars

BufferSymmetry == Permutations(Buffers)

\* updateRA starts AdjustRA every second as long as the torrent is served.  (Nothing the
\* cache's own fairness speaks of can be done in its first state.)
TorrstorFairSpec ==
    /\ TorrstorSpec
    /\ Fairness
    /\ WF_readerVars(part = "readers" /\ AdjustRA)
    /\ \A r \in Streams \cup Uploads : WF_readerVars(part = "readers" /\ SetReadahead(r))

-----------------------------------------------------------------------------
\* The state of the cache and of its readers is well-formed.
TorrstorTypeOK == TypeOK /\ ReaderTypeOK
=============================================================================
