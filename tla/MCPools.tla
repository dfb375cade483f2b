-------------------------------- MODULE MCPools --------------------------------
(***************************************************************************)
(* The server's pools and tables: the buffers and the readers of a piece   *)
(* cache (MCTorrstor), and the table of transcoding tasks.  A behaviour is *)
(* one of the part that "part" names, and the others keep their first      *)
(* state.                                                                  *)
(***************************************************************************)
EXTENDS MCTorrstor, TranscodeService

PoolsInit ==
    /\ part \in {"cache", "readers", "service"}
    /\ Init /\ ReaderInit /\ ServiceInit
    /\ part # "cache" => \A p \in Pieces : buf[p] = NoBuffer
    /\ part # "service" => limit = 0

PoolsNext ==
    \/ TorrstorNext /\ UNCHANGED serviceVars
    \/ part = "service" /\ ServiceNext /\ UNCHANGED allVars

PoolsSpec == PoolsInit /\ [][PoolsNext]_<<allVars, serviceVars>>

\* Callers, torrents and the tracks of a torrent that nothing has told apart yet are
\* taken in their order.
FirstCall ==
    \A p \in Callers : call[p] = IdleCall /\ call'[p] # IdleCall =>
        LET h == call'[p].hash
            others == {q \in Callers : call[q] # IdleCall}
        IN  /\ others = {} => p = "p1"
            /\ others = {} /\ Len(made) = 0 => h = "h1"
            /\ (\A q \in others : call[q].hash # h) /\ (\A t \in DOMAIN made : made[t].hash # h)
                  => call'[p].track = "x1"

\* The change of track after the last call is to the track that a call asks for which is
\* about to insert a task of its own.
LastRetrack ==
    calls = MaxCalls /\ calls' > calls =>
        \E p \in Callers :
            LET t == tasks[call[p].hash]
            IN  /\ call[p].at = "insert" /\ t # NoTask
                /\ made[t].track # call[p].track /\ made'[t].track = call[p].track
=============================================================================
