-------------------------------- MODULE MCData --------------------------------
(***************************************************************************)
(* How data is asked for, looked up and kept: the engine's requests and    *)
(* available ranges, the torrents' records behind the read cache, and the  *)
(* storage of the settings and viewed marks.  They do not meet, and each   *)
(* is checked on an instance of its own: a behaviour is one of the part    *)
(* that "part" names, and the others keep their first state.               *)
(***************************************************************************)
EXTENDS MCPeerRequests, AvailableRange, ReadCache, StorageSwitch

VARIABLE part

MCRests == {<<1, "a">>, <<2, "b">>}
MCDefaultRest == <<1, "a">>

dataVars == <<part, vars, rangeVars, recordVars, storageVars>>

DataInit ==
    /\ part \in {"requests", "range", "records", "storage"}
    /\ Init /\ RangeInit /\ RecordsInit /\ StorageInit
    /\ part # "range" => completedPieces = {}
    /\ part # "records" => \A h \in Hashes : db[h] = 0

DataNext ==
    /\ UNCHANGED part
    /\ \/ part = "requests" /\ Next /\ UNCHANGED <<rangeVars, recordVars, storageVars>>
       \/ part = "range" /\ RangeNext /\ UNCHANGED <<vars, recordVars, storageVars>>
       \/ part = "records" /\ RecordsNext /\ UNCHANGED <<vars, rangeVars, storageVars>>
       \/ part = "storage" /\ StorageNext /\ UNCHANGED <<vars, rangeVars, recordVars>>

DataSpec == DataInit /\ [][DataNext]_dataVars

\* Only the marks are changed a last time, by a server that keeps its first settings; and
\* no torrent's marks before those of the first.
MarksInOrder ==
    /\ changes < MaxChanges /\ changes' = MaxChanges =>
          marks' # marks /\ saved \in {Default, [Default EXCEPT !.viewedInJson = TRUE]}
    /\ marks'["h2"] # marks["h2"] => \E d \in {"json", "bolt"} : dbs[d].viewed["h1"] # Absent

-----------------------------------------------------------------------------
(* The properties of the parts.                                            *)

\* The state of the requests and of the ranges is well-formed.
DataTypeOK == TypeOK /\ RangeTypeOK
=============================================================================
