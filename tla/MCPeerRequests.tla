--------------------------- MODULE MCPeerRequests ---------------------------
(* Small instances of PeerRequests for TLC. *)
EXTENDS PeerRequests, TLC

CONSTANTS c1, c2

ChunkSymmetry == Permutations(Chunks)

\* Bounds the instance: keepalives with no update to carry out are left out, and nothing
\* happens between a writer's fill and its wait.
WritersBrief ==
    \A p \in Peers : /\ armed[p] /\ ~armed'[p] => need[p]
                     /\ wr[p] = "check" /\ conn[p] = "open" => wr'[p] # "check"
=============================================================================
