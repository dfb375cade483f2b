----------------------------- MODULE PeerRequests -----------------------------
(***************************************************************************)
(* How the torrent engine asks peers for chunks: the request state that    *)
(* every connection keeps (peer.go, requesting.go), the torrent's record   *)
(* of who was asked for a chunk (torrent.go), the messages of a connection *)
(* that change them (mainReadLoop in peerconn.go), the duplicates that     *)
(* tail hedging sends, and the writer goroutine that carries out updates   *)
(* of the request state when it is woken (peer-conn-msg-writer.go).        *)
(*                                                                         *)
(* Everything runs under the client's lock but for three things: the       *)
(* write of a received chunk to storage, the hashing and marking of a      *)
(* piece, and the writer's way from fillWriteBuffer to its wait.           *)
(*                                                                         *)
(* The remote side is external.  It answers each request it is sent at     *)
(* most once, with the chunk or, if both sides have the fast extension,    *)
(* with a reject.  A remote without it forgets requests when it chokes or  *)
(* sees a cancel in time.                                                  *)
(***************************************************************************)
EXTENDS Integers, FiniteSets

CONSTANTS
    Peers,          \* connections of the torrent
    Seeds,          \* those that have announced all pieces already
    Fast,           \* those with the fast extension that reject cancelled requests
    NoPeer,         \* no connection
    Pieces,         \* pieces of the torrent
    Chunks,         \* chunks of a piece
    NoReq,          \* no request
    MaxPipeline,    \* bound on nominalMaxRequests
    MaxValid,       \* bound on validReceiveChunks of one request
    MaxEvents       \* bound on chokes, faults, hedges and changes of priority

ASSUME RequestsAssumption ==
    /\ Fast \subseteq Peers /\ Seeds \subseteq Peers /\ NoPeer \notin Peers
    /\ IsFiniteSet(Pieces) /\ IsFiniteSet(Chunks) /\ Chunks # {}
    /\ NoReq \notin Pieces \X Chunks
    /\ MaxPipeline \in Nat \ {0} /\ MaxValid \in Nat \ {0} /\ MaxEvents \in Nat

Reqs == Pieces \X Chunks

VARIABLES
    conn,           \* "open", "closed" (in t.conns still) or "gone"
    choked,         \* peerChoking
    interested,     \* requestState.Interested
    has,            \* _peerPieces
    Requests,       \* requestState.Requests
    Cancelled,      \* requestState.Cancelled
    valid,          \* validReceiveChunks
    need,           \* needRequestUpdate # ""
    writing,        \* the chunk receiveChunk is writing to storage
    wr,             \* the writer goroutine
    armed,          \* its keepAliveTimer has not fired since the last write
    upd,            \* the update of a request state in progress
    holder,         \* t.requestState[r].peer
    hedged,         \* t.hedgedRequests
    dirty,          \* t.dirtyChunks
    phase,          \* hashing (or queued for it), marking, complete, or none of these
    wanted,         \* pieces whose purePriority is not None
    disallowed,     \* t.dataDownloadDisallowed
    asked,          \* external: requests sent that the remote has yet to answer
    hedgedTo,       \* connections a duplicate was sent to
    events          \* events so far

connVars == <<conn, choked, interested, has>>
reqVars == <<Requests, Cancelled, holder, hedged>>
expectVars == <<valid, asked, hedgedTo>>
wakeVars == <<need, wr, armed>>
pieceVars == <<dirty, phase, wanted, disallowed>>
vars == <<connVars, reqVars, expectVars, wakeVars, writing, upd, pieceVars, events>>

NoUpdate == [peer |-> NoPeer, left |-> {}, room |-> 0]

\* State of one kind of object each, and the two records of a request.
TypeOK ==
    /\ conn \in [Peers -> {"open", "closed", "gone"}]
    /\ choked \in [Peers -> BOOLEAN] /\ interested \in [Peers -> BOOLEAN]
    /\ has \in [Peers -> SUBSET Pieces]
    /\ Requests \in [Peers -> SUBSET Reqs] /\ Cancelled \in [Peers -> SUBSET Reqs]
    /\ valid \in [Peers -> [Reqs -> Nat]] /\ asked \in [Peers -> [Reqs -> Nat]]
    /\ need \in [Peers -> BOOLEAN] /\ armed \in [Peers -> BOOLEAN]
    /\ wr \in [Peers -> {"fill", "check", "wait"}]
    /\ writing \in [Peers -> Reqs \cup {NoReq}]
    /\ upd \in [peer : Peers \cup {NoPeer}, left : SUBSET Reqs, room : Nat]
    /\ holder \in [Reqs -> Peers \cup {NoPeer}]
    /\ hedged \subseteq Reqs /\ dirty \subseteq Reqs
    /\ phase \in [Pieces -> {"none", "hashing", "marking", "complete"}]
    /\ wanted \subseteq Pieces /\ disallowed \in BOOLEAN
    /\ hedgedTo \subseteq Peers /\ events \in Nat

PieceOf(r) == r[1]
ReqsOf(i) == {i} \X Chunks
Conns == {p \in Peers : conn[p] # "gone"}

\* _pendingPieces: what updatePiecePriority keeps it at.
Pending(i) == i \in wanted /\ phase[i] = "none"

\* The client's lock is free.
Unlocked == upd.peer = NoPeer

\* Those of S for which isLowOnRequests holds after the step.
Lows(S) == {p \in S : Requests'[p] = {} /\ Cancelled'[p] = {}}

Event == events < MaxEvents /\ events' = events + 1

-----------------------------------------------------------------------------
(* Waking the writer.                                                      *)

\* updateRequests on the connections S and messages written to the connections W.
\* updateRequests does nothing where an update is already wanted.  A tickle is lost on a
\* writer that is not waiting; a message makes it go round once more in any case.
Wake(S, W) ==
    /\ need' = [p \in Peers |-> need[p] \/ p \in S]
    /\ wr' = [p \in Peers |->
                 IF p \in W \/ (p \in S /\ ~need[p] /\ wr[p] = "wait") THEN "fill" ELSE wr[p]]
    /\ armed' = [p \in Peers |-> armed[p] \/ p \in W]

\* onPiecePendingTriggers, where piece i has become pending.
Triggered(i) ==
    {p \in Conns : /\ Requests[p] = {} /\ Cancelled[p] = {}
                   /\ i \in has[p] /\ ~(interested[p] /\ choked[p])}

\* useful: peerHasWantedPieces.
useful(p) == \E i \in has[p] : Pending(i)

\* run: with nothing to write out the writer sends a keepalive, if the timer has fired,
\* or waits.
WriterRun(p) ==
    /\ conn[p] = "open" /\ wr[p] = "check"
    /\ LET sends == ~armed[p] /\ useful(p)
       IN  /\ wr' = [wr EXCEPT ![p] = IF sends THEN "fill" ELSE "wait"]
           /\ armed' = [armed EXCEPT ![p] = @ \/ sends]
    /\ UNCHANGED <<connVars, reqVars, expectVars, need, writing, upd, pieceVars, events>>

\* The keepalive timer fires; it is only reset by a write.
KeepAlive(p) ==
    /\ conn[p] = "open" /\ wr[p] = "wait" /\ armed[p]
    /\ wr' = [wr EXCEPT ![p] = "fill"]
    /\ armed' = [armed EXCEPT ![p] = FALSE]
    /\ UNCHANGED <<connVars, reqVars, expectVars, need, writing, upd, pieceVars, events>>

-----------------------------------------------------------------------------
(* The update of a connection's request state, by its writer.              *)

\* getDesiredRequestState: the chunks that make a peer interesting, and those to ask it
\* for.  Chunks it was asked for are left out: request() returns at once for them.
\* Nothing is ever added to peerAllowedFast.  MaxValid bounds the model.
Missing(p) == IF disallowed THEN {}
              ELSE {r \in Reqs \ dirty : Pending(PieceOf(r)) /\ PieceOf(r) \in has[p]}
Desired(p) == {r \in Missing(p) \ (Requests[p] \cup Cancelled[p]) :
                  ~choked[p] /\ valid[p][r] < MaxValid}

\* maybeUpdateActualRequestState returns at once: no update is wanted, or one ran less
\* than requestRebuildDebounce ago and requests are outstanding (so that one did run).
Skip(p) == ~need[p] \/ Requests[p] # {}

FillSkips(p) ==
    /\ Unlocked /\ conn[p] = "open" /\ wr[p] = "fill" /\ Skip(p)
    /\ wr' = [wr EXCEPT ![p] = "check"]
    /\ UNCHANGED <<connVars, reqVars, expectVars, need, armed, writing, upd, pieceVars, events>>

\* setInterested at the start of applyRequestState; a full buffer ends the update there.
\* The pipeline's size is computed from measured rates: any size up to MaxPipeline.
FillUpdates(p) ==
    /\ Unlocked /\ conn[p] = "open" /\ wr[p] = "fill" /\ need[p]
    /\ LET i == Missing(p) # {}
       IN  /\ interested' = [interested EXCEPT ![p] = i]
           /\ Wake({}, IF i # interested[p] THEN {p} ELSE {})
           /\ \/ \E n \in 1 .. MaxPipeline :
                    upd' = [peer |-> p, left |-> Desired(p), room |-> n]
              \/ i # interested[p] /\ UNCHANGED upd
    /\ UNCHANGED <<conn, choked, has, reqVars, expectVars, writing, pieceVars, events>>

Mine(p) == Cardinality(Requests[p])
Full(p) == Mine(p) + Cardinality(Cancelled[p]) >= upd.room

\* lessByValue: within a piece, chunks nobody was asked for come first.
FirstInPiece(r) == \A r2 \in upd.left : PieceOf(r2) = PieceOf(r) => holder[r2] # NoPeer

\* The bookkeeping of request() for chunk r, on top of the given records.
Request(p, r, R) ==
    /\ Requests' = [R EXCEPT ![p] = @ \cup {r}]
    /\ holder' = [holder EXCEPT ![r] = p]
    /\ valid' = [valid EXCEPT ![p][r] = @ + 1]

\* Whether the remote of q sees a cancel before it has sent the chunk.
Forgets(q, r, a, sees) == IF sees /\ q \notin Fast /\ a[q][r] > 0
                         THEN [a EXCEPT ![q][r] = @ - 1] ELSE a

\* cancel(): q's request r is deleted, and kept as cancelled if a reject will come.
Uncancelled(q, r) == [Requests EXCEPT ![q] = @ \ {r}]
Acked(q, r) == IF q \in Fast THEN [Cancelled EXCEPT ![q] = @ \cup {r}] ELSE Cancelled

Popped(r) == upd' = [upd EXCEPT !.left = @ \ {r}]

RequestNew(p, r) ==
    /\ upd.peer = p /\ r \in upd.left /\ ~Full(p) /\ holder[r] = NoPeer
    /\ Request(p, r, Requests)
    /\ asked' = [asked EXCEPT ![p][r] = @ + 1]
    /\ Popped(r) /\ Wake({}, {p})
    /\ UNCHANGED <<connVars, Cancelled, hedged, hedgedTo, writing, pieceVars, events>>

\* Don't steal from the poor; at a difference of one the last useful chunks decide.
Spare(p, r) ==
    /\ upd.peer = p /\ r \in upd.left /\ ~Full(p) /\ FirstInPiece(r)
    /\ holder[r] \in Peers \ {p} /\ Mine(holder[r]) <= Mine(p) + 1
    /\ Popped(r)
    /\ UNCHANGED <<connVars, reqVars, expectVars, wakeVars, writing, pieceVars, events>>

\* Mutant: the request is taken over without the other connection's knowledge.
StealSilently(p, r) ==
    /\ upd.peer = p /\ r \in upd.left /\ ~Full(p) /\ FirstInPiece(r)
    /\ holder[r] \in Peers \ {p} /\ Mine(holder[r]) > Mine(p)
    /\ Request(p, r, Requests)
    /\ asked' = [asked EXCEPT ![p][r] = @ + 1]
    /\ Popped(r) /\ Wake({}, {p})
    /\ UNCHANGED <<connVars, Cancelled, hedged, hedgedTo, writing, pieceVars, events>>

\* cancelRequest, then request(), which gives up if the pipeline has shrunk meanwhile.
Steal(p, r) ==
    /\ upd.peer = p /\ r \in upd.left /\ ~Full(p) /\ FirstInPiece(r)
    /\ holder[r] \in Peers \ {p} /\ Mine(holder[r]) > Mine(p)
    /\ LET q == holder[r] IN
       /\ Cancelled' = Acked(q, r) /\ hedged' = hedged \ {r}
       /\ \E sees \in BOOLEAN :
             \/ /\ Request(p, r, Uncancelled(q, r))
                /\ asked' = Forgets(q, r, [asked EXCEPT ![p][r] = @ + 1], sees)
                /\ Popped(r) /\ Wake(Lows({q}), {p, q})
             \/ /\ Requests[p] # {} /\ Requests' = Uncancelled(q, r)
                /\ holder' = [holder EXCEPT ![r] = NoPeer]
                /\ asked' = Forgets(q, r, asked, sees)
                /\ upd' = [upd EXCEPT !.left = {}] /\ UNCHANGED valid
                /\ Wake(Lows({q}), {q})
    /\ UNCHANGED <<connVars, hedgedTo, writing, pieceVars, events>>

\* The end of applyRequestState: nothing is left or the pipeline is full.  The writer
\* sends what there is and goes round once more.
UpdateDone(p) ==
    /\ upd.peer = p /\ (upd.left = {} \/ Full(p))
    /\ need' = [need EXCEPT ![p] = FALSE]
    /\ upd' = NoUpdate
    /\ UNCHANGED <<connVars, reqVars, expectVars, wr, armed, writing, pieceVars, events>>

-----------------------------------------------------------------------------
(* Messages from a connection, one at a time: mainReadLoop.                *)

Reads(p) == Unlocked /\ conn[p] = "open" /\ writing[p] = NoReq

\* deleteRequest for all requests of p.
DeleteAll(p) ==
    /\ Requests' = [Requests EXCEPT ![p] = {}]
    /\ holder' = [r \in Reqs |-> IF holder[r] = p THEN NoPeer ELSE holder[r]]
    /\ hedged' = hedged \ Requests[p]
    /\ UNCHANGED Cancelled

\* deleteAllRequests tells the connections of the torrent that are low on requests.
TellLows(p, others) == Wake(IF Requests[p] = {} THEN {} ELSE Lows(others), {})

\* Choke: without the fast extension all requests are gone, though some of them may
\* have been sent after the remote choked and be answered once it unchokes.
Choke(p) ==
    /\ Reads(p) /\ ~choked[p] /\ Event
    /\ choked' = [choked EXCEPT ![p] = TRUE]
    /\ IF p \in Fast
       THEN UNCHANGED <<reqVars, asked, wakeVars>>
       ELSE /\ DeleteAll(p) /\ TellLows(p, Conns)
            /\ \E R \in SUBSET Requests[p] :
                  asked' = [asked EXCEPT ![p] = [r \in Reqs |-> IF r \in R THEN @[r] ELSE 0]]
    /\ UNCHANGED <<conn, interested, has, valid, hedgedTo, writing, upd, pieceVars>>

\* Unchoke.
Unchoke(p) ==
    /\ Reads(p) /\ choked[p]
    /\ choked' = [choked EXCEPT ![p] = FALSE]
    /\ Wake(IF \E i \in Pieces : Pending(i) THEN {p} ELSE {}, {})
    /\ UNCHANGED <<conn, interested, has, reqVars, expectVars, writing, upd, pieceVars, events>>

\* peerSentHave.
Have(p, i) ==
    /\ Reads(p) /\ i \notin has[p]
    /\ has' = [has EXCEPT ![p] = @ \cup {i}]
    /\ Wake(IF Pending(i) THEN {p} ELSE {}, {})
    /\ UNCHANGED <<conn, choked, interested, reqVars, expectVars, writing, upd, pieceVars, events>>

\* Suggest and AllowedFast only ask for an update.
Suggest(p) ==
    /\ Reads(p) /\ p \in Fast /\ Event
    /\ Wake({p}, {})
    /\ UNCHANGED <<connVars, reqVars, expectVars, writing, upd, pieceVars>>

\* dropConnection and deletePeerConn.
Dropped(p) ==
    /\ conn' = [conn EXCEPT ![p] = "gone"]
    /\ DeleteAll(p) /\ TellLows(p, Conns \ {p})
    /\ asked' = [asked EXCEPT ![p] = [r \in Reqs |-> 0]]
    /\ UNCHANGED <<choked, interested, has, valid, hedgedTo, writing, upd, pieceVars>>

\* Mutant: an answer is counted twice.
AnsweredTwice(p, r) ==
    /\ valid' = [valid EXCEPT ![p][r] = @ - 2]
    /\ UNCHANGED hedgedTo

\* decExpectedChunkReceive, for an answer to r.
Answered(p, r) ==
    /\ valid' = [valid EXCEPT ![p][r] = @ - 1]
    /\ UNCHANGED hedgedTo

\* Reject: for a request that is neither outstanding nor cancelled it is an error.
Reject(p, r) ==
    /\ Reads(p) /\ p \in Fast /\ asked[p][r] > 0
    /\ IF r \in Requests[p] \cup Cancelled[p]
       THEN /\ Requests' = [Requests EXCEPT ![p] = @ \ {r}]
            /\ Cancelled' = IF r \in Requests[p] THEN Cancelled
                            ELSE [Cancelled EXCEPT ![p] = @ \ {r}]
            /\ holder' = IF r \in Requests[p] THEN [holder EXCEPT ![r] = NoPeer] ELSE holder
            /\ hedged' = IF r \in Requests[p] THEN hedged \ {r} ELSE hedged
            /\ Answered(p, r) /\ asked' = [asked EXCEPT ![p][r] = @ - 1]
            /\ Wake(Lows({p}), {})
            /\ UNCHANGED <<connVars, writing, upd, pieceVars>>
       ELSE Dropped(p)
    /\ UNCHANGED events

-----------------------------------------------------------------------------
(* Piece: receiveChunk, in two steps around the write to storage.          *)

haveChunk(r) == r \in dirty \/ phase[PieceOf(r)] = "complete"

\* The other connection that was asked for r, if r is taken from p.
OtherHolder(p, r) == IF haveChunk(r) \/ holder[r] = p THEN {} ELSE {holder[r]} \ {NoPeer}

Received(p, r) ==
    LET mine == r \in Requests[p]
        others == OtherHolder(p, r)
    IN  /\ Answered(p, r)
        /\ \E sees \in BOOLEAN :
              LET a == [asked EXCEPT ![p][r] = @ - 1]
              IN  asked' = IF others = {} THEN a
                           ELSE Forgets(CHOOSE q \in others : TRUE, r, a, sees)
        /\ Requests' = [q \in Peers |-> IF q \in others \cup {p} THEN Requests[q] \ {r}
                                                              ELSE Requests[q]]
        /\ Cancelled' = [q \in Peers |->
                            IF q \in others \cap Fast THEN Cancelled[q] \cup {r}
                            ELSE IF q = p /\ ~mine THEN Cancelled[q] \ {r} ELSE Cancelled[q]]
        /\ holder' = IF mine \/ others # {} THEN [holder EXCEPT ![r] = NoPeer] ELSE holder
        /\ hedged' = IF mine \/ others # {} THEN hedged \ {r} ELSE hedged
        /\ Wake(Lows(others \cup (IF mine \/ r \in Cancelled[p] THEN {p} ELSE {})), others)
        /\ dirty' = dirty \cup (IF haveChunk(r) THEN {} ELSE {r})
        /\ writing' = [writing EXCEPT ![p] = IF haveChunk(r) THEN NoReq ELSE r]
        /\ UNCHANGED <<connVars, upd, phase, wanted, disallowed, events>>

\* A chunk that is not expected is an error.
Piece(p, r) ==
    /\ Reads(p) /\ asked[p][r] > 0
    /\ IF valid[p][r] = 0 THEN Dropped(p) /\ UNCHANGED events ELSE Received(p, r)

\* Mutant: the writer counts itself among the pending writes.
WriteDoneLate(p) ==
    /\ Unlocked /\ writing[p] # NoReq
    /\ writing' = [writing EXCEPT ![p] = NoReq]
    /\ LET i == PieceOf(writing[p])
           last == ReqsOf(i) \subseteq dirty /\ \A q \in Peers : writing[q] \notin ReqsOf(i)
       IN  phase' = IF last THEN [phase EXCEPT ![i] = "hashing"] ELSE phase
    /\ UNCHANGED <<connVars, reqVars, expectVars, wakeVars, upd, dirty, wanted, disallowed, events>>

\* The write has succeeded.  The last writer of a piece queues it for the hasher.
WriteDone(p) ==
    /\ Unlocked /\ writing[p] # NoReq
    /\ writing' = [writing EXCEPT ![p] = NoReq]
    /\ LET i == PieceOf(writing[p])
           last == ReqsOf(i) \subseteq dirty /\ \A q \in Peers \ {p} : writing[q] \notin ReqsOf(i)
       IN  phase' = IF last THEN [phase EXCEPT ![i] = "hashing"] ELSE phase
    /\ UNCHANGED <<connVars, reqVars, expectVars, wakeVars, upd, dirty, wanted, disallowed, events>>

\* The write has failed: the chunk is pending again and, by the default handler,
\* disallowDataDownloadLocked cancels everything.
WriteFails(p) ==
    /\ Unlocked /\ writing[p] # NoReq /\ Event
    /\ writing' = [writing EXCEPT ![p] = NoReq]
    /\ dirty' = dirty \ {writing[p]} /\ disallowed' = TRUE
    /\ Requests' = [q \in Peers |-> {}]
    /\ Cancelled' = [q \in Peers |-> Cancelled[q] \cup (IF q \in Fast THEN Requests[q] ELSE {})]
    /\ holder' = [r \in Reqs |-> NoPeer]
    /\ hedged' = hedged \ UNION {Requests[q] : q \in Peers}
    /\ \E sees \in BOOLEAN :
          asked' = [q \in Peers |-> [r \in Reqs |->
                       IF sees /\ q \notin Fast /\ r \in Requests[q] /\ asked[q][r] > 0
                       THEN asked[q][r] - 1 ELSE asked[q][r]]]
    /\ Wake(Conns, {q \in Peers : Requests[q] # {}})
    /\ UNCHANGED <<connVars, valid, hedgedTo, upd, phase, wanted>>

-----------------------------------------------------------------------------
(* Hashing, in two steps around marking the piece in storage.              *)

\* The piece is pending again, its chunks are to be fetched anew.
Again(i) ==
    /\ phase' = [phase EXCEPT ![i] = "none"]
    /\ Wake(IF i \in wanted THEN Triggered(i) ELSE {}, {})
    /\ UNCHANGED reqVars

\* onPieceCompleted; every connection is sent a have.
Completed(i) ==
    /\ phase' = [phase EXCEPT ![i] = "complete"]
    /\ Requests' = [q \in Peers |-> Requests[q] \ ReqsOf(i)]
    /\ Cancelled' = [q \in Peers |->
                        IF q \in Fast THEN Cancelled[q] \cup (Requests[q] \cap ReqsOf(i))
                                      ELSE Cancelled[q]]
    /\ holder' = [r \in Reqs |-> IF r \in ReqsOf(i) THEN NoPeer ELSE holder[r]]
    /\ hedged' = hedged \ {r \in ReqsOf(i) : holder[r] # NoPeer}
    /\ Wake(Lows({q \in Peers : Requests[q] \cap ReqsOf(i) # {}}), Conns)

\* finishHash and pieceHashed with a bad hash or a failed read.
HashFails(i) ==
    /\ Unlocked /\ phase[i] = "hashing" /\ Event
    /\ Again(i)
    /\ dirty' = IF ReqsOf(i) \subseteq dirty THEN dirty \ ReqsOf(i) ELSE dirty
    /\ UNCHANGED <<connVars, expectVars, writing, upd, wanted, disallowed>>

\* finishHash with a good hash, up to the unlock in pieceHashed.
HashPasses(i) ==
    /\ Unlocked /\ phase[i] = "hashing"
    /\ phase' = [phase EXCEPT ![i] = "marking"]
    /\ UNCHANGED <<connVars, reqVars, expectVars, wakeVars, writing, upd, dirty, wanted, disallowed, events>>

\* The rest of pieceHashed: storage has the piece complete, or has lost it meanwhile.
Marked(i) ==
    /\ Unlocked /\ phase[i] = "marking"
    /\ \/ Completed(i) /\ UNCHANGED events
       \/ Again(i) /\ Event
    /\ dirty' = dirty \ ReqsOf(i)
    /\ UNCHANGED <<connVars, expectVars, writing, upd, wanted, disallowed>>

-----------------------------------------------------------------------------
(* Others under the lock.                                                  *)

\* Mutant: the duplicate is not recorded as expected.
HedgeUnrecorded(p, r) ==
    /\ Unlocked /\ holder[r] \notin {NoPeer, p} /\ r \notin hedged /\ Event
    /\ p \in Conns /\ PieceOf(r) \in has[p]
    /\ hedged' = hedged \cup {r} /\ hedgedTo' = hedgedTo \cup {p}
    /\ asked' = IF conn[p] = "open" THEN [asked EXCEPT ![p][r] = @ + 1] ELSE asked
    /\ Wake({}, {p})
    /\ UNCHANGED <<connVars, Requests, Cancelled, valid, holder, writing, upd, pieceVars>>

\* fireHedge: a duplicate of an overdue request goes to another connection that has the
\* piece, whether or not it chokes us.
fireHedge(p, r) ==
    /\ Unlocked /\ holder[r] \notin {NoPeer, p} /\ r \notin hedged /\ Event
    /\ p \in Conns /\ PieceOf(r) \in has[p]
    /\ hedged' = hedged \cup {r} /\ hedgedTo' = hedgedTo \cup {p}
    /\ valid' = [valid EXCEPT ![p][r] = @ + 1]
    /\ asked' = IF conn[p] = "open" THEN [asked EXCEPT ![p][r] = @ + 1] ELSE asked
    /\ Wake({}, {p})
    /\ UNCHANGED <<connVars, Requests, Cancelled, holder, writing, upd, pieceVars>>

\* updatePiecePriority after readers or users change what they want.
SetPriority(i) ==
    /\ Unlocked /\ Event
    /\ wanted' = IF i \in wanted THEN wanted \ {i} ELSE wanted \cup {i}
    /\ Wake(IF i \notin wanted /\ phase[i] = "none" THEN Triggered(i) ELSE {}, {})
    /\ UNCHANGED <<connVars, reqVars, expectVars, writing, upd, dirty, phase, disallowed>>

\* messageWriterRunner closes the connection when a write to it fails.
WriterFails(p) ==
    /\ Unlocked /\ conn[p] = "open" /\ Event
    /\ conn' = [conn EXCEPT ![p] = "closed"]
    /\ asked' = [asked EXCEPT ![p] = [r \in Reqs |-> 0]]
    /\ UNCHANGED <<choked, interested, has, reqVars, valid, hedgedTo, wakeVars, writing, upd, pieceVars>>

\* The read loop of a closed connection ends, or somebody drops an open one.
Disconnect(p) ==
    /\ Unlocked
    /\ \/ conn[p] = "closed" /\ UNCHANGED events
       \/ conn[p] = "open" /\ Event
    /\ Dropped(p)

-----------------------------------------------------------------------------

Init ==
    /\ conn = [p \in Peers |-> "open"]
    /\ choked = [p \in Peers |-> TRUE] /\ interested = [p \in Peers |-> FALSE]
    /\ has = [p \in Peers |-> IF p \in Seeds THEN Pieces ELSE {}]
    /\ Requests = [p \in Peers |-> {}] /\ Cancelled = [p \in Peers |-> {}]
    /\ valid = [p \in Peers |-> [r \in Reqs |-> 0]] /\ asked = valid
    /\ need = [p \in Peers |-> p \in Seeds]
    /\ wr = [p \in Peers |-> "fill"]
    /\ armed = [p \in Peers |-> TRUE]
    /\ writing = [p \in Peers |-> NoReq]
    /\ upd = NoUpdate
    /\ holder = [r \in Reqs |-> NoPeer] /\ hedged = {}
    /\ dirty = {} /\ phase = [i \in Pieces |-> "none"]
    /\ wanted = Pieces /\ disallowed = FALSE
    /\ hedgedTo = {} /\ events = 0

Writer(p) ==
    \/ WriterRun(p) \/ KeepAlive(p) \/ FillSkips(p) \/ FillUpdates(p) \/ UpdateDone(p)
    \/ \E r \in Reqs : RequestNew(p, r) \/ Spare(p, r) \/ Steal(p, r)

Reader(p) ==
    \/ Choke(p) \/ Unchoke(p) \/ Suggest(p) \/ \E i \in Pieces : Have(p, i)
    \/ \E r \in Reqs : Reject(p, r) \/ Piece(p, r)
    \/ WriteDone(p) \/ WriteFails(p)

Hasher(i) == HashFails(i) \/ HashPasses(i) \/ Marked(i)

Next ==
    \/ \E p \in Peers : \/ Writer(p) \/ Reader(p) \/ WriterFails(p) \/ Disconnect(p)
                         \/ \E r \in Reqs : fireHedge(p, r)
    \/ \E i \in Pieces : Hasher(i) \/ SetPriority(i)

Spec == Init /\ [][Next]_vars

-----------------------------------------------------------------------------
(* Properties.                                                             *)

\* A chunk is asked from one connection at a time, and the connection's set and the
\* torrent's record agree about it: what deleteRequest and receiveChunk panic about.  No
\* chunk that has arrived is asked of anybody, nor is one of a complete piece: receiveChunk
\* and onPieceCompleted cancel what others were asked.
OneHolder ==
    /\ \A p \in Peers, r \in Reqs : r \in Requests[p] <=> holder[r] = p
    /\ \A p \in Peers : Requests[p] \cap Cancelled[p] = {}
    /\ \A r \in Reqs : holder[r] # NoPeer => r \notin dirty /\ phase[PieceOf(r)] = "none"

\* A chunk that was sent for a request of ours is expected when it comes, however
\* often the request was cancelled, deleted or made again; and a request that is
\* outstanding or cancelled can be rejected without decExpectedChunkReceive's panic.  A
\* remote with the fast extension that rejects a request we sent is only dropped for it if
\* the request was a hedge: other requests are on record until they are answered.
AnswersExpected ==
    \A p \in Peers, r \in Reqs :
        /\ conn[p] = "open" => asked[p][r] <= valid[p][r]
        /\ r \in Requests[p] \cup Cancelled[p] => valid[p][r] > 0
        /\ p \in Fast \ hedgedTo /\ conn[p] = "open" /\ asked[p][r] > 0
              => r \in Requests[p] \cup Cancelled[p]

\* A piece whose chunks have all arrived is with the hasher unless one of them is being
\* written: the last writer never leaves it behind.
AllDirtyHashed ==
    \A i \in Pieces :
        ReqsOf(i) \subseteq dirty /\ (\A p \in Peers : writing[p] \notin ReqsOf(i))
            => phase[i] \in {"hashing", "marking"}

\* A connection whose last request is answered while an update is wanted has its writer
\* awake: "Do NOT debounce when the pipeline is dry", the writer "retries on the next
\* tickleWriter() call (e.g. from the next receiveChunk)".
DryPipelineWakes ==
    [][\A p \in Peers :
          (/\ Requests[p] # {} /\ Requests'[p] = {} /\ Cancelled'[p] = {}
           /\ need'[p] /\ conn'[p] = "open") => wr'[p] # "wait"]_vars
=============================================================================
