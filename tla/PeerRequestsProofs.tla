-------------------------- MODULE PeerRequestsProofs --------------------------
EXTENDS PeerRequests, TLAPS
(***************************************************************************)
(* What PeerRequests promises, for any connections, pieces and chunks.     *)
(* The invariant adds to the three properties what a connection's update   *)
(* still has to ask for while it holds the client's lock (Updating), and   *)
(* that a remote with the fast extension was sent a request at most once   *)
(* since it answered it (AskedOnce).                                       *)
(***************************************************************************)

\* The chunks an update is still to ask for are missing, and not asked of its connection.
Updating ==
    /\ Unlocked => upd.left = {}
    /\ \A r \in upd.left :
          /\ r \notin dirty /\ phase[PieceOf(r)] = "none"
          /\ r \notin Requests[upd.peer] \cup Cancelled[upd.peer]

\* Without hedges, a remote that rejects what it does not send owes one answer to a request.
AskedOnce ==
    \A p \in Fast \ hedgedTo, r \in Reqs : conn[p] = "open" => asked[p][r] <= 1

-----------------------------------------------------------------------------
(* TypeOK by parts, and the helpers.                                       *)

Flags == [Peers -> BOOLEAN]
States == [Peers -> {"open", "closed", "gone"}]
Writers == [Peers -> {"fill", "check", "wait"}]
Phases == {"none", "hashing", "marking", "complete"}
Counters == [Peers -> [Reqs -> Nat]]
Updates == [peer : Peers \cup {NoPeer}, left : SUBSET Reqs, room : Nat]
Truths == BOOLEAN

ConnTypes == /\ conn \in States /\ choked \in Flags /\ interested \in Flags
             /\ has \in [Peers -> SUBSET Pieces]
RequestTypes == /\ Requests \in [Peers -> SUBSET Reqs]
                /\ Cancelled \in [Peers -> SUBSET Reqs]
                /\ holder \in [Reqs -> Peers \cup {NoPeer}] /\ hedged \subseteq Reqs
ExpectTypes == valid \in Counters /\ asked \in Counters /\ hedgedTo \subseteq Peers
WakeTypes == need \in Flags /\ armed \in Flags /\ wr \in Writers
PieceTypes == /\ dirty \subseteq Reqs /\ phase \in [Pieces -> Phases]
              /\ wanted \subseteq Pieces /\ disallowed \in Truths
OtherTypes == /\ writing \in [Peers -> Reqs \cup {NoReq}]
              /\ upd \in Updates /\ events \in Nat

Typed == /\ ConnTypes /\ RequestTypes /\ ExpectTypes
         /\ WakeTypes /\ PieceTypes /\ OtherTypes

LEMMA TypeParts == TypeOK <=> Typed
BY Zenon DEF TypeOK, Typed, ConnTypes, RequestTypes, ExpectTypes, WakeTypes, PieceTypes,
   OtherTypes,
   Flags, States, Writers, Phases, Counters, Updates, Truths

\* The chunks of a piece.
LEMMA ReqFacts ==
  /\ \A r \in Reqs : PieceOf(r) \in Pieces /\ r # NoReq
  /\ \A i \in Pieces : ReqsOf(i) \subseteq Reqs /\ ReqsOf(i) # {}
  /\ \A i \in Pieces, r \in Reqs : r \in ReqsOf(i) <=> PieceOf(r) = i
<1>1. \A r \in Reqs : PieceOf(r) \in Pieces /\ r # NoReq
  BY RequestsAssumption, Zenon DEF Reqs, PieceOf
<1>2. ASSUME NEW i \in Pieces  PROVE ReqsOf(i) \subseteq Reqs /\ ReqsOf(i) # {}
  <2>1. PICK c : c \in Chunks
    BY RequestsAssumption, Zenon
  <2>2. <<i, c>> \in ReqsOf(i)
    BY <2>1, Zenon DEF ReqsOf
  <2> QED  BY <2>2, Zenon DEF Reqs, ReqsOf
<1>3. \A i \in Pieces, r \in Reqs : r \in ReqsOf(i) <=> PieceOf(r) = i
  BY Zenon DEF Reqs, ReqsOf, PieceOf
<1> QED  BY <1>1, <1>2, <1>3, Zenon

LEMMA CountOK ==
  ASSUME NEW f \in Counters, NEW p \in Peers, NEW r \in Reqs, NEW n \in Nat
  PROVE  LET g == [f EXCEPT ![p][r] = n]
         IN  /\ g \in Counters /\ g[p][r] = n
             /\ \A q \in Peers, s \in Reqs : q # p \/ s # r => g[q][s] = f[q][s]
BY Zenon DEF Counters

LEMMA WakeOK ==
  ASSUME WakeTypes, NEW S, NEW W, Wake(S, W)
  PROVE  WakeTypes'
<1>1. need' \in Flags
  BY Zenon DEF Wake, WakeTypes, Flags
<1>2. armed' \in Flags
  BY Zenon DEF Wake, WakeTypes, Flags
<1>3. wr' \in Writers
  BY Zenon DEF Wake, WakeTypes, Writers
<1> QED  BY <1>1, <1>2, <1>3, Zenon DEF WakeTypes

\* The remote forgets at most one request.
LEMMA ForgetsOK ==
  ASSUME NEW f \in Counters, NEW q \in Peers, NEW r \in Reqs, NEW sees
  PROVE  LET g == Forgets(q, r, f, sees)
         IN  /\ g \in Counters
             /\ \A x \in Peers, s \in Reqs : g[x][s] <= f[x][s]
             /\ \A x \in Peers, s \in Reqs : x \in Fast => g[x][s] = f[x][s]
<1>1. \A x \in Peers, s \in Reqs : f[x][s] \in Nat
  BY Zenon DEF Counters
<1>2. CASE sees /\ q \notin Fast /\ f[q][r] > 0
  <2>1. f[q][r] - 1 \in Nat
    BY <1>1, <1>2
  <2>2. Forgets(q, r, f, sees) = [f EXCEPT ![q][r] = f[q][r] - 1]
    BY <1>2, Zenon DEF Forgets
  <2> DEFINE g == [f EXCEPT ![q][r] = f[q][r] - 1]
  <2>3. /\ g \in Counters /\ g[q][r] = f[q][r] - 1
        /\ \A x \in Peers, s \in Reqs : x # q \/ s # r => g[x][s] = f[x][s]
    BY <2>1, CountOK
  <2> HIDE DEF g
  <2>4. ASSUME NEW x \in Peers, NEW s \in Reqs
        PROVE  g[x][s] <= f[x][s] /\ (x \in Fast => g[x][s] = f[x][s])
    BY <1>1, <1>2, <2>3
  <2> QED  BY <2>2, <2>3, <2>4 DEF g
<1>3. CASE ~(sees /\ q \notin Fast /\ f[q][r] > 0)
  <2>1. Forgets(q, r, f, sees) = f
    BY <1>3, Zenon DEF Forgets
  <2> QED  BY <1>1, <2>1
<1> QED  BY <1>2, <1>3, Zenon

-----------------------------------------------------------------------------
(* The invariant.                                                          *)

IInv == Typed /\ OneHolder /\ AnswersExpected /\ AllDirtyHashed /\ Updating /\ AskedOnce

LEMMA InitOK == Init => IInv
<1> SUFFICES ASSUME Init  PROVE IInv
  OBVIOUS
<1>1. ConnTypes
  <2>1. conn \in States  BY Zenon DEF Init, States
  <2>2. choked \in Flags /\ interested \in Flags  BY Zenon DEF Init, Flags
  <2>3. has \in [Peers -> SUBSET Pieces]  BY Zenon DEF Init
  <2> QED  BY <2>1, <2>2, <2>3, Zenon DEF ConnTypes
<1>2. RequestTypes
  BY Zenon DEF Init, RequestTypes
<1>3. ExpectTypes
  BY Zenon DEF Init, ExpectTypes, Counters
<1>4. WakeTypes
  <2>1. need \in Flags /\ armed \in Flags  BY DEF Init, Flags
  <2>2. wr \in Writers  BY Zenon DEF Init, Writers
  <2> QED  BY <2>1, <2>2, Zenon DEF WakeTypes
<1>5. PieceTypes
  <2>1. disallowed \in Truths  BY Zenon DEF Init, Truths
  <2>2. phase \in [Pieces -> Phases]  BY Zenon DEF Init, Phases
  <2> QED  BY <2>1, <2>2, Zenon DEF Init, PieceTypes
<1>6. OtherTypes
  BY Zenon DEF Init, OtherTypes, Updates, NoUpdate
<1>7. Typed
  BY <1>1, <1>2, <1>3, <1>4, <1>5, <1>6, Zenon DEF Typed
<1>8. OneHolder
  BY RequestsAssumption, Zenon DEF Init, OneHolder
<1>9. AnswersExpected
  BY DEF Init, AnswersExpected
<1>10. AllDirtyHashed
  <2>1. dirty = {}  BY Zenon DEF Init
  <2> QED  BY <2>1, ReqFacts, Zenon DEF AllDirtyHashed
<1>11. Updating /\ AskedOnce
  BY RequestsAssumption DEF Init, Updating, AskedOnce, NoUpdate
<1> QED  BY <1>7, <1>8, <1>9, <1>10, <1>11, Zenon DEF IInv

\* Steps that touch no request and no piece.
LEMMA QuietOK ==
  ASSUME IInv, ConnTypes', WakeTypes', PieceTypes', events' \in Nat,
         UNCHANGED <<conn, reqVars, expectVars, dirty, phase, writing>>,
         upd' \in Updates, Updating'
  PROVE  IInv'
<1>1. Typed'
  BY Zenon DEF IInv, Typed, RequestTypes, ExpectTypes, OtherTypes, reqVars, expectVars
<1>2. OneHolder'
  BY Zenon DEF IInv, OneHolder, reqVars
<1>3. AnswersExpected' /\ AskedOnce'
  BY Zenon DEF IInv, AnswersExpected, AskedOnce, reqVars, expectVars
<1>4. AllDirtyHashed'
  BY Zenon DEF IInv, AllDirtyHashed
<1> QED  BY <1>1, <1>2, <1>3, <1>4, Zenon DEF IInv

\* Steps that leave the update in progress alone as well.
LEMMA StillOK ==
  ASSUME IInv, ConnTypes', WakeTypes', PieceTypes', events' \in Nat,
         UNCHANGED <<conn, reqVars, expectVars, dirty, phase, writing, upd>>
  PROVE  IInv'
<1>1. upd' \in Updates
  BY Zenon DEF IInv, Typed, OtherTypes
<1>2. Updating'
  BY Zenon DEF IInv, Updating, Unlocked, reqVars
<1> QED  BY <1>1, <1>2, QuietOK, Zenon

-----------------------------------------------------------------------------
(* The writer's steps.                                                     *)

LEMMA WriterStepsOK ==
  ASSUME IInv, NEW p \in Peers, WriterRun(p) \/ KeepAlive(p) \/ FillSkips(p)
  PROVE  IInv'
<1>1. /\ UNCHANGED <<connVars, reqVars, expectVars, writing, upd, pieceVars, events>>
      /\ need' = need
  BY Zenon DEF WriterRun, KeepAlive, FillSkips
<1>2. ConnTypes' /\ PieceTypes' /\ events' \in Nat
  BY <1>1, Zenon DEF IInv, Typed, ConnTypes, PieceTypes, OtherTypes, connVars, pieceVars
<1>3. armed' \in Flags
  BY Zenon DEF WriterRun, KeepAlive, FillSkips, IInv, Typed, WakeTypes, Flags
<1>4. wr' \in Writers
  BY Zenon DEF WriterRun, KeepAlive, FillSkips, IInv, Typed, WakeTypes, Writers
<1>5. WakeTypes'
  BY <1>1, <1>3, <1>4, Zenon DEF IInv, Typed, WakeTypes
<1> QED  BY <1>1, <1>2, <1>5, StillOK, Zenon DEF connVars, pieceVars

LEMMA FillUpdatesOK ==
  ASSUME IInv, NEW p \in Peers, FillUpdates(p)
  PROVE  IInv'
<1>1. Unlocked /\ UNCHANGED <<conn, choked, has, reqVars, expectVars, writing, pieceVars, events>>
  BY Zenon DEF FillUpdates
<1>2. interested' \in Flags
  BY Zenon DEF FillUpdates, IInv, Typed, ConnTypes, Flags
<1>3. WakeTypes'
  BY WakeOK, Zenon DEF FillUpdates, IInv, Typed
<1>4. ConnTypes' /\ PieceTypes' /\ events' \in Nat
  BY <1>1, <1>2, Zenon DEF IInv, Typed, ConnTypes, PieceTypes, OtherTypes, pieceVars
<1>5. CASE UNCHANGED upd
  BY <1>1, <1>3, <1>4, <1>5, StillOK, Zenon DEF pieceVars
<1>6. ASSUME NEW n \in 1 .. MaxPipeline,
             upd' = [peer |-> p, left |-> Desired(p), room |-> n]
      PROVE  IInv'
  <2>1. \A r \in Desired(p) : /\ r \in Reqs /\ r \notin dirty /\ phase[PieceOf(r)] = "none"
                              /\ r \notin Requests[p] \cup Cancelled[p]
    BY Zenon DEF Desired, Missing, Pending
  <2>2. upd' \in Updates
    BY <1>6, <2>1, RequestsAssumption DEF Updates
  <2>3. Updating'
    BY <1>1, <1>6, <2>1, RequestsAssumption, Zenon DEF Updating, Unlocked, reqVars, pieceVars
  <2> QED  BY <1>1, <1>3, <1>4, <2>2, <2>3, QuietOK, Zenon DEF pieceVars
<1> QED  BY <1>5, <1>6, Zenon DEF FillUpdates

LEMMA PopOK ==
  ASSUME IInv, NEW p \in Peers,
         UpdateDone(p) \/ \E r \in Reqs : Spare(p, r)
  PROVE  IInv'
<1>1. UNCHANGED <<connVars, reqVars, expectVars, wr, armed, writing, pieceVars, events>>
  BY Zenon DEF UpdateDone, Spare, wakeVars
<1>2. WakeTypes'
  <2>1. need' \in Flags
    BY Zenon DEF UpdateDone, Spare, wakeVars, IInv, Typed, WakeTypes, Flags
  <2> QED  BY <1>1, <2>1, Zenon DEF IInv, Typed, WakeTypes
<1>3. ConnTypes' /\ PieceTypes' /\ events' \in Nat
  BY <1>1, Zenon DEF IInv, Typed, ConnTypes, PieceTypes, OtherTypes, connVars, pieceVars
<1>4. upd \in Updates
  BY Zenon DEF IInv, Typed, OtherTypes
<1>5. upd' \in Updates
  BY <1>4 DEF UpdateDone, Spare, Popped, Updates, NoUpdate
<1>6. upd' = NoUpdate \/ (upd'.peer = upd.peer /\ upd'.left \subseteq upd.left)
  BY <1>4, Zenon DEF UpdateDone, Spare, Popped, Updates
<1>7. Updating'
  BY <1>1, <1>6 DEF IInv, Updating, Unlocked, NoUpdate, reqVars, pieceVars
<1> QED  BY <1>1, <1>2, <1>3, <1>5, <1>7, QuietOK, Zenon DEF connVars, pieceVars

\* A request r is made of p, which may take it over from another connection.
Takes(p, r) ==
    /\ \A x \in Peers : x # p => Requests'[x] = Requests[x] \ {r}
    /\ Requests'[p] = Requests[p] \cup {r}
    /\ \A x \in Peers : /\ Cancelled[x] \subseteq Cancelled'[x]
                        /\ x \in Fast /\ x # p /\ r \in Requests[x] => r \in Cancelled'[x]
                        /\ \A s \in Cancelled'[x] :
                              s \in Cancelled[x] \/ (s = r /\ x # p /\ r \in Requests[x])
    /\ holder' = [holder EXCEPT ![r] = p]
    /\ valid' = [valid EXCEPT ![p][r] = valid[p][r] + 1]
    /\ \A x \in Peers, s \in Reqs :
          asked'[x][s] <= asked[x][s] + (IF x = p /\ s = r THEN 1 ELSE 0)

LEMMA TakesOK ==
  ASSUME IInv, NEW p \in Peers, NEW r \in upd.left, upd.peer = p, Takes(p, r), Popped(r),
         RequestTypes', asked' \in Counters, WakeTypes',
         UNCHANGED <<connVars, hedgedTo, writing, pieceVars, events>>
  PROVE  IInv'
<1>1. r \in Reqs /\ upd \in Updates
  BY Zenon DEF IInv, Typed, OtherTypes, Updates
<1>2. /\ r \notin dirty /\ phase[PieceOf(r)] = "none"
      /\ r \notin Requests[p] \cup Cancelled[p]
  BY Zenon DEF IInv, Updating
<1>3. /\ \A x \in Peers, s \in Reqs : valid[x][s] \in Nat /\ asked[x][s] \in Nat
      /\ \A x \in Peers, s \in Reqs : valid'[x][s] \in Nat /\ asked'[x][s] \in Nat
      /\ valid' \in Counters /\ valid'[p][r] = valid[p][r] + 1
      /\ \A x \in Peers, s \in Reqs : x # p \/ s # r => valid'[x][s] = valid[x][s]
  <2>1. valid \in Counters /\ asked \in Counters
    BY Zenon DEF IInv, Typed, ExpectTypes
  <2>2. valid[p][r] + 1 \in Nat
    BY <1>1, <2>1 DEF Counters
  <2> DEFINE g == [valid EXCEPT ![p][r] = valid[p][r] + 1]
  <2>3. /\ g \in Counters /\ g[p][r] = valid[p][r] + 1
        /\ \A x \in Peers, s \in Reqs : x # p \/ s # r => g[x][s] = valid[x][s]
    BY <1>1, <2>1, <2>2, CountOK
  <2>4. valid' = g
    BY Zenon DEF Takes
  <2> HIDE DEF g
  <2> QED  BY <2>1, <2>3, <2>4, Zenon DEF Counters
<1>4. Typed'
  <2>1. upd' \in Updates
    BY <1>1, Zenon DEF Popped, Updates
  <2> QED
    BY <1>3, <2>1, Zenon DEF IInv, Typed, ConnTypes, ExpectTypes, PieceTypes, OtherTypes,
       connVars, pieceVars
<1>5. OneHolder'
  <2>1. \A s \in Reqs : holder'[s] = IF s = r THEN p ELSE holder[s]
    BY <1>1, Zenon DEF Takes, IInv, Typed, RequestTypes
  <2>2. \A x \in Peers, s \in Reqs : s \in Requests'[x] <=> holder'[s] = x
    BY <2>1 DEF IInv, OneHolder, Takes
  <2>3. \A x \in Peers : Requests'[x] \cap Cancelled'[x] = {}
    <3> SUFFICES ASSUME NEW x \in Peers, NEW s \in Requests'[x], s \in Cancelled'[x]
                 PROVE  FALSE
      OBVIOUS
    <3>1. Requests[x] \cap Cancelled[x] = {}
      BY Zenon DEF IInv, OneHolder
    <3>2. CASE x = p  BY <1>2, <3>1, <3>2 DEF Takes
    <3>3. CASE x # p  BY <3>1, <3>3 DEF Takes
    <3> QED  BY <3>2, <3>3, Zenon
  <2>4. \A s \in Reqs : holder'[s] # NoPeer => s \notin dirty' /\ phase'[PieceOf(s)] = "none"
    BY <1>2, <2>1, Zenon DEF IInv, OneHolder, pieceVars
  <2> QED  BY <2>2, <2>3, <2>4, Zenon DEF OneHolder
<1>6. AnswersExpected' /\ AskedOnce'
  <2> SUFFICES ASSUME NEW x \in Peers, NEW s \in Reqs
               PROVE  /\ conn[x] = "open" => asked'[x][s] <= valid'[x][s]
                      /\ s \in Requests'[x] \cup Cancelled'[x] => valid'[x][s] > 0
                      /\ x \in Fast \ hedgedTo /\ conn[x] = "open" /\ asked'[x][s] > 0
                           => s \in Requests'[x] \cup Cancelled'[x]
                      /\ x \in Fast \ hedgedTo /\ conn[x] = "open" => asked'[x][s] <= 1
    BY RequestsAssumption, Zenon DEF AnswersExpected, AskedOnce, connVars
  <2>1. /\ conn[x] = "open" => asked[x][s] <= valid[x][s]
        /\ s \in Requests[x] \cup Cancelled[x] => valid[x][s] > 0
        /\ x \in Fast \ hedgedTo /\ conn[x] = "open" /\ asked[x][s] > 0
             => s \in Requests[x] \cup Cancelled[x]
        /\ x \in Fast \ hedgedTo /\ conn[x] = "open" => asked[x][s] <= 1
    BY Zenon DEF IInv, AnswersExpected, AskedOnce
  <2>2. CASE x = p /\ s = r
    <3>1. asked'[x][s] <= asked[x][s] + 1 /\ s \in Requests'[x]
      BY <2>2, Zenon DEF Takes
    <3>2. x \in Fast \ hedgedTo /\ conn[x] = "open" => asked[x][s] = 0
      BY <1>2, <1>3, <2>1, <2>2
    <3> QED  BY <1>3, <2>1, <2>2, <3>1, <3>2
  <2>3. CASE x # p \/ s # r
    <3>1. asked'[x][s] <= asked[x][s] /\ valid'[x][s] = valid[x][s]
      BY <1>3, <2>3 DEF Takes
    <3>2. s \in Requests'[x] \cup Cancelled'[x] => s \in Requests[x] \cup Cancelled[x]
      BY <2>3 DEF Takes
    <3>3. x \in Fast /\ s \in Requests[x] \cup Cancelled[x]
            => s \in Requests'[x] \cup Cancelled'[x]
      BY DEF Takes
    <3> QED  BY <1>3, <2>1, <3>1, <3>2, <3>3
  <2> QED  BY <2>2, <2>3, Zenon
<1>7. AllDirtyHashed'
  BY Zenon DEF IInv, AllDirtyHashed, pieceVars
<1>8. Updating'
  <2>1. upd'.peer = p /\ upd'.left = upd.left \ {r}
    BY <1>1, Zenon DEF Popped, Updates
  <2>2. p # NoPeer
    BY RequestsAssumption, Zenon
  <2>3. \A s \in upd'.left : s \notin Requests'[p] \cup Cancelled'[p]
    BY <2>1, Zenon DEF IInv, Updating, Takes
  <2> QED  BY <2>1, <2>2, <2>3, Zenon DEF IInv, Updating, Unlocked, pieceVars
<1> QED  BY <1>4, <1>5, <1>6, <1>7, <1>8, Zenon DEF IInv

LEMMA RequestNewOK ==
  ASSUME IInv, NEW p \in Peers, NEW r \in Reqs, RequestNew(p, r)
  PROVE  IInv'
<1>1. /\ upd.peer = p /\ r \in upd.left /\ Popped(r) /\ holder[r] = NoPeer
      /\ UNCHANGED <<connVars, Cancelled, hedged, hedgedTo, writing, pieceVars, events>>
      /\ Request(p, r, Requests)
  BY Zenon DEF RequestNew
<1>2. WakeTypes'
  BY WakeOK, Zenon DEF RequestNew, IInv, Typed
<1>3. /\ Requests \in [Peers -> SUBSET Reqs] /\ Cancelled \in [Peers -> SUBSET Reqs]
      /\ holder \in [Reqs -> Peers \cup {NoPeer}] /\ hedged \subseteq Reqs
      /\ asked \in Counters
  BY Zenon DEF IInv, Typed, RequestTypes, ExpectTypes
<1>4. RequestTypes'
  BY <1>1, <1>3, Zenon DEF RequestTypes, Request
<1>5. \A x \in Peers : r \notin Requests[x]
  BY <1>1, RequestsAssumption DEF IInv, OneHolder
<1>6. /\ asked' \in Counters
      /\ \A x \in Peers, s \in Reqs :
            asked'[x][s] <= asked[x][s] + (IF x = p /\ s = r THEN 1 ELSE 0)
  <2> DEFINE g == [asked EXCEPT ![p][r] = asked[p][r] + 1]
  <2>1. asked' = g
    BY Zenon DEF RequestNew
  <2>2. \A x \in Peers, s \in Reqs : asked[x][s] \in Nat
    BY <1>3, Zenon DEF Counters
  <2>3. asked[p][r] + 1 \in Nat
    BY <2>2
  <2>4. /\ g \in Counters /\ g[p][r] = asked[p][r] + 1
        /\ \A x \in Peers, s \in Reqs : x # p \/ s # r => g[x][s] = asked[x][s]
    BY <1>3, <2>3, CountOK
  <2> HIDE DEF g
  <2> QED  BY <2>1, <2>2, <2>4
<1>7. Takes(p, r)
  BY <1>1, <1>3, <1>5, <1>6, Zenon DEF Takes, Request
<1> QED  BY <1>1, <1>2, <1>4, <1>6, <1>7, TakesOK, Zenon

\* What the other steps do to the requests: some are given up, and answered ones settled.
Kept(x, s) ==
    /\ valid'[x][s] = valid[x][s]
    /\ conn'[x] = "open" =>
          /\ asked'[x][s] <= asked[x][s]
          /\ x \in Fast /\ s \in Requests[x] \cup Cancelled[x]
                => s \in Requests'[x] \cup Cancelled'[x]

Settled(x, s) ==
    /\ valid[x][s] > 0 /\ valid'[x][s] = valid[x][s] - 1
    /\ asked[x][s] > 0 /\ asked'[x][s] <= asked[x][s] - 1
    /\ s \notin Requests'[x] \cup Cancelled'[x]

GivesUp ==
    /\ \A x \in Peers : /\ Requests'[x] \subseteq Requests[x]
                        /\ \A s \in Cancelled'[x] :
                              s \in Cancelled[x] \/ s \in Requests[x] \ Requests'[x]
    /\ \A s \in Reqs : holder'[s] \in {holder[s], NoPeer}
    /\ \A x \in Peers, s \in Reqs :
          s \in Requests[x] => holder'[s] = IF s \in Requests'[x] THEN x ELSE NoPeer

Releases ==
    /\ GivesUp
    /\ \A x \in Peers : conn'[x] = "open" => conn[x] = "open"
    /\ \A x \in Peers, s \in Reqs : Kept(x, s) \/ Settled(x, s)
    /\ hedgedTo' = hedgedTo

LEMMA ReleasesOK ==
  ASSUME IInv, Typed', Releases, AllDirtyHashed', Updating',
         \A s \in Reqs : holder'[s] # NoPeer => s \notin dirty' /\ phase'[PieceOf(s)] = "none"
  PROVE  IInv'
<1>1. \A x \in Peers, s \in Reqs : valid[x][s] \in Nat /\ asked[x][s] \in Nat
  BY DEF IInv, Typed, ExpectTypes, Counters
<1>2. \A x \in Peers, s \in Reqs : valid'[x][s] \in Nat /\ asked'[x][s] \in Nat
  BY Zenon DEF Typed, ExpectTypes, Counters
<1>3. OneHolder'
  <2>1. /\ holder \in [Reqs -> Peers \cup {NoPeer}]
        /\ \A x \in Peers : Requests'[x] \subseteq Reqs
        /\ \A x \in Peers, s \in Reqs : s \in Requests[x] <=> holder[s] = x
    BY Zenon DEF IInv, Typed, RequestTypes, OneHolder
  <2>2. \A x \in Peers, s \in Reqs : s \in Requests'[x] <=> holder'[s] = x
    BY <2>1, RequestsAssumption DEF Releases, GivesUp
  <2>3. \A x \in Peers : Requests'[x] \cap Cancelled'[x] = {}
    BY Zenon DEF IInv, OneHolder, Releases, GivesUp
  <2> QED  BY <2>2, <2>3, Zenon DEF OneHolder
<1>4. AnswersExpected' /\ AskedOnce'
  <2> SUFFICES ASSUME NEW x \in Peers, NEW s \in Reqs
               PROVE  /\ conn'[x] = "open" => asked'[x][s] <= valid'[x][s]
                      /\ s \in Requests'[x] \cup Cancelled'[x] => valid'[x][s] > 0
                      /\ x \in Fast \ hedgedTo /\ conn'[x] = "open" /\ asked'[x][s] > 0
                           => s \in Requests'[x] \cup Cancelled'[x]
                      /\ x \in Fast \ hedgedTo /\ conn'[x] = "open" => asked'[x][s] <= 1
    BY RequestsAssumption, Zenon DEF AnswersExpected, AskedOnce, Releases
  <2>1. /\ conn[x] = "open" => asked[x][s] <= valid[x][s]
        /\ s \in Requests[x] \cup Cancelled[x] => valid[x][s] > 0
        /\ x \in Fast \ hedgedTo /\ conn[x] = "open" /\ asked[x][s] > 0
             => s \in Requests[x] \cup Cancelled[x]
        /\ x \in Fast \ hedgedTo /\ conn[x] = "open" => asked[x][s] <= 1
    BY Zenon DEF IInv, AnswersExpected, AskedOnce
  <2>2. /\ s \in Requests'[x] \cup Cancelled'[x] => s \in Requests[x] \cup Cancelled[x]
        /\ conn'[x] = "open" => conn[x] = "open"
        /\ Kept(x, s) \/ Settled(x, s)
    BY Zenon DEF Releases, GivesUp
  <2>3. CASE Kept(x, s)
    BY <1>1, <1>2, <2>1, <2>2, <2>3 DEF Kept
  <2>4. CASE Settled(x, s)
    BY <1>1, <1>2, <2>1, <2>2, <2>4 DEF Settled
  <2> QED  BY <2>2, <2>3, <2>4, Zenon
<1> QED  BY <1>3, <1>4, Zenon DEF IInv

LEMMA StealOK ==
  ASSUME IInv, NEW p \in Peers, NEW r \in Reqs, Steal(p, r)
  PROVE  IInv'
<1> DEFINE q == holder[r]
           up == [asked EXCEPT ![p][r] = asked[p][r] + 1]
<1>1. /\ upd.peer = p /\ r \in upd.left /\ q \in Peers \ {p}
      /\ Cancelled' = Acked(q, r) /\ hedged' = hedged \ {r}
      /\ UNCHANGED <<connVars, hedgedTo, writing, pieceVars, events>>
  BY Zenon DEF Steal
<1>2. PICK sees \in BOOLEAN :
         \/ /\ Request(p, r, Uncancelled(q, r))
            /\ asked' = Forgets(q, r, up, sees)
            /\ Popped(r) /\ Wake(Lows({q}), {p, q})
         \/ /\ Requests[p] # {} /\ Requests' = Uncancelled(q, r)
            /\ holder' = [holder EXCEPT ![r] = NoPeer]
            /\ asked' = Forgets(q, r, asked, sees)
            /\ upd' = [upd EXCEPT !.left = {}] /\ UNCHANGED valid
            /\ Wake(Lows({q}), {q})
  BY Zenon DEF Steal
<1>3. WakeTypes'
  BY <1>2, WakeOK, Zenon DEF IInv, Typed
<1>4. /\ Requests \in [Peers -> SUBSET Reqs] /\ Cancelled \in [Peers -> SUBSET Reqs]
      /\ holder \in [Reqs -> Peers \cup {NoPeer}] /\ hedged \subseteq Reqs
      /\ asked \in Counters /\ valid \in Counters /\ upd \in Updates
      /\ \A x \in Peers, s \in Reqs : asked[x][s] \in Nat
  BY Zenon DEF IInv, Typed, RequestTypes, ExpectTypes, OtherTypes, Counters
<1>5. /\ Cancelled' \in [Peers -> SUBSET Reqs]
      /\ \A x \in Peers : x # q => Cancelled'[x] = Cancelled[x]
      /\ Cancelled'[q] = IF q \in Fast THEN Cancelled[q] \cup {r} ELSE Cancelled[q]
  BY <1>1, <1>4, Zenon DEF Acked
<1>6. /\ r \in Requests[q]
      /\ \A x \in Peers : x # q => r \notin Requests[x]
  BY <1>1, Zenon DEF IInv, OneHolder
<1> HIDE DEF q
<1>7. CASE /\ Request(p, r, Uncancelled(q, r))
           /\ asked' = Forgets(q, r, up, sees) /\ Popped(r)
  <2>1. asked[p][r] + 1 \in Nat
    BY <1>4
  <2>2. /\ up \in Counters /\ up[p][r] = asked[p][r] + 1
        /\ \A x \in Peers, s \in Reqs : x # p \/ s # r => up[x][s] = asked[x][s]
    BY <1>4, <2>1, CountOK
  <2> HIDE DEF up
  <2>3. asked' \in Counters /\ \A x \in Peers, s \in Reqs : asked'[x][s] <= up[x][s]
    BY <1>1, <1>7, <2>2, ForgetsOK, Zenon
  <2>4. \A x \in Peers, s \in Reqs :
           asked'[x][s] <= asked[x][s] + (IF x = p /\ s = r THEN 1 ELSE 0)
    <3> SUFFICES ASSUME NEW x \in Peers, NEW s \in Reqs
                 PROVE  asked'[x][s] <= asked[x][s] + (IF x = p /\ s = r THEN 1 ELSE 0)
      OBVIOUS
    <3>1. asked'[x][s] \in Nat /\ asked[x][s] \in Nat /\ asked'[x][s] <= up[x][s]
      BY <1>4, <2>3, Zenon DEF Counters
    <3> QED  BY <2>2, <3>1
  <2>5. /\ Requests' \in [Peers -> SUBSET Reqs] /\ Requests'[p] = Requests[p] \cup {r}
        /\ \A x \in Peers : x # p => Requests'[x] = Requests[x] \ {r}
        /\ holder' = [holder EXCEPT ![r] = p] /\ holder' \in [Reqs -> Peers \cup {NoPeer}]
        /\ valid' = [valid EXCEPT ![p][r] = valid[p][r] + 1]
    BY <1>1, <1>4, <1>6, <1>7 DEF Request, Uncancelled
  <2>6. Takes(p, r)
    BY <1>1, <1>5, <1>6, <2>4, <2>5 DEF Takes
  <2>7. RequestTypes'
    BY <1>1, <1>4, <1>5, <2>5, Zenon DEF RequestTypes
  <2> QED  BY <1>1, <1>3, <1>7, <2>3, <2>6, <2>7, TakesOK, Zenon
<1>8. CASE /\ Requests' = Uncancelled(q, r) /\ holder' = [holder EXCEPT ![r] = NoPeer]
           /\ asked' = Forgets(q, r, asked, sees)
           /\ upd' = [upd EXCEPT !.left = {}] /\ UNCHANGED valid
  <2>1. /\ Requests' \in [Peers -> SUBSET Reqs]
        /\ \A x \in Peers : x # q => Requests'[x] = Requests[x]
        /\ Requests'[q] = Requests[q] \ {r}
    BY <1>1, <1>4, <1>8, Zenon DEF Uncancelled
  <2>2. /\ holder' \in [Reqs -> Peers \cup {NoPeer}] /\ holder'[r] = NoPeer
        /\ \A s \in Reqs : s # r => holder'[s] = holder[s]
    BY <1>4, <1>8, Zenon
  <2>3. asked' \in Counters /\ \A x \in Peers, s \in Reqs : asked'[x][s] <= asked[x][s]
    BY <1>1, <1>4, <1>8, ForgetsOK, Zenon
  <2>4. upd' \in Updates /\ upd'.left = {} /\ upd'.peer = p
    BY <1>1, <1>4, <1>8, Zenon DEF Updates
  <2>5. Typed'
    BY <1>1, <1>3, <1>4, <1>5, <1>8, <2>1, <2>2, <2>3, <2>4, Zenon
       DEF IInv, Typed, ConnTypes, RequestTypes, ExpectTypes, PieceTypes, OtherTypes,
           connVars, pieceVars
  <2>6. Releases
    <3>1. \A x \in Peers, s \in Reqs : Kept(x, s)
      BY <1>1, <1>5, <1>8, <2>1, <2>3 DEF Kept
    <3>2. \A x \in Peers, s \in Reqs : s \in Requests[x] =>
              holder'[s] = IF s \in Requests'[x] THEN x ELSE NoPeer
      BY <1>1, <1>6, <2>1, <2>2 DEF IInv, OneHolder
    <3>3. \A x \in Peers : /\ Requests'[x] \subseteq Requests[x]
                           /\ \A s \in Cancelled'[x] :
                                 s \in Cancelled[x] \/ s \in Requests[x] \ Requests'[x]
      BY <1>1, <1>5, <1>6, <2>1
    <3> QED  BY <1>1, <2>2, <3>1, <3>2, <3>3, Zenon DEF Releases, GivesUp, connVars
  <2>7. AllDirtyHashed'
    BY <1>1, Zenon DEF IInv, AllDirtyHashed, pieceVars
  <2>8. Updating'
    BY <2>4, Zenon DEF Updating
  <2>9. \A s \in Reqs : holder'[s] # NoPeer => s \notin dirty' /\ phase'[PieceOf(s)] = "none"
    BY <1>1, <2>2, Zenon DEF IInv, OneHolder, pieceVars
  <2> QED  BY <2>5, <2>6, <2>7, <2>8, <2>9, ReleasesOK, Zenon
<1> QED  BY <1>2, <1>7, <1>8, Zenon

-----------------------------------------------------------------------------
(* Steps under the client's lock, between updates.                         *)

LEMMA NoUpdateOK ==
  ASSUME IInv, Unlocked, upd' = upd
  PROVE  Updating' /\ upd' \in Updates
BY Zenon DEF IInv, Updating, Unlocked, Typed, OtherTypes

LEMMA SameRequestsOK ==
  ASSUME IInv, UNCHANGED reqVars
  PROVE  GivesUp /\ RequestTypes'
BY Zenon DEF IInv, OneHolder, Typed, RequestTypes, GivesUp, reqVars

\* A step that gives up requests, or settles some, and leaves the pieces alone.
LEMMA AsideOK ==
  ASSUME IInv, Unlocked, Releases, ConnTypes', RequestTypes', ExpectTypes', WakeTypes',
         events' \in Nat, UNCHANGED <<writing, upd, pieceVars>>
  PROVE  IInv'
<1>1. Typed'
  BY Zenon DEF IInv, Typed, PieceTypes, OtherTypes, pieceVars
<1>2. AllDirtyHashed'
  BY Zenon DEF IInv, AllDirtyHashed, pieceVars
<1>3. \A s \in Reqs : holder'[s] # NoPeer => s \notin dirty' /\ phase'[PieceOf(s)] = "none"
  BY Zenon DEF IInv, OneHolder, Releases, GivesUp, pieceVars
<1> QED  BY <1>1, <1>2, <1>3, NoUpdateOK, ReleasesOK, Zenon

LEMMA DeleteAllOK ==
  ASSUME IInv, NEW p \in Peers, DeleteAll(p)
  PROVE  /\ GivesUp /\ RequestTypes' /\ Cancelled' = Cancelled
         /\ \A x \in Peers : x # p => Requests'[x] = Requests[x]
<1>1. /\ Requests \in [Peers -> SUBSET Reqs] /\ Cancelled \in [Peers -> SUBSET Reqs]
      /\ holder \in [Reqs -> Peers \cup {NoPeer}] /\ hedged \subseteq Reqs
  BY Zenon DEF IInv, Typed, RequestTypes
<1>2. /\ Requests' \in [Peers -> SUBSET Reqs] /\ Requests'[p] = {}
      /\ \A x \in Peers : x # p => Requests'[x] = Requests[x]
  BY <1>1, Zenon DEF DeleteAll
<1>3. /\ holder' \in [Reqs -> Peers \cup {NoPeer}]
      /\ \A s \in Reqs : holder'[s] = IF holder[s] = p THEN NoPeer ELSE holder[s]
  BY <1>1, Zenon DEF DeleteAll
<1>4. RequestTypes' /\ Cancelled' = Cancelled
  BY <1>1, <1>2, <1>3, Zenon DEF DeleteAll, RequestTypes
<1>5. GivesUp
  BY <1>2, <1>3, <1>4 DEF GivesUp, IInv, OneHolder
<1> QED  BY <1>2, <1>4, <1>5, Zenon

\* What is asked of p after some or all of it is forgotten.
LEMMA ForgottenOK ==
  ASSUME asked \in Counters, NEW p \in Peers, NEW R,
         asked' = [asked EXCEPT ![p] = [r \in Reqs |-> IF r \in R THEN asked[p][r] ELSE 0]]
  PROVE  /\ asked' \in Counters
         /\ \A x \in Peers, s \in Reqs : asked'[x][s] <= asked[x][s]
         /\ \A x \in Peers, s \in Reqs : x # p => asked'[x][s] = asked[x][s]
<1>1. asked' \in Counters
  BY Zenon DEF Counters
<1>2. \A x \in Peers, s \in Reqs :
         asked'[x][s] = IF x # p \/ s \in R THEN asked[x][s] ELSE 0
  BY Zenon DEF Counters
<1>3. \A x \in Peers, s \in Reqs : asked[x][s] \in Nat
  BY Zenon DEF Counters
<1> QED  BY <1>1, <1>2, <1>3

LEMMA ChokeOK ==
  ASSUME IInv, NEW p \in Peers, Choke(p)
  PROVE  IInv'
<1>1. /\ Unlocked /\ events' \in Nat
      /\ UNCHANGED <<conn, interested, has, valid, hedgedTo, writing, upd, pieceVars>>
  BY DEF Choke, Reads, Event, IInv, Typed, OtherTypes
<1>2. ConnTypes'
  <2>1. choked' \in Flags
    BY Zenon DEF Choke, IInv, Typed, ConnTypes, Flags
  <2> QED  BY <1>1, <2>1, Zenon DEF IInv, Typed, ConnTypes
<1>3. CASE p \in Fast
  <2>1. UNCHANGED <<reqVars, asked, wakeVars>>
    BY <1>3, Zenon DEF Choke
  <2>2. WakeTypes' /\ PieceTypes'
    BY <1>1, <2>1, Zenon DEF IInv, Typed, WakeTypes, PieceTypes, wakeVars, pieceVars
  <2> QED  BY <1>1, <1>2, <2>1, <2>2, StillOK, Zenon DEF expectVars, pieceVars
<1>4. CASE p \notin Fast
  <2>1. DeleteAll(p) /\ TellLows(p, Conns)
    BY <1>4, Zenon DEF Choke
  <2>2. PICK R \in SUBSET Requests[p] :
          asked' = [asked EXCEPT ![p] = [r \in Reqs |-> IF r \in R THEN asked[p][r] ELSE 0]]
    BY <1>4, Zenon DEF Choke
  <2>3. valid \in Counters /\ asked \in Counters /\ hedgedTo \subseteq Peers /\ WakeTypes
    BY Zenon DEF IInv, Typed, ExpectTypes
  <2>4. WakeTypes'
    BY <2>1, <2>3, WakeOK, Zenon DEF TellLows
  <2>5. asked' \in Counters /\ \A x \in Peers, s \in Reqs : asked'[x][s] <= asked[x][s]
    BY <2>2, <2>3, ForgottenOK, Zenon
  <2>6. ExpectTypes'
    BY <1>1, <2>3, <2>5, Zenon DEF ExpectTypes
  <2>7. /\ GivesUp /\ RequestTypes' /\ Cancelled' = Cancelled
        /\ \A x \in Peers : x # p => Requests'[x] = Requests[x]
    BY <2>1, DeleteAllOK, Zenon
  <2>8. Releases
    BY <1>1, <1>4, <2>5, <2>7, Zenon DEF Releases, Kept
  <2> QED  BY <1>1, <1>2, <2>4, <2>6, <2>7, <2>8, AsideOK, Zenon
<1> QED  BY <1>3, <1>4, Zenon

LEMMA DroppedOK ==
  ASSUME IInv, NEW p \in Peers, Unlocked, Dropped(p), events' \in Nat
  PROVE  IInv'
<1>1. /\ UNCHANGED <<choked, interested, has, valid, hedgedTo, writing, upd, pieceVars>>
      /\ DeleteAll(p) /\ TellLows(p, Conns \ {p})
  BY Zenon DEF Dropped
<1>2. valid \in Counters /\ asked \in Counters /\ hedgedTo \subseteq Peers /\ WakeTypes
      /\ conn \in States
  BY Zenon DEF IInv, Typed, ExpectTypes, ConnTypes
<1>3. /\ conn' \in States /\ conn'[p] = "gone"
      /\ \A x \in Peers : x # p => conn'[x] = conn[x]
  BY <1>2, Zenon DEF Dropped, States
<1>4. ConnTypes' /\ WakeTypes'
  BY <1>1, <1>2, <1>3, WakeOK, Zenon DEF IInv, Typed, ConnTypes, TellLows
<1>5. asked' \in Counters /\ \A x \in Peers, s \in Reqs : asked'[x][s] <= asked[x][s]
  <2>1. asked' \in Counters /\ \A x \in Peers, s \in Reqs : asked[x][s] \in Nat
    BY <1>2, Zenon DEF Dropped, Counters
  <2>2. \A x \in Peers, s \in Reqs : asked'[x][s] = IF x = p THEN 0 ELSE asked[x][s]
    BY <1>2, Zenon DEF Dropped, Counters
  <2> QED  BY <2>1, <2>2
<1>6. ExpectTypes'
  BY <1>1, <1>2, <1>5, Zenon DEF ExpectTypes
<1>7. /\ GivesUp /\ RequestTypes' /\ Cancelled' = Cancelled
      /\ \A x \in Peers : x # p => Requests'[x] = Requests[x]
  BY <1>1, DeleteAllOK, Zenon
<1>8. Releases
  BY <1>1, <1>3, <1>5, <1>7, Zenon DEF Releases, Kept
<1> QED  BY <1>1, <1>4, <1>6, <1>7, <1>8, AsideOK, Zenon

LEMMA DisconnectOK ==
  ASSUME IInv, NEW p \in Peers, Disconnect(p)
  PROVE  IInv'
<1>1. events' \in Nat
  BY DEF Disconnect, Event, IInv, Typed, OtherTypes
<1> QED  BY <1>1, DroppedOK, Zenon DEF Disconnect

LEMMA WriterFailsOK ==
  ASSUME IInv, NEW p \in Peers, WriterFails(p)
  PROVE  IInv'
<1>1. /\ Unlocked /\ events' \in Nat
      /\ UNCHANGED <<choked, interested, has, reqVars, valid, hedgedTo, wakeVars, writing,
                     upd, pieceVars>>
  BY DEF WriterFails, Event, IInv, Typed, OtherTypes
<1>2. valid \in Counters /\ asked \in Counters /\ hedgedTo \subseteq Peers /\ WakeTypes
      /\ conn \in States
  BY Zenon DEF IInv, Typed, ExpectTypes, ConnTypes
<1>3. /\ conn' \in States /\ conn'[p] = "closed"
      /\ \A x \in Peers : x # p => conn'[x] = conn[x]
  BY <1>2, Zenon DEF WriterFails, States
<1>4. ConnTypes' /\ WakeTypes'
  BY <1>1, <1>2, <1>3, Zenon DEF IInv, Typed, ConnTypes, WakeTypes, wakeVars
<1>5. asked' \in Counters /\ \A x \in Peers, s \in Reqs : asked'[x][s] <= asked[x][s]
  <2>1. asked' \in Counters /\ \A x \in Peers, s \in Reqs : asked[x][s] \in Nat
    BY <1>2, Zenon DEF WriterFails, Counters
  <2>2. \A x \in Peers, s \in Reqs : asked'[x][s] = IF x = p THEN 0 ELSE asked[x][s]
    BY <1>2, Zenon DEF WriterFails, Counters
  <2> QED  BY <2>1, <2>2
<1>6. ExpectTypes'
  BY <1>1, <1>2, <1>5, Zenon DEF ExpectTypes
<1>7. Releases
  BY <1>1, <1>3, <1>5, SameRequestsOK, Zenon DEF Releases, Kept, reqVars
<1> QED  BY <1>1, <1>4, <1>6, <1>7, SameRequestsOK, AsideOK, Zenon

LEMMA ReaderStillOK ==
  ASSUME IInv, NEW p \in Peers, Unchoke(p) \/ Suggest(p) \/ \E i \in Pieces : Have(p, i)
  PROVE  IInv'
<1>1. UNCHANGED <<conn, interested, reqVars, expectVars, writing, upd, pieceVars>>
  BY Zenon DEF Unchoke, Suggest, Have, connVars
<1>2. events' \in Nat
  BY DEF Unchoke, Suggest, Have, Event, IInv, Typed, OtherTypes
<1>3. WakeTypes'
  BY WakeOK, Zenon DEF Unchoke, Suggest, Have, IInv, Typed
<1>4. choked' \in Flags
  BY Zenon DEF Unchoke, Suggest, Have, connVars, IInv, Typed, ConnTypes, Flags
<1>5. has' \in [Peers -> SUBSET Pieces]
  BY Zenon DEF Unchoke, Suggest, Have, connVars, IInv, Typed, ConnTypes
<1>6. ConnTypes' /\ PieceTypes'
  BY <1>1, <1>4, <1>5, Zenon DEF IInv, Typed, ConnTypes, PieceTypes, pieceVars
<1> QED  BY <1>1, <1>2, <1>3, <1>6, StillOK, Zenon DEF pieceVars

LEMMA SetPriorityOK ==
  ASSUME IInv, NEW i \in Pieces, SetPriority(i)
  PROVE  IInv'
<1>1. UNCHANGED <<connVars, reqVars, expectVars, writing, upd, dirty, phase, disallowed>>
  BY Zenon DEF SetPriority
<1>2. events' \in Nat /\ wanted' \subseteq Pieces
  BY DEF SetPriority, Event, IInv, Typed, OtherTypes, PieceTypes
<1>3. WakeTypes'
  BY WakeOK, Zenon DEF SetPriority, IInv, Typed
<1>4. ConnTypes' /\ PieceTypes'
  BY <1>1, <1>2, Zenon DEF IInv, Typed, ConnTypes, PieceTypes, connVars
<1> QED  BY <1>1, <1>2, <1>3, <1>4, StillOK, Zenon DEF connVars

LEMMA RejectOK ==
  ASSUME IInv, NEW p \in Peers, NEW r \in Reqs, Reject(p, r)
  PROVE  IInv'
<1>1. Unlocked /\ asked[p][r] > 0 /\ events' \in Nat
  BY Zenon DEF Reject, Reads, IInv, Typed, OtherTypes
<1>2. CASE r \notin Requests[p] \cup Cancelled[p]
  BY <1>1, <1>2, DroppedOK, Zenon DEF Reject
<1>3. CASE r \in Requests[p] \cup Cancelled[p]
  <2> DEFINE v == [valid EXCEPT ![p][r] = valid[p][r] - 1]
             a == [asked EXCEPT ![p][r] = asked[p][r] - 1]
  <2>1. /\ Requests' = [Requests EXCEPT ![p] = @ \ {r}]
        /\ Cancelled' = IF r \in Requests[p] THEN Cancelled
                        ELSE [Cancelled EXCEPT ![p] = @ \ {r}]
        /\ holder' = IF r \in Requests[p] THEN [holder EXCEPT ![r] = NoPeer] ELSE holder
        /\ hedged' = IF r \in Requests[p] THEN hedged \ {r} ELSE hedged
        /\ valid' = v /\ asked' = a /\ hedgedTo' = hedgedTo
        /\ Wake(Lows({p}), {}) /\ UNCHANGED <<connVars, writing, upd, pieceVars>>
    BY <1>3, Zenon DEF Reject, Answered
  <2>2. /\ valid \in Counters /\ asked \in Counters /\ hedgedTo \subseteq Peers
        /\ Requests \in [Peers -> SUBSET Reqs] /\ Cancelled \in [Peers -> SUBSET Reqs]
        /\ holder \in [Reqs -> Peers \cup {NoPeer}] /\ hedged \subseteq Reqs
        /\ \A x \in Peers, s \in Reqs : asked[x][s] \in Nat /\ valid[x][s] \in Nat
    BY DEF IInv, Typed, ExpectTypes, RequestTypes, Counters
  <2>3. valid[p][r] > 0 /\ Requests[p] \cap Cancelled[p] = {}
        /\ \A x \in Peers, s \in Reqs : s \in Requests[x] <=> holder[s] = x
    BY <1>3, Zenon DEF IInv, AnswersExpected, OneHolder
  <2>4. /\ v \in Counters /\ v[p][r] = valid[p][r] - 1
        /\ \A x \in Peers, s \in Reqs : x # p \/ s # r => v[x][s] = valid[x][s]
    <3>1. valid[p][r] - 1 \in Nat
      BY <2>2, <2>3
    <3> QED  BY <2>2, <3>1, CountOK
  <2>5. /\ a \in Counters /\ a[p][r] = asked[p][r] - 1
        /\ \A x \in Peers, s \in Reqs : x # p \/ s # r => a[x][s] = asked[x][s]
    <3>1. asked[p][r] - 1 \in Nat
      BY <1>1, <2>2
    <3> QED  BY <2>2, <3>1, CountOK
  <2> HIDE DEF v, a
  <2>6. /\ \A x \in Peers : Requests'[x] = IF x = p THEN Requests[x] \ {r} ELSE Requests[x]
        /\ \A x \in Peers : Cancelled'[x] = IF x = p THEN Cancelled[x] \ {r} ELSE Cancelled[x]
        /\ \A s \in Reqs : holder'[s] = IF s = r /\ r \in Requests[p] THEN NoPeer
                                        ELSE holder[s]
    <3>1. r \in Requests[p] => Cancelled[p] \ {r} = Cancelled[p]
      BY <2>3
    <3> QED  BY <2>1, <2>2, <3>1, Zenon
  <2>7. RequestTypes'
    BY <2>1, <2>2, Zenon DEF RequestTypes
  <2>8. ConnTypes' /\ ExpectTypes'
    BY <2>1, <2>2, <2>4, <2>5, Zenon DEF IInv, Typed, ConnTypes, ExpectTypes, connVars
  <2>9. WakeTypes'
    BY <2>1, WakeOK, Zenon DEF IInv, Typed
  <2>10. GivesUp
    <3>1. \A x \in Peers : Requests'[x] \subseteq Requests[x]
                            /\ Cancelled'[x] \subseteq Cancelled[x]
      BY <2>6, Zenon
    <3>2. ASSUME NEW x \in Peers, NEW s \in Reqs, s \in Requests[x]
          PROVE  holder'[s] = IF s \in Requests'[x] THEN x ELSE NoPeer
      <4>1. CASE s = r /\ x = p  BY <2>6, <3>2, <4>1, Zenon
      <4>2. CASE s # r  BY <2>3, <2>6, <3>2, <4>2, ZenonT(60)
      <4>3. CASE s = r /\ x # p
        <5>1. r \notin Requests[p]
          BY <2>3, <3>2, <4>3
        <5> QED  BY <2>3, <2>6, <3>2, <4>3, <5>1, Zenon
      <4> QED  BY <4>1, <4>2, <4>3, Zenon
    <3> QED  BY <2>6, <3>1, <3>2, Zenon DEF GivesUp
  <2>11. Settled(p, r)
    BY <1>1, <2>1, <2>2, <2>3, <2>4, <2>5, <2>6 DEF Settled
  <2>12. \A x \in Peers, s \in Reqs : x # p \/ s # r => Kept(x, s)
    BY <2>1, <2>2, <2>4, <2>5, <2>6 DEF Kept
  <2>13. Releases
    BY <2>1, <2>10, <2>11, <2>12, Zenon DEF Releases, connVars
  <2> QED  BY <1>1, <2>1, <2>7, <2>8, <2>9, <2>13, AsideOK, Zenon
<1> QED  BY <1>2, <1>3, Zenon

LEMMA FireHedgeOK ==
  ASSUME IInv, NEW p \in Peers, NEW r \in Reqs, fireHedge(p, r)
  PROVE  IInv'
<1> DEFINE v == [valid EXCEPT ![p][r] = valid[p][r] + 1]
           a == [asked EXCEPT ![p][r] = asked[p][r] + 1]
<1>1. /\ Unlocked /\ valid' = v /\ (asked' = a \/ asked' = asked)
      /\ hedged' = hedged \cup {r} /\ hedgedTo' = hedgedTo \cup {p}
      /\ UNCHANGED <<connVars, Requests, Cancelled, holder, writing, upd, pieceVars>>
  BY Zenon DEF fireHedge
<1>2. /\ valid \in Counters /\ asked \in Counters /\ hedgedTo \subseteq Peers
      /\ \A x \in Peers, s \in Reqs : asked[x][s] \in Nat /\ valid[x][s] \in Nat
  BY Zenon DEF IInv, Typed, ExpectTypes, Counters
<1>3. asked[p][r] + 1 \in Nat /\ valid[p][r] + 1 \in Nat
  BY <1>2
<1>4. /\ v \in Counters /\ v[p][r] = valid[p][r] + 1
      /\ \A x \in Peers, s \in Reqs : x # p \/ s # r => v[x][s] = valid[x][s]
  BY <1>2, <1>3, CountOK
<1>5. /\ a \in Counters /\ a[p][r] = asked[p][r] + 1
      /\ \A x \in Peers, s \in Reqs : x # p \/ s # r => a[x][s] = asked[x][s]
  BY <1>2, <1>3, CountOK
<1> HIDE DEF v, a
<1>6. WakeTypes' /\ events' \in Nat
  BY WakeOK DEF fireHedge, Event, IInv, Typed, OtherTypes
<1>7. Typed'
  BY <1>1, <1>2, <1>4, <1>5, <1>6, Zenon
     DEF IInv, Typed, ConnTypes, RequestTypes, ExpectTypes, PieceTypes, OtherTypes,
         connVars, pieceVars
<1>8. OneHolder' /\ AllDirtyHashed'
  <2>1. OneHolder'
    BY <1>1, Zenon DEF IInv, OneHolder, pieceVars
  <2>2. AllDirtyHashed'
    BY <1>1, Zenon DEF IInv, AllDirtyHashed, pieceVars
  <2> QED  BY <2>1, <2>2, Zenon
<1>9. AnswersExpected' /\ AskedOnce'
  <2> SUFFICES ASSUME NEW x \in Peers, NEW s \in Reqs
               PROVE  /\ conn[x] = "open" => asked'[x][s] <= valid'[x][s]
                      /\ s \in Requests[x] \cup Cancelled[x] => valid'[x][s] > 0
                      /\ x \in Fast \ hedgedTo' /\ conn[x] = "open" /\ asked'[x][s] > 0
                           => s \in Requests[x] \cup Cancelled[x]
                      /\ x \in Fast \ hedgedTo' /\ conn[x] = "open" => asked'[x][s] <= 1
    BY <1>1, RequestsAssumption, Zenon DEF AnswersExpected, AskedOnce, connVars
  <2>1. /\ conn[x] = "open" => asked[x][s] <= valid[x][s]
        /\ s \in Requests[x] \cup Cancelled[x] => valid[x][s] > 0
        /\ x \in Fast \ hedgedTo /\ conn[x] = "open" /\ asked[x][s] > 0
             => s \in Requests[x] \cup Cancelled[x]
        /\ x \in Fast \ hedgedTo /\ conn[x] = "open" => asked[x][s] <= 1
    BY Zenon DEF IInv, AnswersExpected, AskedOnce
  <2>2. CASE x = p /\ s = r
    BY <1>1, <1>2, <1>4, <1>5, <2>1, <2>2
  <2>3. CASE x # p \/ s # r
    BY <1>1, <1>2, <1>4, <1>5, <2>1, <2>3
  <2> QED  BY <2>2, <2>3, Zenon
<1> QED  BY <1>1, <1>7, <1>8, <1>9, NoUpdateOK, Zenon DEF IInv

-----------------------------------------------------------------------------
(* Chunks that arrive, and pieces.                                         *)

LEMMA ReceivedOK ==
  ASSUME IInv, NEW p \in Peers, NEW r \in Reqs, Unlocked, writing[p] = NoReq,
         asked[p][r] > 0, valid[p][r] > 0, Received(p, r)
  PROVE  IInv'
<1> DEFINE mine == r \in Requests[p]
           others == OtherHolder(p, r)
           v == [valid EXCEPT ![p][r] = valid[p][r] - 1]
           a == [asked EXCEPT ![p][r] = asked[p][r] - 1]
<1>1. /\ valid' = v /\ hedgedTo' = hedgedTo
      /\ Requests' = [q \in Peers |-> IF q \in others \cup {p} THEN Requests[q] \ {r}
                                                            ELSE Requests[q]]
      /\ Cancelled' = [q \in Peers |->
                          IF q \in others \cap Fast THEN Cancelled[q] \cup {r}
                          ELSE IF q = p /\ ~mine THEN Cancelled[q] \ {r} ELSE Cancelled[q]]
      /\ holder' = IF mine \/ others # {} THEN [holder EXCEPT ![r] = NoPeer] ELSE holder
      /\ hedged' = IF mine \/ others # {} THEN hedged \ {r} ELSE hedged
      /\ dirty' = dirty \cup (IF haveChunk(r) THEN {} ELSE {r})
      /\ writing' = [writing EXCEPT ![p] = IF haveChunk(r) THEN NoReq ELSE r]
      /\ UNCHANGED <<connVars, upd, phase, wanted, disallowed, events>>
  BY Zenon DEF Received, Answered
<1>2. PICK sees \in BOOLEAN :
         asked' = IF others = {} THEN a
                  ELSE Forgets(CHOOSE q \in others : TRUE, r, a, sees)
  BY Zenon DEF Received
<1>3. WakeTypes'
  BY WakeOK, Zenon DEF Received, IInv, Typed
<1>4. /\ valid \in Counters /\ asked \in Counters /\ hedgedTo \subseteq Peers
      /\ Requests \in [Peers -> SUBSET Reqs] /\ Cancelled \in [Peers -> SUBSET Reqs]
      /\ holder \in [Reqs -> Peers \cup {NoPeer}] /\ hedged \subseteq Reqs
      /\ \A x \in Peers, s \in Reqs : asked[x][s] \in Nat /\ valid[x][s] \in Nat
      /\ dirty \subseteq Reqs /\ writing \in [Peers -> Reqs \cup {NoReq}]
  BY Zenon DEF IInv, Typed, ExpectTypes, RequestTypes, PieceTypes, OtherTypes, Counters
<1>5. /\ Requests[p] \cap Cancelled[p] = {}
      /\ \A x \in Peers, s \in Reqs : s \in Requests[x] <=> holder[s] = x
      /\ \A s \in Reqs : holder[s] # NoPeer => s \notin dirty /\ phase[PieceOf(s)] = "none"
  BY Zenon DEF IInv, OneHolder
<1>6. \A q \in others : q \in Peers /\ q # p /\ holder[r] = q /\ r \in Requests[q]
  BY <1>4, <1>5 DEF OtherHolder
<1>7. ~mine /\ others = {} => haveChunk(r) \/ holder[r] = NoPeer
  BY <1>5, Zenon DEF OtherHolder
<1>8. /\ v \in Counters /\ v[p][r] = valid[p][r] - 1
      /\ \A x \in Peers, s \in Reqs : x # p \/ s # r => v[x][s] = valid[x][s]
  <2>1. valid[p][r] - 1 \in Nat
    BY <1>4
  <2> QED  BY <1>4, <2>1, CountOK
<1>9. /\ a \in Counters /\ a[p][r] = asked[p][r] - 1
      /\ \A x \in Peers, s \in Reqs : x # p \/ s # r => a[x][s] = asked[x][s]
  <2>1. asked[p][r] - 1 \in Nat
    BY <1>4
  <2> QED  BY <1>4, <2>1, CountOK
<1> HIDE DEF v, a, others, mine
<1>10. asked' \in Counters /\ \A x \in Peers, s \in Reqs : asked'[x][s] <= a[x][s]
  <2>1. CASE others = {}
    BY <1>2, <1>9, <2>1 DEF Counters
  <2>2. CASE others # {}
    <3>1. PICK q \in Peers : q = CHOOSE s \in others : TRUE
      BY <1>6, <2>2, Zenon
    <3> QED  BY <1>2, <1>9, <2>2, <3>1, ForgetsOK, Zenon
  <2> QED  BY <2>1, <2>2, Zenon
<1>11. RequestTypes'
  <2>1. Requests' \in [Peers -> SUBSET Reqs]
    BY <1>1, <1>4, Zenon
  <2>2. Cancelled' \in [Peers -> SUBSET Reqs]
    BY <1>1, <1>4, Zenon
  <2> QED  BY <1>1, <1>4, <2>1, <2>2, Zenon DEF RequestTypes
<1>12. Typed'
  <2>1. PieceTypes' /\ OtherTypes'
    BY <1>1, <1>4, Zenon DEF IInv, Typed, PieceTypes, OtherTypes
  <2> QED
    BY <1>1, <1>3, <1>4, <1>8, <1>10, <1>11, <2>1, Zenon DEF IInv, Typed, ConnTypes,
       ExpectTypes, connVars
<1>13. /\ \A x \in Peers : x \in others \cup {p} => Requests'[x] = Requests[x] \ {r}
       /\ \A x \in Peers : x \notin others \cup {p} => Requests'[x] = Requests[x]
       /\ \A x \in Peers : x \in others \cap Fast => Cancelled'[x] = Cancelled[x] \cup {r}
       /\ \A x \in Peers : x \notin others \cap Fast /\ x # p => Cancelled'[x] = Cancelled[x]
       /\ mine => Cancelled'[p] = Cancelled[p]
       /\ ~mine => Cancelled'[p] = Cancelled[p] \ {r}
  BY <1>1, <1>6, Zenon
<1>14. /\ mine \/ others # {} => holder'[r] = NoPeer
       /\ ~mine /\ others = {} => holder' = holder
       /\ \A s \in Reqs : s # r => holder'[s] = holder[s]
  BY <1>1, <1>4, Zenon
<1>15. GivesUp
  <2>1. \A x \in Peers : /\ Requests'[x] \subseteq Requests[x]
                         /\ \A s \in Cancelled'[x] :
                               s \in Cancelled[x] \/ s \in Requests[x] \ Requests'[x]
    BY <1>6, <1>13 DEF mine
  <2>2. ASSUME NEW x \in Peers, NEW s \in Reqs, s \in Requests[x]
        PROVE  holder'[s] = IF s \in Requests'[x] THEN x ELSE NoPeer
    <3>1. CASE s # r
      BY <1>5, <1>13, <1>14, <2>2, <3>1
    <3>2. CASE s = r /\ x \in others \cup {p}
      BY <1>13, <1>14, <2>2, <3>2 DEF mine
    <3>3. CASE s = r /\ x \notin others \cup {p}
      <4>1. ~mine /\ others = {}
        BY <1>5, <1>6, <2>2, <3>3 DEF mine
      <4> QED  BY <1>5, <1>13, <1>14, <2>2, <3>3, <4>1
    <3> QED  BY <3>1, <3>2, <3>3, Zenon
  <2>3. \A s \in Reqs : holder'[s] \in {holder[s], NoPeer}
    BY <1>14, Zenon
  <2> QED  BY <2>1, <2>2, <2>3, Zenon DEF GivesUp
<1>16. Settled(p, r)
  <2>1. r \notin Requests'[p] \cup Cancelled'[p]
    BY <1>5, <1>13 DEF mine
  <2>2. asked'[p][r] <= asked[p][r] - 1
    BY <1>9, <1>10, Zenon
  <2> QED  BY <1>1, <1>8, <2>1, <2>2, Zenon DEF Settled
<1>17. ASSUME NEW x \in Peers, NEW s \in Reqs, x # p \/ s # r
       PROVE  Kept(x, s)
  <2>1. asked'[x][s] <= asked[x][s] /\ valid'[x][s] = valid[x][s]
    BY <1>1, <1>8, <1>9, <1>10, <1>17, Zenon
  <2>2. x \in Fast /\ s \in Requests[x] \cup Cancelled[x]
          => s \in Requests'[x] \cup Cancelled'[x]
    <3>1. CASE x = p  BY <1>13, <1>17, <3>1, Zenon
    <3>2. CASE x # p  BY <1>13, <3>2, Zenon
    <3> QED  BY <3>1, <3>2, Zenon
  <2> QED  BY <2>1, <2>2, Zenon DEF Kept
<1>18. Releases
  BY <1>1, <1>15, <1>16, <1>17, Zenon DEF Releases, connVars
<1>19. \A s \in Reqs : holder'[s] # NoPeer => s \notin dirty' /\ phase'[PieceOf(s)] = "none"
  <2> SUFFICES ASSUME NEW s \in Reqs, holder'[s] # NoPeer
               PROVE  s \notin dirty' /\ phase[PieceOf(s)] = "none"
    BY <1>1, Zenon
  <2>1. holder[s] # NoPeer /\ s \notin dirty /\ phase[PieceOf(s)] = "none"
    BY <1>5, <1>14, Zenon
  <2>2. CASE s # r  BY <1>1, <2>1, <2>2, Zenon
  <2>3. CASE s = r  BY <1>1, <1>7, <1>14, <2>1, <2>3, Zenon
  <2> QED  BY <2>1, <2>2, <2>3, Zenon
<1>20. AllDirtyHashed'
  <2> SUFFICES ASSUME NEW i \in Pieces, ReqsOf(i) \subseteq dirty',
                      \A x \in Peers : writing'[x] \notin ReqsOf(i)
               PROVE  phase[i] \in {"hashing", "marking"}
    BY <1>1, Zenon DEF AllDirtyHashed
  <2>1. writing[p] \notin ReqsOf(i)
    BY ReqFacts, Zenon
  <2>2. \A x \in Peers : writing[x] \notin ReqsOf(i)
    BY <1>1, <1>4, <2>1, Zenon
  <2>3. ReqsOf(i) \subseteq dirty
    BY <1>1, <1>4, Zenon
  <2> QED  BY <2>2, <2>3, Zenon DEF IInv, AllDirtyHashed
<1> QED  BY <1>1, <1>12, <1>18, <1>19, <1>20, NoUpdateOK, ReleasesOK, Zenon

LEMMA PieceOK ==
  ASSUME IInv, NEW p \in Peers, NEW r \in Reqs, Piece(p, r)
  PROVE  IInv'
<1>1. Unlocked /\ writing[p] = NoReq /\ asked[p][r] > 0
  BY Zenon DEF Piece, Reads
<1>2. CASE valid[p][r] = 0
  <2>1. events' \in Nat
    BY <1>2, Zenon DEF Piece, IInv, Typed, OtherTypes
  <2> QED  BY <1>1, <1>2, <2>1, DroppedOK, Zenon DEF Piece
<1>3. CASE valid[p][r] # 0
  <2>1. valid[p][r] > 0
    BY <1>3 DEF IInv, Typed, ExpectTypes, Counters
  <2> QED  BY <1>1, <1>3, <2>1, ReceivedOK, Zenon DEF Piece
<1> QED  BY <1>2, <1>3, Zenon

\* Steps that change pieces and no request.
LEMMA PieceStepOK ==
  ASSUME IInv, Unlocked, UNCHANGED <<connVars, reqVars, expectVars, upd>>,
         WakeTypes', PieceTypes', OtherTypes', AllDirtyHashed',
         \A s \in Reqs : holder[s] # NoPeer => s \notin dirty' /\ phase'[PieceOf(s)] = "none"
  PROVE  IInv'
<1>1. GivesUp /\ RequestTypes'
  BY SameRequestsOK, Zenon
<1>2. Typed'
  BY <1>1, Zenon DEF IInv, Typed, ConnTypes, ExpectTypes, connVars, expectVars
<1>3. \A x \in Peers, s \in Reqs : asked[x][s] \in Nat
  BY Zenon DEF IInv, Typed, ExpectTypes, Counters
<1>4. Releases
  BY <1>1, <1>3 DEF Releases, Kept, connVars, expectVars, reqVars
<1> QED  BY <1>2, <1>4, NoUpdateOK, ReleasesOK, Zenon DEF reqVars

LEMMA WriteDoneOK ==
  ASSUME IInv, NEW p \in Peers, WriteDone(p)
  PROVE  IInv'
<1> DEFINE i == PieceOf(writing[p])
           last == ReqsOf(i) \subseteq dirty /\ \A q \in Peers \ {p} : writing[q] \notin ReqsOf(i)
<1>1. /\ Unlocked /\ writing[p] # NoReq /\ writing' = [writing EXCEPT ![p] = NoReq]
      /\ phase' = IF last THEN [phase EXCEPT ![i] = "hashing"] ELSE phase
      /\ UNCHANGED <<connVars, reqVars, expectVars, wakeVars, upd, dirty, wanted, disallowed, events>>
  BY Zenon DEF WriteDone
<1>2. /\ writing \in [Peers -> Reqs \cup {NoReq}] /\ phase \in [Pieces -> Phases]
      /\ dirty \subseteq Reqs
  BY Zenon DEF IInv, Typed, PieceTypes, OtherTypes
<1>3. i \in Pieces /\ writing[p] \in ReqsOf(i)
  BY <1>1, <1>2, ReqFacts, Zenon
<1>4. "hashing" \in Phases
  BY Zenon DEF Phases
<1> HIDE DEF i
<1>5. WakeTypes' /\ PieceTypes' /\ OtherTypes'
  BY <1>1, <1>2, <1>3, <1>4, Zenon DEF IInv, Typed, WakeTypes, PieceTypes, OtherTypes, wakeVars
<1>6. /\ \A j \in Pieces : j # i => phase'[j] = phase[j]
      /\ last => phase'[i] = "hashing"
      /\ ~last => phase'[i] = phase[i]
  BY <1>1, <1>2, <1>3, Zenon
<1>7. AllDirtyHashed'
  <2> SUFFICES ASSUME NEW j \in Pieces, ReqsOf(j) \subseteq dirty,
                      \A x \in Peers : writing'[x] \notin ReqsOf(j)
               PROVE  phase'[j] \in {"hashing", "marking"}
    BY <1>1, Zenon DEF AllDirtyHashed
  <2>1. CASE j = i
    BY <1>1, <1>2, <1>6, <2>1, Zenon
  <2>2. CASE j # i
    <3>1. writing[p] \notin ReqsOf(j)
      BY <1>1, <1>2, <1>3, <2>2, ReqFacts, Zenon
    <3>2. \A x \in Peers : writing[x] \notin ReqsOf(j)
      BY <1>1, <1>2, <3>1, Zenon
    <3> QED  BY <1>6, <2>2, <3>2, Zenon DEF IInv, AllDirtyHashed
  <2> QED  BY <2>1, <2>2, Zenon
<1>8. \A s \in Reqs : holder[s] # NoPeer => s \notin dirty' /\ phase'[PieceOf(s)] = "none"
  <2> SUFFICES ASSUME NEW s \in Reqs, holder[s] # NoPeer
               PROVE  s \notin dirty /\ phase'[PieceOf(s)] = "none"
    BY <1>1, Zenon
  <2>1. s \notin dirty /\ phase[PieceOf(s)] = "none"
    BY Zenon DEF IInv, OneHolder
  <2>2. last => PieceOf(s) # i
    BY <1>3, <2>1, ReqFacts, Zenon
  <2> QED  BY <1>6, <2>1, <2>2, ReqFacts, Zenon
<1> QED  BY <1>1, <1>5, <1>7, <1>8, PieceStepOK, Zenon

LEMMA WriteFailsOK ==
  ASSUME IInv, NEW p \in Peers, WriteFails(p)
  PROVE  IInv'
<1>1. /\ Unlocked /\ writing[p] # NoReq /\ events' \in Nat
      /\ writing' = [writing EXCEPT ![p] = NoReq]
      /\ dirty' = dirty \ {writing[p]} /\ disallowed' = TRUE
      /\ Requests' = [q \in Peers |-> {}]
      /\ Cancelled' = [q \in Peers |-> Cancelled[q] \cup (IF q \in Fast THEN Requests[q] ELSE {})]
      /\ holder' = [r \in Reqs |-> NoPeer]
      /\ hedged' = hedged \ UNION {Requests[q] : q \in Peers}
      /\ Wake(Conns, {q \in Peers : Requests[q] # {}})
      /\ UNCHANGED <<connVars, valid, hedgedTo, upd, phase, wanted>>
  BY DEF WriteFails, Event, IInv, Typed, OtherTypes
<1>2. PICK sees \in BOOLEAN :
        asked' = [q \in Peers |-> [r \in Reqs |->
                    IF sees /\ q \notin Fast /\ r \in Requests[q] /\ asked[q][r] > 0
                    THEN asked[q][r] - 1 ELSE asked[q][r]]]
  BY Zenon DEF WriteFails
<1>3. /\ \A x \in Peers, s \in Reqs : asked[x][s] \in Nat
      /\ Requests \in [Peers -> SUBSET Reqs] /\ Cancelled \in [Peers -> SUBSET Reqs]
      /\ hedged \subseteq Reqs /\ dirty \subseteq Reqs
      /\ writing \in [Peers -> Reqs \cup {NoReq}]
  BY Zenon DEF IInv, Typed, RequestTypes, ExpectTypes, PieceTypes, OtherTypes, Counters
<1>4. asked' \in Counters /\ \A x \in Peers, s \in Reqs : asked'[x][s] <= asked[x][s]
  <2>1. \A x \in Peers, s \in Reqs :
           (IF sees /\ x \notin Fast /\ s \in Requests[x] /\ asked[x][s] > 0
            THEN asked[x][s] - 1 ELSE asked[x][s]) \in Nat
    BY <1>3
  <2>2. asked' \in Counters
    BY <1>2, <2>1, Zenon DEF Counters
  <2>3. \A x \in Peers, s \in Reqs : asked'[x][s] <= asked[x][s]
    BY <1>2, <1>3
  <2> QED  BY <2>2, <2>3, Zenon
<1>5. /\ RequestTypes'
      /\ \A x \in Peers : Requests'[x] = {} /\ Cancelled[x] \subseteq Cancelled'[x]
      /\ \A x \in Peers : x \in Fast => Cancelled'[x] = Cancelled[x] \cup Requests[x]
      /\ \A x \in Peers : x \notin Fast => Cancelled'[x] = Cancelled[x]
  <2>1. Cancelled' \in [Peers -> SUBSET Reqs]
    BY <1>1, <1>3, Zenon
  <2> QED  BY <1>1, <1>3, <2>1, Zenon DEF RequestTypes
<1>6. Typed'
  <2>1. WakeTypes'
    BY <1>1, WakeOK, Zenon DEF IInv, Typed
  <2>2. disallowed' \in Truths
    BY <1>1, Zenon DEF Truths
  <2> QED
    BY <1>1, <1>3, <1>4, <1>5, <2>1, <2>2, Zenon
       DEF IInv, Typed, ConnTypes, ExpectTypes, PieceTypes, OtherTypes, connVars
<1>7. Releases
  <2>1. GivesUp
    BY <1>1, <1>5, Zenon DEF GivesUp
  <2>2. \A x \in Peers, s \in Reqs : Kept(x, s)
    BY <1>1, <1>4, <1>5, Zenon DEF Kept
  <2> QED  BY <1>1, <2>1, <2>2, Zenon DEF Releases, connVars
<1>8. AllDirtyHashed'
  <2> SUFFICES ASSUME NEW i \in Pieces, ReqsOf(i) \subseteq dirty',
                      \A x \in Peers : writing'[x] \notin ReqsOf(i)
               PROVE  phase[i] \in {"hashing", "marking"}
    BY <1>1, Zenon DEF AllDirtyHashed
  <2>1. writing[p] \notin ReqsOf(i)
    BY <1>1, Zenon
  <2>2. \A x \in Peers : writing[x] \notin ReqsOf(i)
    BY <1>1, <1>3, <2>1, Zenon
  <2>3. ReqsOf(i) \subseteq dirty
    BY <1>1, Zenon
  <2> QED  BY <2>2, <2>3, Zenon DEF IInv, AllDirtyHashed
<1>9. \A s \in Reqs : holder'[s] = NoPeer
  BY <1>1, Zenon
<1> QED  BY <1>1, <1>6, <1>7, <1>8, <1>9, NoUpdateOK, ReleasesOK

\* A piece whose chunks have left dirtyChunks is not one whose chunks have all arrived.
LEMMA PieceAgainOK ==
  ASSUME IInv, NEW i \in Pieces, NEW ph, phase' = [phase EXCEPT ![i] = ph], writing' = writing,
         dirty' \subseteq dirty,
         ReqsOf(i) \subseteq dirty' => ph \in {"hashing", "marking"}
  PROVE  AllDirtyHashed'
<1>1. phase \in [Pieces -> Phases]
  BY Zenon DEF IInv, Typed, PieceTypes
<1> SUFFICES ASSUME NEW j \in Pieces, ReqsOf(j) \subseteq dirty',
                    \A x \in Peers : writing'[x] \notin ReqsOf(j)
             PROVE  phase'[j] \in {"hashing", "marking"}
  BY Zenon DEF AllDirtyHashed
<1>2. CASE j = i  BY <1>1, <1>2, Zenon
<1>3. CASE j # i
  <2>1. ReqsOf(j) \subseteq dirty /\ \A x \in Peers : writing[x] \notin ReqsOf(j)
    OBVIOUS
  <2> QED  BY <1>1, <1>3, <2>1, Zenon DEF IInv, AllDirtyHashed
<1> QED  BY <1>2, <1>3, Zenon

LEMMA HashOK ==
  ASSUME IInv, NEW i \in Pieces,
         HashFails(i) \/ HashPasses(i) \/ (Marked(i) /\ Again(i))
  PROVE  IInv'
<1>1. /\ Unlocked /\ phase[i] \in {"hashing", "marking"} /\ events' \in Nat
      /\ UNCHANGED <<connVars, expectVars, writing, upd, wanted, disallowed>>
      /\ UNCHANGED reqVars
  BY DEF HashFails, HashPasses, Marked, Again, Event, IInv, Typed, OtherTypes
<1>2. phase' = [phase EXCEPT ![i] = "marking"] \/ phase' = [phase EXCEPT ![i] = "none"]
  BY Zenon DEF HashFails, HashPasses, Again
<1>3. phase \in [Pieces -> Phases] /\ dirty \subseteq Reqs /\ WakeTypes
  BY Zenon DEF IInv, Typed, PieceTypes
<1>4. dirty' \subseteq dirty
  BY Zenon DEF HashFails, HashPasses, Marked
<1>5. phase' \in [Pieces -> Phases] /\ \A j \in Pieces : j # i => phase'[j] = phase[j]
  <2>1. "marking" \in Phases /\ "none" \in Phases
    BY Zenon DEF Phases
  <2> QED  BY <1>2, <1>3, <2>1, Zenon
<1>6. WakeTypes'
  <2>1. CASE HashPasses(i)
    BY <1>3, <2>1, Zenon DEF HashPasses, WakeTypes, wakeVars
  <2>2. CASE Again(i)
    BY <1>3, <2>2, WakeOK, Zenon DEF Again
  <2> QED  BY <2>1, <2>2, Zenon DEF HashFails
<1>7. PieceTypes' /\ OtherTypes'
  BY <1>1, <1>3, <1>4, <1>5, Zenon DEF IInv, Typed, PieceTypes, OtherTypes
<1>8. AllDirtyHashed'
  <2>1. CASE HashPasses(i)
    <3>1. phase' = [phase EXCEPT ![i] = "marking"]
      BY <2>1, Zenon DEF HashPasses
    <3> QED  BY <1>1, <1>4, <3>1, PieceAgainOK, Zenon
  <2>2. CASE HashFails(i) \/ (Marked(i) /\ Again(i))
    <3>1. phase' = [phase EXCEPT ![i] = "none"]
      BY <2>2, Zenon DEF HashFails, Again
    <3>2. ~(ReqsOf(i) \subseteq dirty')
      BY <2>2, ReqFacts DEF HashFails, Marked
    <3> QED  BY <1>1, <1>4, <3>1, <3>2, PieceAgainOK, Zenon
  <2> QED  BY <2>1, <2>2, Zenon
<1>9. \A s \in Reqs : holder[s] # NoPeer => s \notin dirty' /\ phase'[PieceOf(s)] = "none"
  <2> SUFFICES ASSUME NEW s \in Reqs, holder[s] # NoPeer
               PROVE  s \notin dirty' /\ phase'[PieceOf(s)] = "none"
    OBVIOUS
  <2>1. s \notin dirty /\ phase[PieceOf(s)] = "none"
    BY Zenon DEF IInv, OneHolder
  <2>2. PieceOf(s) # i
    BY <1>1, <2>1, Zenon
  <2> QED  BY <1>4, <1>5, <2>1, <2>2, ReqFacts, Zenon
<1> QED  BY <1>1, <1>6, <1>7, <1>8, <1>9, PieceStepOK, Zenon

LEMMA CompletedOK ==
  ASSUME IInv, NEW i \in Pieces, Marked(i), Completed(i)
  PROVE  IInv'
<1>1. /\ Unlocked /\ UNCHANGED <<connVars, expectVars, writing, upd, wanted, disallowed>>
      /\ dirty' = dirty \ ReqsOf(i) /\ events' \in Nat
  BY DEF Marked, Event, IInv, Typed, OtherTypes
<1>2. /\ phase' = [phase EXCEPT ![i] = "complete"]
      /\ Requests' = [q \in Peers |-> Requests[q] \ ReqsOf(i)]
      /\ Cancelled' = [q \in Peers |->
                          IF q \in Fast THEN Cancelled[q] \cup (Requests[q] \cap ReqsOf(i))
                                        ELSE Cancelled[q]]
      /\ holder' = [r \in Reqs |-> IF r \in ReqsOf(i) THEN NoPeer ELSE holder[r]]
      /\ hedged' = hedged \ {r \in ReqsOf(i) : holder[r] # NoPeer}
  BY Zenon DEF Completed
<1>3. /\ Requests \in [Peers -> SUBSET Reqs] /\ Cancelled \in [Peers -> SUBSET Reqs]
      /\ holder \in [Reqs -> Peers \cup {NoPeer}] /\ hedged \subseteq Reqs
      /\ phase \in [Pieces -> Phases] /\ dirty \subseteq Reqs
      /\ \A x \in Peers, s \in Reqs : asked[x][s] \in Nat
  BY Zenon DEF IInv, Typed, RequestTypes, ExpectTypes, PieceTypes, Counters
<1>4. /\ \A x \in Peers : Requests'[x] = Requests[x] \ ReqsOf(i)
      /\ \A x \in Peers : x \in Fast =>
            Cancelled'[x] = Cancelled[x] \cup (Requests[x] \cap ReqsOf(i))
      /\ \A x \in Peers : x \notin Fast => Cancelled'[x] = Cancelled[x]
      /\ \A s \in Reqs : holder'[s] = IF s \in ReqsOf(i) THEN NoPeer ELSE holder[s]
      /\ phase'[i] = "complete" /\ \A j \in Pieces : j # i => phase'[j] = phase[j]
  BY <1>2, <1>3, Zenon
<1>5. Typed'
  <2>1. RequestTypes'
    <3>1. Requests' \in [Peers -> SUBSET Reqs] /\ Cancelled' \in [Peers -> SUBSET Reqs]
      BY <1>2, <1>3, Zenon
    <3>2. holder' \in [Reqs -> Peers \cup {NoPeer}] /\ hedged' \subseteq Reqs
      BY <1>2, <1>3, Zenon
    <3> QED  BY <3>1, <3>2, Zenon DEF RequestTypes
  <2>2. WakeTypes'
    BY WakeOK, Zenon DEF Completed, IInv, Typed
  <2>3. "complete" \in Phases
    BY Zenon DEF Phases
  <2>4. PieceTypes'
    BY <1>1, <1>2, <1>3, <2>3, Zenon DEF IInv, Typed, PieceTypes
  <2> QED
    BY <1>1, <2>1, <2>2, <2>4, Zenon DEF IInv, Typed, ConnTypes, ExpectTypes, OtherTypes,
       connVars, expectVars
<1>6. Releases
  <2>1. \A x \in Peers, s \in Reqs : s \in Requests[x] =>
            holder'[s] = IF s \in Requests'[x] THEN x ELSE NoPeer
    BY <1>4 DEF IInv, OneHolder
  <2>2. \A x \in Peers : /\ Requests'[x] \subseteq Requests[x]
                         /\ \A s \in Cancelled'[x] :
                               s \in Cancelled[x] \/ s \in Requests[x] \ Requests'[x]
    BY <1>4
  <2>3. GivesUp
    BY <1>4, <2>1, <2>2, Zenon DEF GivesUp
  <2>4. \A x \in Peers, s \in Reqs : Kept(x, s)
    BY <1>1, <1>3, <1>4 DEF Kept, expectVars
  <2> QED  BY <1>1, <2>3, <2>4, ZenonT(60) DEF Releases, connVars, expectVars
<1>7. AllDirtyHashed'
  <2>1. ~(ReqsOf(i) \subseteq dirty')
    BY <1>1, ReqFacts
  <2> QED  BY <1>1, <1>2, <2>1, PieceAgainOK, Zenon
<1>8. \A s \in Reqs : holder'[s] # NoPeer => s \notin dirty' /\ phase'[PieceOf(s)] = "none"
  <2> SUFFICES ASSUME NEW s \in Reqs, holder'[s] # NoPeer
               PROVE  s \notin dirty' /\ phase'[PieceOf(s)] = "none"
    OBVIOUS
  <2>1. holder[s] # NoPeer /\ PieceOf(s) # i
    BY <1>4, ReqFacts, Zenon
  <2>2. s \notin dirty /\ phase[PieceOf(s)] = "none"
    BY <2>1, Zenon DEF IInv, OneHolder
  <2> QED  BY <1>1, <1>4, <2>1, <2>2, ReqFacts, Zenon
<1> QED  BY <1>1, <1>5, <1>6, <1>7, <1>8, NoUpdateOK, ReleasesOK, Zenon

\* Every step preserves the invariant.
LEMMA StepOK ==
  ASSUME IInv, [Next]_vars
  PROVE  IInv'
<1>1. ASSUME NEW p \in Peers, Writer(p)  PROVE IInv'
  BY <1>1, WriterStepsOK, FillUpdatesOK, PopOK, RequestNewOK, StealOK, Zenon DEF Writer
<1>2. ASSUME NEW p \in Peers, Reader(p)  PROVE IInv'
  BY <1>2, ChokeOK, ReaderStillOK, RejectOK, PieceOK, WriteDoneOK, WriteFailsOK, Zenon
     DEF Reader
<1>3. ASSUME NEW p \in Peers, WriterFails(p) \/ Disconnect(p)  PROVE IInv'
  BY <1>3, WriterFailsOK, DisconnectOK, Zenon
<1>4. ASSUME NEW p \in Peers, NEW r \in Reqs, fireHedge(p, r)  PROVE IInv'
  BY <1>4, FireHedgeOK, Zenon
<1>5. ASSUME NEW i \in Pieces, Hasher(i)  PROVE IInv'
  <2>1. Marked(i) => Completed(i) \/ Again(i)
    BY Zenon DEF Marked
  <2> QED  BY <1>5, <2>1, HashOK, CompletedOK, Zenon DEF Hasher
<1>6. ASSUME NEW i \in Pieces, SetPriority(i)  PROVE IInv'
  BY <1>6, SetPriorityOK, Zenon
<1>7. CASE UNCHANGED vars
  <2>1. ConnTypes' /\ WakeTypes' /\ PieceTypes' /\ events' \in Nat
    BY <1>7, Zenon DEF vars, connVars, wakeVars, pieceVars, IInv, Typed, ConnTypes, WakeTypes,
       PieceTypes, OtherTypes
  <2> QED  BY <1>7, <2>1, StillOK, Zenon DEF vars, connVars, pieceVars
<1> QED  BY <1>1, <1>2, <1>3, <1>4, <1>5, <1>6, <1>7, Zenon DEF Next

-----------------------------------------------------------------------------
(* The theorems.                                                           *)

\* The inductive invariant, of which the other theorems are parts.
THEOREM RequestsInvariant == Spec => [](TypeOK /\ IInv)
<1>1. Init => IInv
  BY InitOK, Zenon
<1>2. IInv /\ [Next]_vars => IInv'
  BY StepOK, Zenon
<1>3. IInv => TypeOK
  BY TypeParts, Zenon DEF IInv
<1> QED  BY <1>1, <1>2, <1>3, PTL DEF Spec

\* Whatever connections do and whoever steals from whom, a chunk is asked of one connection
\* at a time, its record and the torrent's agree (deleteRequest and receiveChunk never
\* panic), and no chunk that has arrived is asked of anybody.
THEOREM OneHolderAlways == Spec => []OneHolder
BY RequestsInvariant, PTL DEF IInv

\* A chunk that a remote owes is expected when it comes, and decExpectedChunkReceive never
\* panics on a reject; without hedges a reject never drops the connection.
THEOREM AnswersAlwaysExpected == Spec => []AnswersExpected
BY RequestsInvariant, PTL DEF IInv

\* However the writes of a piece's chunks interleave, fail and are repeated, the last one
\* to finish leaves the piece with the hasher.
THEOREM LastWriterHashes == Spec => []AllDirtyHashed
BY RequestsInvariant, PTL DEF IInv
=============================================================================
