------------------------- MODULE TranscodeServiceProofs -------------------------
(***************************************************************************)
(* What the table of remuxing tasks promises, for every set of torrents,   *)
(* callers and limits.  The inductive invariant ServiceInv says that a     *)
(* task is at one place until it is disposed of and at none from then on   *)
(* (OnePlace), that no two tasks were used at the same time (Ranked),      *)
(* which makes the eviction leave no more than it may, and what a call has *)
(* in hand at each of its steps (CallOK).  Each action preserves it, by a  *)
(* lemma.                                                                  *)
(***************************************************************************)
EXTENDS TranscodeService, FiniteSetTheorems, TLAPS

\* Where a task can be: in the table, with an actor that is to dispose of it, or with the
\* caller that is to put it into the table.
TaskPlaces == Hashes \cup Actors
Has(x, t) ==
    \/ x \in Hashes /\ tasks[x] = t
    \/ x \in Actors /\ t \in trash[x]
    \/ x \in Callers /\ call[x].at = "insert" /\ call[x].task = t

\* A task is at one place until it is disposed of, and then at none.
OnePlace ==
    \A t \in Made :
        /\ \A x, y \in TaskPlaces : Has(x, t) /\ Has(y, t) => x = y
        /\ made[t].disposed <=> \A x \in TaskPlaces : ~Has(x, t)

\* No two tasks were used at the same time.
Ranked == order \in [Made -> Made] /\ \A t, u \in Made : order[t] = order[u] => t = u

\* A caller asks for something until it is back, makes a task for the torrent it asks for,
\* and has nothing to dispose of before it has put its task into the table.
CallOK(p) ==
    /\ call[p].at # "idle" => call[p].hash \in Hashes /\ call[p].track \in Tracks
    /\ call[p].at = "insert" => call[p].task \in Made /\ made[call[p].task].hash = call[p].hash
    /\ call[p].at # "trash" => trash[p] = {}

MadeTask == [hash : Hashes, track : Tracks, disposed : BOOLEAN]
CallPhases == {"idle", "find", "probe", "insert", "trash", "wait", "check"}
Calls == [at : CallPhases, hash : Hashes \cup {Nobody}, track : Tracks \cup {Nobody},
          task : Made \cup {NoTask}]

Shaped ==
    /\ made \in Seq(MadeTask) /\ tasks \in [Hashes -> Made \cup {NoTask}]
    /\ stale \subseteq Made /\ snapshot \subseteq Made /\ limit \in Nat
    /\ flight \in [Hashes \X Tracks -> Callers \cup {Nobody}]
    /\ call \in [Callers -> Calls] /\ trash \in [Actors -> SUBSET Made]

Keyed == \A h \in Hashes : tasks[h] # NoTask => made[tasks[h]].hash = h
Unswapped == closing \in {"open", "flagged"} => trash["service"] = {}

ServiceInv ==
    /\ Shaped /\ Ranked /\ OnePlace /\ Keyed /\ Unswapped
    /\ \A p \in Callers : CallOK(p)
    /\ WithinLimit /\ UsedTasksSpared

-----------------------------------------------------------------------------
(* Eviction: the tasks are ranked by Before, no two of them alike, so that *)
(* at most n of a table of tasks are left.                                 *)

LEMMA MadeTyped ==
  ASSUME Shaped
  PROVE  Len(made) \in Nat /\ made \in [Made -> MadeTask] /\ \A t \in Made : made[t].disposed \in BOOLEAN
<1>1. Len(made) \in Nat /\ made \in [Made -> MadeTask]
  BY DEF Shaped, Made
<1>2. \A t \in Made : made[t].disposed \in BOOLEAN
  BY <1>1, Zenon DEF MadeTask
<1> QED  BY <1>1, <1>2, Zenon

LEMMA BeforeOrder ==
  ASSUME Shaped, Ranked
  PROVE  /\ \A t \in Made : ~Before(t, t)
         /\ \A t, u \in Made : t # u => Before(t, u) \/ Before(u, t)
         /\ \A t, u, v \in Made : Before(t, u) /\ Before(u, v) => Before(t, v)
<1>1. \A t \in Made : made[t].disposed \in BOOLEAN
  BY MadeTyped, Zenon
<1>2. \A t \in Made : order[t] \in Int
  BY DEF Ranked, Made
<1>3. \A t, u \in Made : t # u => order[t] < order[u] \/ order[u] < order[t]
  BY <1>2 DEF Ranked
<1>4. \A t \in Made : ~(order[t] < order[t])
  BY <1>2
<1>5. \A t, u, v \in Made : order[t] < order[u] /\ order[u] < order[v] => order[t] < order[v]
  BY <1>2
<1> QED  BY <1>1, <1>3, <1>4, <1>5, Zenon DEF Before

\* The tasks of S that come before t.
Ahead(S, t) == {u \in S : Before(u, t)}

LEMMA AheadRank ==
  ASSUME Shaped, Ranked, NEW S \in SUBSET Made, IsFiniteSet(S)
  PROVE  /\ \A t \in S : Cardinality(Ahead(S, t)) \in 0 .. Cardinality(S) - 1
         /\ \A t, u \in S : Cardinality(Ahead(S, t)) = Cardinality(Ahead(S, u)) => t = u
<1>1. \A t \in S : Ahead(S, t) \subseteq S \ {t}
  BY BeforeOrder, Zenon DEF Ahead
<1>2. \A t \in S : IsFiniteSet(Ahead(S, t)) /\ Cardinality(Ahead(S, t)) \in Nat
  <2> TAKE t \in S
  <2>1. Ahead(S, t) \subseteq S  BY Zenon DEF Ahead
  <2> QED  BY <2>1, FS_Subset, FS_CardinalityType
<1>3. ASSUME NEW t \in S  PROVE Cardinality(Ahead(S, t)) \in 0 .. Cardinality(S) - 1
  <2>1. IsFiniteSet(S \ {t}) /\ Cardinality(S \ {t}) = Cardinality(S) - 1
    BY FS_RemoveElement
  <2>2. Cardinality(Ahead(S, t)) <= Cardinality(S \ {t})
    BY <1>1, <2>1, FS_Subset
  <2> QED  BY <1>2, <2>1, <2>2, FS_CardinalityType
<1>4. ASSUME NEW t \in S, NEW u \in S, Before(t, u)
      PROVE  Cardinality(Ahead(S, t)) < Cardinality(Ahead(S, u))
  <2>1. Ahead(S, t) \subseteq Ahead(S, u) /\ t \in Ahead(S, u) /\ t \notin Ahead(S, t)
    BY <1>4, BeforeOrder, Zenon DEF Ahead
  <2>2. Ahead(S, t) \subseteq Ahead(S, u) \ {t}  BY <2>1
  <2>3. IsFiniteSet(Ahead(S, u) \ {t}) /\ Cardinality(Ahead(S, u) \ {t}) = Cardinality(Ahead(S, u)) - 1
    BY <1>2, <2>1, FS_RemoveElement
  <2>4. Cardinality(Ahead(S, t)) <= Cardinality(Ahead(S, u) \ {t})
    BY <2>2, <2>3, FS_Subset
  <2> QED  BY <1>2, <2>3, <2>4
<1>5. ASSUME NEW t \in S, NEW u \in S, Cardinality(Ahead(S, t)) = Cardinality(Ahead(S, u)), t # u
      PROVE  FALSE
  <2>1. Before(t, u) \/ Before(u, t)  BY <1>5, BeforeOrder, Zenon
  <2>2. Cardinality(Ahead(S, t)) \in Nat /\ Cardinality(Ahead(S, u)) \in Nat  BY <1>2, Zenon
  <2>3. ~(Cardinality(Ahead(S, t)) < Cardinality(Ahead(S, u)))
        /\ ~(Cardinality(Ahead(S, u)) < Cardinality(Ahead(S, t)))
    BY <1>5, <2>2
  <2> QED  BY <1>4, <2>1, <2>3, Zenon
<1> QED  BY <1>3, <1>5, Zenon

\* evictTasksForLimitLocked leaves at most n tasks, the protected one among them.
LEMMA EvictedLeaves ==
  ASSUME Shaped, Ranked, NEW T \in SUBSET Made, IsFiniteSet(T), NEW n \in Nat, n # 0,
         NEW protected, protected \in T \/ protected \notin Made
  PROVE  Cardinality(T \ Evicted(T, n, protected)) <= n
<1> DEFINE S == T \ {protected}
           c == Cardinality(T)
           k == Cardinality(S)
           rank(t) == Cardinality(Ahead(S, t))
           K == {t \in S : rank(t) >= c - n}
<1>1. CASE c <= n
  <2>1. Evicted(T, n, protected) = {}  BY <1>1 DEF Evicted
  <2> QED  BY <1>1, <2>1, T \ {} = T
<1>2. CASE ~(c <= n)
  <2>1. c \in Nat /\ k \in Nat /\ IsFiniteSet(S) /\ S \subseteq Made
        /\ (protected \in T => k = c - 1) /\ (protected \notin T => k = c)
    <3>1. CASE protected \in T
      BY <3>1, FS_RemoveElement, FS_CardinalityType
    <3>2. CASE protected \notin T
      <4>1. S = T  BY <3>2
      <4> QED  BY <3>2, <4>1, FS_CardinalityType, Zenon
    <3> QED  BY <3>1, <3>2
  <2> HIDE DEF k, c, S
  <2>2. /\ \A t \in S : rank(t) \in 0 .. k - 1
        /\ \A t, u \in S : rank(t) = rank(u) => t = u
    BY <2>1, AheadRank DEF k
  <2>3. Evicted(T, n, protected) = {t \in S : rank(t) < c - n}
    BY <1>2 DEF Evicted, c, S, Ahead
  <2> HIDE DEF rank
  <2>4. K \subseteq S /\ IsFiniteSet(K)
    BY <2>1, FS_Subset
  <2>5. Cardinality(K) <= k - (c - n)
    <3> DEFINE I == (c - n) .. (k - 1)
               f == [t \in K |-> rank(t)]
    <3>1. f \in [K -> I]
      BY <2>1, <2>2
    <3>2. \A t, u \in K : f[t] = f[u] => t = u
      BY <2>2
    <3>3. f \in Injection(K, I)
      BY <3>1, <3>2 DEF Injection, IsInjective
    <3>4. IsFiniteSet(I) /\ Cardinality(I) = (IF c - n > k - 1 THEN 0 ELSE (k - 1) - (c - n) + 1)
      BY <2>1, FS_Interval
    <3>5. Cardinality(K) <= Cardinality(I)
      BY <3>3, <3>4, FS_Injection
    <3>6. k - (c - n) \in Nat
      BY <1>2, <2>1
    <3> QED  BY <2>1, <3>4, <3>5, <3>6
  <2> HIDE DEF K
  <2>8. Cardinality(K) \in Nat  BY <2>4, FS_CardinalityType
  <2>6. CASE protected \in T
    <3>1. T \ Evicted(T, n, protected) = K \cup {protected} /\ protected \notin K
      BY <2>1, <2>2, <2>3, <2>6 DEF S, K
    <3>2. Cardinality(K \cup {protected}) = Cardinality(K) + 1
      BY <2>4, <3>1, FS_AddElement, Zenon
    <3>3. Cardinality(K) + 1 <= n  BY <2>1, <2>5, <2>6, <2>8
    <3> QED  BY <3>1, <3>2, <3>3, Zenon
  <2>7. CASE protected \notin T
    <3>1. T \ Evicted(T, n, protected) = K
      BY <2>1, <2>2, <2>3, <2>7 DEF S, K
    <3>2. Cardinality(K) <= n  BY <2>1, <2>5, <2>7, <2>8
    <3> QED  BY <3>1, <3>2, Zenon
  <2> QED  BY <2>6, <2>7
<1>3. c \in Nat  BY FS_CardinalityType
<1> QED  BY <1>1, <1>2, <1>3

-----------------------------------------------------------------------------
(* What the steps of the actions do to the places of the tasks.            *)

LEMMA NoTaskUnmade == NoTask \notin Made
<1>1. NoTask \notin Nat  BY ServiceAssumption, Zenon
<1>2. Made \subseteq Nat  BY DEF Made
<1> QED  BY <1>1, <1>2, Zenon

LEMMA HeldMade ==
  ASSUME Shaped
  PROVE  Held \subseteq Made /\ IsFiniteSet(Held) /\ \A h \in Hashes : tasks[h] \in Held \/ tasks[h] = NoTask
<1>1. Held \subseteq Made  BY Zenon DEF Shaped, Held
<1>2. IsFiniteSet(Made) 
  BY MadeTyped, FS_Interval DEF Made
<1> QED  BY <1>1, <1>2, FS_Subset, Zenon DEF Held

LEMMA UsedRanks ==
  ASSUME Shaped, Ranked, NEW t \in Made, Used(t), made' = made
  PROVE  Ranked' /\ stale' \subseteq Made
<1>1. stale' \subseteq Made  BY Zenon DEF Used, Shaped
<1>2. Made' = Made  BY Zenon DEF Made
<1>3. \A u \in Made : order[u] \in 1 .. Len(made)
  BY Zenon DEF Ranked, Made
<1>4. order' = [u \in Made |-> IF u = t THEN Len(made)
                               ELSE IF order[u] > order[t] THEN order[u] - 1 ELSE order[u]]
  BY Zenon DEF Used
<1>5. \A u, v \in Made : order[u] = order[v] => u = v  BY Zenon DEF Ranked
<1>6. Len(made) \in Nat  BY MadeTyped, Zenon
<1>7. \A u \in Made : order'[u] \in 1 .. Len(made)
  BY <1>3, <1>4, <1>6 DEF Made
<1>8. \A u, v \in Made : order'[u] = order'[v] => u = v
  BY <1>3, <1>4, <1>5, <1>6
<1>9. order' \in [Made -> Made]
  BY <1>4, <1>7, Zenon DEF Made
<1> QED  BY <1>1, <1>2, <1>8, <1>9, Zenon DEF Ranked

\* Every task keeps its place.
LEMMA PlacesKept ==
  ASSUME OnePlace, UNCHANGED <<tasks, trash>>, Made' = Made,
         \A t \in Made : made'[t].disposed = made[t].disposed,
         \A p \in Callers : call'[p] = call[p] \/ (call[p].at # "insert" /\ call'[p].at # "insert")
  PROVE  OnePlace'
<1>1. \A x \in TaskPlaces, t \in Made : Has(x, t)' <=> Has(x, t)
  BY Zenon DEF Has
<1>2. TaskPlaces' = TaskPlaces  BY Zenon DEF TaskPlaces, Actors
<1> HIDE DEF Has
<1> QED  BY <1>1, <1>2, Zenon DEF OnePlace

\* The tasks of M are taken from the table, by an actor that is to dispose of them.
LEMMA Taken ==
  ASSUME Shaped, OnePlace, Keyed, NEW a \in Actors \ Callers, NEW M \in SUBSET Held, trash[a] = {},
         trash' = [trash EXCEPT ![a] = M], tasks' = Without(M, tasks), UNCHANGED <<made, call>>
  PROVE  OnePlace' /\ Keyed' /\ tasks' \in [Hashes -> Made \cup {NoTask}] /\ Held' \subseteq Held \ M
         /\ trash' \in [Actors -> SUBSET Made]
<1>1. Made' = Made /\ TaskPlaces' = TaskPlaces  BY Zenon DEF Made, TaskPlaces, Actors
<1>2. M \subseteq Made /\ NoTask \notin M  BY HeldMade, NoTaskUnmade, Zenon
<1>3. /\ \A h \in Hashes : tasks'[h] = IF tasks[h] \in M THEN NoTask ELSE tasks[h]
      /\ tasks' \in [Hashes -> Made \cup {NoTask}]
  BY Zenon DEF Without, Shaped
<1>4. /\ trash' \in [Actors -> SUBSET Made] /\ trash'[a] = M
      /\ \A b \in Actors : b # a => trash'[b] = trash[b]
  BY <1>2, Zenon DEF Shaped
<1>5. NoTask \notin Made  BY NoTaskUnmade, Zenon
<1>6. ASSUME NEW t \in Made, t \in M, NEW x \in TaskPlaces  PROVE Has(x, t)' <=> x = a
  <2>1. PICK h \in Hashes : tasks[h] = t  BY <1>6, Zenon DEF Held
  <2>2. \A y \in TaskPlaces : Has(y, t) => y = h
    BY <2>1, Zenon DEF OnePlace, Has, TaskPlaces
  <2>3. h \notin Actors
    BY ServiceAssumption, Zenon DEF Actors
  <2>4. \A b \in Actors : t \notin trash[b]
    BY <2>2, <2>3, Zenon DEF Has, TaskPlaces
  <2>5. \A p \in Callers : ~(call[p].at = "insert" /\ call[p].task = t)
    BY <2>2, <2>3, Zenon DEF Has, TaskPlaces, Actors
  <2>6. \A g \in Hashes : tasks'[g] # t
    BY <1>3, <1>5, <1>6, Zenon
  <2> QED  BY <1>4, <1>6, <2>4, <2>5, <2>6, Zenon DEF Has
<1>7. ASSUME NEW t \in Made, t \notin M, NEW x \in TaskPlaces  PROVE Has(x, t)' <=> Has(x, t)
  BY <1>3, <1>4, <1>5, <1>7, Zenon DEF Has
<1>8. ASSUME NEW t \in M  PROVE ~made[t].disposed
  <2>1. PICK h \in Hashes : tasks[h] = t  BY <1>8, Zenon DEF Held
  <2> QED  BY <1>2, <2>1, Zenon DEF OnePlace, Has, TaskPlaces
<1>9. OnePlace'
  <2> SUFFICES ASSUME NEW t \in Made
               PROVE  /\ \A x, y \in TaskPlaces : Has(x, t)' /\ Has(y, t)' => x = y
                      /\ made[t].disposed <=> \A x \in TaskPlaces : ~Has(x, t)'
    BY <1>1, Zenon DEF OnePlace
  <2> HIDE DEF Has
  <2>1. a \in TaskPlaces  BY Zenon DEF TaskPlaces
  <2>2. CASE t \in M  BY <1>6, <1>8, <2>1, <2>2, Zenon
  <2>3. CASE t \notin M  BY <1>7, <2>3, Zenon DEF OnePlace
  <2> QED  BY <2>2, <2>3, Zenon
<1>10. Keyed'  BY <1>3, Zenon DEF Keyed
<1>11. Held' \subseteq Held \ M  BY <1>3, ZenonT(60) DEF Held
<1> QED  BY <1>3, <1>4, <1>9, <1>10, <1>11, Zenon

-----------------------------------------------------------------------------
(* The actions.                                                            *)

LEMMA ServiceInvInit == ASSUME ServiceInit  PROVE ServiceInv
<1>1. made = <<>> /\ Len(made) = 0 /\ Made = {}
  BY DEF ServiceInit, Made
<1>2. Held = {}
  BY Zenon DEF ServiceInit, Held
<1>3. made \in Seq(MadeTask) /\ limit \in Nat
  BY ServiceAssumption DEF ServiceInit
<1>4. \A p \in Callers : call[p] = IdleCall /\ IdleCall \in Calls
  BY Zenon DEF ServiceInit, Calls, CallPhases, IdleCall
<1>5. Shaped
  BY <1>1, <1>3, <1>4, Zenon DEF ServiceInit, Shaped
<1>6. Ranked
  <2>1. order = <<>>  BY Zenon DEF ServiceInit
  <2>2. order \in [{} -> {}]  BY <2>1
  <2> QED  BY <1>1, <2>2, Zenon DEF Ranked
<1>7. OnePlace /\ Keyed
  BY <1>1, Zenon DEF OnePlace, Keyed, ServiceInit
<1>8. \A p \in Callers : CallOK(p)
  BY <1>4, Zenon DEF CallOK, IdleCall, ServiceInit, Actors
<1>9. Unswapped /\ UsedTasksSpared
  BY Zenon DEF Unswapped, UsedTasksSpared, ServiceInit, Actors
<1>10. WithinLimit
  <2>1. Cardinality(Held) = 0  BY <1>2, FS_EmptySet, Zenon
  <2> QED  BY <1>2, <1>3, <2>1 DEF WithinLimit, ServiceInit
<1> QED  BY <1>5, <1>6, <1>7, <1>8, <1>9, <1>10, Zenon DEF ServiceInv

\* Only calls move on, and those that do neither have a task to insert nor get one.
LEMMA CallsMove ==
  ASSUME ServiceInv, UNCHANGED <<tasks, made, limit, closing, snapshot, trash>>,
         Ranked', UsedTasksSpared', stale' \subseteq Made, cached' => cached \/ closing = "open",
         flight' \in [Hashes \X Tracks -> Callers \cup {Nobody}], call' \in [Callers -> Calls],
         \A p \in Callers : call'[p] = call[p] \/
            /\ call[p].at # "insert" /\ call'[p].at # "insert" /\ trash[p] = {}
            /\ call'[p].at # "idle" => call'[p].hash \in Hashes /\ call'[p].track \in Tracks
  PROVE  ServiceInv'
<1>1. Made' = Made /\ Calls' = Calls  BY Zenon DEF Made, Calls
<1>2. Shaped'  BY <1>1, Zenon DEF Shaped, ServiceInv
<1>3. OnePlace'  BY <1>1, PlacesKept, Zenon DEF ServiceInv
<1>4. Keyed' /\ Unswapped'  BY Zenon DEF ServiceInv, Keyed, Unswapped
<1>5. \A p \in Callers : CallOK(p)'
  BY <1>1, Zenon DEF ServiceInv, CallOK
<1>6. WithinLimit'
  BY Zenon DEF ServiceInv, WithinLimit, Held
<1> QED  BY <1>2, <1>3, <1>4, <1>5, <1>6, Zenon DEF ServiceInv

LEMMA JoinMoves ==
  ASSUME ServiceInv, NEW p \in Callers, NEW k \in Hashes \X Tracks, call[p].at \in {"idle", "check"}, Join(p, k)
  PROVE  /\ flight' \in [Hashes \X Tracks -> Callers \cup {Nobody}] /\ call' \in [Callers -> Calls]
         /\ \A q \in Callers : call'[q] = call[q] \/
              /\ call[q].at # "insert" /\ call'[q].at # "insert" /\ trash[q] = {}
              /\ call'[q].at # "idle" => call'[q].hash \in Hashes /\ call'[q].track \in Tracks
<1>1. PICK h \in Hashes, x \in Tracks : k[1] = h /\ k[2] = x  BY Zenon
<1>2. PICK at \in {"find", "wait"} :
        call' = [call EXCEPT ![p] = [at |-> at, hash |-> h, track |-> x, task |-> NoTask]]
  BY <1>1, Zenon DEF Join
<1>3. flight' \in [Hashes \X Tracks -> Callers \cup {Nobody}]
  BY ZenonT(60) DEF ServiceInv, Shaped, Join
<1> DEFINE c == [at |-> at, hash |-> h, track |-> x, task |-> NoTask]
<1>4. c \in Calls /\ c.at = at /\ c.hash = h /\ c.track = x
  BY Zenon DEF Calls, CallPhases
<1> HIDE DEF c
<1>5. call' \in [Callers -> Calls] /\ call'[p] = c /\ \A q \in Callers : q # p => call'[q] = call[q]
  BY <1>2, <1>4, Zenon DEF ServiceInv, Shaped, c
<1>6. trash[p] = {}  BY Zenon DEF ServiceInv, CallOK
<1> QED  BY <1>3, <1>4, <1>5, <1>6, Zenon

LEMMA ReturnsMove ==
  ASSUME ServiceInv, NEW p \in Callers, NEW t \in Made \cup {NoTask}, call[p].at \notin {"idle", "insert"},
         trash[p] = {}, CallReturns(p, t)
  PROVE  /\ flight' \in [Hashes \X Tracks -> Callers \cup {Nobody}] /\ call' \in [Callers -> Calls]
         /\ \A q \in Callers : call'[q] = call[q] \/
              /\ call[q].at # "insert" /\ call'[q].at # "insert" /\ trash[q] = {}
              /\ call'[q].at # "idle" => call'[q].hash \in Hashes /\ call'[q].track \in Tracks
<1>1. flight' \in [Hashes \X Tracks -> Callers \cup {Nobody}]
  BY Zenon DEF ServiceInv, Shaped, CallReturns
<1>2. IdleCall \in Calls /\ IdleCall.at = "idle"
  BY Zenon DEF IdleCall, Calls, CallPhases
<1>3. ASSUME NEW q \in Callers
      PROVE  LET c == [call[q] EXCEPT !.at = "check", !.task = t]
             IN  c \in Calls /\ c.at = "check" /\ c.hash = call[q].hash /\ c.track = call[q].track
  <2>1. call[q] \in Calls /\ "check" \in CallPhases
    BY Zenon DEF ServiceInv, Shaped, CallPhases
  <2> QED  BY <2>1, Zenon DEF Calls
<1>4. \A q \in Callers : call'[q] \in {call[q], IdleCall, [call[q] EXCEPT !.at = "check", !.task = t]}
  BY Zenon DEF CallReturns
<1>5. call' \in [Callers -> Calls]
  BY <1>2, <1>3, Zenon DEF CallReturns, ServiceInv, Shaped
<1>6. \A q \in Callers : call'[q] = call[q] \/ (q = p \/ call[q].at = "wait")
  BY Zenon DEF CallReturns
<1>7. \A q \in Callers : CallOK(q)  BY Zenon DEF ServiceInv
<1>8. ASSUME NEW q \in Callers, call'[q] # call[q]
      PROVE  /\ call[q].at # "insert" /\ call'[q].at # "insert" /\ trash[q] = {}
             /\ call'[q].at # "idle" => call'[q].hash \in Hashes /\ call'[q].track \in Tracks
  <2>1. call[q].at \notin {"idle", "insert"} /\ trash[q] = {}
    BY <1>6, <1>7, <1>8, Zenon DEF CallOK
  <2>2. call[q].hash \in Hashes /\ call[q].track \in Tracks
    BY <1>7, <2>1, Zenon DEF CallOK
  <2> QED  BY <1>2, <1>3, <1>4, <1>8, <2>1, <2>2, Zenon
<1> QED  BY <1>1, <1>5, <1>8, Zenon

LEMMA GetOrAddKeeps ==
  ASSUME ServiceInv, NEW p \in Callers, NEW k \in Hashes \X Tracks, GetOrAdd(p, k)
  PROVE  ServiceInv'
<1>1. call[p].at = "idle"
  <2>1. IdleCall.at = "idle"  BY DEF IdleCall
  <2> QED  BY <2>1, Zenon DEF GetOrAdd
<1>2. /\ UNCHANGED <<tasks, made, limit, closing, snapshot, trash, order, stale, cached>> /\ Join(p, k)
      /\ Made' = Made
  BY Zenon DEF GetOrAdd, table, Made
<1>3. Ranked' /\ UsedTasksSpared' /\ stale' \subseteq Made
  BY <1>2, Zenon DEF ServiceInv, Ranked, UsedTasksSpared, Shaped
<1> QED  BY <1>1, <1>2, <1>3, JoinMoves, CallsMove, Zenon

LEMMA CheckKeeps ==
  ASSUME ServiceInv, NEW p \in Callers, Check(p)
  PROVE  ServiceInv'
<1>1. call[p].at = "check" /\ CallOK(p)  BY Zenon DEF Check, ServiceInv
<1>2. /\ UNCHANGED <<tasks, made, limit, closing, snapshot, trash, order, stale, cached>> /\ Made' = Made
  BY Zenon DEF Check, table, Made
<1>3. Ranked' /\ UsedTasksSpared' /\ stale' \subseteq Made
  BY <1>2, Zenon DEF ServiceInv, Ranked, UsedTasksSpared, Shaped
<1>4. CASE call' = [call EXCEPT ![p] = IdleCall] /\ UNCHANGED flight
  <2>1. IdleCall \in Calls /\ IdleCall.at = "idle"
    BY Zenon DEF IdleCall, Calls, CallPhases
  <2>2. /\ call' \in [Callers -> Calls] /\ call'[p] = IdleCall
        /\ \A q \in Callers : q # p => call'[q] = call[q]
    BY <1>4, <2>1, Zenon DEF ServiceInv, Shaped
  <2>3. trash[p] = {}  BY <1>1, Zenon DEF CallOK
  <2>4. flight' \in [Hashes \X Tracks -> Callers \cup {Nobody}]
    BY <1>4, Zenon DEF ServiceInv, Shaped
  <2> QED  BY <1>1, <1>2, <1>3, <2>1, <2>2, <2>3, <2>4, CallsMove, Zenon
<1>5. CASE Join(p, Key(p))
  <2>1. Key(p) \in Hashes \X Tracks  BY <1>1, Zenon DEF CallOK, Key
  <2> QED  BY <1>1, <1>2, <1>3, <1>5, <2>1, JoinMoves, CallsMove, Zenon
<1> QED  BY <1>4, <1>5, Zenon DEF Check

LEMMA InsertedKeeps ==
  ASSUME ServiceInv, NEW p \in Callers, Inserted(p)
  PROVE  ServiceInv'
<1>1. call[p].at = "trash" /\ trash[p] = {} /\ CallReturns(p, call[p].task)  BY Zenon DEF Inserted
<1>2. /\ UNCHANGED <<tasks, made, limit, closing, snapshot, trash, order, stale, cached>> /\ Made' = Made
  BY Zenon DEF Inserted, table, Made
<1>3. Ranked' /\ UsedTasksSpared' /\ stale' \subseteq Made
  BY <1>2, Zenon DEF ServiceInv, Ranked, UsedTasksSpared, Shaped
<1>4. call[p].task \in Made \cup {NoTask}  BY Zenon DEF ServiceInv, Shaped, Calls
<1> QED  BY <1>1, <1>2, <1>3, <1>4, ReturnsMove, CallsMove, Zenon

\* A task that is used is in the table, so the clean-up is not disposing of it.
LEMMA UsedSpares ==
  ASSUME ServiceInv, NEW h \in Hashes, tasks[h] # NoTask, Used(tasks[h]), UNCHANGED made,
         trash'["cleaner"] = trash["cleaner"]
  PROVE  tasks[h] \in Made /\ Ranked' /\ stale' \subseteq Made /\ UsedTasksSpared'
<1>1. tasks[h] \in Made  BY Zenon DEF ServiceInv, Shaped
<1>2. Ranked' /\ stale' \subseteq Made  BY <1>1, UsedRanks, Zenon DEF ServiceInv
<1>3. h # "cleaner" /\ "cleaner" \in Actors  BY ServiceAssumption, Zenon DEF Actors
<1>4. tasks[h] \notin trash["cleaner"]
  BY <1>1, <1>3, Zenon DEF ServiceInv, OnePlace, Has, TaskPlaces
<1> QED  BY <1>1, <1>2, <1>4, Zenon DEF Used, ServiceInv, UsedTasksSpared

LEMMA FindKeeps ==
  ASSUME ServiceInv, NEW p \in Callers, Find(p)
  PROVE  ServiceInv'
<1>1. call[p].at = "find" /\ CallOK(p)  BY Zenon DEF Find, ServiceInv
<1>2. UNCHANGED <<tasks, made, limit, closing, snapshot, trash, cached>> /\ Made' = Made
  BY Zenon DEF Find, Made
<1>3. trash[p] = {} /\ call[p].hash \in Hashes /\ call[p].track \in Tracks  BY <1>1, Zenon DEF CallOK
<1>4. CASE UNCHANGED <<order, stale>>
  <2>1. Ranked' /\ UsedTasksSpared' /\ stale' \subseteq Made
    BY <1>2, <1>4, Zenon DEF ServiceInv, Ranked, UsedTasksSpared, Shaped
  <2>2. CASE CallReturns(p, NoTask)
    BY <1>1, <1>2, <1>3, <2>1, <2>2, ReturnsMove, CallsMove, Zenon
  <2>3. CASE Goes(p, "probe") /\ UNCHANGED flight
    <3> DEFINE c == [call[p] EXCEPT !.at = "probe"]
    <3>1. c \in Calls /\ c.at = "probe" /\ c.hash = call[p].hash /\ c.track = call[p].track
      <4>1. call[p] \in Calls /\ "probe" \in CallPhases
        BY Zenon DEF ServiceInv, Shaped, CallPhases
      <4> QED  BY <4>1, Zenon DEF Calls
    <3>2. call' = [call EXCEPT ![p] = c]  BY <2>3, Zenon DEF Goes
    <3> HIDE DEF c
    <3>3. call' \in [Callers -> Calls] /\ call'[p] = c /\ \A q \in Callers : q # p => call'[q] = call[q]
      BY <3>1, <3>2, Zenon DEF ServiceInv, Shaped
    <3>4. flight' \in [Hashes \X Tracks -> Callers \cup {Nobody}]
      BY <2>3, Zenon DEF ServiceInv, Shaped
    <3> QED  BY <1>1, <1>2, <1>3, <2>1, <3>1, <3>3, <3>4, CallsMove, Zenon
  <2>4. CASE Matches(tasks[call[p].hash], p) /\ CallReturns(p, tasks[call[p].hash])
    <3>1. tasks[call[p].hash] \in Made \cup {NoTask}  BY <1>3, Zenon DEF ServiceInv, Shaped
    <3> QED  BY <1>1, <1>2, <1>3, <2>1, <2>4, <3>1, ReturnsMove, CallsMove, Zenon
  <2> QED  BY <2>2, <2>3, <2>4, Zenon DEF Find
<1>5. CASE /\ Matches(tasks[call[p].hash], p) /\ Used(tasks[call[p].hash])
           /\ CallReturns(p, tasks[call[p].hash])
  <2>1. tasks[call[p].hash] # NoTask  BY <1>5, Zenon DEF Matches
  <2>2. tasks[call[p].hash] \in Made /\ Ranked' /\ stale' \subseteq Made /\ UsedTasksSpared'
    BY <1>2, <1>3, <1>5, <2>1, UsedSpares, Zenon
  <2> QED  BY <1>1, <1>2, <1>3, <1>5, <2>2, ReturnsMove, CallsMove, Zenon
<1> QED  BY <1>4, <1>5, Zenon DEF Find

LEMMA GetKeeps ==
  ASSUME ServiceInv, NEW h \in Hashes, Get(h)
  PROVE  ServiceInv'
<1>1. UNCHANGED <<tasks, made, limit, cached, closing, flight, call, snapshot, trash, calls>> /\ Made' = Made
  BY Zenon DEF Get, Made
<1>2. Ranked' /\ stale' \subseteq Made /\ UsedTasksSpared'
  BY <1>1, UsedSpares, Zenon DEF Get
<1>3. /\ flight' \in [Hashes \X Tracks -> Callers \cup {Nobody}] /\ call' \in [Callers -> Calls]
      /\ \A q \in Callers : call'[q] = call[q]
  BY <1>1, Zenon DEF ServiceInv, Shaped
<1> QED  BY <1>1, <1>2, <1>3, CallsMove, Zenon

-----------------------------------------------------------------------------
(* The actions that take tasks from the table.                             *)

LEMMA TakenKeeps ==
  ASSUME ServiceInv, NEW a \in Actors \ Callers, NEW M \in SUBSET Held, trash[a] = {},
         trash' = [trash EXCEPT ![a] = M], tasks' = Without(M, tasks),
         UNCHANGED <<made, call, order, stale, flight>>, snapshot' \subseteq Made, limit' \in Nat,
         a = "service" => closing' = "swapped", a # "service" => UNCHANGED closing,
         a = "cleaner" => M \subseteq stale,
         limit' # 0 => Cardinality(Held \ M) <= limit', closing' = "swapped" /\ closing # "swapped" => M = Held,
         closing' = "done" => ~cached'
  PROVE  ServiceInv'
<1>1. Made' = Made /\ Calls' = Calls  BY Zenon DEF Made, Calls
<1>2. OnePlace' /\ Keyed' /\ tasks' \in [Hashes -> Made \cup {NoTask}] /\ Held' \subseteq Held \ M
      /\ trash' \in [Actors -> SUBSET Made]
  BY Taken, Zenon DEF ServiceInv
<1>3. Shaped'  BY <1>1, <1>2, Zenon DEF ServiceInv, Shaped
<1>4. Ranked'  BY <1>1, Zenon DEF ServiceInv, Ranked
<1>5. trash'[a] = M /\ \A b \in Actors : b # a => trash'[b] = trash[b]
  BY Zenon DEF ServiceInv, Shaped
<1>6. \A p \in Callers : CallOK(p)'
  <2>1. \A p \in Callers : trash'[p] = trash[p]  BY <1>5, Zenon DEF Actors
  <2> QED  BY <1>1, <2>1, Zenon DEF ServiceInv, CallOK
<1>7. {"cleaner", "service"} \subseteq Actors  BY Zenon DEF Actors
<1>8. Unswapped'  BY <1>5, <1>7, Zenon DEF ServiceInv, Unswapped
<1>9. UsedTasksSpared'  BY <1>5, <1>7, Zenon DEF ServiceInv, UsedTasksSpared
<1>10. WithinLimit'
  <2>1. limit' # 0 => Cardinality(Held') <= limit'
    <3>1. IsFiniteSet(Held \ M)
      BY HeldMade, FS_Subset, Held \ M \subseteq Held, Zenon DEF ServiceInv
    <3>2. Cardinality(Held') <= Cardinality(Held \ M) /\ IsFiniteSet(Held')
      BY <1>2, <3>1, FS_Subset, Zenon
    <3>3. Cardinality(Held') \in Nat /\ Cardinality(Held \ M) \in Nat
      BY <3>1, <3>2, FS_CardinalityType, Zenon
    <3> HIDE DEF Held
    <3> QED  BY <3>2, <3>3
  <2>2. closing' \in {"swapped", "done"} => Held' = {}
    BY <1>2, Zenon DEF ServiceInv, WithinLimit
  <2> QED  BY <2>1, <2>2, Zenon DEF WithinLimit
<1> QED  BY <1>2, <1>3, <1>4, <1>6, <1>8, <1>9, <1>10, Zenon DEF ServiceInv

\* What is taken from a table within its limit leaves one within it.
LEMMA FewerHeld ==
  ASSUME ServiceInv, NEW M, limit # 0
  PROVE  Cardinality(Held \ M) <= limit
<1>1. IsFiniteSet(Held) /\ Held \ M \subseteq Held  BY HeldMade, Zenon DEF ServiceInv
<1>2. Cardinality(Held \ M) <= Cardinality(Held) /\ IsFiniteSet(Held \ M)  BY <1>1, FS_Subset, Zenon
<1>3. Cardinality(Held \ M) \in Nat /\ Cardinality(Held) \in Nat  BY <1>1, <1>2, FS_CardinalityType, Zenon
<1>4. Cardinality(Held) <= limit /\ limit \in Nat  BY Zenon DEF ServiceInv, WithinLimit, Shaped
<1> QED  BY <1>2, <1>3, <1>4

LEMMA TryRemoveKeeps ==
  ASSUME ServiceInv, NEW h \in Hashes, TryRemove(h)
  PROVE  ServiceInv'
<1> DEFINE M == {tasks[h]}
<1>1. M \in SUBSET Held  BY HeldMade, Zenon DEF TryRemove, ServiceInv
<1>2. \A g \in Hashes : tasks[g] = tasks[h] => g = h
  BY Zenon DEF TryRemove, ServiceInv, Keyed
<1>3. tasks' = Without(M, tasks)
  <2>1. tasks' \in [Hashes -> Made \cup {NoTask}]
    BY Zenon DEF TryRemove, ServiceInv, Shaped
  <2>2. \A g \in Hashes : tasks'[g] = IF tasks[g] \in M THEN NoTask ELSE tasks[g]
    BY <1>2, Zenon DEF TryRemove, ServiceInv, Shaped
  <2> QED  BY <2>1, <2>2, Zenon DEF Without
<1>4. "remove" \in Actors \ Callers /\ "remove" \notin {"cleaner", "service"}
  BY ServiceAssumption, Zenon DEF Actors
<1>5. /\ UNCHANGED <<made, call, order, stale, flight, snapshot, limit, closing, cached>>
      /\ trash["remove"] = {} /\ trash' = [trash EXCEPT !["remove"] = M]
  BY Zenon DEF TryRemove
<1>6. /\ limit' # 0 => Cardinality(Held \ M) <= limit'
      /\ snapshot' \subseteq Made /\ limit' \in Nat /\ (closing' = "done" => ~cached')
  BY <1>5, FewerHeld, Zenon DEF ServiceInv, Shaped, WithinLimit
<1> QED  BY <1>1, <1>3, <1>4, <1>5, <1>6, TakenKeeps, Zenon

LEMMA updateConfigKeeps ==
  ASSUME ServiceInv, NEW n \in Limits, updateConfig(n)
  PROVE  ServiceInv'
<1> DEFINE M == Evicted(Held, n, NoTask)
<1>1. M \in SUBSET Held  BY Zenon DEF Evicted
<1>2. "config" \in Actors \ Callers /\ "config" \notin {"cleaner", "service"}
  BY ServiceAssumption, Zenon DEF Actors
<1>3. /\ UNCHANGED <<made, call, order, stale, flight, snapshot, closing, cached>> /\ limit' = n
      /\ trash["config"] = {} /\ trash' = [trash EXCEPT !["config"] = M] /\ tasks' = Without(M, tasks)
  BY Zenon DEF updateConfig
<1>4. n \in Nat  BY ServiceAssumption, Zenon
<1>5. n # 0 => Cardinality(Held \ M) <= n
  BY <1>4, HeldMade, NoTaskUnmade, EvictedLeaves, Zenon DEF ServiceInv
<1>6. snapshot' \subseteq Made /\ (closing' = "done" => ~cached')
  BY <1>3, Zenon DEF ServiceInv, Shaped, WithinLimit
<1> HIDE DEF M
<1> QED  BY <1>1, <1>2, <1>3, <1>4, <1>5, <1>6, TakenKeeps, Zenon

LEMMA SwapKeeps ==
  ASSUME ServiceInv, Swap
  PROVE  ServiceInv'
<1>1. "service" \in Actors \ Callers /\ "service" # "cleaner"
  BY ServiceAssumption, Zenon DEF Actors
<1>2. trash["service"] = {}  BY Zenon DEF Swap, ServiceInv, Unswapped
<1>3. tasks' = Without(Held, tasks)
  BY HeldMade, Zenon DEF Swap, Without, ServiceInv
<1>4. /\ UNCHANGED <<made, call, order, stale, flight, snapshot, limit, cached>> /\ closing' = "swapped"
      /\ trash' = [trash EXCEPT !["service"] = Held]
  BY Zenon DEF Swap
<1>5. /\ limit' # 0 => Cardinality(Held \ Held) <= limit'
      /\ snapshot' \subseteq Made /\ limit' \in Nat
  BY <1>4, FewerHeld, Zenon DEF ServiceInv, Shaped
<1>6. "swapped" # "done"  OBVIOUS
<1> QED  BY <1>1, <1>2, <1>3, <1>4, <1>5, <1>6, TakenKeeps, Zenon

LEMMA CleanupRemoves ==
  ASSUME ServiceInv, NEW t \in Made, Cleanup(t), Removes(t)
  PROVE  ServiceInv'
<1>1. "cleaner" \in Actors \ Callers /\ "cleaner" # "service"
  BY ServiceAssumption, Zenon DEF Actors
<1>2. {t} \in SUBSET Held /\ {t} \subseteq stale  BY Zenon DEF Removes
<1>3. /\ UNCHANGED <<made, call, order, stale, flight, limit, closing>> /\ trash["cleaner"] = {}
      /\ trash' = [trash EXCEPT !["cleaner"] = {t}] /\ tasks' = Without({t}, tasks)
      /\ snapshot' = snapshot \ {t} /\ (cached' => cached)
  BY Zenon DEF Cleanup, cleanupProbeCache
<1>4. /\ limit' # 0 => Cardinality(Held \ {t}) <= limit'
      /\ snapshot' \subseteq Made /\ limit' \in Nat /\ (closing' = "done" => ~cached')
  BY <1>3, FewerHeld, Zenon DEF ServiceInv, Shaped, WithinLimit
<1> QED  BY <1>1, <1>2, <1>3, <1>4, TakenKeeps, Zenon

\* The table is as it was: what is stale, what the clean-up looks at, or the service's
\* flag changes.
LEMMA TableKept ==
  ASSUME ServiceInv, UNCHANGED <<tasks, made, trash, call, flight, order, limit>>,
         stale \subseteq stale', stale' \subseteq Made, snapshot' \subseteq Made, Unswapped',
         closing' \in {"swapped", "done"} => closing \in {"swapped", "done"},
         closing' = "done" => ~cached'
  PROVE  ServiceInv'
<1>1. Made' = Made /\ Calls' = Calls /\ Held' = Held  BY Zenon DEF Made, Calls, Held
<1>2. Shaped'  BY <1>1, Zenon DEF Shaped, ServiceInv
<1>3. OnePlace'  BY <1>1, PlacesKept, Zenon DEF ServiceInv
<1>4. Keyed' /\ Ranked' /\ UsedTasksSpared'
  BY <1>1, Zenon DEF ServiceInv, Keyed, Ranked, UsedTasksSpared
<1>5. \A p \in Callers : CallOK(p)'  BY <1>1, Zenon DEF ServiceInv, CallOK
<1>6. WithinLimit'  BY <1>1, Zenon DEF ServiceInv, WithinLimit
<1> QED  BY <1>2, <1>3, <1>4, <1>5, <1>6, Zenon DEF ServiceInv

LEMMA CleanupKeeps ==
  ASSUME ServiceInv, \/ \E t \in Made : Cleanup(t)
                     \/ CleanupBegin
  PROVE  ServiceInv'
<1>1. ASSUME NEW t \in Made, Cleanup(t), ~Removes(t)  PROVE ServiceInv'
  <2>1. /\ UNCHANGED <<tasks, made, trash, call, flight, order, limit, stale, closing>>
        /\ snapshot' = snapshot \ {t} /\ (cached' => cached)
    BY <1>1, Zenon DEF Cleanup, cleanupProbeCache
  <2>2. snapshot' \subseteq Made /\ stale' \subseteq Made /\ Unswapped' /\ (closing' = "done" => ~cached')
    BY <2>1, Zenon DEF ServiceInv, Shaped, Unswapped, WithinLimit
  <2> QED  BY <2>1, <2>2, TableKept, Zenon
<1>2. CASE CleanupBegin
  <2>1. /\ UNCHANGED <<tasks, made, trash, call, flight, order, limit, stale, closing>>
        /\ snapshot' = stale \cap Held /\ (cached' => cached)
    BY <1>2, Zenon DEF CleanupBegin, cleanupProbeCache, table
  <2>2. snapshot' \subseteq Made /\ stale' \subseteq Made /\ Unswapped' /\ (closing' = "done" => ~cached')
    BY <2>1, Zenon DEF ServiceInv, Shaped, Unswapped, WithinLimit
  <2> QED  BY <2>1, <2>2, TableKept, Zenon
<1> QED  BY <1>1, <1>2, CleanupRemoves, Zenon

LEMMA AgeKeeps ==
  ASSUME ServiceInv, Age
  PROVE  ServiceInv'
<1>1. UNCHANGED <<tasks, made, trash, call, flight, order, limit, closing, snapshot, cached>>
  BY Zenon DEF Age
<1>2. PICK t \in Held : stale' = stale \cup {t}  BY Zenon DEF Age
<1>3. /\ stale \subseteq stale' /\ stale' \subseteq Made /\ snapshot' \subseteq Made /\ Unswapped'
      /\ (closing' = "done" => ~cached')
  BY <1>1, <1>2, HeldMade, Zenon DEF ServiceInv, Shaped, Unswapped, WithinLimit
<1> QED  BY <1>1, <1>3, TableKept, Zenon

LEMMA FlagClearKeep ==
  ASSUME ServiceInv, Flag \/ Clear
  PROVE  ServiceInv'
<1>1. UNCHANGED <<tasks, made, trash, call, flight, order, limit, snapshot, stale>>
  BY Zenon DEF Flag, Clear, table
<1>2. stale \subseteq stale' /\ stale' \subseteq Made /\ snapshot' \subseteq Made
  BY <1>1, Zenon DEF ServiceInv, Shaped
<1>3. CASE Flag
  <2>1. closing = "open" /\ closing' = "flagged"  BY <1>3, Zenon DEF Flag
  <2>2. Unswapped'  BY <1>1, <2>1, Zenon DEF ServiceInv, Unswapped
  <2>3. closing' \notin {"swapped", "done"}  BY <2>1
  <2> QED  BY <1>1, <1>2, <2>2, <2>3, TableKept, Zenon
<1>4. CASE Clear
  <2>1. closing = "swapped" /\ closing' = "done" /\ cached' = FALSE  BY <1>4, Zenon DEF Clear
  <2>2. Unswapped'  BY <2>1, Zenon DEF Unswapped
  <2> QED  BY <1>1, <1>2, <2>1, <2>2, TableKept, Zenon
<1> QED  BY <1>3, <1>4, Zenon

-----------------------------------------------------------------------------
(* The actions that change a task.                                         *)

LEMMA RetrackKeeps ==
  ASSUME ServiceInv, NEW t \in Made, NEW x \in Tracks, Retrack(t, x)
  PROVE  ServiceInv'
<1> DEFINE m == [made[t] EXCEPT !.track = x]
<1>1. made \in [Made -> MadeTask]  BY MadeTyped, Zenon DEF ServiceInv
<1>2. m \in MadeTask /\ m.hash = made[t].hash /\ m.disposed = made[t].disposed
  BY <1>1, Zenon DEF MadeTask
<1>3. made' = [made EXCEPT ![t] = m]  BY Zenon DEF Retrack
<1> HIDE DEF m
<1>4. made' \in Seq(MadeTask) /\ Len(made') = Len(made)
  BY <1>2, <1>3 DEF ServiceInv, Shaped, Made
<1>5. Made' = Made /\ Calls' = Calls  BY <1>4, Zenon DEF Made, Calls
<1>6. \A u \in Made : made'[u].hash = made[u].hash /\ made'[u].disposed = made[u].disposed
  BY <1>1, <1>2, <1>3, Zenon
<1>7. UNCHANGED <<tasks, order, stale, limit, cached, closing, flight, call, snapshot, trash>>
  BY Zenon DEF Retrack
<1>8. Shaped'  BY <1>4, <1>5, <1>7, Zenon DEF ServiceInv, Shaped
<1>9. OnePlace'  BY <1>5, <1>6, <1>7, PlacesKept, Zenon DEF ServiceInv
<1>10. Keyed'  BY <1>6, <1>7, Zenon DEF ServiceInv, Keyed, Shaped
<1>11. Ranked'  BY <1>5, <1>7, Zenon DEF ServiceInv, Ranked
<1>12. Unswapped' /\ WithinLimit' /\ UsedTasksSpared'
  BY <1>7, Zenon DEF ServiceInv, Unswapped, WithinLimit, UsedTasksSpared, Held
<1>13. \A p \in Callers : CallOK(p)'  BY <1>5, <1>6, <1>7, Zenon DEF ServiceInv, CallOK
<1> QED  BY <1>8, <1>9, <1>10, <1>11, <1>12, <1>13, Zenon DEF ServiceInv

LEMMA DisposeTaskKeeps ==
  ASSUME ServiceInv, NEW a \in Actors, NEW t \in trash[a], DisposeTask(a, t)
  PROVE  ServiceInv'
<1> DEFINE m == [made[t] EXCEPT !.disposed = TRUE]
<1>1. made \in [Made -> MadeTask] /\ t \in Made  BY MadeTyped, Zenon DEF ServiceInv, Shaped
<1>2. m \in MadeTask /\ m.hash = made[t].hash /\ m.disposed = TRUE
  BY <1>1, Zenon DEF MadeTask
<1>3. made' = [made EXCEPT ![t] = m]  BY Zenon DEF DisposeTask
<1> HIDE DEF m
<1>4. made' \in Seq(MadeTask) /\ Len(made') = Len(made)
  BY <1>1, <1>2, <1>3 DEF ServiceInv, Shaped, Made
<1>5. Made' = Made /\ Calls' = Calls /\ TaskPlaces' = TaskPlaces  BY <1>4, Zenon DEF Made, Calls, TaskPlaces, Actors
<1>6. \A u \in Made : made'[u].hash = made[u].hash
  BY <1>1, <1>2, <1>3, Zenon
<1>17. made'[t].disposed /\ \A u \in Made \ {t} : made'[u].disposed = made[u].disposed
  BY <1>1, <1>2, <1>3, Zenon
<1>7. UNCHANGED <<tasks, order, stale, limit, cached, closing, flight, call, snapshot>>
  BY Zenon DEF DisposeTask
<1>8. /\ trash' \in [Actors -> SUBSET Made] /\ trash'[a] = trash[a] \ {t}
      /\ \A b \in Actors : b # a => trash'[b] = trash[b]
  BY Zenon DEF DisposeTask, ServiceInv, Shaped
<1>9. \A b \in Actors : trash'[b] \subseteq trash[b] /\ (trash[b] = {} => trash'[b] = {})  BY <1>8, Zenon
<1>10. Shaped'  BY <1>4, <1>5, <1>7, <1>8, Zenon DEF ServiceInv, Shaped
<1>11. OnePlace'
  <2>1. \A x \in TaskPlaces : Has(x, t) => x = a
    BY <1>1, Zenon DEF ServiceInv, OnePlace, Has, TaskPlaces
  <2>2. a \notin Hashes  BY ServiceAssumption, Zenon DEF Actors
  <2>3. ~(a \in Callers /\ call[a].at = "insert")
    BY Zenon DEF ServiceInv, CallOK
  <2>4. \A x \in TaskPlaces : ~Has(x, t)'
    BY <1>7, <1>8, <2>1, <2>2, <2>3, Zenon DEF Has, TaskPlaces, Actors
  <2>5. \A x \in TaskPlaces, u \in Made : u # t => (Has(x, u)' <=> Has(x, u))
    BY <1>7, <1>8, Zenon DEF Has
  <2> HIDE DEF Has
  <2> SUFFICES ASSUME NEW u \in Made
               PROVE  /\ \A x, y \in TaskPlaces : Has(x, u)' /\ Has(y, u)' => x = y
                      /\ made'[u].disposed <=> \A x \in TaskPlaces : ~Has(x, u)'
    BY <1>5, Zenon DEF OnePlace
  <2>6. CASE u = t  BY <1>17, <2>4, <2>6, Zenon
  <2>7. CASE u # t  BY <1>17, <2>5, <2>7, Zenon DEF ServiceInv, OnePlace
  <2> QED  BY <2>6, <2>7, Zenon
<1>12. Keyed'  BY <1>6, <1>7, Zenon DEF ServiceInv, Keyed, Shaped
<1>13. Ranked' /\ WithinLimit'
  BY <1>5, <1>7, Zenon DEF ServiceInv, Ranked, WithinLimit, Held
<1>14. {"cleaner", "service"} \cup Callers \subseteq Actors  BY Zenon DEF Actors
<1>15. Unswapped' /\ UsedTasksSpared'
  BY <1>7, <1>9, <1>14, Zenon DEF ServiceInv, Unswapped, UsedTasksSpared
<1>16. \A p \in Callers : CallOK(p)'  BY <1>5, <1>6, <1>7, <1>9, <1>14, Zenon DEF ServiceInv, CallOK
<1> QED  BY <1>10, <1>11, <1>12, <1>13, <1>15, <1>16, Zenon DEF ServiceInv

LEMMA FunctionIsSeq ==
  ASSUME NEW n \in Nat, NEW S, NEW f \in [1 .. n -> S]
  PROVE  f \in Seq(S) /\ Len(f) = n
OBVIOUS

LEMMA SeqIsFunction ==
  ASSUME NEW S, NEW s \in Seq(S)
  PROVE  Len(s) \in Nat /\ s \in [1 .. Len(s) -> S]
OBVIOUS

\* A task is made: it is with the caller that made it, and was used last.
LEMMA MakeKeeps ==
  ASSUME ServiceInv, NEW p \in Callers, call[p].at = "probe", cached' => cached \/ closing = "open",
         made' = Append(made, [hash |-> call[p].hash, track |-> call[p].track, disposed |-> FALSE]),
         order' = Append(order, Len(made) + 1),
         call' = [call EXCEPT ![p].at = "insert", ![p].task = Len(made) + 1],
         UNCHANGED <<tasks, stale, limit, closing, snapshot, trash, flight>>
  PROVE  ServiceInv'
<1>18. PICK t \in Nat : t = Len(made) + 1  BY MadeTyped DEF ServiceInv
<1> DEFINE m == [hash |-> call[p].hash, track |-> call[p].track, disposed |-> FALSE]
           c == [call[p] EXCEPT !.at = "insert", !.task = t]
<1>1. Len(made) \in Nat /\ made \in [Made -> MadeTask]  BY MadeTyped, Zenon DEF ServiceInv
<1>2. call[p].hash \in Hashes /\ call[p].track \in Tracks /\ trash[p] = {}
  BY Zenon DEF ServiceInv, CallOK
<1>3. m \in MadeTask /\ m.hash = call[p].hash /\ m.disposed = FALSE  BY <1>2, Zenon DEF MadeTask
<1>4. c = [call[p] EXCEPT !.at = "insert", !.task = t] /\ call' = [call EXCEPT ![p] = c]
  BY <1>18, Zenon
<1> HIDE DEF m, c
<1>5. /\ made' \in Seq(MadeTask) /\ Len(made') = t /\ made'[t] = m /\ \A u \in Made : made'[u] = made[u]
      /\ Made' = Made \cup {t} /\ t \notin Made /\ t \in Nat
  BY <1>1, <1>3, <1>18 DEF ServiceInv, Shaped, Made, m
<1>6. Ranked'
  <2>1. order \in [1 .. Len(made) -> 1 .. Len(made)]  BY Zenon DEF ServiceInv, Ranked, Made
  <2>2. order \in Seq(1 .. Len(made)) /\ Len(order) = Len(made)  BY <1>1, <2>1, FunctionIsSeq
  <2>3. \A u, v \in 1 .. Len(made) : order[u] = order[v] => u = v  BY Zenon DEF ServiceInv, Ranked, Made
  <2>4. /\ order' \in Seq(Nat) /\ Len(order') = t /\ order'[t] = t
        /\ \A u \in 1 .. Len(made) : order'[u] = order[u]
    BY <1>1, <1>18, <2>2
  <2>5. \A u \in 1 .. t : order'[u] \in 1 .. t
    BY <1>1, <1>18, <2>1, <2>4
  <2>6. \A u, v \in 1 .. t : order'[u] = order'[v] => u = v
    BY <1>1, <1>18, <2>1, <2>3, <2>4
  <2>7. order' \in [1 .. t -> 1 .. t]
    <3>1. order' \in [1 .. Len(order') -> Nat]  BY <2>4, SeqIsFunction, Zenon
    <3> QED  BY <2>4, <2>5, <3>1, Zenon
  <2> QED  BY <1>5, <2>6, <2>7, Zenon DEF Ranked, Made
<1>7. c \in Calls' /\ c.at = "insert" /\ c.task = t /\ c.hash = call[p].hash /\ c.track = call[p].track
  <2>1. call[p] \in Calls /\ "insert" \in CallPhases  BY Zenon DEF ServiceInv, Shaped, CallPhases
  <2> QED  BY <1>4, <1>5, <2>1, Zenon DEF Calls
<1>8. Calls \subseteq Calls'  BY <1>5, Zenon DEF Calls
<1>9. call' \in [Callers -> Calls'] /\ call'[p] = c /\ \A q \in Callers : q # p => call'[q] = call[q]
  BY <1>4, <1>7, <1>8, Zenon DEF ServiceInv, Shaped
<1>10. Shaped'
  BY <1>5, <1>9, Zenon DEF ServiceInv, Shaped
<1>11. TaskPlaces' = TaskPlaces /\ p \in TaskPlaces /\ t # NoTask
  BY <1>5, ServiceAssumption, Zenon DEF TaskPlaces, Actors
<1>12. \A x \in TaskPlaces, u \in Made : Has(x, u)' <=> Has(x, u)
  BY <1>5, <1>7, <1>9, ZenonT(60) DEF Has
<1>13. \A x \in TaskPlaces : Has(x, t)' <=> x = p
  <2>1. \A h \in Hashes : tasks[h] # t  BY <1>5, <1>11, Zenon DEF ServiceInv, Shaped
  <2>2. \A a \in Actors : t \notin trash[a]  BY <1>5, Zenon DEF ServiceInv, Shaped
  <2>3. \A q \in Callers : q # p => ~(call'[q].at = "insert" /\ call'[q].task = t)
    BY <1>5, <1>9, Zenon DEF ServiceInv, CallOK
  <2>4. Has(p, t)'  BY <1>7, <1>9, Zenon DEF Has
  <2>5. \A x \in TaskPlaces : x # p => ~Has(x, t)'  BY <2>1, <2>2, <2>3, Zenon DEF Has
  <2> QED  BY <2>4, <2>5, Zenon
<1>14. OnePlace'
  <2> SUFFICES ASSUME NEW u \in Made'
               PROVE  /\ \A x, y \in TaskPlaces : Has(x, u)' /\ Has(y, u)' => x = y
                      /\ made'[u].disposed <=> \A x \in TaskPlaces : ~Has(x, u)'
    BY <1>11, Zenon DEF OnePlace
  <2> HIDE DEF Has
  <2>1. CASE u = t
    <3>1. ~made'[u].disposed  BY <1>3, <1>5, <2>1
    <3> QED  BY <1>11, <1>13, <2>1, <3>1, Zenon
  <2>2. CASE u \in Made  BY <1>5, <1>12, <2>2, Zenon DEF ServiceInv, OnePlace
  <2> QED  BY <1>5, <2>1, <2>2, Zenon
<1>15. Keyed'  BY <1>5, Zenon DEF ServiceInv, Keyed, Shaped
<1>16. \A q \in Callers : CallOK(q)'
  <2>1. CallOK(p)'
    <3>1. call'[p].hash \in Hashes /\ call'[p].track \in Tracks  BY <1>2, <1>7, <1>9, Zenon
    <3>2. call'[p].task \in Made' /\ made'[call'[p].task].hash = call'[p].hash
      <4>1. call'[p].task = t /\ call'[p].hash = call[p].hash  BY <1>7, <1>9, Zenon
      <4>2. made'[t].hash = call[p].hash /\ t \in Made'  BY <1>3, <1>5
      <4> QED  BY <4>1, <4>2, Zenon
    <3>3. trash'[p] = {}  BY <1>2, Zenon
    <3> QED  BY <3>1, <3>2, <3>3, Zenon DEF CallOK
  <2>2. ASSUME NEW q \in Callers, q # p  PROVE CallOK(q)'
    BY <1>5, <1>9, <2>2, ZenonT(60) DEF ServiceInv, CallOK
  <2> QED  BY <2>1, <2>2, Zenon
<1>17. Unswapped' /\ WithinLimit' /\ UsedTasksSpared'
  BY Zenon DEF ServiceInv, Unswapped, WithinLimit, UsedTasksSpared, Held
<1> QED  BY <1>6, <1>10, <1>14, <1>15, <1>16, <1>17, Zenon DEF ServiceInv

LEMMA ProbeKeeps ==
  ASSUME ServiceInv, NEW p \in Callers, Probe(p)
  PROVE  ServiceInv'
<1>1. call[p].at = "probe" /\ UNCHANGED <<tasks, stale, limit, closing, snapshot, trash>>
  BY Zenon DEF Probe
<1>2. cached' => cached \/ closing = "open"  BY Zenon DEF Probe, setCachedProbe, Disposed
<1>3. CASE CallReturns(p, NoTask) /\ UNCHANGED <<made, order>>
  <2>1. trash[p] = {}  BY <1>1, Zenon DEF ServiceInv, CallOK
  <2>2. Ranked' /\ UsedTasksSpared' /\ stale' \subseteq Made
    BY <1>1, <1>3, Zenon DEF ServiceInv, Ranked, UsedTasksSpared, Shaped, Made
  <2> QED  BY <1>1, <1>2, <1>3, <2>1, <2>2, ReturnsMove, CallsMove, Zenon
<1> QED  BY <1>1, <1>2, <1>3, MakeKeeps, Zenon DEF Probe

-----------------------------------------------------------------------------
(* Insert.                                                                 *)

\* The service is closed, or there is a matching task: the new one is to go.
LEMMA InsertRejects ==
  ASSUME ServiceInv, NEW p \in Callers, NEW t, call[p].at = "insert", call[p].task = t,
         NEW u \in Made \cup {NoTask},
         trash' = [trash EXCEPT ![p] = {t}],
         call' = [call EXCEPT ![p].at = "trash", ![p].task = u],
         Ranked', stale' \subseteq Made, trash["cleaner"] \subseteq stale',
         UNCHANGED <<tasks, made, limit, cached, closing, flight, snapshot>>
  PROVE  ServiceInv'
<1> DEFINE c == [call[p] EXCEPT !.at = "trash", !.task = u]
<1>1. t \in Made /\ trash[p] = {} /\ call[p].hash \in Hashes /\ call[p].track \in Tracks
  BY Zenon DEF ServiceInv, CallOK
<1>2. c \in Calls /\ c.at = "trash" /\ c.hash = call[p].hash /\ c.track = call[p].track
  <2>1. call[p] \in Calls /\ "trash" \in CallPhases  BY Zenon DEF ServiceInv, Shaped, CallPhases
  <2> QED  BY <2>1, Zenon DEF Calls
<1>3. call' = [call EXCEPT ![p] = c]  BY Zenon
<1> HIDE DEF c
<1>4. call' \in [Callers -> Calls] /\ call'[p] = c /\ \A q \in Callers : q # p => call'[q] = call[q]
  BY <1>2, <1>3, Zenon DEF ServiceInv, Shaped
<1>5. p \in Actors /\ p \in TaskPlaces  BY Zenon DEF Actors, TaskPlaces
<1>6. /\ trash' \in [Actors -> SUBSET Made] /\ trash'[p] = {t}
      /\ \A a \in Actors : a # p => trash'[a] = trash[a]
  BY <1>1, <1>5, Zenon DEF ServiceInv, Shaped
<1>7. Made' = Made /\ Calls' = Calls /\ TaskPlaces' = TaskPlaces /\ Held' = Held
  BY Zenon DEF Made, Calls, TaskPlaces, Actors, Held
<1>8. Shaped'  BY <1>4, <1>6, <1>7, Zenon DEF ServiceInv, Shaped
<1>9. OnePlace'
  <2>1. \A x \in TaskPlaces : Has(x, t) <=> x = p
    BY <1>1, <1>5, Zenon DEF ServiceInv, OnePlace, Has
  <2>2. \A x \in TaskPlaces, v \in Made : v # t => (Has(x, v)' <=> Has(x, v))
    BY <1>1, <1>2, <1>4, <1>6, Zenon DEF Has
  <2>3. Has(p, t)'  BY <1>5, <1>6, Zenon DEF Has
  <2>4. \A x \in TaskPlaces : x # p => (Has(x, t)' => Has(x, t))
    BY <1>4, <1>6, Zenon DEF Has
  <2> HIDE DEF Has
  <2>5. \A x \in TaskPlaces, v \in Made : Has(x, v)' <=> Has(x, v)
    BY <2>1, <2>2, <2>3, <2>4, Zenon
  <2> QED  BY <1>7, <2>5, Zenon DEF ServiceInv, OnePlace
<1>10. Keyed'  BY Zenon DEF ServiceInv, Keyed
<1>11. p \notin {"cleaner", "service"} /\ {"cleaner", "service"} \subseteq Actors
  BY ServiceAssumption, Zenon DEF Actors
<1>12. Unswapped' /\ UsedTasksSpared' /\ WithinLimit'
  BY <1>6, <1>7, <1>11, Zenon DEF ServiceInv, Unswapped, UsedTasksSpared, WithinLimit
<1>13. \A q \in Callers : CallOK(q)'
  <2>1. CallOK(p)'  BY <1>1, <1>2, <1>4, Zenon DEF CallOK
  <2>2. ASSUME NEW q \in Callers, q # p  PROVE CallOK(q)'
    <3>1. call'[q] = call[q] /\ trash'[q] = trash[q] /\ made' = made /\ CallOK(q)
      BY <1>4, <1>6, <2>2, Zenon DEF ServiceInv, Actors
    <3>2. Made' = Made  BY <1>7, Zenon
    <3> QED  BY <3>1, <3>2 DEF CallOK
  <2> QED  BY <2>1, <2>2, Zenon
<1> QED  BY <1>8, <1>9, <1>10, <1>12, <1>13, Zenon DEF ServiceInv

\* The new task takes its place in the table; the task it replaces and those that are
\* evicted for it are to go.
LEMMA InsertTakes ==
  ASSUME ServiceInv, NEW p \in Callers, NEW h \in Hashes, NEW t, NEW old, NEW T, NEW M,
         call[p].at = "insert", call[p].task = t, call[p].hash = h, tasks[h] = old, closing = "open",
         T = (Held \ {old}) \cup {t}, M = Evicted(T, limit, t),
         trash' = [trash EXCEPT ![p] = M \cup Replaced(old)],
         tasks' = Without(M, [tasks EXCEPT ![h] = t]), Goes(p, "trash"),
         UNCHANGED <<made, order, stale, limit, cached, closing, flight, snapshot>>
  PROVE  ServiceInv'
<1> DEFINE c == [call[p] EXCEPT !.at = "trash"]
           G == M \cup Replaced(old)
<1>1. /\ t \in Made /\ made[t].hash = h /\ trash[p] = {} /\ call[p].track \in Tracks
      /\ old \in Made \cup {NoTask}
  BY Zenon DEF ServiceInv, CallOK, Shaped
<1>2. c \in Calls /\ c.at = "trash" /\ c.hash = h /\ c.track = call[p].track
  <2>1. call[p] \in Calls /\ "trash" \in CallPhases  BY Zenon DEF ServiceInv, Shaped, CallPhases
  <2> QED  BY <2>1, Zenon DEF Calls
<1>3. call' = [call EXCEPT ![p] = c]  BY Zenon DEF Goes
<1> HIDE DEF c
<1>4. call' \in [Callers -> Calls] /\ call'[p] = c /\ \A q \in Callers : q # p => call'[q] = call[q]
  BY <1>2, <1>3, Zenon DEF ServiceInv, Shaped
<1>5. p \in Actors /\ p \in TaskPlaces /\ p \notin Hashes /\ h \in TaskPlaces /\ h \notin Actors
  BY ServiceAssumption, Zenon DEF Actors, TaskPlaces
<1>6. Held \subseteq Made /\ IsFiniteSet(Held) /\ NoTask \notin Made
  BY HeldMade, NoTaskUnmade, Zenon DEF ServiceInv
<1>7. M \subseteq T \ {t} /\ T \subseteq Made /\ M \subseteq Held \ {old, t}
  BY <1>1, <1>6, Zenon DEF Evicted
<1>8. t \notin Held
  <2>1. \A x \in TaskPlaces : Has(x, t) => x = p
    BY <1>1, <1>5, Zenon DEF ServiceInv, OnePlace, Has
  <2>2. \A g \in Hashes : tasks[g] # t  BY <1>5, <2>1, Zenon DEF Has, TaskPlaces
  <2> QED  BY <2>2, Zenon DEF Held
<1>9. G \subseteq Held /\ t \notin G /\ G \subseteq Made /\ NoTask \notin G
  <2>1. Replaced(old) \subseteq Held
    BY HeldMade, Zenon DEF ServiceInv, Replaced
  <2> HIDE DEF Held
  <2> QED  BY <1>6, <1>7, <1>8, <2>1, Zenon
<1>10. /\ tasks' \in [Hashes -> Made \cup {NoTask}] /\ tasks'[h] = t
       /\ \A g \in Hashes : g # h => tasks'[g] = IF tasks[g] \in M THEN NoTask ELSE tasks[g]
  <2> DEFINE f == [tasks EXCEPT ![h] = t]
  <2>1. f \in [Hashes -> Made \cup {NoTask}] /\ f[h] = t /\ \A g \in Hashes : g # h => f[g] = tasks[g]
    BY <1>1, Zenon DEF ServiceInv, Shaped
  <2>2. \A g \in Hashes : tasks'[g] = IF f[g] \in M THEN NoTask ELSE f[g]
    BY Zenon DEF Without
  <2>3. tasks' \in [Hashes -> Made \cup {NoTask}]
    BY <2>1, Zenon DEF Without
  <2>4. t \notin M  BY <1>7, Zenon
  <2> HIDE DEF f
  <2> QED  BY <2>1, <2>2, <2>3, <2>4, Zenon
<1>11. \A g \in Hashes : tasks[g] = old /\ old # NoTask => g = h
  BY Zenon DEF ServiceInv, Keyed
<1> HIDE DEF G
<1>12. /\ trash' \in [Actors -> SUBSET Made] /\ trash'[p] = G
       /\ \A a \in Actors : a # p => trash'[a] = trash[a]
  BY <1>5, <1>9, Zenon DEF ServiceInv, Shaped, G
<1>13. Made' = Made /\ Calls' = Calls /\ TaskPlaces' = TaskPlaces  BY Zenon DEF Made, Calls, TaskPlaces, Actors
<1>14. Shaped'  BY <1>4, <1>10, <1>12, <1>13, Zenon DEF ServiceInv, Shaped
<1>15. \A x \in TaskPlaces, v \in G : Has(x, v)' <=> x = p
  <2> SUFFICES ASSUME NEW v \in G  PROVE \A x \in TaskPlaces : Has(x, v)' <=> x = p
    BY Zenon
  <2>1. v \in Made /\ v # t /\ v # NoTask  BY <1>9, Zenon
  <2>2. PICK k \in Hashes : tasks[k] = v  BY <1>9, Zenon DEF Held
  <2>3. \A x \in TaskPlaces : Has(x, v) => x = k
    BY <2>1, <2>2, Zenon DEF ServiceInv, OnePlace, Has, TaskPlaces
  <2>4. k \notin Actors  BY ServiceAssumption, Zenon DEF Actors
  <2>5. \A a \in Actors : v \notin trash[a]  BY <2>3, <2>4, Zenon DEF Has, TaskPlaces
  <2>6. \A q \in Callers : ~(call[q].at = "insert" /\ call[q].task = v)
    BY <2>3, <2>4, Zenon DEF Has, TaskPlaces, Actors
  <2>7. \A g \in Hashes : tasks'[g] # v
    <3> SUFFICES ASSUME NEW g \in Hashes, tasks'[g] = v  PROVE FALSE  BY Zenon
    <3>1. g # h /\ tasks[g] = v /\ v \notin M  BY <1>10, <2>1, Zenon
    <3>2. v = old /\ old # NoTask  BY <2>1, <3>1, Zenon DEF G, Replaced
    <3> QED  BY <1>11, <3>1, <3>2, Zenon
  <2>8. \A q \in Callers : ~(call'[q].at = "insert" /\ call'[q].task = v)
    BY <1>2, <1>4, <2>6, Zenon
  <2>9. \A x \in TaskPlaces : x # p => ~Has(x, v)'
    BY <1>12, <2>5, <2>7, <2>8, Zenon DEF Has
  <2>10. Has(p, v)'  BY <1>5, <1>12, Zenon DEF Has
  <2> QED  BY <2>9, <2>10, Zenon
<1>16. \A x \in TaskPlaces : Has(x, t)' <=> x = h
  <2>1. \A x \in TaskPlaces : Has(x, t) => x = p
    BY <1>1, <1>5, Zenon DEF ServiceInv, OnePlace, Has
  <2>2. \A g \in Hashes : tasks'[g] = t => g = h
    BY <1>5, <1>6, <1>1, <1>8, <1>10, HeldMade, ZenonT(60) DEF ServiceInv
  <2>3. \A a \in Actors : t \notin trash'[a]
    BY <1>9, <1>12, <2>1, Zenon DEF Has, TaskPlaces
  <2>4. \A q \in Callers : ~(call'[q].at = "insert" /\ call'[q].task = t)
    BY <1>2, <1>4, <2>1, Zenon DEF Has, TaskPlaces, Actors
  <2>5. \A x \in TaskPlaces : x # h => ~Has(x, t)'  BY <2>2, <2>3, <2>4, Zenon DEF Has
  <2>6. Has(h, t)'  BY <1>10, Zenon DEF Has
  <2> QED  BY <2>5, <2>6, Zenon
<1>17. ASSUME NEW v \in Made, v # t, v \notin G, NEW x \in TaskPlaces  PROVE Has(x, v)' <=> Has(x, v)
  <2>1. v \notin M /\ v # old  BY <1>6, <1>17, Zenon DEF G, Replaced
  <2>2. \A g \in Hashes : tasks'[g] = v <=> tasks[g] = v
    BY <1>6, <1>10, <1>17, <2>1, ZenonT(60)
  <2>3. \A a \in Actors : v \in trash'[a] <=> v \in trash[a]
    BY <1>1, <1>12, <1>17, Zenon
  <2>4. \A q \in Callers : call'[q].at = "insert" /\ call'[q].task = v <=> call[q].at = "insert" /\ call[q].task = v
    BY <1>2, <1>4, <1>17, Zenon
  <2> QED  BY <2>2, <2>3, <2>4, Zenon DEF Has
<1>18. \A v \in G \cup {t} : ~made[v].disposed
  <2>1. ~made[t].disposed  BY <1>1, <1>5, Zenon DEF ServiceInv, OnePlace, Has
  <2>2. ASSUME NEW v \in G  PROVE ~made[v].disposed
    <3>1. PICK k \in Hashes : tasks[k] = v  BY <1>9, Zenon DEF Held
    <3> QED  BY <1>9, <3>1, Zenon DEF ServiceInv, OnePlace, Has, TaskPlaces
  <2> QED  BY <2>1, <2>2, Zenon
<1>19. OnePlace'
  <2> SUFFICES ASSUME NEW v \in Made
               PROVE  /\ \A x, y \in TaskPlaces : Has(x, v)' /\ Has(y, v)' => x = y
                      /\ made[v].disposed <=> \A x \in TaskPlaces : ~Has(x, v)'
    BY <1>13, Zenon DEF OnePlace
  <2> HIDE DEF Has
  <2>1. CASE v = t  BY <1>5, <1>16, <1>18, <2>1, Zenon
  <2>2. CASE v \in G  BY <1>5, <1>15, <1>18, <2>2, Zenon
  <2>3. CASE v # t /\ v \notin G  BY <1>17, <2>3, Zenon DEF ServiceInv, OnePlace
  <2> QED  BY <2>1, <2>2, <2>3, Zenon
<1>20. Keyed'
  <2> SUFFICES ASSUME NEW g \in Hashes, tasks'[g] # NoTask  PROVE made[tasks'[g]].hash = g
    BY Zenon DEF Keyed
  <2>1. CASE g = h  BY <1>1, <1>10, <2>1, Zenon
  <2>2. CASE g # h
    <3>1. tasks'[g] = tasks[g]  BY <1>10, <2>2, Zenon
    <3> QED  BY <3>1, Zenon DEF ServiceInv, Keyed
  <2> QED  BY <2>1, <2>2, Zenon
<1>21. Ranked'  BY <1>13, Zenon DEF ServiceInv, Ranked
<1>22. p \notin {"cleaner", "service"} /\ {"cleaner", "service"} \subseteq Actors
  BY ServiceAssumption, Zenon DEF Actors
<1>23. Unswapped' /\ UsedTasksSpared'
  BY <1>12, <1>22, Zenon DEF ServiceInv, Unswapped, UsedTasksSpared
<1>24. WithinLimit'
  <2>1. Held' \subseteq T \ M
    <3> SUFFICES ASSUME NEW v \in Held'  PROVE v \in T \ M
      BY Zenon
    <3>3. PICK g \in Hashes : tasks'[g] = v /\ v # NoTask  BY Zenon DEF Held
    <3>1. CASE g = h  BY <1>7, <1>10, <3>1, <3>3, Zenon
    <3>2. CASE g # h
      <4>1. v = tasks[g] /\ tasks[g] \notin M  BY <1>10, <3>2, <3>3, Zenon
      <4>2. tasks[g] # old  BY <1>11, <3>2, <3>3, <4>1, Zenon
      <4>3. tasks[g] \in Held  BY <3>3, <4>1, HeldMade, Zenon DEF ServiceInv
      <4> QED  BY <4>1, <4>2, <4>3, Zenon
    <3> QED  BY <3>1, <3>2, Zenon
  <2>2. IsFiniteSet(T)
    <3>1. IsFiniteSet(Held \ {old})  BY <1>6, FS_Subset, Held \ {old} \subseteq Held, Zenon
    <3> QED  BY <3>1, FS_AddElement, Zenon
  <2>3. limit \in Nat  BY Zenon DEF ServiceInv, Shaped
  <2>4. ASSUME limit # 0  PROVE Cardinality(Held') <= limit
    <3>1. Cardinality(T \ M) <= limit
      <4>1. Shaped /\ Ranked /\ T \in SUBSET Made /\ t \in T  BY <1>7, Zenon DEF ServiceInv
      <4>2. Cardinality(T \ Evicted(T, limit, t)) <= limit
        <5>1. \A X \in SUBSET Made, n \in Nat :
                IsFiniteSet(X) /\ n # 0 /\ t \in X => Cardinality(X \ Evicted(X, n, t)) <= n
          BY <4>1, EvictedLeaves, Zenon
        <5> QED  BY <2>2, <2>3, <2>4, <4>1, <5>1, Zenon
      <4> QED  BY <4>2
    <3>2. IsFiniteSet(T \ M)
      <4>1. T \ M \in SUBSET T  OBVIOUS
      <4> QED  BY <2>2, <4>1, FS_Subset
    <3>3. Cardinality(Held') <= Cardinality(T \ M) /\ IsFiniteSet(Held')
      BY <2>1, <3>2, FS_Subset, Zenon
    <3>4. Cardinality(Held') \in Nat /\ Cardinality(T \ M) \in Nat
      BY <3>2, <3>3, FS_CardinalityType, Zenon
    <3> HIDE DEF Held
    <3> QED  BY <2>3, <3>1, <3>3, <3>4
  <2>5. closing' \notin {"swapped", "done"}  OBVIOUS
  <2> QED  BY <2>4, <2>5, Zenon DEF WithinLimit
<1>25. \A q \in Callers : CallOK(q)'
  <2>1. CallOK(p)'  BY <1>1, <1>2, <1>4, Zenon DEF CallOK
  <2>2. ASSUME NEW q \in Callers, q # p  PROVE CallOK(q)'
    <3>1. call'[q] = call[q] /\ trash'[q] = trash[q] /\ made' = made /\ CallOK(q)
      BY <1>4, <1>12, <2>2, Zenon DEF ServiceInv, Actors
    <3> QED  BY <1>13, <3>1, ZenonT(60) DEF CallOK
  <2> QED  BY <2>1, <2>2, Zenon
<1> QED  BY <1>14, <1>19, <1>20, <1>21, <1>23, <1>24, <1>25, Zenon DEF ServiceInv

LEMMA InsertKeeps ==
  ASSUME ServiceInv, NEW p \in Callers, Insert(p)
  PROVE  ServiceInv'
<1>1. call[p].at = "insert" /\ call[p].hash \in Hashes
  BY Zenon DEF Insert, ServiceInv, CallOK
<1>2. PICK h, t, old : h \in Hashes /\ call[p].hash = h /\ call[p].task = t /\ tasks[h] = old
  BY <1>1, Zenon
<1>3. old \in Made \cup {NoTask}  BY <1>2, Zenon DEF ServiceInv, Shaped
<1>4. UNCHANGED <<made, limit, cached, closing, flight, snapshot>>  BY Zenon DEF Insert
<1>5. CASE Disposed \/ Matches(old, p)
  <2>1. PICK u \in {old, NoTask} : call' = [call EXCEPT ![p].at = "trash", ![p].task = u]
    BY <1>2, <1>5, Zenon DEF Insert
  <2>2. trash' = [trash EXCEPT ![p] = {t}] /\ UNCHANGED tasks
    BY <1>2, <1>5, Zenon DEF Insert
  <2>3. p \in Actors /\ p # "cleaner" /\ "cleaner" \in Actors
    BY ServiceAssumption, Zenon DEF Actors
  <2>4. trash'["cleaner"] = trash["cleaner"]
    BY <2>2, <2>3, Zenon DEF ServiceInv, Shaped
  <2>5. Ranked' /\ stale' \subseteq Made /\ trash["cleaner"] \subseteq stale'
    <3>1. CASE Disposed
      <4>1. UNCHANGED <<order, stale>>  BY <1>2, <1>5, <3>1, Zenon DEF Insert
      <4> QED  BY <1>4, <4>1, Zenon DEF ServiceInv, Ranked, Shaped, UsedTasksSpared, Made
    <3>2. CASE ~Disposed
      <4>1. Used(old) /\ old # NoTask  BY <1>2, <1>5, <3>2, Zenon DEF Insert, Matches
      <4> QED  BY <1>2, <1>4, <2>4, <4>1, UsedSpares, Zenon DEF UsedTasksSpared
    <3> QED  BY <3>1, <3>2, Zenon
  <2> QED  BY <1>1, <1>2, <1>3, <1>4, <2>1, <2>2, <2>5, InsertRejects, Zenon
<1>6. CASE ~(Disposed \/ Matches(old, p))
  <2>1. PICK T, M : T = (Held \ {old}) \cup {t} /\ M = Evicted(T, limit, t)  BY Zenon
  <2>2. /\ trash' = [trash EXCEPT ![p] = M \cup Replaced(old)]
        /\ tasks' = Without(M, [tasks EXCEPT ![h] = t]) /\ Goes(p, "trash") /\ UNCHANGED <<order, stale>>
    BY <1>2, <1>6, <2>1, Zenon DEF Insert
  <2>3. closing = "open"  BY <1>6, Zenon DEF Disposed
  <2> QED  BY <1>1, <1>2, <1>4, <2>1, <2>2, <2>3, InsertTakes, Zenon
<1> QED  BY <1>5, <1>6, Zenon

-----------------------------------------------------------------------------
(* The table's promises.                                                   *)

LEMMA ServiceInvNext == ASSUME ServiceInv, [ServiceNext]_serviceVars  PROVE ServiceInv'
<1>1. ASSUME NEW p \in Callers,
             \/ \E k \in Hashes \X Tracks : GetOrAdd(p, k)
             \/ Find(p) \/ Probe(p) \/ Insert(p) \/ Inserted(p) \/ Check(p)
      PROVE  ServiceInv'
  BY <1>1, GetOrAddKeeps, FindKeeps, ProbeKeeps, InsertKeeps, InsertedKeeps, CheckKeeps, Zenon
<1>2. ASSUME NEW h \in Hashes, Get(h) \/ TryRemove(h)  PROVE ServiceInv'
  BY <1>2, GetKeeps, TryRemoveKeeps, Zenon
<1>3. ASSUME NEW t \in Made, Cleanup(t) \/ \E x \in Tracks : Retrack(t, x)  PROVE ServiceInv'
  BY <1>3, CleanupKeeps, RetrackKeeps, Zenon
<1>4. ASSUME NEW a \in Actors, NEW t \in trash[a], DisposeTask(a, t)  PROVE ServiceInv'
  BY <1>4, DisposeTaskKeeps, Zenon
<1>5. ASSUME \E n \in Limits : updateConfig(n)  PROVE ServiceInv'
  BY <1>5, updateConfigKeeps, Zenon
<1>6. CASE Age \/ CleanupBegin \/ Flag \/ Swap \/ Clear
  BY <1>6, AgeKeeps, CleanupKeeps, FlagClearKeep, SwapKeeps, Zenon
<1>7. CASE UNCHANGED serviceVars
  <2>1. /\ UNCHANGED <<tasks, made, trash, call, flight, order, limit, closing, snapshot, stale, cached>>
        /\ Made' = Made
    BY <1>7, Zenon DEF serviceVars, Made
  <2>2. /\ stale \subseteq stale' /\ stale' \subseteq Made /\ snapshot' \subseteq Made /\ Unswapped'
        /\ (closing' = "done" => ~cached')
    BY <2>1, Zenon DEF ServiceInv, Shaped, Unswapped, WithinLimit
  <2> QED  BY <2>1, <2>2, TableKept, Zenon
<1> QED  BY <1>1, <1>2, <1>3, <1>4, <1>5, <1>6, <1>7, Zenon DEF ServiceNext

LEMMA OnePlaceEnough == ASSUME OnePlace  PROVE NoTaskLost
<1> SUFFICES ASSUME NEW t \in Made, ~made[t].disposed
             PROVE  Cardinality({h \in Hashes : tasks[h] = t} \cup {a \in Actors : t \in trash[a]}
                        \cup {p \in Callers : call[p].at = "insert" /\ call[p].task = t}) = 1
  BY Zenon DEF NoTaskLost
<1>1. PICK x \in TaskPlaces : Has(x, t)  BY Zenon DEF OnePlace
<1>2. \A y \in TaskPlaces : Has(y, t) <=> y = x  BY <1>1, Zenon DEF OnePlace
<1> DEFINE L == {h \in Hashes : tasks[h] = t} \cup {a \in Actors : t \in trash[a]}
                  \cup {p \in Callers : call[p].at = "insert" /\ call[p].task = t}
<1>5. \A y : y \in L <=> y \in TaskPlaces /\ Has(y, t)
  BY Zenon DEF Has, TaskPlaces, Actors
<1> HIDE DEF L
<1>3. L = {x}  BY <1>1, <1>2, <1>5, Zenon
<1>4. Cardinality({x}) = 1  BY FS_Singleton, Zenon
<1> QED  BY <1>3, <1>4, Zenon DEF L

\* No remuxing task is ever lost (NoTaskLost): as long as it is not disposed of it is in
\* the table, with the call that is to insert it, or with the one actor that has taken it
\* from the table.
THEOREM NoTaskIsLost == ServiceSpec => []NoTaskLost
<1>1. ServiceInv => NoTaskLost  BY OnePlaceEnough, Zenon DEF ServiceInv
<1> QED  BY ServiceInvInit, ServiceInvNext, <1>1, PTL DEF ServiceSpec

\* evictTasksForLimitLocked keeps the table within MaxTasks, whatever the limit is and
\* whoever adds to the table, and Dispose leaves it empty for good (WithinLimit).
THEOREM TableWithinLimit == ServiceSpec => []WithinLimit
<1>1. ServiceInv => WithinLimit  BY Zenon DEF ServiceInv
<1> QED  BY ServiceInvInit, ServiceInvNext, <1>1, PTL DEF ServiceSpec

\* tryRemoveExpectedInactive takes only tasks that nobody has used since the clean-up
\* took its snapshot, and nobody uses one that it has taken (UsedTasksSpared).
THEOREM CleanupSparesUsed == ServiceSpec => []UsedTasksSpared
<1>1. ServiceInv => UsedTasksSpared  BY Zenon DEF ServiceInv
<1> QED  BY ServiceInvInit, ServiceInvNext, <1>1, PTL DEF ServiceSpec
=============================================================================
