------------------------------- MODULE ReadCache -------------------------------
(***************************************************************************)
(* The torrents of the database behind its read cache                      *)
(* (settings/torrent.go over settings/dbreadcache.go).  AddTorrent,        *)
(* ListTorrent and RemTorrent run concurrently; the cache and the database *)
(* are written one after the other, and a read that misses fills the cache *)
(* after it has left the cache's own lock.  What keeps the two together is *)
(* the mutex mu of torrent.go.                                             *)
(***************************************************************************)
EXTENDS Integers, FiniteSets

CONSTANTS
    Hashes,         \* torrents
    Users,          \* concurrent requests
    Free, Miss,     \* mu is not held; not in the cache
    MaxOps          \* bound on the operations

VARIABLES
    db,             \* the bucket "Torrents": the version of each record, 0 for none
    data,           \* dataCache
    names,          \* listCache
    mu,             \* who holds mu
    op,             \* each user: where it stands, its torrent and the version of it,
                    \* the record at hand, the names to go, the list it has
    begun           \* operations so far

ASSUME RecordsAssumption ==
    /\ Free \notin Users /\ Miss \notin Hashes \* mu free is told from mu held, a miss from a torrent
    /\ MaxOps \in Nat

recordVars == <<db, data, names, mu, op, begun>>

\* What a record holds: nothing, what an operation wrote, or what an earlier run left.
Versions == 0 .. MaxOps + 1
Earlier == MaxOps + 1
Idle == [at |-> "idle", hash |-> Miss, cur |-> Miss, new |-> 0, todo |-> {}, got |-> [h \in Hashes |-> 0]]
Stored(m) == {h \in Hashes : m[h] # 0}

Phases == {"idle", "listing", "adding", "list", "fillNames", "get", "fill", "rewrite", "set", "put", "removing", "remove"}
Operations == [at : Phases, hash : Hashes \cup {Miss}, cur : Hashes \cup {Miss}, new : Versions,
               todo : SUBSET Hashes, got : [Hashes -> Versions]]

\* Records, caches and operations are well-formed.
RecordsTypeOK ==
    /\ db \in [Hashes -> Versions] /\ data \in [Hashes -> Versions \cup {Miss}]
    /\ names \in (SUBSET Hashes) \cup {Miss} /\ mu \in Users \cup {Free} /\ begun \in 0 .. MaxOps
    /\ op \in [Users -> Operations]

RecordsInit ==
    /\ db \in [Hashes -> {0, Earlier}] /\ data = [h \in Hashes |-> Miss] /\ names = Miss
    /\ mu = Free /\ op = [p \in Users |-> Idle] /\ begun = 0

Begin(p, at, h) ==
    /\ op[p] = Idle /\ begun < MaxOps
    /\ op' = [op EXCEPT ![p].at = at, ![p].hash = h, ![p].new = begun + 1] /\ begun' = begun + 1
    /\ UNCHANGED <<db, data, names, mu>>

Adds(p) == op[p].hash # Miss

-----------------------------------------------------------------------------
(* ListTorrent, which AddTorrent begins with, under mu.                    *)

Lock(p) ==
    /\ op[p].at \in {"listing", "adding"} /\ mu = Free /\ mu' = p
    /\ op' = [op EXCEPT ![p].at = "list"]
    /\ UNCHANGED <<db, data, names, begun>>

\* DBReadCache.List: from the cache, or from the database and then into the cache.
List(p) ==
    /\ op[p].at = "list"
    /\ op' = IF names = Miss THEN [op EXCEPT ![p].at = "fillNames", ![p].todo = Stored(db)]
             ELSE [op EXCEPT ![p].at = "get", ![p].todo = names]
    /\ UNCHANGED <<db, data, names, mu, begun>>

FillNames(p) ==
    /\ op[p].at = "fillNames" /\ names' = op[p].todo
    /\ op' = [op EXCEPT ![p].at = "get"]
    /\ UNCHANGED <<db, data, mu, begun>>

\* DBReadCache.Get, for each of the names.
Get(p, h) ==
    /\ op[p].at = "get" /\ h \in op[p].todo
    /\ op' = IF data[h] # Miss THEN [op EXCEPT ![p].todo = @ \ {h}, ![p].got[h] = data[h]]
             ELSE [op EXCEPT ![p].at = "fill", ![p].cur = h, ![p].got[h] = db[h]]
    /\ UNCHANGED <<db, data, names, mu, begun>>

Fill(p) ==
    /\ op[p].at = "fill"
    /\ data' = [data EXCEPT ![op[p].cur] = op[p].got[op[p].cur]]
    /\ op' = [op EXCEPT ![p].at = "get", ![p].cur = Miss, ![p].todo = @ \ {op[p].cur}]
    /\ UNCHANGED <<db, names, mu, begun>>

Listed(p) ==
    /\ op[p].at = "get" /\ op[p].todo = {} /\ mu' = Free
    /\ op' = [op EXCEPT ![p] = IF Adds(p) THEN [@ EXCEPT !.at = "rewrite"] ELSE Idle]
    /\ UNCHANGED <<db, data, names, begun>>

-----------------------------------------------------------------------------
(* AddTorrent writes the whole list again, its own torrent in it.          *)

Rewrite(p) ==
    /\ op[p].at = "rewrite" /\ mu = Free /\ mu' = p
    /\ op' = [op EXCEPT ![p].at = "set", ![p].got[op[p].hash] = op[p].new,
                        ![p].todo = Stored(op[p].got) \cup {op[p].hash}]
    /\ UNCHANGED <<db, data, names, begun>>

\* DBReadCache.Set: the cached value, the cached list, then the database.
Set(p, h) ==
    /\ op[p].at = "set" /\ h \in op[p].todo
    /\ data' = [data EXCEPT ![h] = op[p].got[h]] /\ names' = Miss
    /\ op' = [op EXCEPT ![p].at = "put", ![p].cur = h]
    /\ UNCHANGED <<db, mu, begun>>

Put(p) ==
    /\ op[p].at = "put"
    /\ db' = [db EXCEPT ![op[p].cur] = op[p].got[op[p].cur]]
    /\ op' = [op EXCEPT ![p].at = "set", ![p].cur = Miss, ![p].todo = @ \ {op[p].cur}]
    /\ UNCHANGED <<data, names, mu, begun>>

Added(p) ==
    /\ op[p].at = "set" /\ op[p].todo = {} /\ mu' = Free
    /\ op' = [op EXCEPT ![p] = Idle]
    /\ UNCHANGED <<db, data, names, begun>>

-----------------------------------------------------------------------------
(* RemTorrent.                                                             *)

\* Mutant: without mu.
UncacheUnlocked(p) ==
    /\ op[p].at = "removing" /\ UNCHANGED mu
    /\ data' = [data EXCEPT ![op[p].hash] = Miss] /\ names' = Miss
    /\ op' = [op EXCEPT ![p].at = "remove"]
    /\ UNCHANGED <<db, begun>>

\* DBReadCache.Rem, under mu: out of the caches, then out of the database.
Uncache(p) ==
    /\ op[p].at = "removing" /\ mu = Free /\ mu' = p
    /\ data' = [data EXCEPT ![op[p].hash] = Miss] /\ names' = Miss
    /\ op' = [op EXCEPT ![p].at = "remove"]
    /\ UNCHANGED <<db, begun>>

Remove(p) ==
    /\ op[p].at = "remove" /\ mu' = IF mu = p THEN Free ELSE mu
    /\ db' = [db EXCEPT ![op[p].hash] = 0]
    /\ op' = [op EXCEPT ![p] = Idle]
    /\ UNCHANGED <<data, names, begun>>

RecordsNext ==
    \E p \in Users :
        \/ Begin(p, "listing", Miss)
        \/ \E h \in Hashes : \/ Begin(p, "adding", h) \/ Begin(p, "removing", h)
                             \/ Get(p, h) \/ Set(p, h)
        \/ Fill(p) \/ Put(p) \/ Lock(p) \/ List(p) \/ FillNames(p) \/ Listed(p) \/ Rewrite(p) \/ Added(p)
        \/ Uncache(p) \/ Remove(p)

RecordsSpec == RecordsInit /\ [][RecordsNext]_recordVars

-----------------------------------------------------------------------------
(* Properties.                                                             *)

\* ListTorrent returns the torrents the database holds, each in its last version,
\* whatever is added and removed while it reads; and while nobody is in one of the three
\* functions the caches tell the truth: no value and no list that a late fill or a half-done
\* write has left behind.
ListExact ==
    /\ \A p \in Users : op[p].at = "get" /\ op[p].todo = {} => op[p].got = db
    /\ mu = Free => /\ \A h \in Hashes : data[h] # Miss => data[h] = db[h]
                    /\ names # Miss => names = Stored(db)
=============================================================================
