------------------------------ MODULE DataProofs ------------------------------
(***************************************************************************)
(* The stores of the settings and marks, the records of the torrents and   *)
(* the readers of a cache, each for all values of its constants.           *)
(*                                                                         *)
(* StoresKeep: the settings saved last are in the store the server goes    *)
(* by, and where the other store has older ones, the next copy goes from   *)
(* the last to the older: that is what saving them checks (Outdone), and   *)
(* what the copying, removing and loading of a start keep (SavedInv).      *)
(* Marks: as long as no change was made to a record that both stores       *)
(* have, or from an older copy of it, two records of a torrent are the     *)
(* same, so that a migration overwrites none; and what a migration has     *)
(* passed is in its target, so that clearing the source loses nothing.     *)
(*                                                                         *)
(* ListExact: the argument is that of a lock.  Whoever is between the      *)
(* taking and the release of mu is alone, so that what it has read from    *)
(* the database stays true, and the only untruth in the caches is the      *)
(* value whose write it has under way.                                     *)
(*                                                                         *)
(* ReadersAccounted: the danger is a pass over the readers that decided to *)
(* switch a reader before it was closed.  The invariant says that what a   *)
(* pass has decided is about a reader that is still in the map:            *)
(* CloseReader takes muReaders for writing, so that it waits for the pass, *)
(* and an upload, which does not, is not taken from the map.               *)
(***************************************************************************)
EXTENDS StorageSwitch, ReadCache, StreamReader, FiniteSetTheorems, TLAPS

-----------------------------------------------------------------------------
(* The stores of the settings and of the marks.                            *)

Stores == {"json", "bolt"}
StoreRecord == [settings : Settings \cup {Absent}, viewed : [ViewedHashes -> Records]]

StoresShaped ==
    /\ dbs \in [Stores -> StoreRecord]
    /\ BTsets \in Settings \cup {Absent} /\ (Up => BTsets \in Settings)
    /\ route \in Flags /\ pref \in Flags
    /\ cached \in [ViewedHashes -> Records \cup {Unread}]
    /\ marks \in [ViewedHashes -> SUBSET Files]

\* What safeMigrate is about to remove is in the other store.
RemovedKept == pc = "remove" => dbs[Store(pref.inJson)].settings # Absent

\* Every mark is in one of the stores.
MarksFound ==
    \A h \in ViewedHashes : \A f \in marks[h] :
        \E d \in Stores : dbs[d].viewed[h] # Absent /\ f \in dbs[d].viewed[h]

\* Two records of one torrent are the same.
SameRecords ==
    \A h \in ViewedHashes : (\A d \in Stores : dbs[d].viewed[h] # Absent) =>
        dbs["json"].viewed[h] = dbs["bolt"].viewed[h]

\* MigrateAll: what is behind it is in the target.
MigratedKept ==
    pc \in {"viewed", "copyViewed"} =>
        LET to == Store(pref.viewedInJson)
        IN  \A h \in ViewedHashes \ todo :
               dbs[Other(to)].viewed[h] # Absent => dbs[to].viewed[h] # Absent

MarksInv == clash \/ torn \/ (MarksFound /\ SameRecords /\ MigratedKept)

\* The next start does not begin with the defaults.
SomeSettings == saved # Absent /\ ~torn => \E d \in Stores : dbs[d].settings # Absent

StorageInv == StoresShaped /\ RemovedKept /\ SomeSettings /\ MarksInv

-----------------------------------------------------------------------------
(* What a write does to the stores.                                        *)

LEMMA StoreNames == \A b : Store(b) \in Stores /\ Other(Store(b)) \in Stores /\ Other(Store(b)) # Store(b)
BY Zenon DEF Store, Other, Stores

LEMMA OtherStore == \A d \in Stores : Other(d) \in Stores /\ Other(d) # d /\ \A e \in Stores : e # d => e = Other(d)
BY Zenon DEF Other, Stores

LEMMA DefaultShaped ==
  /\ Default \in Settings
  /\ \A s \in Settings : /\ s # Absent /\ FlagsOf(s) \in Flags
                         /\ \A b \in BOOLEAN : /\ [s EXCEPT !.inJson = b] \in Settings
                                               /\ [s EXCEPT !.viewedInJson = b] \in Settings
                         /\ \A a, b \in BOOLEAN : [s EXCEPT !.inJson = a, !.viewedInJson = b] \in Settings
<1>1. Default \in Settings  BY StorageAssumption, Zenon DEF Default, Settings
<1>2. ASSUME NEW s \in Settings  PROVE FlagsOf(s) \in Flags  BY Zenon DEF Settings, FlagsOf, Flags
<1>3. ASSUME NEW s \in Settings, NEW a \in BOOLEAN, NEW b \in BOOLEAN
      PROVE  /\ [s EXCEPT !.inJson = a] \in Settings /\ [s EXCEPT !.viewedInJson = b] \in Settings
             /\ [s EXCEPT !.inJson = a, !.viewedInJson = b] \in Settings
  BY Zenon DEF Settings
<1> QED  BY <1>1, <1>2, <1>3, StorageAssumption, Zenon

\* The record of h in d becomes r, and nothing else changes.
RecordSet(d, h, r) ==
    /\ dbs' \in [Stores -> StoreRecord]
    /\ \A e \in Stores : dbs'[e].settings = dbs[e].settings
    /\ dbs'[d].viewed[h] = r
    /\ \A e \in Stores, g \in ViewedHashes : e # d \/ g # h => dbs'[e].viewed[g] = dbs[e].viewed[g]

LEMMA RecordWritten ==
  ASSUME dbs \in [Stores -> StoreRecord], NEW d \in Stores, NEW h \in ViewedHashes, NEW r \in Records,
         dbs' = [dbs EXCEPT ![d].viewed[h] = r]
  PROVE  RecordSet(d, h, r)
<1> DEFINE v == [dbs[d].viewed EXCEPT ![h] = r]
           s == [dbs[d] EXCEPT !.viewed = v]
<1>1. dbs[d] \in StoreRecord /\ dbs[d].viewed \in [ViewedHashes -> Records]  BY Zenon DEF StoreRecord
<1>2. v \in [ViewedHashes -> Records] /\ v[h] = r /\ \A g \in ViewedHashes : g # h => v[g] = dbs[d].viewed[g]
  BY <1>1, Zenon
<1>3. dbs' = [dbs EXCEPT ![d] = s]  BY Zenon
<1> HIDE DEF v
<1>4. s \in StoreRecord /\ s.viewed = v /\ s.settings = dbs[d].settings  BY <1>1, <1>2, Zenon DEF StoreRecord
<1> HIDE DEF s
<1>5. dbs' \in [Stores -> StoreRecord] /\ dbs'[d] = s /\ \A e \in Stores : e # d => dbs'[e] = dbs[e]
  BY <1>3, <1>4, Zenon
<1> QED  BY <1>2, <1>4, <1>5, Zenon DEF RecordSet

LEMMA SettingsWritten ==
  ASSUME dbs \in [Stores -> StoreRecord], NEW d \in Stores, NEW s \in Settings \cup {Absent},
         dbs' = [dbs EXCEPT ![d].settings = s]
  PROVE  /\ dbs' \in [Stores -> StoreRecord]
         /\ dbs'[d].settings = s /\ \A e \in Stores : e # d => dbs'[e].settings = dbs[e].settings
         /\ \A e \in Stores : dbs'[e].viewed = dbs[e].viewed
<1> DEFINE r == [dbs[d] EXCEPT !.settings = s]
<1>1. r \in StoreRecord /\ r.settings = s /\ r.viewed = dbs[d].viewed  BY Zenon DEF StoreRecord
<1>2. dbs' = [dbs EXCEPT ![d] = r]  BY Zenon
<1> HIDE DEF r
<1>3. dbs' \in [Stores -> StoreRecord] /\ dbs'[d] = r /\ \A e \in Stores : e # d => dbs'[e] = dbs[e]
  BY <1>1, <1>2, Zenon
<1> QED  BY <1>1, <1>3, Zenon

LEMMA StoreCleared ==
  ASSUME dbs \in [Stores -> StoreRecord], NEW d \in Stores, dbs' \in Cleared(d)
  PROVE  /\ dbs' \in [Stores -> StoreRecord]
         /\ \A e \in Stores : dbs'[e].settings = dbs[e].settings
         /\ \A g \in ViewedHashes : dbs'[d].viewed[g] \in {dbs[d].viewed[g], Absent}
         /\ \A e \in Stores : e # d => dbs'[e].viewed = dbs[e].viewed
<1>1. PICK left : dbs' = [dbs EXCEPT ![d].viewed = [h \in ViewedHashes |-> IF h \in left THEN @[h] ELSE Absent]]
  BY Zenon DEF Cleared
<1> DEFINE v == [h \in ViewedHashes |-> IF h \in left THEN dbs[d].viewed[h] ELSE Absent]
           r == [dbs[d] EXCEPT !.viewed = v]
<1>2. dbs[d] \in StoreRecord /\ dbs[d].viewed \in [ViewedHashes -> Records]  BY Zenon DEF StoreRecord
<1>3. v \in [ViewedHashes -> Records] /\ \A g \in ViewedHashes : v[g] \in {dbs[d].viewed[g], Absent}
  BY <1>2, Zenon DEF Records
<1>4. dbs' = [dbs EXCEPT ![d] = r]  BY <1>1, Zenon
<1> HIDE DEF v
<1>5. r \in StoreRecord /\ r.viewed = v /\ r.settings = dbs[d].settings  BY <1>2, <1>3, Zenon DEF StoreRecord
<1> HIDE DEF r
<1>6. dbs' \in [Stores -> StoreRecord] /\ dbs'[d] = r /\ \A e \in Stores : e # d => dbs'[e] = dbs[e]
  BY <1>4, <1>5, Zenon
<1> QED  BY <1>3, <1>5, <1>6, Zenon

-----------------------------------------------------------------------------
(* The actions.                                                            *)

LEMMA StorageInvInit == ASSUME StorageInit  PROVE StorageInv
<1>1. Absent \in Records  BY Zenon DEF Records
<1>2. FlagsOf(Default) \in Flags  BY DefaultShaped, Zenon
<1>3. ~Up /\ pc = "down"  BY DEF StorageInit, Up
<1>4. dbs = [d \in Stores |-> [settings |-> Absent, viewed |-> [h \in ViewedHashes |-> Absent]]]
  BY Zenon DEF StorageInit, Stores
<1>5. dbs \in [Stores -> StoreRecord]  BY <1>1, <1>4, Zenon DEF StoreRecord
<1>6. StoresShaped  BY <1>2, <1>3, <1>5, Zenon DEF StorageInit, StoresShaped
<1>7. RemovedKept /\ SomeSettings /\ MigratedKept
  BY <1>3, Zenon DEF StorageInit, RemovedKept, SomeSettings, MigratedKept
<1>8. MarksFound  BY Zenon DEF StorageInit, MarksFound
<1>9. SameRecords  BY <1>4, Zenon DEF SameRecords, Stores
<1> QED  BY <1>6, <1>7, <1>8, <1>9, Zenon DEF StorageInv, MarksInv

\* The marks and their records are as they were.
LEMMA MarksStay ==
  ASSUME MarksInv, \A d \in Stores : dbs'[d].viewed = dbs[d].viewed, UNCHANGED <<marks, clash>>,
         torn => torn', MigratedKept => MigratedKept'
  PROVE  MarksInv'
<1>1. MarksFound => MarksFound'  BY Zenon DEF MarksFound
<1>2. SameRecords => SameRecords'
  <2>1. "json" \in Stores /\ "bolt" \in Stores  BY Zenon DEF Stores
  <2> QED  BY <2>1, Zenon DEF SameRecords
<1> QED  BY <1>1, <1>2, Zenon DEF MarksInv

\* A torn file is known.
LEMMA MarksTorn == ASSUME torn'  PROVE MarksInv'
BY Zenon DEF MarksInv

LEMMA StartKeeps == ASSUME StorageInv, Start  PROVE StorageInv'
<1>1. UNCHANGED <<dbs, saved, marks, clash, torn, BTsets, route, cached>> /\ pc' = "settings"
  BY Zenon DEF Start, store, memory
<1>2. ~Up'  BY <1>1 DEF Up
<1>3. pref' \in Flags
  <2>1. \A d \in Stores : dbs[d].settings \in Settings \cup {Absent}
    BY Zenon DEF StorageInv, StoresShaped, StoreRecord
  <2>2. PICK s \in Settings : pref' = FlagsOf(s)
    BY <2>1, DefaultShaped, Zenon DEF Start, Stores
  <2> QED  BY <2>2, DefaultShaped, Zenon
<1>4. StoresShaped'  BY <1>1, <1>2, <1>3, Zenon DEF StorageInv, StoresShaped
<1>5. RemovedKept' /\ MigratedKept'  BY <1>1 DEF RemovedKept, MigratedKept
<1>6. SomeSettings'  BY <1>1, Zenon DEF StorageInv, SomeSettings
<1>7. MarksInv'  BY <1>1, <1>5, MarksStay, Zenon DEF StorageInv
<1> QED  BY <1>4, <1>5, <1>6, <1>7, Zenon DEF StorageInv

\* The list MigrateAll begins with is that of the source.
LEMMA ListBegins ==
  ASSUME NEW to \in Stores, to = Store(pref'.viewedInJson),
         todo' = {h \in ViewedHashes : dbs'[Other(to)].viewed[h] # Absent}
  PROVE  MigratedKept'
BY Zenon DEF MigratedKept

LEMMA MigrateSettingsKeeps == ASSUME StorageInv, MigrateSettings  PROVE StorageInv'
<1> DEFINE to == Store(pref.inJson)
           s == dbs[Other(to)].settings
<1>1. to \in Stores /\ Other(to) \in Stores /\ Other(to) # to  BY StoreNames, Zenon
<1>2. UNCHANGED <<saved, marks, clash, torn, BTsets, route, cached, pref>> /\ pc' \in {"remove", "viewed"}
  BY Zenon DEF MigrateSettings, memory, ToViewed
<1>3. ~Up'  BY <1>2 DEF Up
<1>4. s \in Settings \cup {Absent}  BY <1>1, Zenon DEF StorageInv, StoresShaped, StoreRecord
<1>5. CASE s # Absent /\ dbs' = [dbs EXCEPT ![to].settings = s] /\ pc' = "remove"
  <2>1. /\ dbs' \in [Stores -> StoreRecord] /\ dbs'[to].settings = s
        /\ \A e \in Stores : dbs'[e].viewed = dbs[e].viewed
    BY <1>1, <1>4, <1>5, SettingsWritten, Zenon DEF StorageInv, StoresShaped
  <2>2. StoresShaped'  BY <1>2, <1>3, <2>1, Zenon DEF StorageInv, StoresShaped
  <2>3. RemovedKept' /\ SomeSettings'
    BY <1>1, <1>2, <1>5, <2>1, Zenon DEF RemovedKept, SomeSettings, Stores
  <2>4. MigratedKept'  BY <1>5 DEF MigratedKept
  <2>5. MarksInv'  BY <1>2, <2>1, <2>4, MarksStay, Zenon DEF StorageInv
  <2> QED  BY <2>2, <2>3, <2>5, Zenon DEF StorageInv
<1>6. CASE ToViewed(dbs) /\ UNCHANGED dbs
  <2>1. pc' = "viewed"  BY <1>6, Zenon DEF ToViewed
  <2>2. StoresShaped'  BY <1>2, <1>3, <1>6, Zenon DEF StorageInv, StoresShaped
  <2>3. RemovedKept'  BY <2>1 DEF RemovedKept
  <2>4. SomeSettings'  BY <1>2, <1>6, Zenon DEF StorageInv, SomeSettings
  <2>5. MigratedKept'  BY <1>2, <1>6, StoreNames, ListBegins, Zenon DEF ToViewed
  <2>6. MarksInv'  BY <1>2, <1>6, <2>5, MarksStay, Zenon DEF StorageInv
  <2> QED  BY <2>2, <2>3, <2>4, <2>6, Zenon DEF StorageInv
<1> QED  BY <1>5, <1>6, Zenon DEF MigrateSettings, Migrates

LEMMA RemoveSourceKeeps == ASSUME StorageInv, RemoveSource  PROVE StorageInv'
<1> DEFINE to == Store(pref.inJson)
<1>1. to \in Stores /\ Other(to) \in Stores /\ Other(to) # to  BY StoreNames, Zenon
<1>2. /\ UNCHANGED <<saved, marks, clash, torn, BTsets, route, cached, pref>> /\ pc = "remove" /\ pc' = "viewed"
      /\ ToViewed(dbs) /\ dbs' = [dbs EXCEPT ![Other(to)].settings = Absent]
  BY Zenon DEF RemoveSource, memory, ToViewed
<1>3. ~Up'  BY <1>2 DEF Up
<1>4. /\ dbs' \in [Stores -> StoreRecord] /\ dbs'[to].settings = dbs[to].settings
      /\ \A e \in Stores : dbs'[e].viewed = dbs[e].viewed
  BY <1>1, <1>2, SettingsWritten, Zenon DEF StorageInv, StoresShaped
<1>5. StoresShaped'  BY <1>2, <1>3, <1>4, Zenon DEF StorageInv, StoresShaped
<1>6. RemovedKept'  BY <1>2 DEF RemovedKept
<1>7. SomeSettings'
  BY <1>1, <1>2, <1>4, Zenon DEF StorageInv, RemovedKept, SomeSettings, Stores
<1>8. MigratedKept'
  <2> DEFINE t == Store(pref.viewedInJson)
  <2>1. t \in Stores /\ Other(t) \in Stores  BY StoreNames, Zenon
  <2>2. todo' = {h \in ViewedHashes : dbs'[Other(t)].viewed[h] # Absent}
    BY <1>2, <1>4, <2>1, Zenon DEF ToViewed
  <2> QED  BY <1>2, <2>1, <2>2, ListBegins, Zenon
<1>9. MarksInv'  BY <1>2, <1>4, <1>8, MarksStay, Zenon DEF StorageInv
<1> QED  BY <1>5, <1>6, <1>7, <1>9, Zenon DEF StorageInv

\* An entry is copied only where the target has none, so that no mark is overwritten.
LEMMA MigrateEntryKeeps ==
  ASSUME StorageInv, NEW h \in ViewedHashes, pc \in {"viewed", "copyViewed"},
         MigrateEntry(Other(Store(pref.viewedInJson)), h)
  PROVE  StorageInv'
<1>0. PICK to \in Stores, left \in Stores, r \in Records :
        /\ to = Store(pref.viewedInJson) /\ left = Other(to) /\ r = dbs[left].viewed[h]
  <2>1. Store(pref.viewedInJson) \in Stores /\ Other(Store(pref.viewedInJson)) \in Stores  BY StoreNames, Zenon
  <2>2. dbs[Other(Store(pref.viewedInJson))].viewed[h] \in Records
    BY <2>1, Zenon DEF StorageInv, StoresShaped, StoreRecord
  <2> QED  BY <2>1, <2>2, Zenon
<1>1. /\ left # to /\ Other(left) = to
      /\ \A d \in Stores : d = to \/ d = left
  BY <1>0, Zenon DEF Store, Other, Stores
<1>2. /\ UNCHANGED <<saved, marks, clash, torn, BTsets, route, cached, pref, pc>> /\ todo' = todo \ {h}
  BY Zenon DEF MigrateEntry, memory
<1>3. Up' = Up  BY <1>2, Zenon DEF Up
<1>5. CASE UNCHANGED dbs /\ ~Migrates(r, dbs[to].viewed[h], SameRecord(r, dbs[to].viewed[h]))
  <2>1. StoresShaped' /\ SomeSettings' /\ RemovedKept'
    BY <1>2, <1>3, <1>5, Zenon DEF StorageInv, StoresShaped, SomeSettings, RemovedKept
  <2>2. r # Absent => dbs[to].viewed[h] # Absent  BY <1>5, Zenon DEF Migrates
  <2>3. MigratedKept => MigratedKept'  BY <1>0, <1>2, <1>5, <2>2, Zenon DEF MigratedKept
  <2>4. MarksInv'  BY <1>2, <1>5, <2>3, MarksStay, Zenon DEF StorageInv
  <2> QED  BY <2>1, <2>4, Zenon DEF StorageInv
<1>6. CASE /\ Migrates(r, dbs[to].viewed[h], SameRecord(r, dbs[to].viewed[h]))
           /\ dbs' = [dbs EXCEPT ![to].viewed[h] = r]
  <2>1. /\ dbs' \in [Stores -> StoreRecord] /\ \A e \in Stores : dbs'[e].settings = dbs[e].settings
        /\ dbs'[to].viewed[h] = r
        /\ \A e \in Stores, g \in ViewedHashes : e # to \/ g # h => dbs'[e].viewed[g] = dbs[e].viewed[g]
    <3>1. dbs \in [Stores -> StoreRecord] /\ dbs' = [dbs EXCEPT ![to].viewed[h] = r]
      BY <1>6, Zenon DEF StorageInv, StoresShaped
    <3>2. RecordSet(to, h, r)  BY <3>1, RecordWritten, Zenon
    <3> QED  BY <3>2, Zenon DEF RecordSet
  <2>2. StoresShaped'  BY <1>2, <1>3, <2>1, Zenon DEF StorageInv, StoresShaped
  <2>3. SomeSettings' /\ RemovedKept'
    BY <1>2, <2>1, StoreNames, Zenon DEF StorageInv, SomeSettings, RemovedKept, Stores
  <2>4. r # Absent  BY <1>6, Zenon DEF Migrates
  <2>5. ASSUME MarksFound, SameRecords, MigratedKept  PROVE MarksFound' /\ SameRecords' /\ MigratedKept'
    <3>1. dbs[to].viewed[h] = Absent
      <4> SUFFICES ASSUME dbs[to].viewed[h] # Absent  PROVE FALSE  BY Zenon
      <4>1. dbs["json"].viewed[h] = dbs["bolt"].viewed[h]
        BY <1>0, <1>1, <2>4, <2>5, Zenon DEF SameRecords
      <4>2. r = dbs[to].viewed[h]  BY <1>0, <1>1, <4>1, Zenon DEF Stores
      <4> QED  BY <1>6, <4>2, Zenon DEF Migrates, SameRecord
    <3>2. \A d \in Stores, g \in ViewedHashes : dbs[d].viewed[g] # Absent => dbs'[d].viewed[g] = dbs[d].viewed[g]
      BY <2>1, <3>1, Zenon
    <3>3. MarksFound'
      <4> SUFFICES ASSUME NEW g \in ViewedHashes, NEW f \in marks[g]
                   PROVE  \E d \in Stores : dbs'[d].viewed[g] # Absent /\ f \in dbs'[d].viewed[g]
        BY <1>2, Zenon DEF MarksFound
      <4>1. PICK d \in Stores : dbs[d].viewed[g] # Absent /\ f \in dbs[d].viewed[g]
        BY <2>5, Zenon DEF MarksFound
      <4> QED  BY <3>2, <4>1, Zenon
    <3>4. SameRecords'
      <4>1. dbs'["json"].viewed[h] = dbs'["bolt"].viewed[h]
        BY <1>0, <1>1, <2>1, Zenon DEF Stores
      <4>2. \A g \in ViewedHashes, e \in Stores : g # h => dbs'[e].viewed[g] = dbs[e].viewed[g]
        BY <2>1, Zenon
      <4>3. "json" \in Stores /\ "bolt" \in Stores  BY Zenon DEF Stores
      <4> QED  BY <2>5, <4>1, <4>2, <4>3, Zenon DEF SameRecords
    <3>5. MigratedKept'
      <4> SUFFICES ASSUME NEW g \in ViewedHashes \ todo', dbs'[left].viewed[g] # Absent
                   PROVE  dbs'[to].viewed[g] # Absent
        BY <1>0, <1>2, Zenon DEF MigratedKept
      <4>1. CASE g = h  BY <2>1, <2>4, <4>1, Zenon
      <4>2. CASE g # h
        <5>1. g \in ViewedHashes \ todo /\ dbs[left].viewed[g] # Absent  BY <1>1, <1>2, <2>1, <4>2, Zenon
        <5>2. dbs[to].viewed[g] # Absent  BY <1>0, <2>5, <5>1, Zenon DEF MigratedKept
        <5> QED  BY <2>1, <4>2, <5>2, <1>1, Zenon
      <4> QED  BY <4>1, <4>2, Zenon
    <3> QED  BY <3>3, <3>4, <3>5, Zenon
  <2>6. MarksInv'  BY <1>2, <2>5, Zenon DEF StorageInv, MarksInv
  <2> QED  BY <2>2, <2>3, <2>6, Zenon DEF StorageInv
<1> QED  BY <1>0, <1>1, <1>5, <1>6, Zenon DEF MigrateEntry

\* The source is cleared when every entry of it is in the target.
LEMMA ClearKeeps ==
  ASSUME StorageInv, NEW to \in Stores, to = Store(pref.viewedInJson), pc \in {"viewed", "copyViewed"}, todo = {},
         dbs' \in Cleared(Other(to)) \/ UNCHANGED dbs, pc' \in {"load", "savePref"}, Up' = Up,
         UNCHANGED <<saved, marks, clash, torn, BTsets, route, cached, pref>>
  PROVE  StorageInv'
<1>1. Other(to) \in Stores /\ Other(to) # to /\ \A d \in Stores : d = to \/ d = Other(to)
  BY OtherStore, Zenon
<1>2. pc' # "remove" /\ pc' \notin {"viewed", "copyViewed"}  OBVIOUS
<1>3. RemovedKept' /\ MigratedKept'  BY <1>2, Zenon DEF RemovedKept, MigratedKept
<1>4. CASE UNCHANGED dbs
  <2>1. StoresShaped' /\ SomeSettings'  BY <1>4, Zenon DEF StorageInv, StoresShaped, SomeSettings
  <2>2. MarksInv'  BY <1>3, <1>4, MarksStay, Zenon DEF StorageInv
  <2> QED  BY <1>3, <2>1, <2>2, Zenon DEF StorageInv
<1>5. CASE dbs' \in Cleared(Other(to))
  <2>1. /\ dbs' \in [Stores -> StoreRecord] /\ \A e \in Stores : dbs'[e].settings = dbs[e].settings
        /\ \A g \in ViewedHashes : dbs'[Other(to)].viewed[g] \in {dbs[Other(to)].viewed[g], Absent}
        /\ dbs'[to].viewed = dbs[to].viewed
    BY <1>1, <1>5, StoreCleared, Zenon DEF StorageInv, StoresShaped
  <2>2. StoresShaped'  BY <2>1, Zenon DEF StorageInv, StoresShaped
  <2>3. SomeSettings'  BY <2>1, Zenon DEF StorageInv, SomeSettings, Stores
  <2>4. ASSUME MarksFound, SameRecords, MigratedKept  PROVE MarksFound' /\ SameRecords'
    <3>1. \A g \in ViewedHashes : dbs[Other(to)].viewed[g] # Absent => dbs[to].viewed[g] # Absent
      BY <2>4, Zenon DEF MigratedKept
    <3>2. \A g \in ViewedHashes : (\A d \in Stores : dbs[d].viewed[g] # Absent) =>
             dbs[to].viewed[g] = dbs[Other(to)].viewed[g]
      BY <1>1, <2>4, Zenon DEF SameRecords, Stores
    <3>3. \A g \in ViewedHashes : \A f \in marks[g] : dbs[to].viewed[g] # Absent /\ f \in dbs[to].viewed[g]
      <4> SUFFICES ASSUME NEW g \in ViewedHashes, NEW f \in marks[g]
                   PROVE  dbs[to].viewed[g] # Absent /\ f \in dbs[to].viewed[g]
        BY Zenon
      <4>1. PICK d \in Stores : dbs[d].viewed[g] # Absent /\ f \in dbs[d].viewed[g]
        BY <2>4, Zenon DEF MarksFound
      <4>2. CASE d = to  BY <4>1, <4>2, Zenon
      <4>3. CASE d = Other(to)
        <5>1. dbs[to].viewed[g] # Absent  BY <3>1, <4>1, <4>3, Zenon
        <5>2. dbs[to].viewed[g] = dbs[Other(to)].viewed[g]  BY <1>1, <3>2, <4>1, <4>3, <5>1, Zenon
        <5> QED  BY <4>1, <4>3, <5>1, <5>2, Zenon
      <4> QED  BY <1>1, <4>2, <4>3, Zenon
    <3>4. MarksFound'  BY <2>1, <3>3, Zenon DEF MarksFound
    <3>5. \A g \in ViewedHashes : (\A d \in Stores : dbs'[d].viewed[g] # Absent) =>
             dbs'[to].viewed[g] = dbs'[Other(to)].viewed[g]
      <4> SUFFICES ASSUME NEW g \in ViewedHashes, \A d \in Stores : dbs'[d].viewed[g] # Absent
                   PROVE  dbs'[to].viewed[g] = dbs'[Other(to)].viewed[g]
        BY Zenon
      <4>1. dbs'[Other(to)].viewed[g] = dbs[Other(to)].viewed[g] /\ dbs'[to].viewed[g] = dbs[to].viewed[g]
        BY <1>1, <2>1, Zenon
      <4>2. \A d \in Stores : dbs[d].viewed[g] # Absent  BY <1>1, <4>1, Zenon
      <4> QED  BY <3>2, <4>1, <4>2, Zenon
    <3>6. SameRecords'  BY <1>1, <3>5, Zenon DEF SameRecords, Stores
    <3> QED  BY <3>4, <3>6, Zenon
  <2>5. MarksInv'  BY <1>3, <2>4, Zenon DEF StorageInv, MarksInv
  <2> QED  BY <1>3, <2>2, <2>3, <2>5, Zenon DEF StorageInv
<1> QED  BY <1>4, <1>5, Zenon

LEMMA ClearMigratedKeeps == ASSUME StorageInv, ClearMigrated \/ ClearViewed  PROVE StorageInv'
<1>1. PICK to \in Stores : to = Store(pref.viewedInJson)  BY StoreNames, Zenon
<1>2. /\ UNCHANGED <<saved, marks, clash, torn, BTsets, route, cached, pref>> /\ todo = {}
      /\ \/ pc = "viewed" /\ pc' = "load"
         \/ pc = "copyViewed" /\ pc' = "savePref"
      /\ dbs' \in Cleared(Other(to)) \/ UNCHANGED dbs
  BY <1>1, Zenon DEF ClearMigrated, ClearViewed, memory
<1>3. Up' = Up  BY <1>2 DEF Up
<1> QED  BY <1>1, <1>2, <1>3, ClearKeeps, Zenon

\* Settings are written to a store; the marks are not concerned.
LEMMA SettingsSaved ==
  ASSUME StorageInv, NEW d \in Stores, NEW s \in Settings, dbs' = [dbs EXCEPT ![d].settings = s],
         BTsets' \in Settings, route' \in Flags, pref' \in Flags,
         cached' \in [ViewedHashes -> Records \cup {Unread}],
         pc' # "remove", UNCHANGED <<marks, clash, torn>>,
         pc' \notin {"viewed", "copyViewed"} \/ UNCHANGED <<pc, pref, todo>>
  PROVE  StorageInv'
<1>1. /\ dbs' \in [Stores -> StoreRecord] /\ dbs'[d].settings = s
      /\ \A e \in Stores : dbs'[e].viewed = dbs[e].viewed
  BY SettingsWritten, Zenon DEF StorageInv, StoresShaped
<1>2. StoresShaped'  BY <1>1, Zenon DEF StorageInv, StoresShaped
<1>3. RemovedKept'  BY Zenon DEF RemovedKept
<1>4. s # Absent  BY DefaultShaped, Zenon
<1>5. SomeSettings'  BY <1>1, <1>4, Zenon DEF SomeSettings, Stores
<1>6. MigratedKept => MigratedKept'
  <2>1. CASE pc' \notin {"viewed", "copyViewed"}  BY <2>1, Zenon DEF MigratedKept
  <2>2. CASE UNCHANGED <<pc, pref, todo>>  BY <1>1, <2>2, StoreNames, Zenon DEF MigratedKept
  <2> QED  BY <2>1, <2>2, Zenon
<1>7. MarksInv'  BY <1>1, <1>6, MarksStay, Zenon DEF StorageInv
<1> QED  BY <1>2, <1>3, <1>5, <1>7, Zenon DEF StorageInv

LEMMA LoadKeeps == ASSUME StorageInv, Load  PROVE StorageInv'
<1>1. PICK d \in Stores : d = Store(pref.inJson)  BY StoreNames, Zenon
<1>2. dbs[d].settings \in Settings \cup {Absent} /\ pref \in Flags
  BY Zenon DEF StorageInv, StoresShaped, StoreRecord
<1>3. pref.inJson \in BOOLEAN /\ pref.viewedInJson \in BOOLEAN  BY <1>2, Zenon DEF Flags
<1>4. PICK s \in Settings : s = [(IF dbs[d].settings = Absent THEN Default ELSE dbs[d].settings)
                                    EXCEPT !.inJson = pref.inJson, !.viewedInJson = pref.viewedInJson]
  <2>1. (IF dbs[d].settings = Absent THEN Default ELSE dbs[d].settings) \in Settings  BY <1>2, DefaultShaped, Zenon
  <2> QED  BY <1>3, <2>1, DefaultShaped, Zenon
<1>5. /\ dbs' = [dbs EXCEPT ![d].settings = s] /\ BTsets' = s /\ route' = pref /\ pref' = pref
      /\ cached' = [h \in ViewedHashes |-> Unread] /\ pc' = "up" /\ UNCHANGED <<marks, clash, torn>>
  BY <1>1, <1>4, Zenon DEF Load
<1>6. pc' # "remove" /\ pc' \notin {"viewed", "copyViewed"}  BY <1>5
<1>7. cached' \in [ViewedHashes -> Records \cup {Unread}]  BY <1>5, Zenon
<1> QED  BY <1>2, <1>5, <1>6, <1>7, SettingsSaved, Zenon

\* What the process has when it runs.
LEMMA UpShaped ==
  ASSUME StorageInv, Up
  PROVE  /\ BTsets \in Settings /\ route \in Flags /\ pref \in Flags
         /\ cached \in [ViewedHashes -> Records \cup {Unread}] /\ pc # "remove"
<1>1. pc # "remove"  BY DEF Up
<1> QED  BY <1>1, Zenon DEF StorageInv, StoresShaped

LEMMA SetBTSetsKeeps == ASSUME StorageInv, NEW s \in Settings, SetBTSets(s)  PROVE StorageInv'
<1>1. PICK d \in Stores : d = Store(route.inJson)  BY StoreNames, Zenon
<1>2. /\ dbs' = [dbs EXCEPT ![d].settings = s] /\ BTsets' = s /\ Up
      /\ UNCHANGED <<marks, clash, torn, route, cached, pc, pref, todo>>
  BY <1>1, Zenon DEF SetBTSets, Saves, job
<1> QED  BY <1>2, UpShaped, SettingsSaved, Zenon

LEMMA SwitchSettingsKeeps ==
  ASSUME StorageInv, NEW b \in BOOLEAN, SwitchSettingsStorage(b)
  PROVE  StorageInv'
<1>1. PICK d \in Stores : d = Store(route.inJson)  BY StoreNames, Zenon
<1>2. Up  BY DEF SwitchSettingsStorage, Up
<1>3. PICK s \in Settings : s = [BTsets EXCEPT !.inJson = b]  BY <1>2, UpShaped, DefaultShaped, Zenon
<1>4. /\ dbs' = [dbs EXCEPT ![d].settings = s] /\ BTsets' = s /\ pc' = "copySettings"
      /\ pref' = [pref EXCEPT !.inJson = b] /\ UNCHANGED <<marks, clash, torn, route, cached>>
  BY <1>1, <1>3, Zenon DEF SwitchSettingsStorage, Saves
<1>5. pref' \in Flags  BY <1>2, <1>4, UpShaped, Zenon DEF Flags
<1>6. pc' # "remove" /\ pc' \notin {"viewed", "copyViewed"}  BY <1>4
<1> QED  BY <1>2, <1>4, <1>5, <1>6, UpShaped, SettingsSaved, Zenon

LEMMA SavePrefKeeps == ASSUME StorageInv, SavePref  PROVE StorageInv'
<1>1. PICK d \in Stores : d = Store(route.inJson)  BY StoreNames, Zenon
<1>2. Up  BY DEF SavePref, Up
<1>3. PICK s \in Settings : s = [BTsets EXCEPT !.viewedInJson = pref.viewedInJson]
  <2>1. pref.viewedInJson \in BOOLEAN  BY <1>2, UpShaped, Zenon DEF Flags
  <2> QED  BY <1>2, <2>1, UpShaped, DefaultShaped, Zenon
<1>4. /\ dbs' = [dbs EXCEPT ![d].settings = s] /\ BTsets' = s /\ pc' = "up"
      /\ UNCHANGED <<marks, clash, torn, route, cached, pref>>
  BY <1>1, <1>3, Zenon DEF SavePref, Saves
<1>5. pc' # "remove" /\ pc' \notin {"viewed", "copyViewed"}  BY <1>4
<1> QED  BY <1>2, <1>4, <1>5, UpShaped, SettingsSaved, Zenon

\* The stores are as they were.
LEMMA StoresStay ==
  ASSUME StorageInv, UNCHANGED <<dbs, saved, marks, clash, torn>>, StoresShaped', pc' # "remove",
         pc' \notin {"viewed", "copyViewed"} \/ UNCHANGED <<pc, pref, todo>>
  PROVE  StorageInv'
<1>1. RemovedKept'  BY Zenon DEF RemovedKept
<1>2. SomeSettings'  BY Zenon DEF StorageInv, SomeSettings
<1>3. MigratedKept => MigratedKept'
  <2>1. CASE pc' \notin {"viewed", "copyViewed"}  BY <2>1, Zenon DEF MigratedKept
  <2>2. CASE UNCHANGED <<pc, pref, todo>>  BY <2>2, Zenon DEF MigratedKept
  <2> QED  BY <2>1, <2>2, Zenon
<1>4. MarksInv'  BY <1>3, MarksStay, Zenon DEF StorageInv
<1> QED  BY <1>1, <1>2, <1>4, Zenon DEF StorageInv

LEMMA CopySettingsKeeps == ASSUME StorageInv, CopySettings  PROVE StorageInv'
<1>1. PICK d \in Stores : d = Store(pref.inJson) /\ Other(d) \in Stores  BY StoreNames, Zenon
<1>2. Up  BY DEF CopySettings, Up
<1>3. UNCHANGED <<saved, marks, clash, torn, BTsets, route, cached, pref>> /\ pc' = "up"
  BY Zenon DEF CopySettings, memory
<1>4. pc' # "remove" /\ pc' \notin {"viewed", "copyViewed"}  BY <1>3
<1>5. CASE UNCHANGED dbs
  <2>1. StoresShaped'  BY <1>2, <1>3, <1>5, UpShaped, Zenon DEF StorageInv, StoresShaped
  <2> QED  BY <1>3, <1>4, <1>5, <2>1, StoresStay, Zenon
<1>6. CASE dbs[Other(d)].settings # Absent /\ dbs' = [dbs EXCEPT ![d].settings = dbs[Other(d)].settings]
  <2>1. PICK s \in Settings : s = dbs[Other(d)].settings
    BY <1>1, <1>6, Zenon DEF StorageInv, StoresShaped, StoreRecord
  <2> QED  BY <1>2, <1>3, <1>4, <1>6, <2>1, UpShaped, SettingsSaved, Zenon
<1> QED  BY <1>1, <1>5, <1>6, Zenon DEF CopySettings, Migrates

LEMMA SwitchViewedKeeps ==
  ASSUME StorageInv, NEW b \in BOOLEAN, SwitchViewedStorage(b)
  PROVE  StorageInv'
<1>1. PICK to \in Stores : to = Store(b)  BY StoreNames, Zenon
<1>2. /\ UNCHANGED <<dbs, saved, marks, clash, torn, BTsets, route, cached>> /\ pc = "up" /\ pc' = "copyViewed"
      /\ pref' = [pref EXCEPT !.viewedInJson = b] /\ todo' = Names(Other(to))
  BY <1>1, Zenon DEF SwitchViewedStorage, store, memory
<1>3. Up  BY <1>2 DEF Up
<1>4. pref' \in Flags /\ pref'.viewedInJson = b  BY <1>2, <1>3, UpShaped, Zenon DEF Flags
<1>5. StoresShaped'  BY <1>2, <1>3, <1>4, UpShaped, Zenon DEF StorageInv, StoresShaped
<1>6. RemovedKept'  BY <1>2 DEF RemovedKept
<1>7. SomeSettings'  BY <1>2, Zenon DEF StorageInv, SomeSettings
<1>8. todo' = {h \in ViewedHashes : dbs'[Other(to)].viewed[h] # Absent}  BY <1>2, Zenon DEF Names
<1>9. MigratedKept'  BY <1>1, <1>4, <1>8, ListBegins, Zenon
<1>10. MarksInv'  BY <1>2, <1>9, MarksStay, Zenon DEF StorageInv
<1> QED  BY <1>5, <1>6, <1>7, <1>10, Zenon DEF StorageInv

\* tdb.Get returns a record.
LEMMA ReadShaped == ASSUME StorageInv, NEW h \in ViewedHashes  PROVE Read(h) \in Records
<1>1. dbs[Store(route.viewedInJson)].viewed[h] \in Records
  BY StoreNames, Zenon DEF StorageInv, StoresShaped, StoreRecord
<1>2. cached[h] \in Records \cup {Unread}  BY Zenon DEF StorageInv, StoresShaped
<1> QED  BY <1>1, <1>2, Zenon DEF Read

LEMMA ListViewedKeeps == ASSUME StorageInv, NEW h \in ViewedHashes, ListViewed(h)  PROVE StorageInv'
<1>1. /\ UNCHANGED <<dbs, saved, marks, clash, torn, BTsets, route, pc, pref, todo>> /\ Up
      /\ cached' = [cached EXCEPT ![h] = Read(h)]
  BY Zenon DEF ListViewed, store, job
<1>2. cached' \in [ViewedHashes -> Records \cup {Unread}]  BY <1>1, UpShaped, ReadShaped, Zenon
<1>3. StoresShaped'  BY <1>1, <1>2, UpShaped, Zenon DEF StorageInv, StoresShaped
<1>4. pc' # "remove"  BY <1>1, UpShaped, Zenon
<1> QED  BY <1>1, <1>3, <1>4, StoresStay, Zenon

\* A request that finds the record in one store, and has no older copy of it, has every mark.
LEMMA IndexesFound ==
  ASSUME StorageInv, NEW h \in ViewedHashes, NEW d \in Stores, d = Store(route.viewedInJson),
         MarksFound, dbs[Other(d)].viewed[h] = Absent, cached[h] \in {Unread, dbs[d].viewed[h]}
  PROVE  marks[h] \subseteq Indexes(h)
<1>1. Read(h) = dbs[d].viewed[h]  BY Zenon DEF Read
<1>2. SUFFICES ASSUME NEW f \in marks[h]  PROVE f \in Indexes(h)  BY Zenon
<1>3. PICK e \in Stores : dbs[e].viewed[h] # Absent /\ f \in dbs[e].viewed[h]  BY Zenon DEF MarksFound
<1>4. e = d  BY <1>3, OtherStore, Zenon
<1> QED  BY <1>1, <1>3, <1>4, Zenon DEF Indexes

\* A change of the marks of h: unless it is a clash, the record written has every mark.
LEMMA WritesKeep ==
  ASSUME StorageInv, Up, NEW h \in ViewedHashes, NEW r \in Records, NEW m \in SUBSET Files, Writes(h, r),
         marks' = [marks EXCEPT ![h] = m], UNCHANGED <<saved, torn, BTsets, route, pc, pref, todo>>,
         \/ m = {}
         \/ r # Absent /\ (clash' \/ torn \/ m \subseteq r)
  PROVE  StorageInv'
<1>1. PICK d \in Stores : d = Store(route.viewedInJson) /\ Other(d) \in Stores /\ Other(d) # d  BY StoreNames, Zenon
<1>2. /\ dbs' = [dbs EXCEPT ![d].viewed[h] = r]
      /\ cached' = [cached EXCEPT ![h] = IF r = Absent THEN Unread ELSE r]
      /\ clash' \/ (~clash /\ dbs[Other(d)].viewed[h] = Absent /\ pc # "copyViewed")
  BY <1>1, Zenon DEF Writes
<1>3. RecordSet(d, h, r)
  <2>1. dbs \in [Stores -> StoreRecord]  BY Zenon DEF StorageInv, StoresShaped
  <2> QED  BY <1>2, <2>1, RecordWritten, Zenon
<1>4. /\ marks \in [ViewedHashes -> SUBSET Files] /\ marks' \in [ViewedHashes -> SUBSET Files] /\ marks'[h] = m
      /\ \A g \in ViewedHashes : g # h => marks'[g] = marks[g]
  <2>1. marks \in [ViewedHashes -> SUBSET Files]  BY Zenon DEF StorageInv, StoresShaped
  <2> QED  BY <2>1, Zenon
<1>5. cached' \in [ViewedHashes -> Records \cup {Unread}]  BY <1>2, UpShaped, Zenon
<1>6. StoresShaped'
  <2>1. dbs' \in [Stores -> StoreRecord]  BY <1>3, Zenon DEF RecordSet
  <2> QED  BY <1>4, <1>5, <2>1, UpShaped, Zenon DEF StoresShaped
<1>7. RemovedKept'  BY UpShaped, Zenon DEF RemovedKept
<1>8. SomeSettings'  BY <1>3, Zenon DEF StorageInv, SomeSettings, RecordSet, Stores
<1>9. ASSUME ~clash', ~torn'  PROVE MarksFound' /\ SameRecords' /\ MigratedKept'
  <2>1. MarksFound /\ SameRecords /\ dbs[Other(d)].viewed[h] = Absent /\ pc # "copyViewed"
    BY <1>2, <1>9, Zenon DEF StorageInv, MarksInv
  <2>2. MigratedKept'
    <3>1. pc \notin {"viewed", "copyViewed"}  BY <2>1 DEF Up
    <3> QED  BY <3>1, Zenon DEF MigratedKept
  <2>3. MarksFound'
    <3> SUFFICES ASSUME NEW g \in ViewedHashes, NEW f \in marks'[g]
                 PROVE  \E e \in Stores : dbs'[e].viewed[g] # Absent /\ f \in dbs'[e].viewed[g]
      BY Zenon DEF MarksFound
    <3>1. CASE g = h
      <4>1. f \in m /\ m \subseteq r /\ r # Absent  BY <1>4, <1>9, <3>1, Zenon
      <4>2. dbs'[d].viewed[g] = r  BY <1>3, <3>1, Zenon DEF RecordSet
      <4> QED  BY <4>1, <4>2, Zenon
    <3>2. CASE g # h
      <4>1. PICK e \in Stores : dbs[e].viewed[g] # Absent /\ f \in dbs[e].viewed[g]
        BY <1>4, <2>1, <3>2, Zenon DEF MarksFound
      <4>2. dbs'[e].viewed[g] = dbs[e].viewed[g]  BY <1>3, <3>2, Zenon DEF RecordSet
      <4> QED  BY <4>1, <4>2, Zenon
    <3> QED  BY <3>1, <3>2, Zenon
  <2>4. SameRecords'
    <3> SUFFICES ASSUME NEW g \in ViewedHashes, \A e \in Stores : dbs'[e].viewed[g] # Absent
                 PROVE  dbs'["json"].viewed[g] = dbs'["bolt"].viewed[g]
      BY Zenon DEF SameRecords
    <3>1. g # h
      <4>1. dbs'[Other(d)].viewed[h] = Absent  BY <1>1, <1>3, <2>1, Zenon DEF RecordSet
      <4> QED  BY <1>1, <4>1, Zenon
    <3>2. \A e \in Stores : dbs'[e].viewed[g] = dbs[e].viewed[g]  BY <1>3, <3>1, Zenon DEF RecordSet
    <3>3. "json" \in Stores /\ "bolt" \in Stores  BY Zenon DEF Stores
    <3> QED  BY <2>1, <3>2, <3>3, Zenon DEF SameRecords
  <2> QED  BY <2>2, <2>3, <2>4, Zenon
<1>10. MarksInv'  BY <1>9, Zenon DEF MarksInv
<1> QED  BY <1>6, <1>7, <1>8, <1>10, Zenon DEF StorageInv

\* What a request goes by is the whole record, if its change is no clash.
LEMMA IndexesKnown ==
  ASSUME StorageInv, NEW h \in ViewedHashes, NEW r, Writes(h, r)
  PROVE  Indexes(h) \in SUBSET Files /\ (clash' \/ torn \/ marks[h] \subseteq Indexes(h))
<1>1. PICK d \in Stores : d = Store(route.viewedInJson)  BY StoreNames, Zenon
<1>2. clash' \/ (~clash /\ dbs[Other(d)].viewed[h] = Absent /\ cached[h] \in {Unread, dbs[d].viewed[h]})
  BY <1>1, Zenon DEF Writes
<1>3. Indexes(h) \in SUBSET Files
  <2>1. Read(h) \in Records  BY ReadShaped, Zenon
  <2> QED  BY <2>1, Zenon DEF Indexes, Records
<1>4. clash' \/ torn \/ MarksFound  BY <1>2, Zenon DEF StorageInv, MarksInv
<1> QED  BY <1>1, <1>2, <1>3, <1>4, IndexesFound, Zenon

LEMMA SetViewedKeeps ==
  ASSUME StorageInv, NEW h \in ViewedHashes, NEW f \in Files, SetViewed(h, f) \/ RemViewed(h, f)
  PROVE  StorageInv'
<1>1. PICK r, m : /\ \/ r = Indexes(h) \cup {f} /\ m = marks[h] \cup {f}
                     \/ r = Indexes(h) \ {f} /\ m = marks[h] \ {f}
                  /\ Up /\ Writes(h, r) /\ marks' = [marks EXCEPT ![h] = m]
                  /\ UNCHANGED <<saved, torn, BTsets, route, pc, pref, todo>>
  BY Zenon DEF SetViewed, RemViewed, job
<1>2. Indexes(h) \in SUBSET Files /\ (clash' \/ torn \/ marks[h] \subseteq Indexes(h))  BY <1>1, IndexesKnown, Zenon
<1>3. marks[h] \in SUBSET Files  BY Zenon DEF StorageInv, StoresShaped
<1>4. r \in SUBSET Files /\ m \in SUBSET Files /\ (clash' \/ torn \/ m \subseteq r)  BY <1>1, <1>2, <1>3, Zenon
<1>5. r \in Records /\ r # Absent  BY <1>4, StorageAssumption, Zenon DEF Records
<1> QED  BY <1>1, <1>4, <1>5, WritesKeep, Zenon

LEMMA RemAllViewedKeeps == ASSUME StorageInv, NEW h \in ViewedHashes, RemAllViewed(h)  PROVE StorageInv'
<1>1. /\ Up /\ Writes(h, Absent) /\ marks' = [marks EXCEPT ![h] = {}]
      /\ UNCHANGED <<saved, torn, BTsets, route, pc, pref, todo>>
  BY Zenon DEF RemAllViewed, job
<1>2. Absent \in Records /\ {} \in SUBSET Files  BY Zenon DEF Records
<1> QED  BY <1>1, <1>2, WritesKeep, Zenon

\* The process is gone, and the stores are what a write has left.
LEMMA DownKeeps ==
  ASSUME StorageInv, Down, dbs' \in [Stores -> StoreRecord],
         SomeSettings', torn' \/ (UNCHANGED torn /\ \A e \in Stores : dbs'[e].viewed = dbs[e].viewed)
  PROVE  StorageInv'
<1>1. UNCHANGED <<route, cached, pref, marks, clash>> /\ pc' = "down" /\ BTsets' = Absent  BY Zenon DEF Down
<1>2. ~Up'  BY <1>1 DEF Up
<1>3. StoresShaped'  BY <1>1, <1>2, Zenon DEF StorageInv, StoresShaped
<1>4. RemovedKept' /\ MigratedKept'  BY <1>1 DEF RemovedKept, MigratedKept
<1>5. CASE torn'  BY <1>3, <1>4, <1>5, MarksTorn, Zenon DEF StorageInv
<1>6. CASE UNCHANGED torn /\ \A e \in Stores : dbs'[e].viewed = dbs[e].viewed
  <2>1. MarksInv'  BY <1>1, <1>4, <1>6, MarksStay, Zenon DEF StorageInv
  <2> QED  BY <1>3, <1>4, <2>1, Zenon DEF StorageInv
<1> QED  BY <1>5, <1>6, Zenon

LEMMA StopKeeps == ASSUME StorageInv, Stop  PROVE StorageInv'
<1>1. Down /\ UNCHANGED <<dbs, torn, saved>>  BY Zenon DEF Stop, Down
<1>2. SomeSettings'  BY <1>1, Zenon DEF StorageInv, SomeSettings
<1>3. dbs' \in [Stores -> StoreRecord]  BY <1>1, Zenon DEF StorageInv, StoresShaped
<1> QED  BY <1>1, <1>2, <1>3, DownKeeps, Zenon

LEMMA TearSettingsKeeps == ASSUME StorageInv, TearSettings  PROVE StorageInv'
<1>1. /\ Down /\ UNCHANGED saved /\ dbs' = [dbs EXCEPT !["json"].settings = Absent]
      /\ torn' \/ (UNCHANGED torn /\ dbs["bolt"].settings # Absent)
  BY Zenon DEF TearSettings, Down, Migrates
<1>2. "json" \in Stores /\ "bolt" \in Stores /\ "json" # "bolt"  BY DEF Stores
<1>3. /\ dbs' \in [Stores -> StoreRecord] /\ dbs'["bolt"].settings = dbs["bolt"].settings
      /\ \A e \in Stores : dbs'[e].viewed = dbs[e].viewed
  BY <1>1, <1>2, SettingsWritten, Zenon DEF StorageInv, StoresShaped
<1>4. SomeSettings'  BY <1>1, <1>2, <1>3, Zenon DEF SomeSettings
<1> QED  BY <1>1, <1>3, <1>4, DownKeeps, Zenon

LEMMA TearViewedKeeps == ASSUME StorageInv, TearViewed  PROVE StorageInv'
<1>1. Down /\ torn' /\ dbs' \in Cleared("json")  BY Zenon DEF TearViewed
<1>2. "json" \in Stores  BY DEF Stores
<1>3. dbs' \in [Stores -> StoreRecord]  BY <1>1, <1>2, StoreCleared, Zenon DEF StorageInv, StoresShaped
<1>4. SomeSettings'  BY <1>1, Zenon DEF SomeSettings
<1> QED  BY <1>1, <1>3, <1>4, DownKeeps, Zenon

LEMMA StorageInvStep == ASSUME StorageInv, [StorageNext]_storageVars  PROVE StorageInv'
<1>1. CASE Start \/ MigrateSettings \/ RemoveSource
  BY <1>1, StartKeeps, MigrateSettingsKeeps, RemoveSourceKeeps, Zenon
<1>2. CASE ClearMigrated \/ ClearViewed  BY <1>2, ClearMigratedKeeps, Zenon
<1>3. CASE Load \/ CopySettings \/ SavePref  BY <1>3, LoadKeeps, CopySettingsKeeps, SavePrefKeeps, Zenon
<1>4. CASE Stop \/ TearSettings \/ TearViewed  BY <1>4, StopKeeps, TearSettingsKeeps, TearViewedKeeps, Zenon
<1>5. ASSUME NEW s \in Settings, SetBTSets(s)  PROVE StorageInv'  BY <1>5, SetBTSetsKeeps, Zenon
<1>6. ASSUME NEW b \in BOOLEAN, SwitchSettingsStorage(b) \/ SwitchViewedStorage(b)  PROVE StorageInv'
  BY <1>6, SwitchSettingsKeeps, SwitchViewedKeeps, Zenon
<1>7. ASSUME NEW h \in ViewedHashes, MigrateViewed(h) \/ CopyViewed(h)  PROVE StorageInv'
  <2>1. pc \in {"viewed", "copyViewed"} /\ MigrateEntry(Other(Store(pref.viewedInJson)), h)
    BY <1>7, Zenon DEF MigrateViewed, CopyViewed
  <2> QED  BY <2>1, MigrateEntryKeeps, Zenon
<1>8. ASSUME NEW h \in ViewedHashes, ListViewed(h) \/ RemAllViewed(h)  PROVE StorageInv'
  BY <1>8, ListViewedKeeps, RemAllViewedKeeps, Zenon
<1>9. ASSUME NEW h \in ViewedHashes, NEW f \in Files, SetViewed(h, f) \/ RemViewed(h, f)  PROVE StorageInv'
  BY <1>9, SetViewedKeeps, Zenon
<1>10. CASE UNCHANGED storageVars
  <2>1. UNCHANGED <<dbs, saved, marks, clash, torn, BTsets, route, cached, pc, pref, todo>>
    BY <1>10, Zenon DEF storageVars, store, memory, job
  <2>2. Up' = Up  BY <2>1, Zenon DEF Up
  <2>3. StoresShaped' /\ RemovedKept' /\ SomeSettings'
    BY <2>1, <2>2, Zenon DEF StorageInv, StoresShaped, RemovedKept, SomeSettings
  <2>4. MigratedKept => MigratedKept'  BY <2>1, Zenon DEF MigratedKept
  <2>5. MarksInv'  BY <2>1, <2>4, MarksStay, Zenon DEF StorageInv
  <2> QED  BY <2>3, <2>5, Zenon DEF StorageInv
<1> QED  BY <1>1, <1>2, <1>3, <1>4, <1>5, <1>6, <1>7, <1>8, <1>9, <1>10, Zenon DEF StorageNext

-----------------------------------------------------------------------------
(* The settings that are kept are those that were saved last.              *)

\* Store d has the settings that were saved last.
Holds(d) == dbs[d].settings # Absent /\ dbs[d].settings.rest = saved.rest

\* Neither store has others.
Agree == \A d \in Stores : dbs[d].settings # Absent => dbs[d].settings.rest = saved.rest

\* The other store has others, and a copy from d replaces them.
Overrides(d) ==
    Holds(d) /\ dbs[Other(d)].settings # Absent /\ ~SameSettings(dbs[d].settings, dbs[Other(d)].settings)

\* Where the next start takes the settings to.
FirstRead == IF dbs["json"].settings # Absent THEN dbs["json"].settings ELSE dbs["bolt"].settings
Goes == Store(FirstRead.inJson)

\* A start that takes the settings to store t finds the last ones.
Ready(t) == (\E d \in Stores : Holds(d)) /\ (Agree \/ Overrides(Other(t)))

Starting == pc \in {"remove", "viewed", "load"}

\* The last settings at each step: they win when the stores do not agree.
Standing ==
    /\ pc = "down" => Ready(Goes)
    /\ pc = "settings" => Ready(Store(pref.inJson)) /\ Goes = Store(pref.inJson)
    /\ Starting => Agree /\ Holds(Store(pref.inJson))
    /\ Up => LET d == Store(route.inJson)
             IN  /\ BTsets.rest = saved.rest /\ Holds(d)
                 /\ \/ Agree
                    \/ Overrides(d) /\ Goes = Other(d) /\ ~(pc = "copySettings" /\ Store(pref.inJson) = d)

SavedInv ==
    /\ pc \in {"down", "settings", "remove", "viewed", "load", "up", "copySettings", "copyViewed", "savePref"}
    /\ saved \in Settings \cup {Absent}
    /\ saved = Absent => ~Up /\ \A d \in Stores : dbs[d].settings = Absent
    /\ saved # Absent /\ ~torn /\ ~outdone => Standing

LEMMA SavedInvInit == ASSUME StorageInit  PROVE SavedInv
<1>1. pc = "down" /\ saved = Absent /\ ~Up  BY DEF StorageInit, Up
<1>2. \A d \in Stores : dbs[d].settings = Absent  BY Zenon DEF StorageInit, Stores
<1> QED  BY <1>1, <1>2, Zenon DEF SavedInv

\* The settings in the stores are as they were.
LEMMA SettingsFramed ==
  ASSUME \A d \in Stores : dbs'[d].settings = dbs[d].settings, UNCHANGED saved
  PROVE  /\ \A d \in Stores : (Holds(d)' <=> Holds(d)) /\ (Overrides(d)' <=> Overrides(d)) /\ (Ready(d)' <=> Ready(d))
         /\ Agree' <=> Agree
         /\ Goes' = Goes /\ Goes \in Stores
<1>1. "json" \in Stores /\ "bolt" \in Stores  BY DEF Stores
<1>2. \A d \in Stores : (Holds(d)' <=> Holds(d)) /\ (Overrides(d)' <=> Overrides(d))
  BY OtherStore, Zenon DEF Holds, Overrides
<1>3. Agree' <=> Agree  BY Zenon DEF Agree
<1>4. Goes' = Goes /\ Goes \in Stores  BY <1>1, StoreNames, Zenon DEF Goes, FirstRead
<1>5. \A d \in Stores : Ready(d)' <=> Ready(d)
  <2> TAKE d \in Stores
  <2>1. PICK o \in Stores : o = Other(d)  BY OtherStore, Zenon
  <2>2. (Overrides(o)' <=> Overrides(o)) /\ ((\E e \in Stores : Holds(e)') <=> \E e \in Stores : Holds(e))
    BY <1>2, Zenon
  <2> QED  BY <1>3, <2>1, <2>2, Zenon DEF Ready
<1> QED  BY <1>2, <1>3, <1>4, <1>5, Zenon

\* Settings that agree are found wherever a start takes them to.
LEMMA AgreeReady == ASSUME Agree, NEW d \in Stores, Holds(d)  PROVE \A t \in Stores : Ready(t)
BY Zenon DEF Ready

\* A step that leaves the settings alone and does not change what is to become of them.
LEMMA SettingsStay ==
  ASSUME SavedInv, \A d \in Stores : dbs'[d].settings = dbs[d].settings,
         UNCHANGED <<saved, outdone, BTsets, route>>, torn => torn', pref'.inJson = pref.inJson,
         \/ UNCHANGED pc
         \/ pc = "viewed" /\ pc' = "load"
         \/ pc \in {"up", "copyViewed", "savePref"} /\ pc' \in {"up", "copyViewed", "savePref"}
  PROVE  SavedInv'
<1>1. PICK t \in Stores, d \in Stores : t = Store(pref.inJson) /\ d = Store(route.inJson)  BY StoreNames, Zenon
<1>2. /\ pc' = "down" <=> pc = "down"
      /\ pc' = "settings" <=> pc = "settings"
      /\ Up' <=> Up
      /\ Starting' <=> Starting
      /\ pc' = "copySettings" => pc = "copySettings"
  BY DEF SavedInv, Up, Starting
<1>3. ASSUME Standing  PROVE Standing'
  <2>1. pc' = "down" => Ready(Goes)'
    <3>1. PICK g \in Stores : g = Goes /\ g = Goes'  BY SettingsFramed, Zenon
    <3>2. pc' = "down" => Ready(g)'  BY <1>2, <1>3, <3>1, SettingsFramed, Zenon DEF Standing
    <3> QED  BY <3>1, <3>2, Zenon DEF Ready
  <2>2. pc' = "settings" => Ready(t)' /\ Goes' = t  BY <1>1, <1>2, <1>3, SettingsFramed, Zenon DEF Standing
  <2>3. Starting' => Agree' /\ Holds(t)'  BY <1>1, <1>2, <1>3, SettingsFramed, Zenon DEF Standing
  <2>4. Up' => /\ BTsets'.rest = saved'.rest /\ Holds(d)'
               /\ \/ Agree'
                  \/ Overrides(d)' /\ Goes' = Other(d) /\ ~(pc' = "copySettings" /\ t = d)
    BY <1>1, <1>2, <1>3, SettingsFramed, Zenon DEF Standing
  <2>5. Store(pref'.inJson) = t /\ Store(route'.inJson) = d  BY <1>1, Zenon
  <2> QED  BY <2>1, <2>2, <2>3, <2>4, <2>5, Zenon DEF Standing
<1>4. pc' \in {"down", "settings", "remove", "viewed", "load", "up", "copySettings", "copyViewed", "savePref"}
  BY Zenon DEF SavedInv
<1> QED  BY <1>2, <1>3, <1>4, Zenon DEF SavedInv

LEMMA StartSaved == ASSUME SavedInv, Start  PROVE SavedInv'
<1>1. UNCHANGED <<dbs, saved, torn, outdone, BTsets, route>> /\ pc = "down" /\ pc' = "settings"
  BY Zenon DEF Start, store, memory
<1>2. ~Up' /\ ~Starting'  BY <1>1 DEF Up, Starting
<1>3. ASSUME saved # Absent, ~torn, ~outdone  PROVE Standing'
  <2>1. PICK g \in Stores : g = Goes /\ g = Goes'  BY <1>1, SettingsFramed, Zenon
  <2>2. Ready(g) /\ Ready(g)'  BY <1>1, <1>3, <2>1, SettingsFramed, Zenon DEF SavedInv, Standing
  <2>3. PICK d \in Stores : dbs[d].settings # Absent  BY <2>2, Zenon DEF Ready, Holds
  <2>4. FirstRead # Absent  BY <2>3 DEF FirstRead, Stores
  <2>5. pref' = FlagsOf(FirstRead)  BY <2>4, Zenon DEF Start, FirstRead
  <2>6. pref'.inJson = FirstRead.inJson  BY <2>5, Zenon DEF FlagsOf
  <2>7. Store(pref'.inJson) = g  BY <2>1, <2>6, Zenon DEF Goes
  <2> QED  BY <1>1, <1>2, <2>1, <2>2, <2>7, Zenon DEF Standing
<1> QED  BY <1>1, <1>2, <1>3, Zenon DEF SavedInv

\* The target has the last settings afterwards, and the source no others.
LEMMA MigrateSettingsSaved == ASSUME StorageInv, SavedInv, MigrateSettings  PROVE SavedInv'
<1>1. PICK t \in Stores, o \in Stores : t = Store(pref.inJson) /\ o = Other(t) /\ o # t /\ Other(o) = t
  <2>1. Other(Other(Store(pref.inJson))) = Store(pref.inJson)  BY Zenon DEF Store, Other
  <2> QED  BY <2>1, StoreNames, Zenon
<1>2. UNCHANGED <<saved, torn, outdone, BTsets, route, pref>> /\ pc = "settings" /\ pc' \in {"remove", "viewed"}
  BY Zenon DEF MigrateSettings, memory, ToViewed
<1>3. ~Up' /\ Starting' /\ pc' \notin {"down", "settings"}  BY <1>2 DEF Up, Starting
<1>4. \A e \in Stores : e = t \/ e = o  BY <1>1, OtherStore, Zenon
<1>5. saved # Absent /\ ~torn /\ ~outdone => Ready(t)  BY <1>1, <1>2, Zenon DEF SavedInv, Standing
<1>6. CASE dbs[o].settings # Absent /\ dbs' = [dbs EXCEPT ![t].settings = dbs[o].settings]
  <2>1. PICK s \in Settings \cup {Absent} : s = dbs[o].settings  BY Zenon DEF StorageInv, StoresShaped, StoreRecord
  <2>2. dbs'[t].settings = dbs[o].settings /\ dbs'[o].settings = dbs[o].settings
    <3>1. dbs \in [Stores -> StoreRecord] /\ dbs' = [dbs EXCEPT ![t].settings = s]
      BY <1>6, <2>1, Zenon DEF StorageInv, StoresShaped
    <3>2. dbs'[t].settings = s /\ \A e \in Stores : e # t => dbs'[e].settings = dbs[e].settings
      BY <3>1, SettingsWritten, Zenon
    <3> QED  BY <1>1, <2>1, <3>2, Zenon
  <2>3. ASSUME Ready(t)  PROVE Agree' /\ Holds(t)'
    <3>1. dbs[o].settings.rest = saved.rest  BY <1>1, <1>6, <2>3, Zenon DEF Ready, Agree, Overrides, Holds
    <3> QED  BY <1>2, <1>4, <1>6, <2>2, <3>1, Zenon DEF Agree, Holds
  <2>4. saved # Absent  BY <1>6, Zenon DEF SavedInv
  <2> QED  BY <1>1, <1>2, <1>3, <1>5, <2>3, <2>4, Zenon DEF SavedInv, Standing
<1>7. CASE /\ UNCHANGED dbs
           /\ ~Migrates(dbs[o].settings, dbs[t].settings, SameSettings(dbs[o].settings, dbs[t].settings))
  <2>1. ASSUME Ready(t)  PROVE Agree' /\ Holds(t)'
    <3>1. ~Overrides(o)  BY <1>1, <1>7, Zenon DEF Overrides, Holds, Migrates
    <3>2. Agree  BY <1>1, <2>1, <3>1, Zenon DEF Ready
    <3>3. PICK d \in Stores : Holds(d)  BY <2>1, Zenon DEF Ready
    <3>4. dbs[t].settings # Absent  BY <1>4, <1>7, <3>3, Zenon DEF Holds, Migrates
    <3> QED  BY <1>2, <1>7, <3>2, <3>4, Zenon DEF Agree, Holds
  <2> QED  BY <1>1, <1>2, <1>3, <1>5, <1>7, <2>1, Zenon DEF SavedInv, Standing
<1> QED  BY <1>1, <1>6, <1>7, Zenon DEF MigrateSettings, Migrates

LEMMA RemoveSourceSaved == ASSUME StorageInv, SavedInv, RemoveSource  PROVE SavedInv'
<1>1. PICK t \in Stores, o \in Stores : t = Store(pref.inJson) /\ o = Other(t) /\ o # t
  <2>1. Store(pref.inJson) \in Stores  BY StoreNames, Zenon
  <2> QED  BY <2>1, OtherStore, Zenon
<1>2. /\ UNCHANGED <<saved, torn, outdone, BTsets, route, pref>> /\ pc = "remove" /\ pc' = "viewed"
      /\ dbs' = [dbs EXCEPT ![o].settings = Absent]
  BY <1>1, Zenon DEF RemoveSource, memory, ToViewed
<1>3. Starting /\ ~Up' /\ Starting' /\ pc' \notin {"down", "settings"}  BY <1>2 DEF Up, Starting
<1>4. dbs'[t].settings = dbs[t].settings /\ dbs'[o].settings = Absent
  BY <1>1, <1>2, SettingsWritten, Zenon DEF StorageInv, StoresShaped
<1>5. \A e \in Stores : e = t \/ e = o  BY <1>1, OtherStore, Zenon
<1>6. ASSUME Standing  PROVE Standing'
  <2>1. Agree' /\ Holds(t)'  BY <1>1, <1>2, <1>3, <1>4, <1>5, <1>6, Zenon DEF Standing, Agree, Holds
  <2> QED  BY <1>1, <1>2, <1>3, <2>1, Zenon DEF Standing
<1>7. saved = Absent => \A d \in Stores : dbs'[d].settings = Absent  BY <1>4, <1>5, Zenon DEF SavedInv
<1> QED  BY <1>2, <1>3, <1>6, <1>7, Zenon DEF SavedInv

LEMMA LoadSaved == ASSUME StorageInv, SavedInv, Load  PROVE SavedInv'
<1>1. PICK d \in Stores, o \in Stores : d = Store(pref.inJson) /\ o = Other(d) /\ o # d
  <2>1. Store(pref.inJson) \in Stores  BY StoreNames, Zenon
  <2> QED  BY <2>1, OtherStore, Zenon
<1>2. PICK s \in Settings : s = IF dbs[d].settings = Absent THEN Default ELSE dbs[d].settings
  BY DefaultShaped, Zenon DEF StorageInv, StoresShaped, StoreRecord
<1>3. PICK a \in BOOLEAN, b \in BOOLEAN : a = pref.inJson /\ b = pref.viewedInJson
  BY Zenon DEF StorageInv, StoresShaped, Flags
<1>4. PICK t \in Settings : t = [s EXCEPT !.inJson = a, !.viewedInJson = b] /\ t.rest = s.rest
  <2>1. [s EXCEPT !.inJson = a, !.viewedInJson = b] \in Settings  BY DefaultShaped, Zenon
  <2>2. [s EXCEPT !.inJson = a, !.viewedInJson = b].rest = s.rest  BY DEF Settings
  <2> QED  BY <2>1, <2>2, Zenon
<1>5. /\ dbs' = [dbs EXCEPT ![d].settings = t] /\ BTsets' = t /\ route' = pref /\ pref' = pref /\ pc' = "up"
      /\ UNCHANGED <<torn, outdone>> /\ pc = "load"
      /\ saved' = [t EXCEPT !.rest = IF saved = Absent THEN t.rest ELSE saved.rest]
  BY <1>1, <1>2, <1>3, <1>4, Zenon DEF Load
<1>6. Up' /\ Starting /\ ~Starting' /\ pc' \notin {"down", "settings"}  BY <1>5 DEF Up, Starting
<1>7. /\ saved' \in Settings /\ saved' # Absent
      /\ saved'.rest = IF saved = Absent THEN t.rest ELSE saved.rest
  <2>1. (IF saved = Absent THEN t.rest ELSE saved.rest) \in Rests  BY Zenon DEF SavedInv, Settings
  <2>2. saved' \in Settings /\ saved'.rest = IF saved = Absent THEN t.rest ELSE saved.rest
    BY <1>5, <2>1, Zenon DEF Settings
  <2> QED  BY <2>2, DefaultShaped, Zenon
<1>8. dbs'[d].settings = t /\ dbs'[o].settings = dbs[o].settings
  <2>1. dbs \in [Stores -> StoreRecord] /\ dbs' = [dbs EXCEPT ![d].settings = t] /\ t \in Settings \cup {Absent}
    BY <1>5, Zenon DEF StorageInv, StoresShaped
  <2>2. dbs'[d].settings = t /\ \A e \in Stores : e # d => dbs'[e].settings = dbs[e].settings
    BY <2>1, SettingsWritten, Zenon
  <2> QED  BY <1>1, <2>2, Zenon
<1>9. \A e \in Stores : e = d \/ e = o  BY <1>1, OtherStore, Zenon
<1>10. ASSUME ~torn, ~outdone  PROVE Standing'
  <2>1. t.rest = saved'.rest /\ (dbs[o].settings # Absent => dbs[o].settings.rest = saved'.rest)
    <3>1. CASE saved = Absent  BY <1>7, <3>1, Zenon DEF SavedInv
    <3>2. CASE saved # Absent
      <4>1. Agree /\ Holds(d)  BY <1>1, <1>6, <1>10, <3>2, Zenon DEF SavedInv, Standing
      <4> QED  BY <1>2, <1>4, <1>7, <3>2, <4>1, Zenon DEF Agree, Holds
    <3> QED  BY <3>1, <3>2, Zenon
  <2>2. t # Absent  BY DefaultShaped, Zenon
  <2>3. Agree' /\ Holds(d)'  BY <1>8, <1>9, <2>1, <2>2, Zenon DEF Agree, Holds
  <2> QED  BY <1>1, <1>5, <1>6, <2>1, <2>3, Zenon DEF Standing
<1> QED  BY <1>5, <1>6, <1>7, <1>10, Zenon DEF SavedInv

LEMMA SameSymmetric == \A s, t : SameSettings(s, t) => SameSettings(t, s)
BY Zenon DEF SameSettings

\* Settings that are not outdone win over what the other store has.
LEMMA SavesSaved ==
  ASSUME StorageInv, SavedInv, NEW s \in Settings, Saves(s), UNCHANGED <<torn, route>>,
         pc' \in {"up", "copySettings", "copyViewed", "savePref"}
  PROVE  SavedInv'
<1>1. PICK d \in Stores, o \in Stores : d = Store(route.inJson) /\ o = Other(d) /\ o # d
  <2>1. Store(route.inJson) \in Stores  BY StoreNames, Zenon
  <2> QED  BY <2>1, OtherStore, Zenon
<1>2. /\ BTsets' = s /\ saved' = s /\ dbs' = [dbs EXCEPT ![d].settings = s]
      /\ outdone' = (outdone \/ Outdone(s))
  BY <1>1, Zenon DEF Saves
<1>3. dbs'[d].settings = s /\ dbs'[o].settings = dbs[o].settings
  <2>1. dbs \in [Stores -> StoreRecord] /\ dbs' = [dbs EXCEPT ![d].settings = s] /\ s \in Settings \cup {Absent}
    BY <1>2, Zenon DEF StorageInv, StoresShaped
  <2>2. dbs'[d].settings = s /\ \A e \in Stores : e # d => dbs'[e].settings = dbs[e].settings
    BY <2>1, SettingsWritten, Zenon
  <2> QED  BY <1>1, <2>2, Zenon
<1>4. Up' /\ ~Starting' /\ pc' \notin {"down", "settings"}  BY DEF Up, Starting
<1>5. s # Absent  BY DefaultShaped, Zenon
<1>6. \A e \in Stores : e = d \/ e = o  BY <1>1, OtherStore, Zenon
<1>7. Holds(d)'  BY <1>2, <1>3, <1>5, Zenon DEF Holds
<1>8. ASSUME ~outdone', ~Agree'
      PROVE  Overrides(d)' /\ Goes' = Other(d) /\ ~(pc' = "copySettings" /\ Store(pref'.inJson) = d)
  <2>1. dbs[o].settings # Absent /\ dbs[o].settings.rest # s.rest
    BY <1>2, <1>3, <1>6, <1>8, Zenon DEF Agree
  <2>2. PICK read : read = IF d = "json" THEN s ELSE dbs[o].settings  BY Zenon
  <2>3. ~Outdone(s)  BY <1>2, <1>8, Zenon
  <2>4. /\ Store(read.inJson) # d /\ ~(pc' = "copySettings" /\ Store(pref'.inJson) = d)
        /\ ~SameSettings(dbs[o].settings, s)
    BY <1>1, <2>1, <2>2, <2>3, Zenon DEF Outdone
  <2>5. FirstRead' = read
    <3>1. CASE d = "json"  BY <1>3, <1>5, <2>2, <3>1, Zenon DEF FirstRead
    <3>2. CASE d = "bolt"
      <4>1. o = "json" /\ "bolt" # "json"  BY <1>1, <3>2 DEF Stores
      <4> QED  BY <1>3, <2>1, <2>2, <3>2, <4>1, Zenon DEF FirstRead
    <3> QED  BY <3>1, <3>2, Zenon DEF Stores
  <2>6. Goes' = Other(d)  BY <2>4, <2>5, StoreNames, OtherStore, Zenon DEF Goes
  <2>7. Overrides(d)'  BY <1>1, <1>3, <1>7, <2>1, <2>4, SameSymmetric, Zenon DEF Overrides
  <2> QED  BY <2>4, <2>6, <2>7, Zenon
<1>9. ~outdone' => Standing'  BY <1>1, <1>2, <1>4, <1>7, <1>8, Zenon DEF Standing
<1> QED  BY <1>2, <1>4, <1>5, <1>9, Zenon DEF SavedInv

LEMMA CopySettingsSaved == ASSUME StorageInv, SavedInv, CopySettings  PROVE SavedInv'
<1>1. PICK d \in Stores, t \in Stores, o \in Stores :
        d = Store(route.inJson) /\ t = Store(pref.inJson) /\ o = Other(t) /\ o # t
  <2>1. Store(route.inJson) \in Stores /\ Store(pref.inJson) \in Stores  BY StoreNames, Zenon
  <2> QED  BY <2>1, OtherStore, Zenon
<1>2. UNCHANGED <<saved, torn, outdone, BTsets, route, pref>> /\ pc = "copySettings" /\ pc' = "up"
  BY Zenon DEF CopySettings, memory
<1>3. Up /\ Up' /\ ~Starting' /\ pc' \notin {"down", "settings", "copySettings"}  BY <1>2 DEF Up, Starting
<1>4. \A e \in Stores : e = t \/ e = o  BY <1>1, OtherStore, Zenon
<1>5. saved # Absent  BY <1>3, Zenon DEF SavedInv
<1>6. PICK s \in Settings \cup {Absent} : s = dbs[o].settings  BY Zenon DEF StorageInv, StoresShaped, StoreRecord
<1>7. CASE s # Absent /\ dbs' = [dbs EXCEPT ![t].settings = s]
  <2>1. dbs'[t].settings = s /\ dbs'[o].settings = s
    <3>1. dbs \in [Stores -> StoreRecord] /\ dbs' = [dbs EXCEPT ![t].settings = s]
      BY <1>7, Zenon DEF StorageInv, StoresShaped
    <3>2. dbs'[t].settings = s /\ \A e \in Stores : e # t => dbs'[e].settings = dbs[e].settings
      BY <3>1, SettingsWritten, Zenon
    <3> QED  BY <1>1, <1>6, <3>2, Zenon
  <2>2. ASSUME ~torn, ~outdone  PROVE s.rest = saved.rest
    <3>1. \/ Agree
          \/ Overrides(d) /\ t # d
      BY <1>1, <1>2, <1>3, <1>5, <2>2, Zenon DEF SavedInv, Standing
    <3>2. CASE Agree  BY <1>6, <1>7, <3>2, Zenon DEF Agree
    <3>3. CASE Overrides(d) /\ t # d  BY <1>4, <1>6, <3>3, Zenon DEF Overrides, Holds
    <3> QED  BY <3>1, <3>2, <3>3, Zenon
  <2>3. ASSUME ~torn, ~outdone  PROVE Agree' /\ Holds(d)'
    BY <1>2, <1>4, <1>7, <2>1, <2>2, <2>3, Zenon DEF Agree, Holds
  <2>4. ~torn /\ ~outdone => BTsets.rest = saved.rest  BY <1>3, <1>5, Zenon DEF SavedInv, Standing
  <2> QED  BY <1>1, <1>2, <1>3, <1>5, <2>3, <2>4, Zenon DEF SavedInv, Standing
<1>8. CASE UNCHANGED dbs /\ ~Migrates(s, dbs[t].settings, SameSettings(s, dbs[t].settings))
  <2>1. ASSUME ~torn, ~outdone  PROVE Agree /\ Holds(d) /\ BTsets.rest = saved.rest
    <3>1. /\ Holds(d) /\ BTsets.rest = saved.rest
          /\ \/ Agree
             \/ Overrides(d) /\ t # d
      BY <1>1, <1>2, <1>3, <1>5, <2>1, Zenon DEF SavedInv, Standing
    <3>2. ~(Overrides(d) /\ t # d)
      <4> SUFFICES ASSUME Overrides(d), t # d  PROVE FALSE  BY Zenon
      <4>1. d = o /\ Other(d) = t  BY <1>1, <1>4, OtherStore, Zenon
      <4> QED  BY <1>6, <1>8, <4>1, Zenon DEF Overrides, Holds, Migrates
    <3> QED  BY <3>1, <3>2, Zenon
  <2>2. ASSUME ~torn, ~outdone  PROVE Agree' /\ Holds(d)'
    BY <1>2, <1>8, <2>1, <2>2, Zenon DEF Agree, Holds
  <2> QED  BY <1>1, <1>2, <1>3, <1>5, <2>1, <2>2, Zenon DEF SavedInv, Standing
<1> QED  BY <1>1, <1>6, <1>7, <1>8, Zenon DEF CopySettings, Migrates

\* The process is gone; the next start finds the settings as they are.
LEMMA DownSaved ==
  ASSUME SavedInv, pc' = "down", \A d \in Stores : dbs'[d].settings = dbs[d].settings,
         UNCHANGED <<saved, outdone>>, torn => torn'
  PROVE  SavedInv'
<1>1. ~Up' /\ ~Starting' /\ pc' # "settings"  BY DEF Up, Starting
<1>2. PICK g \in Stores : g = Goes /\ g = Goes'  BY SettingsFramed, Zenon
<1>3. ASSUME Standing  PROVE Ready(g)
  <2>1. PICK t \in Stores, d \in Stores : t = Store(pref.inJson) /\ d = Store(route.inJson)  BY StoreNames, Zenon
  <2>2. CASE pc = "down"  BY <1>2, <1>3, <2>2, Zenon DEF Standing
  <2>3. CASE pc = "settings"  BY <1>2, <1>3, <2>3, Zenon DEF Standing
  <2>4. CASE Starting  BY <1>3, <2>1, <2>4, AgreeReady, Zenon DEF Standing
  <2>5. CASE Up
    <3>1. CASE Agree  BY <1>3, <2>1, <2>5, <3>1, AgreeReady, Zenon DEF Standing
    <3>2. CASE ~Agree
      <4>1. Holds(d) /\ Overrides(d) /\ g = Other(d)  BY <1>2, <1>3, <2>1, <2>5, <3>2, Zenon DEF Standing
      <4>2. Other(g) = d  BY <4>1, OtherStore, Zenon
      <4> QED  BY <4>1, <4>2, Zenon DEF Ready
    <3> QED  BY <3>1, <3>2, Zenon
  <2>6. pc = "down" \/ pc = "settings" \/ Starting \/ Up  BY DEF SavedInv, Starting, Up
  <2> QED  BY <2>2, <2>3, <2>4, <2>5, <2>6, Zenon
<1>4. ASSUME Standing  PROVE Standing'
  <2>1. Ready(g)'  BY <1>3, <1>4, SettingsFramed, Zenon
  <2> QED  BY <1>1, <1>2, <2>1, Zenon DEF Standing, Ready
<1> QED  BY <1>1, <1>4, Zenon DEF SavedInv

\* What is being copied into settings.json is still where it comes from.
LEMMA TearSettingsSaved == ASSUME StorageInv, SavedInv, TearSettings  PROVE SavedInv'
<1>1. /\ UNCHANGED <<saved, outdone>> /\ pc' = "down" /\ dbs' = [dbs EXCEPT !["json"].settings = Absent]
      /\ \/ torn'
         \/ /\ UNCHANGED torn /\ pc \in {"settings", "copySettings"} /\ pref.inJson
            /\ dbs["bolt"].settings # Absent
  BY Zenon DEF TearSettings, Down, Migrates
<1>2. "json" \in Stores /\ "bolt" \in Stores /\ "json" # "bolt"  BY DEF Stores
<1>3. dbs'["json"].settings = Absent /\ dbs'["bolt"].settings = dbs["bolt"].settings
  BY <1>1, <1>2, SettingsWritten, Zenon DEF StorageInv, StoresShaped
<1>4. ~Up' /\ ~Starting' /\ pc' # "settings"  BY <1>1 DEF Up, Starting
<1>5. saved = Absent => \A d \in Stores : dbs'[d].settings = Absent  BY <1>2, <1>3, Zenon DEF SavedInv, Stores
<1>6. ASSUME saved # Absent, ~torn', ~outdone  PROVE Standing'
  <2>1. ~torn /\ pc \in {"settings", "copySettings"} /\ dbs["bolt"].settings # Absent /\ Store(pref.inJson) = "json"
    <3>1. UNCHANGED torn /\ pc \in {"settings", "copySettings"} /\ pref.inJson /\ dbs["bolt"].settings # Absent
      BY <1>1, <1>6, Zenon
    <3>2. ~torn  BY <1>6, <3>1, Zenon
    <3>3. Store(pref.inJson) = "json"  BY <3>1, Zenon DEF Store
    <3> QED  BY <3>1, <3>2, <3>3, Zenon
  <2>2. Standing  BY <1>6, <2>1, Zenon DEF SavedInv
  <2>3. Other("json") = "bolt"  BY DEF Other
  <2>4. Holds("bolt")
    <3>1. CASE Agree  BY <1>2, <2>1, <3>1, Zenon DEF Agree, Holds
    <3>2. CASE ~Agree /\ pc = "settings"
      BY <2>1, <2>2, <2>3, <3>2, Zenon DEF Standing, Ready, Overrides
    <3>3. CASE ~Agree /\ pc = "copySettings"
      <4>1. Up  BY <3>3 DEF Up
      <4>2. Store(route.inJson) # "json" /\ Overrides(Store(route.inJson))
        BY <2>1, <2>2, <3>3, <4>1, Zenon DEF Standing
      <4>3. Store(route.inJson) = "bolt"  BY <4>2, Zenon DEF Store
      <4> QED  BY <4>2, <4>3, Zenon DEF Overrides
    <3> QED  BY <2>1, <3>1, <3>2, <3>3
  <2>5. Agree' /\ Holds("bolt")'  BY <1>1, <1>2, <1>3, <2>4, Zenon DEF Agree, Holds, Stores
  <2>6. Ready(Goes)'  BY <1>2, <2>5, Zenon DEF Ready
  <2> QED  BY <1>1, <1>4, <2>6, Zenon DEF Standing
<1> QED  BY <1>1, <1>4, <1>5, <1>6, Zenon DEF SavedInv

LEMMA SavedInvStep == ASSUME StorageInv, SavedInv, [StorageNext]_storageVars  PROVE SavedInv'
<1>1. CASE Start \/ MigrateSettings \/ RemoveSource
  BY <1>1, StartSaved, MigrateSettingsSaved, RemoveSourceSaved, Zenon
<1>2. CASE Load \/ CopySettings \/ TearSettings
  BY <1>2, LoadSaved, CopySettingsSaved, TearSettingsSaved, Zenon
<1>3. CASE ClearMigrated \/ ClearViewed
  <2>1. PICK d \in Stores : d = Other(Store(pref.viewedInJson))  BY StoreNames, Zenon
  <2>2. /\ UNCHANGED <<saved, torn, outdone, BTsets, route, pref>>
        /\ (pc = "viewed" /\ pc' = "load") \/ (pc = "copyViewed" /\ pc' = "savePref")
        /\ dbs' \in Cleared(d) \/ UNCHANGED dbs
    BY <1>3, <2>1, Zenon DEF ClearMigrated, ClearViewed, memory
  <2>3. \A e \in Stores : dbs'[e].settings = dbs[e].settings
    BY <2>2, StoreCleared, Zenon DEF StorageInv, StoresShaped
  <2> QED  BY <2>2, <2>3, SettingsStay, Zenon
<1>4. ASSUME NEW s \in Settings, SetBTSets(s)  PROVE SavedInv'
  <2>1. Saves(s) /\ UNCHANGED <<torn, route, pc>> /\ Up  BY <1>4, Zenon DEF SetBTSets, job
  <2>2. pc' \in {"up", "copySettings", "copyViewed", "savePref"}  BY <2>1, Zenon DEF Up
  <2> QED  BY <2>1, <2>2, SavesSaved, Zenon
<1>5. ASSUME NEW b \in BOOLEAN, SwitchSettingsStorage(b)  PROVE SavedInv'
  <2>1. Up  BY <1>5 DEF SwitchSettingsStorage, Up
  <2>2. PICK s \in Settings : s = [BTsets EXCEPT !.inJson = b]  BY <2>1, UpShaped, DefaultShaped, Zenon
  <2>3. Saves(s) /\ UNCHANGED <<torn, route>> /\ pc' = "copySettings"
    BY <1>5, <2>2, Zenon DEF SwitchSettingsStorage
  <2> QED  BY <2>3, SavesSaved, Zenon
<1>6. CASE SavePref
  <2>1. Up  BY <1>6 DEF SavePref, Up
  <2>2. PICK s \in Settings : s = [BTsets EXCEPT !.viewedInJson = pref.viewedInJson]
    <3>1. PICK b \in BOOLEAN : b = pref.viewedInJson  BY <2>1, UpShaped, Zenon DEF Flags
    <3> QED  BY <2>1, <3>1, UpShaped, DefaultShaped, Zenon
  <2>3. Saves(s) /\ UNCHANGED <<torn, route>> /\ pc' = "up"  BY <1>6, <2>2, Zenon DEF SavePref
  <2> QED  BY <2>3, SavesSaved, Zenon
<1>7. ASSUME NEW b \in BOOLEAN, SwitchViewedStorage(b)  PROVE SavedInv'
  <2>1. /\ UNCHANGED <<dbs, saved, torn, outdone, BTsets, route>> /\ pc = "up" /\ pc' = "copyViewed"
        /\ pref' = [pref EXCEPT !.viewedInJson = b]
    BY <1>7, Zenon DEF SwitchViewedStorage, store, memory
  <2>2. pref'.inJson = pref.inJson  BY <2>1 DEF StorageInv, StoresShaped, Flags
  <2> QED  BY <2>1, <2>2, SettingsStay, Zenon
<1>8. ASSUME NEW h \in ViewedHashes, MigrateViewed(h) \/ CopyViewed(h)  PROVE SavedInv'
  <2>1. PICK d \in Stores, r \in Records : /\ d = Store(pref.viewedInJson)
                                         /\ r = dbs[Other(d)].viewed[h] /\ Other(Other(d)) = d
    <3>1. Store(pref.viewedInJson) \in Stores /\ Other(Store(pref.viewedInJson)) \in Stores  BY StoreNames, Zenon
    <3>2. dbs[Other(Store(pref.viewedInJson))].viewed[h] \in Records
      BY <3>1, Zenon DEF StorageInv, StoresShaped, StoreRecord
    <3>3. Other(Other(Store(pref.viewedInJson))) = Store(pref.viewedInJson)  BY Zenon DEF Store, Other
    <3> QED  BY <3>1, <3>2, <3>3, Zenon
  <2>2. /\ UNCHANGED <<saved, torn, outdone, BTsets, route, pc, pref>>
        /\ dbs' = [dbs EXCEPT ![d].viewed[h] = r] \/ UNCHANGED dbs
    BY <1>8, <2>1, Zenon DEF MigrateViewed, CopyViewed, MigrateEntry, memory
  <2>3. \A e \in Stores : dbs'[e].settings = dbs[e].settings
    BY <2>2, RecordWritten, Zenon DEF RecordSet, StorageInv, StoresShaped
  <2> QED  BY <2>2, <2>3, SettingsStay, Zenon
<1>9. ASSUME NEW h \in ViewedHashes, ListViewed(h)  PROVE SavedInv'
  <2>1. UNCHANGED <<dbs, saved, torn, outdone, BTsets, route, pc, pref>>  BY <1>9, Zenon DEF ListViewed, store, job
  <2> QED  BY <2>1, SettingsStay, Zenon
<1>10. ASSUME NEW h \in ViewedHashes, NEW r \in Records, Writes(h, r),
              UNCHANGED <<saved, outdone, torn, BTsets, route, pc, pref>>
       PROVE  SavedInv'
  <2>1. PICK d \in Stores : d = Store(route.viewedInJson)  BY StoreNames, Zenon
  <2>2. dbs' = [dbs EXCEPT ![d].viewed[h] = r]  BY <1>10, <2>1, Zenon DEF Writes
  <2>3. \A e \in Stores : dbs'[e].settings = dbs[e].settings
    BY <2>2, RecordWritten, Zenon DEF RecordSet, StorageInv, StoresShaped
  <2> QED  BY <1>10, <2>3, SettingsStay, Zenon
<1>11. ASSUME NEW h \in ViewedHashes, NEW f \in Files, SetViewed(h, f) \/ RemViewed(h, f)  PROVE SavedInv'
  <2>1. PICK r : /\ r = Indexes(h) \cup {f} \/ r = Indexes(h) \ {f}
                 /\ Writes(h, r) /\ UNCHANGED <<saved, outdone, torn, BTsets, route, pc, pref>>
    BY <1>11, Zenon DEF SetViewed, RemViewed, job
  <2>2. Indexes(h) \in SUBSET Files  BY ReadShaped, Zenon DEF Indexes, Records
  <2>3. r \in Records  BY <2>1, <2>2, Zenon DEF Records
  <2> QED  BY <1>10, <2>1, <2>3, Zenon
<1>12. ASSUME NEW h \in ViewedHashes, RemAllViewed(h)  PROVE SavedInv'
  <2>1. Writes(h, Absent) /\ UNCHANGED <<saved, outdone, torn, BTsets, route, pc, pref>>
    BY <1>12, Zenon DEF RemAllViewed, job
  <2>2. Absent \in Records  BY Zenon DEF Records
  <2> QED  BY <1>10, <2>1, <2>2, Zenon
<1>13. CASE Stop \/ TearViewed
  <2>1. /\ pc' = "down" /\ UNCHANGED <<saved, outdone>> /\ (torn => torn')
        /\ UNCHANGED dbs \/ dbs' \in Cleared("json")
    <3>1. CASE Stop  BY <3>1, Zenon DEF Stop, Down
    <3>2. CASE TearViewed  BY <3>2, Zenon DEF TearViewed, Down
    <3> QED  BY <1>13, <3>1, <3>2, Zenon
  <2>2. "json" \in Stores  BY DEF Stores
  <2>3. \A e \in Stores : dbs'[e].settings = dbs[e].settings
    BY <2>1, <2>2, StoreCleared, Zenon DEF StorageInv, StoresShaped
  <2> QED  BY <2>1, <2>3, DownSaved, Zenon
<1>14. CASE UNCHANGED storageVars
  <2>1. UNCHANGED <<dbs, saved, torn, outdone, BTsets, route, pc, pref>>
    BY <1>14, Zenon DEF storageVars, store, memory, job
  <2> QED  BY <2>1, SettingsStay, Zenon
<1> QED  BY <1>1, <1>2, <1>3, <1>4, <1>5, <1>6, <1>7, <1>8, <1>9, <1>11, <1>12, <1>13, <1>14, Zenon DEF StorageNext

LEMMA StorageInvKeeps == StorageInv /\ SavedInv => StoresKeep
<1>1. ASSUME MarksFound  PROVE MarksKept
  <2> SUFFICES ASSUME NEW h \in ViewedHashes, NEW f \in marks[h]
               PROVE  f \in UNION {dbs[d].viewed[h] : d \in {e \in {"json", "bolt"} : h \in Names(e)}}
    BY Zenon DEF MarksKept
  <2>1. PICK d \in Stores : dbs[d].viewed[h] # Absent /\ f \in dbs[d].viewed[h]  BY <1>1, Zenon DEF MarksFound
  <2>2. d \in {e \in {"json", "bolt"} : h \in Names(e)}  BY <2>1, Zenon DEF Stores, Names
  <2> QED  BY <2>1, <2>2, Zenon
<1>2. clash \/ torn => MarksKept  BY Zenon DEF MarksKept
<1>3. ASSUME StorageInv, SavedInv, saved # Absent, ~torn, ~outdone
      PROVE  (Up => BTsets.rest = saved.rest) /\ \E d \in Stores : Holds(d)
  <2>1. Standing  BY <1>3, Zenon DEF SavedInv
  <2>2. pc = "down" \/ pc = "settings" \/ Starting \/ Up  BY <1>3 DEF SavedInv, Starting, Up
  <2>3. Store(pref.inJson) \in Stores /\ Store(route.inJson) \in Stores  BY StoreNames, Zenon
  <2> QED  BY <2>1, <2>2, <2>3, Zenon DEF Standing, Ready
<1>4. StorageInv /\ SavedInv => SettingsKept
  BY <1>3, Zenon DEF StorageInv, SomeSettings, SettingsKept, Holds, Stores
<1> QED  BY <1>1, <1>2, <1>4, Zenon DEF StorageInv, MarksInv, StoresKeep

\* The settings and the marks that were saved last are in one of the two stores at every
\* moment of a start, of a switch and of a crash, and a process that runs has those
\* settings (InitSets, SetStoragePreferences), for every set of torrents, files and
\* settings.  Excepted are a torn save, settings saved beside older ones that a switch or
\* a start then copies over them (outdone), and marks changed while both stores have the
\* torrent (clash); even then, unless a save was torn, some settings are found.
THEOREM SavedStaysKept == StorageSpec => []StoresKeep
<1>1. StorageInit => StorageInv /\ SavedInv  BY StorageInvInit, SavedInvInit
<1>2. StorageInv /\ SavedInv /\ [StorageNext]_storageVars => StorageInv' /\ SavedInv'
  BY StorageInvStep, SavedInvStep
<1> QED  BY <1>1, <1>2, StorageInvKeeps, PTL DEF StorageSpec

-----------------------------------------------------------------------------
(* The records of the torrents.                                            *)

\* Between the taking and the release of mu.
Inside == {"list", "fillNames", "get", "fill", "set", "put", "remove"}

\* Who holds mu is inside, and nobody else.
Alone == \A p \in Users : op[p].at \in Inside <=> mu = p

\* What the steps of a request know of its torrents.
Knows(p) ==
    /\ op[p].at \in {"adding", "rewrite", "removing", "remove"} => op[p].hash \in Hashes
    /\ op[p].at \in {"fill", "put"} => op[p].cur \in Hashes
    /\ op[p].at \in {"listing", "adding", "list", "fillNames"} => op[p].got = [h \in Hashes |-> 0]

\* What a request has read so far is what the database holds.
Reads(p) ==
    /\ op[p].at = "fillNames" => op[p].todo = Stored(db)
    /\ op[p].at \in {"get", "fill"} => \A h \in Hashes : h \notin op[p].todo => op[p].got[h] = db[h]
    /\ op[p].at = "fill" => op[p].got[op[p].cur] = db[op[p].cur]

\* A write under way has left the caches ready for it.
WritesReady(p) ==
    /\ op[p].at \in {"put", "remove"} => names = Miss
    /\ op[p].at = "put" => data[op[p].cur] = op[p].got[op[p].cur]
    /\ op[p].at = "remove" => data[op[p].hash] = Miss

Putting(p, h) == op[p].at = "put" /\ op[p].cur = h

Truth ==
    /\ \A h \in Hashes : data[h] # Miss => data[h] = db[h] \/ \E p \in Users : Putting(p, h)
    /\ names # Miss => names = Stored(db)

CacheInv == RecordsTypeOK /\ Alone /\ Truth /\ \A p \in Users : Knows(p) /\ Reads(p) /\ WritesReady(p)

LEMMA CacheInvInit ==
  ASSUME RecordsInit  PROVE CacheInv
<1>1. begun \in 0 .. MaxOps /\ 0 \in Versions /\ Earlier \in Versions
  BY RecordsAssumption DEF RecordsInit, Versions, Earlier
<1>2. \A p \in Users : op[p] = Idle
  BY Zenon DEF RecordsInit
<1>3. RecordsTypeOK
  <2>1. Idle \in Operations
    BY <1>1, Zenon DEF Idle, Operations, Phases
  <2> QED  BY <1>1, <2>1, Zenon DEF RecordsInit, RecordsTypeOK
<1>4. Alone
  BY <1>2, RecordsAssumption, Zenon DEF RecordsInit, Alone, Inside, Idle
<1>5. Truth
  BY Zenon DEF RecordsInit, Truth
<1>6. ASSUME NEW p \in Users  PROVE Knows(p) /\ Reads(p) /\ WritesReady(p)
  BY <1>2 DEF Knows, Reads, WritesReady, Idle
<1> QED  BY <1>3, <1>4, <1>5, <1>6, Zenon DEF CacheInv

-----------------------------------------------------------------------------
(* Facts common to the steps of a request p.                               *)

\* The record of p is replaced by r and the others keep theirs.
LEMMA Replace ==
  ASSUME RecordsTypeOK, NEW p \in Users, NEW r \in Operations, op' = [op EXCEPT ![p] = r]
  PROVE  op' \in [Users -> Operations] /\ op'[p] = r /\ \A q \in Users : q # p => op'[q] = op[q]
BY Zenon DEF RecordsTypeOK

\* A step of p leaves what another request knows true: p holds mu and the other is not
\* inside, or p touches nothing.
LEMMA Others ==
  ASSUME CacheInv, NEW p \in Users, NEW q \in Users, q # p, op'[q] = op[q],
         mu \in {p, Free} \/ UNCHANGED <<db, data, names>>
  PROVE  Knows(q)' /\ Reads(q)' /\ WritesReady(q)'
<1>1. Knows(q) /\ Reads(q) /\ WritesReady(q)
  BY Zenon DEF CacheInv
<1>2. Knows(q)'
  BY <1>1, Zenon DEF Knows
<1>3. CASE UNCHANGED <<db, data, names>>
  BY <1>1, <1>2, <1>3, Zenon DEF Reads, WritesReady, Stored
<1>4. CASE mu \in {p, Free}
  <2>1. op[q].at \notin Inside
    BY <1>4, RecordsAssumption, Zenon DEF CacheInv, Alone
  <2> QED  BY <1>2, <2>1, Zenon DEF Reads, WritesReady, Inside
<1> QED  BY <1>3, <1>4, Zenon

LEMMA AloneKept ==
  ASSUME CacheInv, NEW p \in Users, \A q \in Users : q # p => op'[q] = op[q],
         \/ UNCHANGED mu /\ (op'[p].at \in Inside <=> op[p].at \in Inside)
         \/ mu = Free /\ mu' = p /\ op'[p].at \in Inside
         \/ op[p].at \in Inside /\ mu' = Free /\ op'[p].at \notin Inside
  PROVE  Alone'
<1>1. \A q \in Users : op[q].at \in Inside <=> mu = q
  BY Zenon DEF CacheInv, Alone
<1>2. Free \notin Users
  BY RecordsAssumption, Zenon
<1> HIDE DEF Inside
<1> QED  BY <1>1, <1>2, Zenon DEF Alone

\* Nothing is written, and p was not about to write.
LEMMA TruthKept ==
  ASSUME CacheInv, NEW p \in Users, \A q \in Users : q # p => op'[q] = op[q],
         op[p].at # "put", UNCHANGED <<db, data, names>>
  PROVE  Truth'
BY DEF CacheInv, Truth, Putting, Stored

-----------------------------------------------------------------------------
(* The steps, one lemma for each.                                          *)

LEMMA BeginKeeps ==
  ASSUME CacheInv, NEW p \in Users, NEW at, NEW h,
         (at = "listing" /\ h = Miss) \/ (at \in {"adding", "removing"} /\ h \in Hashes), Begin(p, at, h)
  PROVE  CacheInv'
<1> DEFINE r == [op[p] EXCEPT !.at = at, !.hash = h, !.new = begun + 1]
<1>1. op[p] = Idle /\ op[p] \in Operations /\ begun + 1 \in Versions /\ begun' \in 0 .. MaxOps
  BY RecordsAssumption DEF Begin, CacheInv, RecordsTypeOK, Versions
<1>2. at \in Phases /\ h \in Hashes \cup {Miss}
  BY Zenon DEF Phases
<1>3. r \in Operations /\ op' = [op EXCEPT ![p] = r]
  BY <1>1, <1>2, Zenon DEF Operations, Begin
<1>4. r.at = at /\ r.hash = h /\ r.got = [k \in Hashes |-> 0]
  BY <1>1, <1>2 DEF Operations, Idle
<1> HIDE DEF r
<1>5. op' \in [Users -> Operations] /\ op'[p] = r /\ \A q \in Users : q # p => op'[q] = op[q]
  BY <1>3, Replace, Zenon DEF CacheInv
<1>6. UNCHANGED <<db, data, names, mu>>
  BY Zenon DEF Begin
<1>7. RecordsTypeOK'
  BY <1>1, <1>5, <1>6, Zenon DEF CacheInv, RecordsTypeOK
<1>8. op[p].at = "idle"
  BY <1>1 DEF Idle
<1>9. Alone'
  BY <1>4, <1>5, <1>6, <1>8, AloneKept, Zenon DEF Inside
<1>10. Truth'
  BY <1>5, <1>6, <1>8, TruthKept, Zenon
<1>11. Knows(p)' /\ Reads(p)' /\ WritesReady(p)'
  BY <1>4, <1>5, Zenon DEF Knows, Reads, WritesReady
<1> QED  BY <1>5, <1>6, <1>7, <1>9, <1>10, <1>11, Others, Zenon DEF CacheInv

LEMMA LockKeeps ==
  ASSUME CacheInv, NEW p \in Users, Lock(p)
  PROVE  CacheInv'
<1> DEFINE r == [op[p] EXCEPT !.at = "list"]
<1>1. op[p] \in Operations /\ "list" \in Phases
  BY Zenon DEF CacheInv, RecordsTypeOK, Phases
<1>2. r \in Operations /\ op' = [op EXCEPT ![p] = r] /\ r.at = "list" /\ r.got = op[p].got
  BY <1>1, Zenon DEF Operations, Lock
<1> HIDE DEF r
<1>3. op' \in [Users -> Operations] /\ op'[p] = r /\ \A q \in Users : q # p => op'[q] = op[q]
  BY <1>2, Replace, Zenon DEF CacheInv
<1>4. UNCHANGED <<db, data, names, begun>> /\ mu = Free /\ mu' = p /\ op[p].at \in {"listing", "adding"}
  BY Zenon DEF Lock
<1>5. RecordsTypeOK'
  BY <1>3, <1>4, Zenon DEF CacheInv, RecordsTypeOK
<1>6. Alone'
  BY <1>2, <1>3, <1>4, AloneKept, Zenon DEF Inside
<1>7. Truth'
  BY <1>3, <1>4, TruthKept, Zenon
<1>8. Knows(p)' /\ Reads(p)' /\ WritesReady(p)'
  BY <1>2, <1>3, <1>4, Zenon DEF CacheInv, Knows, Reads, WritesReady
<1> QED  BY <1>3, <1>4, <1>5, <1>6, <1>7, <1>8, Others, Zenon DEF CacheInv

\* A list read from the cache is that of the database, as the one read from it is.
LEMMA ListKeeps ==
  ASSUME CacheInv, NEW p \in Users, List(p)
  PROVE  CacheInv'
<1> DEFINE at == IF names = Miss THEN "fillNames" ELSE "get"
           r == [op[p] EXCEPT !.at = at, !.todo = Stored(db)]
<1>1. op[p] \in Operations /\ at \in Phases /\ Stored(db) \in SUBSET Hashes
  BY Zenon DEF CacheInv, RecordsTypeOK, Phases, Stored
<1>2. names # Miss => names = Stored(db)
  BY Zenon DEF CacheInv, Truth
<1>3. op' = [op EXCEPT ![p] = r]
  BY <1>2, Zenon DEF List
<1>4. r \in Operations /\ r.at = at /\ r.todo = Stored(db) /\ r.got = op[p].got
  BY <1>1, Zenon DEF Operations
<1> HIDE DEF r
<1>5. op' \in [Users -> Operations] /\ op'[p] = r /\ \A q \in Users : q # p => op'[q] = op[q]
  BY <1>3, <1>4, Replace, Zenon DEF CacheInv
<1>6. UNCHANGED <<db, data, names, mu, begun>> /\ op[p].at = "list"
  BY Zenon DEF List
<1>7. RecordsTypeOK'
  BY <1>5, <1>6, Zenon DEF CacheInv, RecordsTypeOK
<1>8. Alone'
  BY <1>4, <1>5, <1>6, AloneKept, Zenon DEF Inside
<1>9. Truth'
  BY <1>5, <1>6, TruthKept, Zenon
<1>10. op[p].got = [h \in Hashes |-> 0]
  BY <1>6, Zenon DEF CacheInv, Knows
<1>11. Knows(p)' /\ Reads(p)' /\ WritesReady(p)'
  BY <1>4, <1>5, <1>6, <1>10 DEF Knows, Reads, WritesReady, Stored
<1> QED  BY <1>5, <1>6, <1>7, <1>8, <1>9, <1>11, Others, Zenon DEF CacheInv

LEMMA FillNamesKeeps ==
  ASSUME CacheInv, NEW p \in Users, FillNames(p)
  PROVE  CacheInv'
<1> DEFINE r == [op[p] EXCEPT !.at = "get"]
<1>1. op[p] \in Operations /\ "get" \in Phases
  BY Zenon DEF CacheInv, RecordsTypeOK, Phases
<1>2. r \in Operations /\ op' = [op EXCEPT ![p] = r] /\ r.at = "get" /\ r.got = op[p].got /\ r.todo = op[p].todo
  BY <1>1, Zenon DEF Operations, FillNames
<1> HIDE DEF r
<1>3. op' \in [Users -> Operations] /\ op'[p] = r /\ \A q \in Users : q # p => op'[q] = op[q]
  BY <1>2, Replace, Zenon DEF CacheInv
<1>4. UNCHANGED <<db, data, mu, begun>> /\ op[p].at = "fillNames" /\ names' = op[p].todo
  BY Zenon DEF FillNames
<1>5. names' = Stored(db) /\ mu = p /\ op[p].got = [h \in Hashes |-> 0]
  BY <1>4, Zenon DEF CacheInv, Reads, Alone, Inside, Knows
<1>6. RecordsTypeOK'
  BY <1>3, <1>4, <1>5, Zenon DEF CacheInv, RecordsTypeOK, Stored
<1>7. Alone'
  BY <1>2, <1>3, <1>4, AloneKept, Zenon DEF Inside
<1>8. Truth'
  BY <1>3, <1>4, <1>5 DEF CacheInv, Truth, Putting, Stored
<1>9. Knows(p)' /\ Reads(p)' /\ WritesReady(p)'
  BY <1>2, <1>3, <1>4, <1>5 DEF Knows, Reads, WritesReady, Stored
<1> QED  BY <1>3, <1>5, <1>6, <1>7, <1>8, <1>9, Others, Zenon DEF CacheInv

\* Nobody is putting while another is inside, so a value found in the cache is true.
LEMMA DataTrue ==
  ASSUME CacheInv, NEW p \in Users, mu \in {p, Free}, op[p].at # "put", NEW h \in Hashes, data[h] # Miss
  PROVE  data[h] = db[h]
<1>1. ASSUME NEW q \in Users, Putting(q, h)  PROVE FALSE
  BY <1>1, RecordsAssumption, Zenon DEF CacheInv, Alone, Inside, Putting
<1> QED  BY <1>1, Zenon DEF CacheInv, Truth

LEMMA GetKeeps ==
  ASSUME CacheInv, NEW p \in Users, NEW h \in Hashes, Get(p, h)
  PROVE  CacheInv'
<1>1. UNCHANGED <<db, data, names, mu, begun>> /\ op[p].at = "get" /\ h \in op[p].todo
  BY Zenon DEF Get
<1>2. mu = p
  BY <1>1, Zenon DEF CacheInv, Alone, Inside
<1>3. op[p] \in Operations /\ {"get", "fill"} \subseteq Phases /\ db[h] \in Versions
  BY Zenon DEF CacheInv, RecordsTypeOK, Phases
<1>4. op[p].got \in [Hashes -> Versions] /\ op[p].todo \in SUBSET Hashes
  BY <1>3, Zenon DEF Operations
<1> DEFINE g == [op[p].got EXCEPT ![h] = db[h]]
           r == IF data[h] # Miss THEN [op[p] EXCEPT !.todo = op[p].todo \ {h}, !.got = g]
                ELSE [op[p] EXCEPT !.at = "fill", !.cur = h, !.got = g]
<1>5. g \in [Hashes -> Versions] /\ g[h] = db[h] /\ \A k \in Hashes : k # h => g[k] = op[p].got[k]
  BY <1>3, <1>4, Zenon
<1>6. op' = [op EXCEPT ![p] = r]
  BY <1>1, <1>2, DataTrue, ZenonT(60) DEF Get
<1> HIDE DEF g
<1>7. /\ r \in Operations /\ r.got = g
      /\ \/ r.at = "get" /\ r.todo = op[p].todo \ {h}
         \/ r.at = "fill" /\ r.todo = op[p].todo /\ r.cur = h
  <2>1. CASE data[h] # Miss
    BY <1>1, <1>3, <1>4, <1>5, <2>1, Zenon DEF Operations
  <2>2. CASE data[h] = Miss
    BY <1>1, <1>3, <1>4, <1>5, <2>2, Zenon DEF Operations
  <2> QED  BY <2>1, <2>2, Zenon
<1> HIDE DEF r
<1>8. op' \in [Users -> Operations] /\ op'[p] = r /\ \A q \in Users : q # p => op'[q] = op[q]
  BY <1>6, <1>7, Replace, Zenon DEF CacheInv
<1>9. RecordsTypeOK'
  BY <1>1, <1>8, Zenon DEF CacheInv, RecordsTypeOK
<1>10. Alone'
  BY <1>1, <1>7, <1>8, AloneKept, Zenon DEF Inside
<1>11. Truth'
  BY <1>1, <1>8, TruthKept, Zenon
<1>12. \A k \in Hashes : k \notin op[p].todo => op[p].got[k] = db[k]
  BY <1>1, Zenon DEF CacheInv, Reads
<1>13. Knows(p)' /\ Reads(p)' /\ WritesReady(p)'
  BY <1>1, <1>5, <1>7, <1>8, <1>12, Zenon DEF Knows, Reads, WritesReady
<1> QED  BY <1>1, <1>8, <1>9, <1>10, <1>11, <1>13, Others, Zenon DEF CacheInv

\* The late fill: mu is still held, so the value is the database's.
LEMMA FillKeeps ==
  ASSUME CacheInv, NEW p \in Users, Fill(p)
  PROVE  CacheInv'
<1> DEFINE c == op[p].cur
           r == [op[p] EXCEPT !.at = "get", !.cur = Miss, !.todo = op[p].todo \ {c}]
<1>1. UNCHANGED <<db, names, mu, begun>> /\ op[p].at = "fill" /\ data' = [data EXCEPT ![c] = op[p].got[c]]
  BY Zenon DEF Fill
<1>2. mu = p /\ c \in Hashes /\ op[p].got[c] = db[c]
  BY <1>1, Zenon DEF CacheInv, Alone, Inside, Knows, Reads
<1>3. op[p] \in Operations /\ "get" \in Phases
  BY Zenon DEF CacheInv, RecordsTypeOK, Phases
<1>4. /\ r \in Operations /\ op' = [op EXCEPT ![p] = r]
      /\ r.at = "get" /\ r.todo = op[p].todo \ {c} /\ r.got = op[p].got
  BY <1>3, Zenon DEF Operations, Fill
<1> HIDE DEF r, c
<1>5. op' \in [Users -> Operations] /\ op'[p] = r /\ \A q \in Users : q # p => op'[q] = op[q]
  BY <1>4, Replace, Zenon DEF CacheInv
<1>6. data' \in [Hashes -> Versions \cup {Miss}] /\ data'[c] = db[c] /\ \A k \in Hashes : k # c => data'[k] = data[k]
  BY <1>1, <1>2, Zenon DEF CacheInv, RecordsTypeOK
<1>7. RecordsTypeOK'
  BY <1>1, <1>5, <1>6, Zenon DEF CacheInv, RecordsTypeOK
<1>8. Alone'
  BY <1>1, <1>4, <1>5, AloneKept, Zenon DEF Inside
<1>9. \A k \in Hashes : data'[k] # Miss => data'[k] = db'[k]
  BY <1>1, <1>2, <1>6, DataTrue, Zenon
<1>10. Truth'
  BY <1>1, <1>9, Zenon DEF CacheInv, Truth, Stored
<1>11. \A k \in Hashes : k \notin op[p].todo => op[p].got[k] = db[k]
  BY <1>1, Zenon DEF CacheInv, Reads
<1>12. Knows(p)' /\ Reads(p)' /\ WritesReady(p)'
  BY <1>1, <1>2, <1>4, <1>5, <1>11, Zenon DEF Knows, Reads, WritesReady
<1> QED  BY <1>2, <1>5, <1>7, <1>8, <1>10, <1>12, Others, Zenon DEF CacheInv

\* mu is released: by a request that goes on to Rewrite or by one that is done.
LEMMA ReleaseKeeps ==
  ASSUME CacheInv, NEW p \in Users, Listed(p) \/ Added(p)
  PROVE  CacheInv'
<1>1. UNCHANGED <<db, data, names, begun>> /\ mu' = Free /\ op[p].at \in {"get", "set"}
  BY Zenon DEF Listed, Added
<1>2. op[p] \in Operations /\ "rewrite" \in Phases
  BY Zenon DEF CacheInv, RecordsTypeOK, Phases
<1>3. Idle \in Operations /\ Idle.at = "idle"
  BY RecordsAssumption DEF Idle, Operations, Phases, Versions
<1>4. PICK r \in Operations : op' = [op EXCEPT ![p] = r] /\ (r.at = "idle" \/ (r.at = "rewrite" /\ r.hash \in Hashes))
  <2> DEFINE w == [op[p] EXCEPT !.at = "rewrite"]
  <2>1. w \in Operations /\ w.at = "rewrite" /\ (Adds(p) => w.hash \in Hashes)
    BY <1>2, Zenon DEF Operations, Adds
  <2>2. (Adds(p) /\ op' = [op EXCEPT ![p] = w]) \/ op' = [op EXCEPT ![p] = Idle]
    BY Zenon DEF Listed, Added
  <2> HIDE DEF w
  <2> QED  BY <1>3, <2>1, <2>2, Zenon
<1>5. op' \in [Users -> Operations] /\ op'[p] = r /\ \A q \in Users : q # p => op'[q] = op[q]
  BY <1>4, Replace, Zenon DEF CacheInv
<1>6. RecordsTypeOK'
  BY <1>1, <1>5, Zenon DEF CacheInv, RecordsTypeOK
<1>7. Alone'
  BY <1>1, <1>4, <1>5, AloneKept, Zenon DEF Inside
<1>8. Truth'
  BY <1>1, <1>5, TruthKept, Zenon
<1>9. Knows(p)' /\ Reads(p)' /\ WritesReady(p)'
  BY <1>4, <1>5, Zenon DEF Knows, Reads, WritesReady
<1> QED  BY <1>1, <1>5, <1>6, <1>7, <1>8, <1>9, Others, Zenon DEF CacheInv

LEMMA RewriteKeeps ==
  ASSUME CacheInv, NEW p \in Users, Rewrite(p)
  PROVE  CacheInv'
<1>1. UNCHANGED <<db, data, names, begun>> /\ op[p].at = "rewrite" /\ mu = Free /\ mu' = p
  BY Zenon DEF Rewrite
<1>2. op[p] \in Operations /\ "set" \in Phases /\ op[p].hash \in Hashes
  BY <1>1, Zenon DEF CacheInv, RecordsTypeOK, Phases, Knows
<1> DEFINE g == [op[p].got EXCEPT ![op[p].hash] = op[p].new]
           t == Stored(op[p].got) \cup {op[p].hash}
           r == [op[p] EXCEPT !.at = "set", !.got = g, !.todo = t]
<1>3. g \in [Hashes -> Versions] /\ t \in SUBSET Hashes
  BY <1>2, Zenon DEF Operations, Stored
<1>4. op' = [op EXCEPT ![p] = r]
  BY Zenon DEF Rewrite
<1> HIDE DEF g, t
<1>5. r \in Operations /\ r.at = "set"
  BY <1>2, <1>3, Zenon DEF Operations
<1> HIDE DEF r
<1>6. op' \in [Users -> Operations] /\ op'[p] = r /\ \A q \in Users : q # p => op'[q] = op[q]
  BY <1>4, <1>5, Replace, Zenon DEF CacheInv
<1>7. RecordsTypeOK'
  BY <1>1, <1>6, Zenon DEF CacheInv, RecordsTypeOK
<1>8. Alone'
  BY <1>1, <1>5, <1>6, AloneKept, Zenon DEF Inside
<1>9. Truth'
  BY <1>1, <1>6, TruthKept, Zenon
<1>10. Knows(p)' /\ Reads(p)' /\ WritesReady(p)'
  BY <1>5, <1>6, Zenon DEF Knows, Reads, WritesReady
<1> QED  BY <1>1, <1>6, <1>7, <1>8, <1>9, <1>10, Others, Zenon DEF CacheInv

\* The cached value runs ahead of the database: Putting excuses it until Put.
LEMMA SetKeeps ==
  ASSUME CacheInv, NEW p \in Users, NEW h \in Hashes, Set(p, h)
  PROVE  CacheInv'
<1> DEFINE r == [op[p] EXCEPT !.at = "put", !.cur = h]
<1>1. /\ UNCHANGED <<db, mu, begun>> /\ op[p].at = "set" /\ names' = Miss
      /\ data' = [data EXCEPT ![h] = op[p].got[h]]
  BY Zenon DEF Set
<1>2. mu = p /\ op[p] \in Operations /\ "put" \in Phases
  BY <1>1, Zenon DEF CacheInv, Alone, Inside, RecordsTypeOK, Phases
<1>3. r \in Operations /\ op' = [op EXCEPT ![p] = r] /\ r.at = "put" /\ r.cur = h /\ r.got = op[p].got
  BY <1>2, Zenon DEF Operations, Set
<1>4. op[p].got[h] \in Versions
  BY <1>2, Zenon DEF Operations
<1> HIDE DEF r
<1>5. op' \in [Users -> Operations] /\ op'[p] = r /\ \A q \in Users : q # p => op'[q] = op[q]
  BY <1>3, Replace, Zenon DEF CacheInv
<1>6. data' \in [Hashes -> Versions \cup {Miss}] /\ data'[h] = op[p].got[h] /\ \A k \in Hashes : k # h => data'[k] = data[k]
  BY <1>1, <1>4, Zenon DEF CacheInv, RecordsTypeOK
<1>7. RecordsTypeOK'
  BY <1>1, <1>5, <1>6, Zenon DEF CacheInv, RecordsTypeOK
<1>8. Alone'
  BY <1>1, <1>3, <1>5, AloneKept, Zenon DEF Inside
<1>9. Putting(p, h)'
  BY <1>3, <1>5, Zenon DEF Putting
<1>10. \A k \in Hashes : k # h /\ data'[k] # Miss => data'[k] = db'[k]
  BY <1>1, <1>2, <1>6, DataTrue, Zenon
<1>11. Truth'
  BY <1>1, <1>9, <1>10, Zenon DEF Truth
<1>12. Knows(p)' /\ Reads(p)' /\ WritesReady(p)'
  BY <1>1, <1>3, <1>5, <1>6, Zenon DEF Knows, Reads, WritesReady
<1> QED  BY <1>2, <1>5, <1>7, <1>8, <1>11, <1>12, Others, Zenon DEF CacheInv

LEMMA PutKeeps ==
  ASSUME CacheInv, NEW p \in Users, Put(p)
  PROVE  CacheInv'
<1> DEFINE c == op[p].cur
           r == [op[p] EXCEPT !.at = "set", !.cur = Miss, !.todo = op[p].todo \ {c}]
<1>1. UNCHANGED <<data, names, mu, begun>> /\ op[p].at = "put" /\ db' = [db EXCEPT ![c] = op[p].got[c]]
  BY Zenon DEF Put
<1>2. mu = p /\ c \in Hashes /\ names = Miss /\ op[p] \in Operations /\ "set" \in Phases
  BY <1>1, Zenon DEF CacheInv, Alone, Inside, Knows, WritesReady, RecordsTypeOK, Phases
<1>3. r \in Operations /\ op' = [op EXCEPT ![p] = r] /\ r.at = "set"
  BY <1>2, Zenon DEF Operations, Put
<1>4. op[p].got[c] \in Versions
  BY <1>2, Zenon DEF Operations
<1> HIDE DEF r, c
<1>5. op' \in [Users -> Operations] /\ op'[p] = r /\ \A q \in Users : q # p => op'[q] = op[q]
  BY <1>3, Replace, Zenon DEF CacheInv
<1>6. db' \in [Hashes -> Versions] /\ db'[c] = op[p].got[c] /\ \A k \in Hashes : k # c => db'[k] = db[k]
  BY <1>1, <1>2, <1>4, Zenon DEF CacheInv, RecordsTypeOK
<1>7. RecordsTypeOK'
  BY <1>1, <1>5, <1>6, Zenon DEF CacheInv, RecordsTypeOK
<1>8. Alone'
  BY <1>1, <1>3, <1>5, AloneKept, Zenon DEF Inside
<1>9. ASSUME NEW k \in Hashes, data[k] # Miss  PROVE data[k] = db'[k]
  <2>1. CASE k = c
    BY <1>1, <1>6, <2>1, Zenon DEF CacheInv, WritesReady, c
  <2>2. CASE k # c
    <3>1. ASSUME NEW q \in Users, Putting(q, k)  PROVE FALSE
      BY <1>2, <2>2, <3>1, Zenon DEF CacheInv, Alone, Inside, Putting, c
    <3> QED  BY <1>6, <1>9, <2>2, <3>1, Zenon DEF CacheInv, Truth
  <2> QED  BY <2>1, <2>2, Zenon
<1>10. Truth'
  BY <1>1, <1>2, <1>9, Zenon DEF Truth
<1>11. Knows(p)' /\ Reads(p)' /\ WritesReady(p)'
  BY <1>3, <1>5, Zenon DEF Knows, Reads, WritesReady
<1> QED  BY <1>2, <1>5, <1>7, <1>8, <1>10, <1>11, Others, Zenon DEF CacheInv

LEMMA UncacheKeeps ==
  ASSUME CacheInv, NEW p \in Users, Uncache(p)
  PROVE  CacheInv'
<1> DEFINE c == op[p].hash
           r == [op[p] EXCEPT !.at = "remove"]
<1>1. /\ UNCHANGED <<db, begun>> /\ op[p].at = "removing" /\ mu = Free /\ mu' = p /\ names' = Miss
      /\ data' = [data EXCEPT ![c] = Miss]
  BY Zenon DEF Uncache
<1>2. c \in Hashes /\ op[p] \in Operations /\ "remove" \in Phases
  BY <1>1, Zenon DEF CacheInv, Knows, RecordsTypeOK, Phases
<1>3. r \in Operations /\ op' = [op EXCEPT ![p] = r] /\ r.at = "remove" /\ r.hash = c
  BY <1>2, Zenon DEF Operations, Uncache
<1> HIDE DEF r, c
<1>4. op' \in [Users -> Operations] /\ op'[p] = r /\ \A q \in Users : q # p => op'[q] = op[q]
  BY <1>3, Replace, Zenon DEF CacheInv
<1>5. data' \in [Hashes -> Versions \cup {Miss}] /\ data'[c] = Miss /\ \A k \in Hashes : k # c => data'[k] = data[k]
  BY <1>1, <1>2, Zenon DEF CacheInv, RecordsTypeOK
<1>6. RecordsTypeOK'
  BY <1>1, <1>4, <1>5, Zenon DEF CacheInv, RecordsTypeOK
<1>7. Alone'
  BY <1>1, <1>3, <1>4, AloneKept, Zenon DEF Inside
<1>8. \A k \in Hashes : data'[k] # Miss => data'[k] = db'[k]
  BY <1>1, <1>5, DataTrue, Zenon
<1>9. Truth'
  BY <1>1, <1>8, Zenon DEF Truth
<1>10. Knows(p)' /\ Reads(p)' /\ WritesReady(p)'
  BY <1>1, <1>2, <1>3, <1>4, <1>5, Zenon DEF Knows, Reads, WritesReady
<1> QED  BY <1>1, <1>4, <1>6, <1>7, <1>9, <1>10, Others, Zenon DEF CacheInv

LEMMA RemoveKeeps ==
  ASSUME CacheInv, NEW p \in Users, Remove(p)
  PROVE  CacheInv'
<1> DEFINE c == op[p].hash
<1>1. /\ UNCHANGED <<data, names, begun>> /\ op[p].at = "remove" /\ db' = [db EXCEPT ![c] = 0]
      /\ op' = [op EXCEPT ![p] = Idle] /\ mu' = IF mu = p THEN Free ELSE mu
  BY Zenon DEF Remove
<1>2. mu = p /\ c \in Hashes /\ names = Miss /\ data[c] = Miss
  BY <1>1, Zenon DEF CacheInv, Alone, Inside, Knows, WritesReady
<1>3. Idle \in Operations /\ Idle.at = "idle" /\ 0 \in Versions
  BY RecordsAssumption DEF Idle, Operations, Phases, Versions
<1> HIDE DEF c
<1>4. op' \in [Users -> Operations] /\ op'[p] = Idle /\ \A q \in Users : q # p => op'[q] = op[q]
  BY <1>1, <1>3, Replace, Zenon DEF CacheInv
<1>5. db' \in [Hashes -> Versions] /\ \A k \in Hashes : k # c => db'[k] = db[k]
  BY <1>1, <1>2, <1>3, Zenon DEF CacheInv, RecordsTypeOK
<1>6. RecordsTypeOK'
  BY <1>1, <1>2, <1>4, <1>5, Zenon DEF CacheInv, RecordsTypeOK
<1>7. Alone'
  BY <1>1, <1>2, <1>3, <1>4, AloneKept, Zenon DEF Inside
<1>8. \A k \in Hashes : data[k] # Miss => data[k] = db'[k]
  BY <1>1, <1>2, <1>5, DataTrue, Zenon
<1>9. Truth'
  BY <1>1, <1>2, <1>8, Zenon DEF Truth
<1>10. Knows(p)' /\ Reads(p)' /\ WritesReady(p)'
  BY <1>3, <1>4, Zenon DEF Knows, Reads, WritesReady
<1> QED  BY <1>2, <1>4, <1>6, <1>7, <1>9, <1>10, Others, Zenon DEF CacheInv

-----------------------------------------------------------------------------
LEMMA CacheInvExact ==
  ASSUME CacheInv  PROVE ListExact
<1>1. ASSUME NEW p \in Users, op[p].at = "get", op[p].todo = {}  PROVE op[p].got = db
  <2>1. \A h \in Hashes : op[p].got[h] = db[h]
    BY <1>1, Zenon DEF CacheInv, Reads
  <2>2. op[p].got \in [Hashes -> Versions] /\ db \in [Hashes -> Versions]
    BY Zenon DEF CacheInv, RecordsTypeOK, Operations
  <2> QED  BY <2>1, <2>2
<1>2. ASSUME mu = Free, NEW h \in Hashes, data[h] # Miss  PROVE data[h] = db[h]
  <2>1. ASSUME NEW q \in Users, Putting(q, h)  PROVE FALSE
    BY <1>2, <2>1, RecordsAssumption, Zenon DEF CacheInv, Alone, Inside, Putting
  <2> QED  BY <1>2, <2>1, Zenon DEF CacheInv, Truth
<1>3. names # Miss => names = Stored(db)
  BY Zenon DEF CacheInv, Truth
<1> QED  BY <1>1, <1>2, <1>3, Zenon DEF ListExact

\* ListTorrent returns what the database holds and the caches are true whenever mu is free,
\* for any torrents and any number of requests (AddTorrent, ListTorrent and RemTorrent over
\* DBReadCache's Get, Set, List and Rem).
THEOREM CacheSafety == RecordsSpec => []ListExact
<1>1. RecordsInit => CacheInv
  BY CacheInvInit, Zenon
<1>2. CacheInv /\ [RecordsNext]_recordVars => CacheInv'
  <2> SUFFICES ASSUME CacheInv, [RecordsNext]_recordVars  PROVE CacheInv'
    OBVIOUS
  <2>1. CASE UNCHANGED recordVars
    BY <2>1 DEF recordVars, CacheInv, RecordsTypeOK, Alone, Truth, Putting, Stored, Knows, Reads, WritesReady
  <2>2. ASSUME NEW p \in Users, Begin(p, "listing", Miss)  PROVE CacheInv'
    BY <2>2, BeginKeeps, Zenon
  <2>3. ASSUME NEW p \in Users, NEW h \in Hashes, Begin(p, "adding", h) \/ Begin(p, "removing", h)
        PROVE  CacheInv'
    BY <2>3, BeginKeeps, Zenon
  <2> QED
    BY <2>1, <2>2, <2>3, GetKeeps, SetKeeps, FillKeeps, PutKeeps, LockKeeps, ListKeeps,
       FillNamesKeeps,
       ReleaseKeeps, RewriteKeeps, UncacheKeeps, RemoveKeeps, Zenon
    DEF RecordsNext
<1>3. CacheInv => ListExact
  BY CacheInvExact, Zenon
<1> QED  BY <1>1, <1>2, <1>3, PTL DEF RecordsSpec

-----------------------------------------------------------------------------
(* The readers of a cache.                                                 *)

Typed ==
    /\ user \in [OpenedReaders -> UserPC]
    /\ inMap \subseteq OpenedReaders
    /\ isUse \in [OpenedReaders -> BOOLEAN]
    /\ check \in [OpenedReaders -> {"no", "on", "off"}]

\* What a pass has decided is about a reader of the map, and stays so until it acts.
PassesMapped == \A r \in OpenedReaders : check[r] # "no" => r \in inMap

\* A reader that is not opened yet is nowhere.
UnopenedIdle == \A r \in OpenedReaders : user[r] = "none" => r \notin inMap /\ ~isUse[r]

\* Only the upload worker closes without muReaders.
ClosersUpload == \A r \in OpenedReaders : user[r] = "closing" => r \in Uploads

ReaderInv ==
    /\ Typed /\ PassesMapped /\ UnopenedIdle /\ ClosersUpload
    /\ ReadersAccounted

\* The readers that f, a value of isUse, has in use.
InUse(f) == {r \in OpenedReaders : f[r]}

LEMMA InvInit == ASSUME ReaderInit  PROVE ReaderInv
<1>1. Typed /\ PassesMapped /\ UnopenedIdle /\ ClosersUpload
  BY Zenon DEF ReaderInit, Typed, UserPC, PassesMapped, UnopenedIdle, ClosersUpload
<1>2. {r \in OpenedReaders : isUse[r]} = {}  BY Zenon DEF ReaderInit
<1>3. ActiveCount  BY <1>2, FS_EmptySet, Zenon DEF ReaderInit, ActiveCount
<1>4. ClosedStreamGone /\ NoPressureLeft
  BY Zenon DEF ReaderInit, ClosedStreamGone, NoPressureLeft, OpenedReaders
<1> QED  BY <1>1, <1>3, <1>4, Zenon DEF ReaderInv, ReadersAccounted

-----------------------------------------------------------------------------
(* The count of the readers in use.                                        *)

LEMMA OpenedFinite == IsFiniteSet(OpenedReaders)
BY FS_Union, ReaderAssumption, Zenon DEF OpenedReaders

\* One reader more or less in use is one more or less in the count.
LEMMA CountOn ==
  ASSUME NEW f \in [OpenedReaders -> BOOLEAN], NEW r \in OpenedReaders, ~f[r]
  PROVE  Cardinality(InUse([f EXCEPT ![r] = TRUE])) = Cardinality(InUse(f)) + 1
<1>1. InUse([f EXCEPT ![r] = TRUE]) = InUse(f) \cup {r} /\ r \notin InUse(f)
  BY Zenon DEF InUse
<1>2. IsFiniteSet(InUse(f))
  BY OpenedFinite, FS_Subset, Zenon DEF InUse
<1> QED  BY <1>1, <1>2, FS_AddElement, Zenon

LEMMA CountOff ==
  ASSUME NEW f \in [OpenedReaders -> BOOLEAN], NEW r \in OpenedReaders, f[r]
  PROVE  Cardinality(InUse([f EXCEPT ![r] = FALSE])) = Cardinality(InUse(f)) - 1
<1>1. InUse([f EXCEPT ![r] = FALSE]) = InUse(f) \ {r} /\ r \in InUse(f)
  BY Zenon DEF InUse
<1>2. IsFiniteSet(InUse(f))
  BY OpenedFinite, FS_Subset, Zenon DEF InUse
<1> QED  BY <1>1, <1>2, FS_RemoveElement, Zenon

\* readerOn and readerOff count what they switch, whatever they find.
LEMMA SwitchOn ==
  ASSUME ReaderInv, NEW r \in OpenedReaders, readerOn(r)
  PROVE  ActiveCount' /\ isUse' = [isUse EXCEPT ![r] = TRUE]
<1>1. isUse \in [OpenedReaders -> BOOLEAN] /\ activeReaders = Cardinality(InUse(isUse))
  BY Zenon DEF ReaderInv, Typed, ReadersAccounted, ActiveCount, InUse
<1>2. CASE isUse[r]
  <2>1. isUse' = isUse /\ activeReaders' = activeReaders
    BY <1>2, Zenon DEF readerOn, switch_vars
  <2>2. isUse = [isUse EXCEPT ![r] = TRUE]  BY <1>1, <1>2, Zenon
  <2> QED  BY <1>1, <2>1, <2>2, Zenon DEF ActiveCount, InUse
<1>3. CASE ~isUse[r]
  <2>1. isUse' = [isUse EXCEPT ![r] = TRUE] /\ activeReaders' = activeReaders + 1
    BY <1>3, Zenon DEF readerOn
  <2>2. activeReaders' = Cardinality(InUse(isUse'))  BY <1>1, <1>3, <2>1, CountOn, Zenon
  <2> QED  BY <2>1, <2>2, Zenon DEF ActiveCount, InUse
<1> QED  BY <1>2, <1>3, Zenon

LEMMA SwitchOff ==
  ASSUME ReaderInv, NEW r \in OpenedReaders, readerOff(r)
  PROVE  ActiveCount' /\ isUse' = [isUse EXCEPT ![r] = FALSE]
<1>1. isUse \in [OpenedReaders -> BOOLEAN] /\ activeReaders = Cardinality(InUse(isUse))
  BY Zenon DEF ReaderInv, Typed, ReadersAccounted, ActiveCount, InUse
<1>2. CASE ~isUse[r]
  <2>1. isUse' = isUse /\ activeReaders' = activeReaders
    BY <1>2, Zenon DEF readerOff, switch_vars
  <2>2. isUse = [isUse EXCEPT ![r] = FALSE]  BY <1>1, <1>2, Zenon
  <2> QED  BY <1>1, <2>1, <2>2, Zenon DEF ActiveCount, InUse
<1>3. CASE isUse[r]
  <2>1. isUse' = [isUse EXCEPT ![r] = FALSE] /\ activeReaders' = activeReaders - 1
    BY <1>3, Zenon DEF readerOff
  <2>2. activeReaders' = Cardinality(InUse(isUse'))  BY <1>1, <1>3, <2>1, CountOff, Zenon
  <2> QED  BY <2>1, <2>2, Zenon DEF ActiveCount, InUse
<1> QED  BY <1>2, <1>3, Zenon

-----------------------------------------------------------------------------
(* The steps.                                                              *)

\* A step of a user that switches nothing: on with a read or a seek, or into Close.
Walks(r, p) ==
    /\ user[r] # "none" /\ p \in UserPC \ {"none", "closed"}
    /\ p = "closing" => r \in Uploads
    /\ user' = [user EXCEPT ![r] = p]
    /\ UNCHANGED <<inMap, isNil, check>>

LEMMA WalkKeeps ==
  ASSUME ReaderInv, NEW r \in OpenedReaders, NEW p, Walks(r, p), ActiveCount',
         isUse' = isUse \/ isUse' = [isUse EXCEPT ![r] = TRUE]
  PROVE  ReaderInv'
<1>1. Typed'  BY Zenon DEF ReaderInv, Typed, Walks
<1>2. user'[r] = p /\ \A q \in OpenedReaders : q # r => user'[q] = user[q] /\ isUse'[q] = isUse[q]
  BY Zenon DEF ReaderInv, Typed, Walks
<1>3. PassesMapped'  BY Zenon DEF ReaderInv, PassesMapped, Walks
<1>4. UnopenedIdle'  BY <1>2, Zenon DEF ReaderInv, UnopenedIdle, Walks
<1>5. ClosersUpload'  BY <1>2, Zenon DEF ReaderInv, ClosersUpload, Walks
<1>6. ClosedStreamGone'
  BY <1>2, Zenon DEF ReaderInv, ReadersAccounted, ClosedStreamGone, Walks, OpenedReaders
<1>7. NoPressureLeft'
  BY <1>2, Zenon DEF NoPressureLeft, Walks, OpenedReaders
<1> QED  BY <1>1, <1>3, <1>4, <1>5, <1>6, <1>7, Zenon DEF ReaderInv, ReadersAccounted

LEMMA ReadAndSeekKeep ==
  ASSUME ReaderInv, NEW r \in OpenedReaders,
         \/ ReadStart(r) \/ EngineRead(r) \/ EngineGot(r) \/ EngineFailed(r) \/ ReadEnd(r)
         \/ \E to \in 0 .. FileLength : SeekStart(r, to)
         \/ EngineSeek(r) \/ SeekEnd(r) \/ UploadClose(r)
  PROVE  ReaderInv'
<1>1. UNCHANGED <<isUse, activeReaders>>
  BY Zenon DEF ReadStart, EngineRead, EngineGot, EngineFailed, ReadEnd, SeekStart, EngineSeek,
     SeekEnd,
         UploadClose, switch_vars
<1>2. ActiveCount'
  BY <1>1, Zenon DEF ReaderInv, ReadersAccounted, ActiveCount
<1>3. PICK p \in {"readOn", "wait", "got", "failed", "ready", "seekOn", "seekEnd", "closing"} :
         Walks(r, p)
  BY Zenon DEF ReadStart, EngineRead, EngineGot, EngineFailed, ReadEnd, SeekStart, EngineSeek,
     SeekEnd,
         UploadClose, Walks, UserPC, Goto, map_vars, pass_vars
<1> QED  BY <1>1, <1>2, <1>3, WalkKeeps, Zenon

LEMMA UserOnKeeps ==
  ASSUME ReaderInv, NEW r \in OpenedReaders, ReadOn(r) \/ SeekOn(r)
  PROVE  ReaderInv'
<1>1. ActiveCount' /\ isUse' = [isUse EXCEPT ![r] = TRUE]
  BY SwitchOn, Zenon DEF ReadOn, SeekOn
<1>2. PICK p \in {"read", "seek"} : Walks(r, p)
  BY Zenon DEF ReadOn, SeekOn, Walks, UserPC, Goto, map_vars, pass_vars
<1> QED  BY <1>1, <1>2, WalkKeeps, Zenon

LEMMA NewReaderKeeps ==
  ASSUME ReaderInv, NEW r \in OpenedReaders, NewReader(r)
  PROVE  ReaderInv'
<1>1. ~isUse[r] /\ isUse \in [OpenedReaders -> BOOLEAN] /\ user \in [OpenedReaders -> UserPC]
  BY Zenon DEF ReaderInv, Typed, UnopenedIdle, NewReader
<1>2. /\ isUse' = [isUse EXCEPT ![r] = TRUE] /\ user' = [user EXCEPT ![r] = "ready"]
      /\ activeReaders' = activeReaders + 1 /\ check' = check /\ isNil' = isNil
      /\ inMap' \in {inMap, inMap \cup {r}}
  BY Zenon DEF NewReader, Goto, pass_vars
<1>3. ActiveCount'
  <2>1. activeReaders' = Cardinality(InUse(isUse'))
    BY <1>1, <1>2, CountOn, Zenon DEF ReaderInv, ReadersAccounted, ActiveCount, InUse
  <2> QED  BY <2>1, Zenon DEF ActiveCount, InUse
<1>4. /\ user'[r] = "ready" /\ isUse'[r]
      /\ \A q \in OpenedReaders : q # r => /\ user'[q] = user[q] /\ isUse'[q] = isUse[q]
                                           /\ q \in inMap' <=> q \in inMap
  BY <1>1, <1>2, Zenon
<1>5. Typed'  BY <1>1, <1>2, Zenon DEF ReaderInv, Typed, UserPC
<1>6. PassesMapped'  BY <1>2, Zenon DEF ReaderInv, PassesMapped
<1>7. UnopenedIdle'  BY <1>4, Zenon DEF ReaderInv, UnopenedIdle
<1>8. ClosersUpload'  BY <1>4, Zenon DEF ReaderInv, ClosersUpload
<1>9. ClosedStreamGone'
  BY <1>2, <1>4, Zenon DEF ReaderInv, ReadersAccounted, ClosedStreamGone, OpenedReaders
<1>10. NoPressureLeft'  BY <1>4, Zenon DEF NoPressureLeft, OpenedReaders
<1> QED  BY <1>3, <1>5, <1>6, <1>7, <1>8, <1>9, <1>10, Zenon DEF ReaderInv, ReadersAccounted

\* The last reader in use lifts the pressure: where every stream is closed and no upload is
\* open, none is in use.
LEMMA LastLifts ==
  ASSUME ReaderInv, NEW r \in OpenedReaders, LiftPressure, ActiveCount',
         UnopenedIdle', ClosedStreamGone'
  PROVE  NoPressureLeft'
<1> SUFFICES ASSUME ~isNil', \A s \in Streams : user'[s] \in {"none", "closed"},
                    \A u \in Uploads : user'[u] = "none"
             PROVE  ~pressure'
  BY Zenon DEF NoPressureLeft
<1>1. \A q \in OpenedReaders : ~isUse'[q]
  BY Zenon DEF UnopenedIdle, ClosedStreamGone, OpenedReaders
<1>2. {q \in OpenedReaders : isUse'[q]} = {}  BY <1>1, Zenon
<1>3. activeReaders' = 0  BY <1>2, FS_EmptySet, Zenon DEF ActiveCount
<1>4. ~(activeReaders' > 0)  BY <1>3
<1> QED  BY <1>4, Zenon DEF LiftPressure

LEMMA CloseReaderKeeps ==
  ASSUME ReaderInv, NEW r \in OpenedReaders, CloseReader(r)
  PROVE  ReaderInv'
<1>1. /\ user' = [user EXCEPT ![r] = "closed"] /\ user[r] = "ready" /\ r \in Streams
      /\ check' = check /\ isNil' = isNil /\ \A q \in OpenedReaders : check[q] = "no"
  BY Zenon DEF CloseReader, Goto, pass_vars, NoPass
<1>2. user'[r] = "closed" /\ \A q \in OpenedReaders : q # r => user'[q] = user[q]
  BY <1>1, Zenon DEF ReaderInv, Typed
<1>3. PassesMapped' /\ ClosersUpload'
  BY <1>1, <1>2, Zenon DEF ReaderInv, PassesMapped, ClosersUpload
<1>4. CASE isNil
  <2>1. UNCHANGED <<isUse, activeReaders, inMap>>
    BY <1>4, Zenon DEF CloseReader, switch_vars
  <2>2. ActiveCount'  BY <2>1, Zenon DEF ReaderInv, ReadersAccounted, ActiveCount
  <2>3. Typed'  BY <1>1, <2>1, Zenon DEF ReaderInv, Typed, UserPC
  <2>4. UnopenedIdle'  BY <1>2, <2>1, Zenon DEF ReaderInv, UnopenedIdle
  <2>5. ClosedStreamGone' /\ NoPressureLeft'
    BY <1>1, <1>4, Zenon DEF ClosedStreamGone, NoPressureLeft
  <2> QED  BY <1>3, <2>2, <2>3, <2>4, <2>5, Zenon DEF ReaderInv, ReadersAccounted
<1>5. CASE ~isNil
  <2>1. readerOff(r) /\ LiftPressure /\ inMap' = inMap \ {r}
    BY <1>5, Zenon DEF CloseReader
  <2>2. ActiveCount' /\ isUse' = [isUse EXCEPT ![r] = FALSE]
    BY <2>1, SwitchOff, Zenon
  <2>3. ~isUse'[r] /\ \A q \in OpenedReaders : q # r => isUse'[q] = isUse[q]
    BY <2>2, Zenon DEF ReaderInv, Typed
  <2>4. Typed'  BY <1>1, <2>1, <2>2, Zenon DEF ReaderInv, Typed, UserPC
  <2>5. UnopenedIdle'  BY <1>2, <2>1, <2>3, Zenon DEF ReaderInv, UnopenedIdle
  <2>6. ClosedStreamGone'
    BY <1>1, <1>2, <2>1, <2>3, Zenon DEF ReaderInv, ReadersAccounted, ClosedStreamGone,
       OpenedReaders
  <2>7. NoPressureLeft'  BY <2>1, <2>2, <2>5, <2>6, LastLifts, Zenon
  <2> QED  BY <1>3, <2>2, <2>4, <2>5, <2>6, <2>7, Zenon DEF ReaderInv, ReadersAccounted
<1> QED  BY <1>4, <1>5, Zenon

LEMMA UploadCloseOffKeeps ==
  ASSUME ReaderInv, NEW r \in OpenedReaders, UploadCloseOff(r)
  PROVE  ReaderInv'
<1>1. /\ user' = [user EXCEPT ![r] = "closed"] /\ r \in Uploads /\ r \notin Streams
      /\ UNCHANGED <<inMap, isNil, check>>
  BY ReaderAssumption, Zenon DEF UploadCloseOff, Goto, map_vars, pass_vars, ReaderInv, ClosersUpload
<1>2. ActiveCount' /\ isUse' = [isUse EXCEPT ![r] = FALSE]
  BY SwitchOff, Zenon DEF UploadCloseOff
<1>3. /\ user'[r] = "closed" /\ ~isUse'[r]
      /\ \A q \in OpenedReaders : q # r => user'[q] = user[q] /\ isUse'[q] = isUse[q]
  BY <1>1, <1>2, Zenon DEF ReaderInv, Typed
<1>4. Typed'  BY <1>1, <1>2, Zenon DEF ReaderInv, Typed, UserPC
<1>5. PassesMapped' /\ ClosersUpload'
  BY <1>1, <1>3, Zenon DEF ReaderInv, PassesMapped, ClosersUpload
<1>6. UnopenedIdle'  BY <1>1, <1>3, Zenon DEF ReaderInv, UnopenedIdle
<1>7. ClosedStreamGone'
  BY <1>1, <1>3, Zenon DEF ReaderInv, ReadersAccounted, ClosedStreamGone, OpenedReaders
<1>8. NoPressureLeft'  BY <1>1, <1>3, Zenon DEF NoPressureLeft
<1> QED  BY <1>2, <1>4, <1>5, <1>6, <1>7, <1>8, Zenon DEF ReaderInv, ReadersAccounted

\* Close waits for no reader, and forgets them all.
LEMMA CloseCacheKeeps == ASSUME ReaderInv, CloseCache  PROVE ReaderInv'
<1>1. /\ isNil' /\ inMap' = {} /\ UNCHANGED <<user, isUse, activeReaders, check>>
      /\ \A q \in OpenedReaders : check[q] = "no"
  BY Zenon DEF CloseCache, switch_vars, pass_vars, NoPass
<1>2. ActiveCount'  BY <1>1, Zenon DEF ReaderInv, ReadersAccounted, ActiveCount
<1>3. Typed'  BY <1>1, Zenon DEF ReaderInv, Typed
<1>4. PassesMapped' /\ ClosersUpload' /\ UnopenedIdle'
  BY <1>1, Zenon DEF ReaderInv, PassesMapped, ClosersUpload, UnopenedIdle
<1>5. ClosedStreamGone' /\ NoPressureLeft'
  BY <1>1, Zenon DEF ClosedStreamGone, NoPressureLeft
<1> QED  BY <1>2, <1>3, <1>4, <1>5, Zenon DEF ReaderInv, ReadersAccounted

\* A pass looks at a reader of the map ...
LEMMA CheckReaderKeeps ==
  ASSUME ReaderInv, NEW r \in OpenedReaders, CheckReader(r)
  PROVE  ReaderInv'
<1>1. /\ r \in inMap /\ UNCHANGED <<user, inMap, isNil, isUse, activeReaders, pressure>>
      /\ \E d \in {"on", "off"} : check' = [check EXCEPT ![r] = d]
  BY Zenon DEF CheckReader, map_vars, switch_vars
<1>2. Typed'  BY <1>1, Zenon DEF ReaderInv, Typed
<1>3. PassesMapped'  BY <1>1, Zenon DEF ReaderInv, Typed, PassesMapped
<1>4. ClosersUpload' /\ UnopenedIdle'
  BY <1>1, Zenon DEF ReaderInv, ClosersUpload, UnopenedIdle
<1>5. ReadersAccounted'
  BY <1>1, Zenon DEF ReaderInv, ReadersAccounted, ActiveCount, ClosedStreamGone, NoPressureLeft
<1> QED  BY <1>2, <1>3, <1>4, <1>5, Zenon DEF ReaderInv

\* ... and switches it while it is still there.
LEMMA CheckActKeeps ==
  ASSUME ReaderInv, NEW r \in OpenedReaders, CheckAct(r)
  PROVE  ReaderInv'
<1>1. /\ r \in inMap /\ UNCHANGED <<user, inMap, isNil, pressure>>
      /\ check' = [check EXCEPT ![r] = "no"]
  BY Zenon DEF CheckAct, map_vars, ReaderInv, PassesMapped
<1>2. ActiveCount' /\ \E b \in BOOLEAN : isUse' = [isUse EXCEPT ![r] = b]
  <2>1. CASE check[r] = "off"  BY <2>1, SwitchOff, Zenon DEF CheckAct
  <2>2. CASE check[r] # "off"  BY <2>2, SwitchOn, Zenon DEF CheckAct
  <2> QED  BY <2>1, <2>2, Zenon
<1>3. \A q \in OpenedReaders : q # r => isUse'[q] = isUse[q]
  BY <1>2, Zenon DEF ReaderInv, Typed
<1>4. Typed'  BY <1>1, <1>2, Zenon DEF ReaderInv, Typed
<1>5. PassesMapped'  BY <1>1, Zenon DEF ReaderInv, Typed, PassesMapped
<1>6. ClosersUpload'  BY <1>1, Zenon DEF ReaderInv, ClosersUpload
<1>7. UnopenedIdle'  BY <1>1, <1>3, Zenon DEF ReaderInv, UnopenedIdle
<1>8. ClosedStreamGone'
  BY <1>1, <1>3, Zenon DEF ReaderInv, ReadersAccounted, ClosedStreamGone, OpenedReaders
<1>9. NoPressureLeft'  BY <1>1, Zenon DEF ReaderInv, ReadersAccounted, NoPressureLeft
<1> QED  BY <1>2, <1>4, <1>5, <1>6, <1>7, <1>8, <1>9, Zenon DEF ReaderInv, ReadersAccounted

\* The readahead and the clock touch none of it.
LEMMA OthersKeep ==
  ASSUME ReaderInv, UNCHANGED <<user, inMap, isNil, isUse, activeReaders, check, pressure>>
  PROVE  ReaderInv'
<1>1. Typed' /\ PassesMapped' /\ UnopenedIdle' /\ ClosersUpload'
  BY Zenon DEF ReaderInv, Typed, PassesMapped, UnopenedIdle, ClosersUpload
<1>2. ReadersAccounted'
  BY Zenon DEF ReaderInv, ReadersAccounted, ActiveCount, ClosedStreamGone, NoPressureLeft
<1> QED  BY <1>1, <1>2, Zenon DEF ReaderInv

\* However streams, uploads, the passes over the readers and the end of the cache interleave:
\* activeReaders counts exactly the readers in use, a stream that CloseReader closed stays out
\* of the map and out of use, and once no reader is open the playback pressure is lifted
\* (Reader.readerOn and readerOff, Cache.CloseReader, getRemPieces and clearPriority), for any
\* number of streams, uploads, reads and seeks.
THEOREM ReadersSafety == ReaderSpec => []ReadersAccounted
<1>1. ReaderInit => ReaderInv  BY InvInit, Zenon
<1>2. ReaderInv /\ [ReaderNext]_readerVars => ReaderInv'
  <2> SUFFICES ASSUME ReaderInv, [ReaderNext]_readerVars  PROVE ReaderInv'
    OBVIOUS
  <2>1. ASSUME NEW r \in OpenedReaders, User(r)  PROVE ReaderInv'
    BY <2>1, NewReaderKeeps, ReadAndSeekKeep, UserOnKeeps, CloseReaderKeeps,
       UploadCloseOffKeeps, Zenon
    DEF User
  <2>2. ASSUME NEW r \in OpenedReaders, Pass(r) \/ Minute(r)  PROVE ReaderInv'
    <3>1. CASE SetReadahead(r) \/ Minute(r)
      BY <3>1, OthersKeep, Zenon DEF SetReadahead, Minute, map_vars, switch_vars, pass_vars
    <3> QED  BY <2>2, <3>1, CheckReaderKeeps, CheckActKeeps, Zenon DEF Pass
  <2>3. CASE AdjustRA
    BY <2>3, OthersKeep, Zenon DEF AdjustRA, map_vars, switch_vars
  <2>4. CASE UNCHANGED readerVars
    BY <2>4, OthersKeep, Zenon DEF readerVars, map_vars, switch_vars, pass_vars
  <2> QED  BY <2>1, <2>2, <2>3, <2>4, CloseCacheKeeps, Zenon DEF ReaderNext
<1>3. ReaderInv => ReadersAccounted  BY Zenon DEF ReaderInv
<1> QED  BY <1>1, <1>2, <1>3, PTL DEF ReaderSpec
=============================================================================
