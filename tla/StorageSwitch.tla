----------------------------- MODULE StorageSwitch -----------------------------
(***************************************************************************)
(* Where the settings and the viewed marks are kept (settings/settings.go, *)
(* settings/migrate.go): in the JSON files or in the bbolt database, as    *)
(* two flags of the settings themselves say.  A start reads the flags,     *)
(* moves what it finds in the other store, and fixes the routes; a change  *)
(* of the flags copies the data at once and re-routes at the next start.   *)
(* The process may stop between any two steps, and in the middle of a      *)
(* write to a JSON file, which is truncated first and reads as empty then. *)
(* A value's length is that of its JSON text: the flags' words, the width  *)
(* of the rest; one unit for each file of a record of marks.               *)
(***************************************************************************)
EXTENDS Integers, FiniteSets

CONSTANTS
    ViewedHashes, Files, \* torrents, and the files of one, that can be marked
    Rests,          \* the settings' other fields: pairs of a width and a name
    DefaultRest,
    Absent, Unread,
    MaxChanges, MaxStarts \* bounds on the changes and on the starts

VARIABLES
    dbs,            \* the two stores: the settings, and each torrent's record of marks
    BTsets,         \* the settings in memory
    route,          \* the flags tdb's routes were set up by
    cached,         \* dataCache: each torrent's record, Absent for nil, Unread for no entry
    pc,             \* where the start, or a switch, stands
    pref,           \* the flags the start, or the switch, goes by
    todo, moved,    \* MigrateAll: the names to go, and how many entries it has migrated
    saved, marks,   \* what was saved last, and the marks that are set
    clash,          \* a mark was changed while the other store had the torrent too, or
                    \*   from a cached record that a switch had moved
    outdone,        \* settings were saved beside older ones that are copied over them
    torn, cut,      \* a save or a record of marks was torn; a start or a switch was cut short
    changes, starts

store == <<dbs, saved, marks, clash, outdone, torn, cut>>
memory == <<BTsets, route, cached>>
job == <<pc, pref, todo, moved>>
bounds == <<changes, starts>>
storageVars == <<store, memory, job, bounds>>

Flags == [inJson : BOOLEAN, viewedInJson : BOOLEAN]
Settings == [inJson : BOOLEAN, viewedInJson : BOOLEAN, rest : Rests]
Default == [inJson |-> TRUE, viewedInJson |-> FALSE, rest |-> DefaultRest]
Records == (SUBSET Files) \cup {Absent}
Store(useJson) == IF useJson THEN "json" ELSE "bolt"
Other(d) == IF d = "json" THEN "bolt" ELSE "json"
FlagsOf(s) == [inJson |-> s.inJson, viewedInJson |-> s.viewedInJson]
Up == pc \in {"up", "copySettings", "copyViewed", "savePref"}
Names(d) == {h \in ViewedHashes : dbs[d].viewed[h] # Absent}

ASSUME StorageAssumption ==
    /\ DefaultRest \in Rests
    /\ \A s \in Settings : s # Absent
    /\ \A r \in SUBSET Files : r # Absent

\* Stores, memory and the steps of a start are well-formed.
StorageTypeOK ==
    /\ dbs \in [{"json", "bolt"} -> [settings : Settings \cup {Absent}, viewed : [ViewedHashes -> Records]]]
    /\ BTsets \in Settings \cup {Absent} /\ route \in Flags /\ pref \in Flags
    /\ cached \in [ViewedHashes -> Records \cup {Unread}]
    /\ pc \in {"down", "settings", "remove", "viewed", "load", "up", "copySettings", "copyViewed", "savePref"}
    /\ todo \subseteq ViewedHashes /\ moved \in 0 .. Cardinality(ViewedHashes)
    /\ saved \in Settings \cup {Absent} /\ marks \in [ViewedHashes -> SUBSET Files]
    /\ clash \in BOOLEAN /\ outdone \in BOOLEAN /\ torn \in BOOLEAN /\ cut \in BOOLEAN
    /\ changes \in 0 .. MaxChanges /\ starts \in 0 .. MaxStarts

\* A server that has never run.
StorageInit ==
    /\ dbs = [d \in {"json", "bolt"} |-> [settings |-> Absent, viewed |-> [h \in ViewedHashes |-> Absent]]]
    /\ BTsets = Absent /\ route = FlagsOf(Default) /\ pref = FlagsOf(Default)
    /\ cached = [h \in ViewedHashes |-> Unread]
    /\ pc = "down" /\ todo = {} /\ moved = 0
    /\ saved = Absent /\ marks = [h \in ViewedHashes |-> {}]
    /\ clash = FALSE /\ outdone = FALSE /\ torn = FALSE /\ cut = FALSE
    /\ changes = 0 /\ starts = 0

-----------------------------------------------------------------------------
(* Comparing and copying.                                                  *)

Word(b) == IF b THEN 4 ELSE 5
Length(s) == Word(s.inJson) + Word(s.viewedInJson) + s.rest[1]

\* isByteArraysEqualJson: the loop over two texts of one length is left with "break" and
\* the result is true all the same.
SameSettings(s, t) == Length(s) = Length(t)
SameRecord(r, s) == Cardinality(r) = Cardinality(s)

\* MigrateSingle sets the target's entry, unless there is nothing to set.
Migrates(source, target, same) == source # Absent /\ (target # Absent => ~same)

\* MigrateAll, the entry of h.
MigrateEntry(from, h) ==
    LET to == Other(from) IN
    /\ h \in todo /\ todo' = todo \ {h}
    /\ IF Migrates(dbs[from].viewed[h], dbs[to].viewed[h],
                   SameRecord(dbs[from].viewed[h], dbs[to].viewed[h]))
       THEN dbs' = [dbs EXCEPT ![to].viewed[h] = dbs[from].viewed[h]] /\ moved' = moved + 1
       ELSE UNCHANGED <<dbs, moved>>
    /\ UNCHANGED <<saved, marks, clash, outdone, torn, cut, memory, pc, pref, bounds>>

\* Clear.  TDB.Clear deletes keys inside ForEach, which bbolt leaves undefined: entries
\* may be passed over.
Cleared(d) ==
    {[dbs EXCEPT ![d].viewed = [h \in ViewedHashes |-> IF h \in left THEN @[h] ELSE Absent]] :
        left \in IF d = "bolt" THEN SUBSET Names(d) ELSE {{}}}

-----------------------------------------------------------------------------
(* A start: InitSets.                                                      *)

\* determineStoragePreferences looks into the JSON file first.
Start ==
    LET s == IF dbs["json"].settings # Absent THEN dbs["json"].settings ELSE dbs["bolt"].settings
    IN  /\ pc = "down" /\ starts < MaxStarts /\ starts' = starts + 1
        /\ pref' = FlagsOf(IF s = Absent THEN Default ELSE s)
        /\ pc' = "settings" /\ todo' = {} /\ moved' = 0
        /\ UNCHANGED <<store, memory, changes>>

ToViewed(stores) == \* safeMigrateAll lists the source
    pc' = "viewed" /\ todo' = {h \in ViewedHashes : stores[Other(Store(pref.viewedInJson))].viewed[h] # Absent}

\* Mutant: source and target are swapped.
MigrateSettingsBack ==
    LET to == Other(Store(pref.inJson))
        s == dbs[Other(to)].settings
    IN  /\ pc = "settings"
        /\ IF Migrates(s, dbs[to].settings, SameSettings(s, dbs[to].settings))
           THEN dbs' = [dbs EXCEPT ![to].settings = s] /\ pc' = "remove" /\ UNCHANGED todo
           ELSE ToViewed(dbs) /\ UNCHANGED dbs
        /\ UNCHANGED <<saved, marks, clash, outdone, torn, cut, memory, pref, moved, bounds>>

\* safeMigrate: the settings of the other store are copied over those of the preferred
\* one and then removed; settings that count as equal stay in both.
MigrateSettings ==
    LET to == Store(pref.inJson)
        s == dbs[Other(to)].settings
    IN  /\ pc = "settings"
        /\ IF Migrates(s, dbs[to].settings, SameSettings(s, dbs[to].settings))
           THEN dbs' = [dbs EXCEPT ![to].settings = s] /\ pc' = "remove" /\ UNCHANGED todo
           ELSE ToViewed(dbs) /\ UNCHANGED dbs
        /\ UNCHANGED <<saved, marks, clash, outdone, torn, cut, memory, pref, moved, bounds>>

RemoveSource ==
    /\ pc = "remove"
    /\ dbs' = [dbs EXCEPT ![Other(Store(pref.inJson))].settings = Absent]
    /\ ToViewed(dbs)
    /\ UNCHANGED <<saved, marks, clash, outdone, torn, cut, memory, pref, moved, bounds>>

\* safeMigrateAll.
MigrateViewed(h) == pc = "viewed" /\ MigrateEntry(Other(Store(pref.viewedInJson)), h)

\* The source is cleared if as many entries as it has were migrated.
ClearMigrated ==
    LET from == Other(Store(pref.viewedInJson)) IN
    /\ pc = "viewed" /\ todo = {} /\ pc' = "load"
    /\ dbs' \in IF moved > 0 /\ moved >= Cardinality(Names(from)) THEN Cleared(from) ELSE {dbs}
    /\ UNCHANGED <<saved, marks, clash, outdone, torn, cut, memory, pref, todo, moved, bounds>>

\* setupDatabaseRouting and loadBTSets; defaults are saved if there are no settings, and
\* the flags if they are not those the start went by.
Load ==
    LET d == Store(pref.inJson)
        s == IF dbs[d].settings = Absent THEN Default ELSE dbs[d].settings
        t == [s EXCEPT !.inJson = pref.inJson, !.viewedInJson = pref.viewedInJson]
    IN  /\ pc = "load" /\ pc' = "up"
        /\ route' = pref /\ cached' = [h \in ViewedHashes |-> Unread] /\ BTsets' = t
        /\ dbs' = [dbs EXCEPT ![d].settings = t]
        /\ saved' = [t EXCEPT !.rest = IF saved = Absent THEN @ ELSE saved.rest]
        /\ UNCHANGED <<marks, clash, outdone, torn, cut, pref, todo, moved, bounds>>

-----------------------------------------------------------------------------
(* Requests.  They take no lock that a switch holds.                       *)

Change == changes < MaxChanges /\ changes' = changes + 1 /\ UNCHANGED starts

\* Settings s, saved while the other store has older ones: the switch under way or the
\* next start, which goes by the flags it reads first, copies those over s, or takes the
\* two for equal and leaves the older ones where it goes to look.
Outdone(s) ==
    LET d == Store(route.inJson)
        old == dbs[Other(d)].settings
        read == IF d = "json" THEN s ELSE old
    IN  /\ old # Absent /\ old.rest # s.rest
        /\ \/ Store(read.inJson) = d
           \/ pc' = "copySettings" /\ Store(pref'.inJson) = d
           \/ SameSettings(old, s)

Saves(s) ==
    /\ BTsets' = s /\ saved' = s /\ dbs' = [dbs EXCEPT ![Store(route.inJson)].settings = s]
    /\ outdone' = (outdone \/ Outdone(s))

\* SetBTSets, SetDefaultConfig.
SetBTSets(s) ==
    /\ Up /\ Change /\ s # BTsets /\ UNCHANGED job
    /\ Saves(s)
    /\ UNCHANGED <<marks, clash, torn, cut, route, cached>>

\* tdb.Get of a record.
Read(h) == IF cached[h] # Unread THEN cached[h] ELSE dbs[Store(route.viewedInJson)].viewed[h]

\* ListViewed.
ListViewed(h) ==
    /\ Up /\ cached[h] = Unread /\ cached' = [cached EXCEPT ![h] = Read(h)]
    /\ UNCHANGED <<store, BTsets, route, job, bounds>>

\* The record of h becomes r, in the cache and in the store tdb routes to.
Writes(h, r) ==
    LET d == Store(route.viewedInJson) IN
    /\ dbs' = [dbs EXCEPT ![d].viewed[h] = r]
    /\ cached' = [cached EXCEPT ![h] = IF r = Absent THEN Unread ELSE r]
    /\ clash' = (clash \/ dbs[Other(d)].viewed[h] # Absent \/ pc = "copyViewed"
                      \/ cached[h] \notin {Unread, dbs[d].viewed[h]})

Indexes(h) == IF Read(h) = Absent THEN {} ELSE Read(h)

SetViewed(h, f) ==
    /\ Up /\ Change /\ f \notin marks[h]
    /\ Writes(h, Indexes(h) \cup {f})
    /\ marks' = [marks EXCEPT ![h] = @ \cup {f}]
    /\ UNCHANGED <<saved, outdone, torn, cut, BTsets, route, job>>

RemViewed(h, f) ==
    /\ Up /\ Change /\ f \in marks[h]
    /\ Writes(h, Indexes(h) \ {f})
    /\ marks' = [marks EXCEPT ![h] = @ \ {f}]
    /\ UNCHANGED <<saved, outdone, torn, cut, BTsets, route, job>>

RemAllViewed(h) ==
    /\ Up /\ Change /\ marks[h] # {}
    /\ Writes(h, Absent)
    /\ marks' = [marks EXCEPT ![h] = {}]
    /\ UNCHANGED <<saved, outdone, torn, cut, BTsets, route, job>>

-----------------------------------------------------------------------------
(* SetStoragePreferences; one switch at a time (dbMigrationLock).          *)

\* SwitchSettingsStorage saves the flag where tdb routes to ...
SwitchSettingsStorage(useJson) ==
    /\ pc = "up" /\ Change /\ BTsets.inJson # useJson
    /\ pc' = "copySettings" /\ pref' = [pref EXCEPT !.inJson = useJson]
    /\ Saves([BTsets EXCEPT !.inJson = useJson])
    /\ UNCHANGED <<marks, clash, torn, cut, route, cached, todo, moved>>

\* ... and then copies from the store it leaves to the other.
CopySettings ==
    LET to == Store(pref.inJson)
        s == dbs[Other(to)].settings
    IN  /\ pc = "copySettings" /\ pc' = "up"
        /\ dbs' = IF Migrates(s, dbs[to].settings, SameSettings(s, dbs[to].settings))
                 THEN [dbs EXCEPT ![to].settings = s] ELSE dbs
        /\ UNCHANGED <<saved, marks, clash, outdone, torn, cut, memory, pref, todo, moved, bounds>>

\* SwitchViewedStorage.
SwitchViewedStorage(useJson) ==
    /\ pc = "up" /\ Change /\ BTsets.viewedInJson # useJson
    /\ pc' = "copyViewed" /\ pref' = [pref EXCEPT !.viewedInJson = useJson]
    /\ todo' = Names(Other(Store(useJson))) /\ moved' = 0
    /\ UNCHANGED <<store, memory>>

CopyViewed(h) == pc = "copyViewed" /\ MigrateEntry(Other(Store(pref.viewedInJson)), h)

ClearViewed ==
    /\ pc = "copyViewed" /\ todo = {} /\ pc' = "savePref"
    /\ dbs' \in Cleared(Other(Store(pref.viewedInJson)))
    /\ UNCHANGED <<saved, marks, clash, outdone, torn, cut, memory, pref, todo, moved, bounds>>

SavePref ==
    /\ pc = "savePref" /\ pc' = "up" /\ UNCHANGED <<pref, todo, moved>>
    /\ Saves([BTsets EXCEPT !.viewedInJson = pref.viewedInJson])
    /\ UNCHANGED <<marks, clash, torn, cut, route, cached, bounds>>

-----------------------------------------------------------------------------
(* The process stops, or dies with a JSON file truncated.                  *)

Down == /\ pc' = "down" /\ BTsets' = Absent /\ cut' = (cut \/ pc # "up")
        /\ UNCHANGED <<route, cached, pref, todo, moved, bounds, saved, marks, clash, outdone>>

Stop == pc # "down" /\ Down /\ UNCHANGED <<dbs, torn>>

\* settings.json, by a save or by the copying of the settings.
TearSettings ==
    /\ \/ Up /\ route.inJson /\ torn' = TRUE
       \/ pc \in {"settings", "copySettings"} /\ pref.inJson
            /\ Migrates(dbs["bolt"].settings, dbs["json"].settings,
                        SameSettings(dbs["bolt"].settings, dbs["json"].settings)) /\ UNCHANGED torn
    /\ dbs' = [dbs EXCEPT !["json"].settings = Absent]
    /\ Down

\* viewed.json.
TearViewed ==
    /\ (Up /\ route.viewedInJson) \/ (pc \in {"viewed", "copyViewed"} /\ pref.viewedInJson /\ todo # {})
    /\ torn' = TRUE /\ dbs' \in Cleared("json")
    /\ Down

StorageNext ==
    \/ Start \/ MigrateSettings \/ RemoveSource \/ ClearMigrated \/ Load
    \/ CopySettings \/ ClearViewed \/ SavePref \/ Stop \/ TearSettings \/ TearViewed
    \/ \E s \in Settings : SetBTSets(s)
    \/ \E b \in BOOLEAN : SwitchSettingsStorage(b) \/ SwitchViewedStorage(b)
    \/ \E h \in ViewedHashes :
          \/ MigrateViewed(h) \/ CopyViewed(h) \/ ListViewed(h) \/ RemAllViewed(h)
          \/ \E f \in Files : SetViewed(h, f) \/ RemViewed(h, f)

StorageSpec == StorageInit /\ [][StorageNext]_storageVars

-----------------------------------------------------------------------------
(* Properties.                                                             *)

\* Settings that were saved once are in one of the stores at every moment of a start and
\* of a switch, so that no crash, not even one that tears the file being copied into,
\* makes the next start begin with the defaults; only a torn save can.  And they are those
\* that were saved last, which the running process has too, unless they were saved beside
\* older ones that a switch or a start then copies over them.
SettingsKept ==
    saved # Absent /\ ~torn =>
        /\ \E d \in {"json", "bolt"} : dbs[d].settings # Absent
        /\ outdone \/ ( /\ Up => BTsets.rest = saved.rest
                        /\ \E d \in {"json", "bolt"} :
                              dbs[d].settings # Absent /\ dbs[d].settings.rest = saved.rest )

\* A mark that was set is in one of the stores at every moment of a start and of a
\* switch, as long as nobody changed a torrent's marks while both stores held it, or from
\* what dataCache had read before a switch moved the record.
MarksKept ==
    clash \/ torn \/ \A h \in ViewedHashes :
        marks[h] \subseteq UNION {dbs[d].viewed[h] : d \in {e \in {"json", "bolt"} : h \in Names(e)}}

\* What was saved, settings and marks alike, outlives every start, switch and crash, with
\* the exceptions that the two parts name.
StoresKeep == SettingsKept /\ MarksKept

\* "Requires application restart for changes to take effect" (web/api/storage.go): a
\* start sets up the routes that were asked for last, if no crash has got in between.
SwitchTakesEffect ==
    [][pc = "load" /\ pc' = "up" /\ saved # Absent /\ ~torn /\ ~cut => route' = FlagsOf(saved)]_storageVars
=============================================================================
