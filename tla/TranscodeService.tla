---------------------------- MODULE TranscodeService ----------------------------
(***************************************************************************)
(* The table of remuxing tasks (gstreamer/service.go): tasks are made on   *)
(* demand by calls that share their work (taskCalls), replaced when another *)
(* audio track is asked for, evicted when there are more than MaxTasks,    *)
(* removed on request, by the clean-up when nobody has used them, and when *)
(* the service is disposed of.  What a task does is in TranscodeTask.      *)
(* A torrent's file and its audio track are one "track" here.  A probe of  *)
(* the source is done by every call for itself: the shared call of Probe   *)
(* would only give them the same result.                                   *)
(***************************************************************************)
EXTENDS Integers, FiniteSets, Sequences

CONSTANTS
    Hashes, Tracks, \* torrents, and what may be asked of one
    Callers,        \* concurrent HTTP requests
    Limits,         \* values of MaxTasks; 0 means no limit
    Nobody, NoTask,
    MaxMade,        \* bound on the tasks made
    MaxCalls        \* bound on the calls of GetOrAdd and the changes of track

ASSUME ServiceAssumption ==
    /\ IsFiniteSet(Hashes) /\ Limits \subseteq Nat
    /\ NoTask \notin Nat /\ Nobody \notin Callers
    /\ {"remove", "config", "cleaner", "service"} \cap (Hashes \cup Callers) = {}
    /\ Hashes \cap Callers = {}

VARIABLES
    tasks,          \* Service.tasks
    made,           \* the tasks made so far: hash, track (Task.Audio), disposed
    order, stale,   \* each task's place by LastActive; the tasks the clean-up's cutoff is past
    limit,          \* conf.MaxTasks
    cached,         \* probeCache is not empty
    closing,        \* Dispose: "open", "flagged", "swapped", "done"
    flight,         \* taskCalls: the caller that does the work for a key
    call,           \* each caller: where it stands, what it asks for, its task
    snapshot,       \* tasks cleanupInactive has still to look at
    trash,          \* tasks each actor has taken from the table and is to dispose of
    calls           \* requests so far

serviceVars == <<tasks, made, order, stale, limit, cached, closing, flight, call, snapshot, trash, calls>>
table == <<tasks, made, order, stale, limit>>

Made == 1 .. Len(made)
Actors == Callers \cup {"remove", "config", "cleaner", "service"}
Disposed == closing # "open"
IdleCall == [at |-> "idle", hash |-> Nobody, track |-> Nobody, task |-> NoTask]
Key(p) == <<call[p].hash, call[p].track>>
Held == {tasks[h] : h \in Hashes} \ {NoTask}

\* Tables, tasks and calls are well-formed, and limits normalized.
ServiceTypeOK ==
    /\ made \in Seq([hash : Hashes, track : Tracks, disposed : BOOLEAN])
    /\ tasks \in [Hashes -> Made \cup {NoTask}]
    /\ order \in Seq(Made) /\ stale \subseteq Made /\ limit \in Nat
    /\ cached \in BOOLEAN /\ snapshot \subseteq Made
    /\ closing \in {"open", "flagged", "swapped", "done"}
    /\ flight \in [Hashes \X Tracks -> Callers \cup {Nobody}]
    /\ \A p \in Callers :
          /\ call[p].at \in {"idle", "find", "probe", "insert", "trash", "wait", "check"}
          /\ call[p].task \in Made \cup {NoTask}
    /\ trash \in [Actors -> SUBSET Made] /\ calls \in 0 .. MaxCalls + 1

ServiceInit ==
    /\ tasks = [h \in Hashes |-> NoTask] /\ made = <<>> /\ order = <<>> /\ stale = {}
    /\ limit \in Limits /\ cached = FALSE /\ closing = "open"
    /\ flight = [k \in Hashes \X Tracks |-> Nobody]
    /\ call = [p \in Callers |-> IdleCall]
    /\ snapshot = {} /\ trash = [a \in Actors |-> {}] /\ calls = 0

-----------------------------------------------------------------------------
(* Tasks.                                                                  *)

\* UpdateLastActive.
Used(t) ==
    /\ order' = [u \in Made |-> IF u = t THEN Len(made)
                               ELSE IF order[u] > order[t] THEN order[u] - 1 ELSE order[u]]
    /\ stale' = stale \ {t}

\* taskMatchesRequest, and the same test on an entry of the table.
Matches(t, p) ==
    t # NoTask /\ made[t].hash = call[p].hash /\ made[t].track = call[p].track /\ ~made[t].disposed

\* oldestEvictableTask: disposed ones first, then the one used least recently.
Before(t, u) ==
    \/ made[t].disposed /\ ~made[u].disposed
    \/ made[t].disposed = made[u].disposed /\ order[t] < order[u]

\* evictTasksForLimitLocked: the tasks taken out of the table T, one of them protected.
Evicted(T, n, protected) ==
    IF n = 0 \/ Cardinality(T) <= n THEN {}
    ELSE {t \in T \ {protected} :
            Cardinality({u \in T \ {protected} : Before(u, t)}) < Cardinality(T) - n}

Without(T, m) == [h \in Hashes |-> IF m[h] \in T THEN NoTask ELSE m[h]]

\* Task.Dispose, by the actor that took the task from the table.
DisposeTask(a, t) ==
    /\ t \in trash[a]
    /\ trash' = [trash EXCEPT ![a] = @ \ {t}]
    /\ made' = [made EXCEPT ![t].disposed = TRUE]
    /\ UNCHANGED <<tasks, order, stale, limit, cached, closing, flight, call, snapshot, calls>>

\* A request with another audio track makes the task change to it (Task.EnsureInit); one
\* may come after the last call.  Nobody looks at the track of a task disposed of.
Retrack(t, x) ==
    /\ made[t].track # x /\ ~made[t].disposed
    /\ made' = [made EXCEPT ![t].track = x]
    /\ calls <= MaxCalls /\ calls' = calls + 1
    /\ UNCHANGED <<tasks, order, stale, limit, cached, closing, flight, call, snapshot, trash>>

-----------------------------------------------------------------------------
(* GetOrAdd.                                                               *)

Goes(p, at) == call' = [call EXCEPT ![p].at = at]

\* A call joins the one under way for its key, or does the work itself.
Join(p, k) ==
    IF flight[k] = Nobody
    THEN flight' = [flight EXCEPT ![k] = p]
         /\ call' = [call EXCEPT ![p] = [at |-> "find", hash |-> k[1], track |-> k[2], task |-> NoTask]]
    ELSE UNCHANGED flight
         /\ call' = [call EXCEPT ![p] = [at |-> "wait", hash |-> k[1], track |-> k[2], task |-> NoTask]]

GetOrAdd(p, k) ==
    /\ call[p] = IdleCall /\ ~Disposed
    /\ Join(p, k)
    /\ calls < MaxCalls /\ calls' = calls + 1
    /\ UNCHANGED <<table, cached, closing, snapshot, trash>>

\* The shared call returns t, or fails: to the caller that did the work and to the
\* others that wait for it.
CallReturns(p, t) ==
    /\ flight' = [flight EXCEPT ![Key(p)] = Nobody]
    /\ call' = [q \in Callers |->
                   IF q # p /\ ~(call[q].at = "wait" /\ Key(q) = Key(p)) THEN call[q]
                   ELSE IF t = NoTask THEN IdleCall ELSE [call[q] EXCEPT !.at = "check", !.task = t]]

\* getOrAdd finds the task in the table or goes on to probe.
Find(p) ==
    LET t == tasks[call[p].hash] IN
    /\ call[p].at = "find"
    /\ IF Disposed THEN CallReturns(p, NoTask) /\ UNCHANGED <<order, stale>>
       ELSE IF Matches(t, p) THEN Used(t) /\ CallReturns(p, t)
       ELSE Goes(p, "probe") /\ UNCHANGED <<order, stale, flight>>
    /\ UNCHANGED <<tasks, made, limit, cached, closing, snapshot, trash, calls>>

\* setCachedProbe.
setCachedProbe == cached' = (cached \/ ~Disposed)

\* Probe and NewTask succeed, or one of them fails.  The service may be disposed of after
\* Probe has looked at its flag for the last time.
Probe(p) ==
    /\ call[p].at = "probe"
    /\ \/ /\ setCachedProbe /\ Len(made) < MaxMade
          /\ made' = Append(made, [hash |-> call[p].hash, track |-> call[p].track, disposed |-> FALSE])
          /\ order' = Append(order, Len(made) + 1)
          /\ call' = [call EXCEPT ![p].at = "insert", ![p].task = Len(made) + 1]
          /\ UNCHANGED flight
       \/ /\ setCachedProbe \/ UNCHANGED cached
          /\ CallReturns(p, NoTask) /\ UNCHANGED <<made, order>>
    /\ UNCHANGED <<tasks, stale, limit, closing, snapshot, trash, calls>>

\* Mutant: the task of the table is replaced without being disposed of.
ReplacedForgotten(old) == {}

\* The task that is replaced is disposed of, if there was one.
Replaced(old) == {old} \ {NoTask}

\* getOrAdd puts its task into the table, unless the service is closed or somebody has
\* put a matching one there meanwhile; the new task itself is to go then.
Insert(p) ==
    LET t == call[p].task
        old == tasks[call[p].hash]
        T == (Held \ {old}) \cup {t}
        out == Evicted(T, limit, t)
    IN  /\ call[p].at = "insert"
        /\ IF Disposed \/ Matches(old, p)
           THEN /\ trash' = [trash EXCEPT ![p] = {t}]
                /\ call' = [call EXCEPT ![p].at = "trash", ![p].task = IF Disposed THEN NoTask ELSE old]
                /\ IF Disposed THEN UNCHANGED <<order, stale>> ELSE Used(old)
                /\ UNCHANGED tasks
           ELSE /\ trash' = [trash EXCEPT ![p] = out \cup Replaced(old)]
                /\ tasks' = Without(out, [tasks EXCEPT ![call[p].hash] = t])
                /\ Goes(p, "trash")
                /\ UNCHANGED <<order, stale>>
        /\ UNCHANGED <<made, limit, cached, closing, flight, snapshot, calls>>

Inserted(p) ==
    /\ call[p].at = "trash" /\ trash[p] = {}
    /\ CallReturns(p, call[p].task)
    /\ UNCHANGED <<table, cached, closing, snapshot, trash, calls>>

\* taskMatchesRequest, without a lock; if the task has gone the caller tries again.
Check(p) ==
    /\ call[p].at = "check"
    /\ IF Matches(call[p].task, p) \/ Disposed
       THEN call' = [call EXCEPT ![p] = IdleCall] /\ UNCHANGED flight
       ELSE Join(p, Key(p))
    /\ UNCHANGED <<table, cached, closing, snapshot, trash, calls>>

-----------------------------------------------------------------------------
(* The other operations.                                                   *)

\* Get, by the handlers of segments, subtitles and heartbeats.
Get(h) ==
    /\ ~Disposed /\ tasks[h] # NoTask /\ ~made[tasks[h]].disposed
    /\ tasks[h] \in stale \/ order[tasks[h]] # Len(made)
    /\ Used(tasks[h])
    /\ UNCHANGED <<tasks, made, limit, cached, closing, flight, call, snapshot, trash, calls>>

\* TryRemove.
TryRemove(h) ==
    /\ tasks[h] # NoTask /\ trash["remove"] = {}
    /\ trash' = [trash EXCEPT !["remove"] = {tasks[h]}]
    /\ tasks' = [tasks EXCEPT ![h] = NoTask]
    /\ UNCHANGED <<made, order, stale, limit, cached, closing, flight, call, snapshot, calls>>

\* Mutant: only the next task made is measured against the new limit.
updateConfigOnly(n) ==
    /\ ~Disposed /\ trash["config"] = {} /\ n # limit
    /\ limit' = n
    /\ UNCHANGED <<tasks, made, order, stale, cached, closing, flight, call, snapshot, trash, calls>>

\* updateConfig.
updateConfig(n) ==
    /\ ~Disposed /\ trash["config"] = {} /\ n # limit
    /\ limit' = n
    /\ LET out == Evicted(Held, n, NoTask)
       IN  trash' = [trash EXCEPT !["config"] = out] /\ tasks' = Without(out, tasks)
    /\ UNCHANGED <<made, order, stale, cached, closing, flight, call, snapshot, calls>>

\* Nobody uses the oldest task for so long that it is past the cutoff.
Age ==
    /\ \E t \in Held \ stale :
          /\ \A u \in Held : Before(u, t) => u \in stale
          /\ stale' = stale \cup {t}
    /\ UNCHANGED <<tasks, made, order, limit, cached, closing, flight, call, snapshot, trash, calls>>

\* cleanupProbeCache, after the last task of a snapshot: the probes may have expired.
cleanupProbeCache(rest) == cached' \in IF rest = {} THEN {cached, FALSE} ELSE {cached}

\* cleanupInactive takes a snapshot and looks at its tasks one by one, at each without
\* the lock first.  Those it would only freeze are left out.
CleanupBegin ==
    /\ ~Disposed /\ snapshot = {} /\ trash["cleaner"] = {}
    /\ snapshot' = stale \cap Held
    /\ cleanupProbeCache(snapshot')
    /\ UNCHANGED <<table, closing, flight, call, trash, calls>>

\* Mutant: the task's last use is not looked at again.
RemovesSeen(t) == t \in Held

\* tryRemoveExpectedInactive: still in the table, and still unused.
Removes(t) == t \in Held /\ t \in stale

Cleanup(t) ==
    /\ t \in snapshot /\ trash["cleaner"] = {}
    /\ snapshot' = snapshot \ {t}
    /\ IF Removes(t)
       THEN trash' = [trash EXCEPT !["cleaner"] = {t}] /\ tasks' = Without({t}, tasks)
       ELSE UNCHANGED <<trash, tasks>>
    /\ cleanupProbeCache(snapshot')
    /\ UNCHANGED <<made, order, stale, limit, closing, flight, call, calls>>

\* Service.Dispose: the flag, the table, the probes, then the tasks.
Flag ==
    /\ closing = "open" /\ closing' = "flagged"
    /\ UNCHANGED <<table, cached, flight, call, snapshot, trash, calls>>

Swap ==
    /\ closing = "flagged" /\ closing' = "swapped"
    /\ trash' = [trash EXCEPT !["service"] = Held]
    /\ tasks' = [h \in Hashes |-> NoTask]
    /\ UNCHANGED <<made, order, stale, limit, cached, flight, call, snapshot, calls>>

Clear ==
    /\ closing = "swapped" /\ closing' = "done" /\ cached' = FALSE
    /\ UNCHANGED <<table, flight, call, snapshot, trash, calls>>

ServiceNext ==
    \/ \E p \in Callers : \/ \E k \in Hashes \X Tracks : GetOrAdd(p, k)
                          \/ Find(p) \/ Probe(p) \/ Insert(p) \/ Inserted(p) \/ Check(p)
    \/ \E h \in Hashes : Get(h) \/ TryRemove(h)
    \/ \E t \in Made : Cleanup(t) \/ \E x \in Tracks : Retrack(t, x)
    \/ \E a \in Actors : \E t \in trash[a] : DisposeTask(a, t)
    \/ \E n \in Limits : updateConfig(n)
    \/ Age \/ CleanupBegin \/ Flag \/ Swap \/ Clear

ServiceSpec == ServiceInit /\ [][ServiceNext]_serviceVars

-----------------------------------------------------------------------------
(* Properties.                                                             *)

\* No pipeline is left running by itself: a task that is not disposed of is in the
\* table, or with the one actor that is to put it there or to dispose of it.
NoTaskLost ==
    \A t \in Made : ~made[t].disposed =>
        Cardinality({h \in Hashes : tasks[h] = t} \cup {a \in Actors : t \in trash[a]}
                      \cup {p \in Callers : call[p].at = "insert" /\ call[p].task = t}) = 1

\* evictTasksForLimitLocked keeps the table within MaxTasks, whoever adds to it and
\* whenever the limit is changed; and once Dispose is through nothing comes back, no task
\* into the table and no probe into the cache, by calls that were under way.
WithinLimit ==
    /\ limit # 0 => Cardinality(Held) <= limit
    /\ closing \in {"swapped", "done"} => Held = {}
    /\ closing = "done" => ~cached

\* The clean-up never takes away a task that somebody has used since it looked.
UsedTasksSpared == trash["cleaner"] \subseteq stale
=============================================================================
