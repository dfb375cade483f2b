------------------------------ MODULE ChunkLoader ------------------------------
(***************************************************************************)
(* The webpack runtime of the web page: how the scripts of the bundle find *)
(* one another.  A chunk's script pushes its modules and entries on the    *)
(* array webpackJsonptorrserver_web; the runtime replays what was pushed   *)
(* before it ran, takes the array's push over and runs an entry module     *)
(* when all the chunks that it names are installed.  A script runs to its  *)
(* end before another starts, a script that cannot be fetched never runs,  *)
(* and no order of evaluation is assumed.                                  *)
(***************************************************************************)
EXTENDS Naturals, Sequences

CONSTANTS
    Chunks,         \* the chunks that come in scripts of their own
    Runtime,        \* the chunk of the runtime itself
    Entries,        \* the entry modules
    Carrier,        \* the chunk whose script carries each entry
    Needs           \* the chunks that each entry names

ASSUME LoaderAssumption ==
    /\ Runtime \notin Chunks
    /\ Carrier \in [Entries -> Chunks]
    /\ Needs \in [Entries -> SUBSET (Chunks \cup {Runtime})]

VARIABLES
    jsonp,              \* chunks on the array before the runtime takes it over
    evaluated,          \* scripts that the browser has run
    replay,             \* the runtime's script: "absent", in its "replay", or "ready"
    installedChunks,
    deferredModules,
    ran                 \* how often each entry module has been executed

loaderVars == <<jsonp, evaluated, replay, installedChunks, deferredModules, ran>>

LoaderInit ==
    /\ jsonp = <<>>
    /\ evaluated = {}
    /\ replay = "absent"
    /\ installedChunks = {}
    /\ deferredModules = {}
    /\ ran = [e \in Entries |-> 0]

Carried(c) == {e \in Entries : Carrier[e] = c}

\* Mutant: one installed chunk is enough.
FulfilledByAny(chunks, e) == Needs[e] \cap chunks # {}

\* checkDeferredModules: the entries whose chunks are all installed leave the list and
\* are executed, unless the module cache has them.
Fulfilled(chunks, e) == Needs[e] \subseteq chunks

CheckDeferredModules(chunks, deferred) ==
    LET ready == {e \in deferred : Fulfilled(chunks, e)}
    IN  /\ installedChunks' = chunks
        /\ deferredModules' = deferred \ ready
        /\ ran' = [e \in Entries |-> IF e \in ready /\ ran[e] = 0 THEN 1 ELSE ran[e]]

WebpackJsonpCallback(c) ==
    CheckDeferredModules(installedChunks \cup {c}, deferredModules \cup Carried(c))

\* A chunk's script runs: a push on the array, or a call of the callback.
EvaluateChunk(c) ==
    /\ c \notin evaluated
    /\ replay \in {"absent", "ready"}
    /\ evaluated' = evaluated \cup {c}
    /\ \/ /\ replay = "absent"
          /\ jsonp' = Append(jsonp, c)
          /\ UNCHANGED <<installedChunks, deferredModules, ran>>
       \/ /\ replay = "ready"
          /\ WebpackJsonpCallback(c)
          /\ UNCHANGED jsonp
    /\ UNCHANGED replay

\* The runtime's script runs: it takes the array over ...
EvaluateRuntime ==
    /\ Runtime \notin evaluated
    /\ evaluated' = evaluated \cup {Runtime}
    /\ replay' = "replay"
    /\ installedChunks' = {Runtime}
    /\ UNCHANGED <<jsonp, deferredModules, ran>>

\* ... passes what it finds on it to the callback ...
ReplayPush ==
    /\ replay = "replay"
    /\ jsonp # <<>>
    /\ WebpackJsonpCallback(Head(jsonp))
    /\ jsonp' = Tail(jsonp)
    /\ UNCHANGED <<evaluated, replay>>

\* ... and looks at the deferred modules once more.
FinishRuntime ==
    /\ replay = "replay"
    /\ jsonp = <<>>
    /\ replay' = "ready"
    /\ CheckDeferredModules(installedChunks, deferredModules)
    /\ UNCHANGED <<jsonp, evaluated>>

LoaderNext ==
    \/ \E c \in Chunks : EvaluateChunk(c)
    \/ EvaluateRuntime
    \/ ReplayPush
    \/ FinishRuntime

LoaderSpec == LoaderInit /\ [][LoaderNext]_loaderVars

\* A script that has started runs to its end; none need ever arrive.
LoaderFairness == WF_loaderVars(ReplayPush) /\ WF_loaderVars(FinishRuntime)

-----------------------------------------------------------------------------
\* An entry waits for the scripts of the chunks that it names and of the chunk that
\* carries it, and for the runtime.
Waits == [e \in Entries |-> Needs[e] \cup {Carrier[e], Runtime}]

Page == INSTANCE BundleStart WITH Scripts <- Chunks \cup {Runtime}, arrived <- evaluated

\* Whatever the order in which the browser runs the scripts of the page, the entry
\* module runs exactly once, never before the scripts it names, and always once they
\* have run (webpackJsonpCallback and checkDeferredModules implement BundleStart).
PageStarts == Page!Spec /\ Page!AllStart
=============================================================================
