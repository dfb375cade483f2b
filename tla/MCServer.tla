------------------------------- MODULE MCServer -------------------------------
(***************************************************************************)
(* The server's watchdogs and the parts of the page that it serves: what   *)
(* runs beside everything else and has to come to an end.  They do not     *)
(* meet, and each is checked on an instance of its own: a behaviour is one *)
(* of the part that "part" names, and the others keep their first state.   *)
(***************************************************************************)
EXTENDS AdaptiveShield, Warmup, MCWebPage

MCOf == [s \in Streams |-> IF s = "s3" THEN "t2" ELSE "t1"]

allVars == <<part, vars, warmupVars, webVars>>

ServerInit == part \in {"shield", "warmup"} \cup WebParts /\ Init /\ WarmupInit /\ WebInit

ServerNext ==
    /\ UNCHANGED part
    /\ \/ part = "shield" /\ Next /\ UNCHANGED <<warmupVars, webVars>>
       \/ part = "warmup" /\ WarmupNext /\ UNCHANGED <<vars, webVars>>
       \/ part \in WebParts /\ WebNext /\ UNCHANGED <<vars, warmupVars>>

\* (Nothing that the fairness of the shield and of the warm-up speaks of can be done in
\* their first state.)
ServerSpec ==
    /\ ServerInit /\ [][ServerNext]_allVars
    /\ Fairness /\ WarmupFairness /\ WebFairness

\* Symmetry: of the markers, the watchdogs or the streams of one torrent that nothing tells
\* apart, since all of them are at rest, the first is taken.  (A watchdog looks at the clock
\* before it uses what it has sampled, so that an earlier sample tells nothing apart.)
FirstAtRest ==
    /\ (\A m \in Markers : marker[m] = "idle") =>
          \A m \in Markers : marker'[m] # "idle" => m = CHOOSE n \in Markers : TRUE
    /\ (\A w \in Watchdogs : watchdog[w] = "off") =>
          \A w \in Watchdogs : watchdog'[w] # "off" => w = CHOOSE v \in Watchdogs : TRUE
    /\ \A t \in Torrents :
          LET calls == {s \in Streams : Of[s] = t}
          IN  (\A s \in calls : stream[s] = "idle") =>
                 \A s \in calls : stream'[s] # "idle" => s = CHOOSE r \in calls : TRUE

-----------------------------------------------------------------------------
\* The state of the shield, the warm-up and the page's parts is well-formed.
ServerTypeOK == TypeOK /\ WarmupTypeOK /\ WebTypeOK
=============================================================================
