------------------------------- MODULE MCWebPage -------------------------------
(***************************************************************************)
(* The parts of the web page, each on an instance of its own: a behaviour  *)
(* is one of the part that "part" names, and the others keep their first   *)
(* state.  (They run in one page and meet in what they promise: the dialog *)
(* uses debounce as QuietCall describes it, and the loader starts them.)   *)
(***************************************************************************)
EXTENDS ChunkLoader, Debounce, AddDialog, TorrentQuery, CardPlayer

VARIABLE part

\* index.html: the runtime, the vendor chunk (2) and main, whose entry names both others.
MCCarrier == [e \in Entries |-> "main"]
MCNeeds == [e \in Entries |-> {"runtime", "vendor"}]

WebParts == {"loader", "debounce", "dialog", "query", "card"}
webVars == <<loaderVars, debounceVars, dialogVars, queryVars, cardVars>>

WebInit ==
    /\ LoaderInit /\ DebounceInit /\ DialogInit /\ QueryInit /\ CardInit
    /\ part # "dialog" => ~isEditMode
    /\ part # "query" => up
    /\ part # "card" => kind = "none"

WebNext ==
    \/ part = "loader" /\ LoaderNext /\ UNCHANGED <<debounceVars, dialogVars, queryVars, cardVars>>
    \/ part = "debounce" /\ DebounceNext /\ UNCHANGED <<loaderVars, dialogVars, queryVars, cardVars>>
    \/ part = "dialog" /\ DialogNext /\ UNCHANGED <<loaderVars, debounceVars, queryVars, cardVars>>
    \/ part = "query" /\ QueryNext /\ UNCHANGED <<loaderVars, debounceVars, dialogVars, cardVars>>
    \/ part = "card" /\ CardNext /\ UNCHANGED <<loaderVars, debounceVars, dialogVars, queryVars>>

\* The fairness of the parts.  In the first state of the dialog and of the query something
\* is under way, so that theirs is asked for only when it is they that move.
WebFairness ==
    /\ LoaderFairness /\ DebounceFairness /\ CardFairness
    /\ WF_dialogVars(part = "dialog" /\ (TitleEffect \/ Callback))
    /\ WF_dialogVars(part = "dialog" /\ FireDelayed)
    /\ WF_dialogVars(part = "dialog" /\ \E s \in BagToSet(orphans) : FireOrphan(s))
    /\ WF_queryVars(part = "query" /\ RefetchInterval)
    /\ WF_queryVars(part = "query" /\ RetryerWake)
    /\ \A i \in Wires : WF_queryVars(part = "query" /\ Request(i))

\* The state of the page's parts is well-formed.
WebTypeOK == DebounceTypeOK /\ DialogTypeOK /\ QueryTypeOK /\ CardTypeOK
=============================================================================
