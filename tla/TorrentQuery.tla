------------------------------ MODULE TorrentQuery ------------------------------
(***************************************************************************)
(* The page's list of torrents: the query 'torrents' of react-query, which *)
(* the page (components/App) and the add dialog observe with an interval   *)
(* of a second each, and the page's offline flag.  fetch sends nothing     *)
(* while a fetch is under way; a fetch that fails is retried once, after a *)
(* pause that lasts until the page has the focus again if it lost it.      *)
(***************************************************************************)
EXTENDS Naturals

CONSTANTS
    Wires,          \* requests that can be under way together
    First,          \* one of them
    Retry,          \* the option retry
    MaxVersion,     \* bound on the changes of the server's list
    MaxFaults       \* bound on the server's outages and on the focus lost

ASSUME QueryAssumption == First \in Wires /\ Retry \in Nat /\ MaxVersion \in Nat /\ MaxFaults \in Nat

VARIABLES
    version,        \* the server's list
    up,             \* whether the server can be reached
    focused,        \* focusManager.isFocused()
    observed,       \* whether the add dialog observes the query as well
    isFetching,
    failureCount,   \* of the retryer
    retryer,        \* "run", or what it does between two requests: "sleep" or "pause"
    wire,           \* where each request is, and the list that its answer brings
    torrents,       \* the list shown
    isOffline,
    faults

queryVars == <<version, up, focused, observed, isFetching, failureCount, retryer, wire,
               torrents, isOffline, faults>>

QueryTypeOK ==
    /\ version \in 0 .. MaxVersion
    /\ {up, focused, observed, isFetching, isOffline} \subseteq BOOLEAN
    /\ failureCount \in 0 .. Retry
    /\ retryer \in {"run", "sleep", "pause"}
    /\ wire \in [Wires -> [at : {"free", "sent", "answer", "error"}, list : 0 .. MaxVersion]]
    /\ torrents \in 0 .. version
    /\ faults \in 0 .. MaxFaults

FreeWire == [at |-> "free", list |-> 0]
SentWire == [at |-> "sent", list |-> 0]

\* The first render subscribes the page, which fetches.
QueryInit ==
    /\ version = 0
    /\ up \in BOOLEAN
    /\ focused = TRUE
    /\ observed = FALSE
    /\ isFetching = TRUE
    /\ failureCount = 0
    /\ retryer = "run"
    /\ wire = [i \in Wires |-> IF i = First THEN SentWire ELSE FreeWire]
    /\ torrents = 0
    /\ isOffline = FALSE
    /\ faults = 0

SendRequest == \E i \in Wires : wire[i] = FreeWire /\ wire' = [wire EXCEPT ![i] = SentWire]

\* Mutant: Query.fetch does not look whether a fetch is under way.
FetchAlways ==
    /\ isFetching' = TRUE
    /\ failureCount' = 0
    /\ retryer' = "run"
    /\ SendRequest

\* Query.fetch
Fetch ==
    \/ isFetching /\ UNCHANGED <<isFetching, failureCount, retryer, wire>>
    \/ /\ ~isFetching
       /\ isFetching' = TRUE
       /\ failureCount' = 0
       /\ retryer' = "run"
       /\ SendRequest

\* The interval of an observer: updateRefetchInterval.
RefetchInterval ==
    /\ focused
    /\ Fetch
    /\ UNCHANGED <<version, up, focused, observed, torrents, isOffline, faults>>

\* The add dialog opens, subscribing to the query, or closes.
ObserveDialog ==
    /\ observed' = ~observed
    /\ IF observed THEN UNCHANGED <<isFetching, failureCount, retryer, wire>> ELSE Fetch
    /\ UNCHANGED <<version, up, focused, torrents, isOffline, faults>>

Blur ==
    /\ focused /\ faults < MaxFaults
    /\ focused' = FALSE
    /\ faults' = faults + 1
    /\ UNCHANGED <<version, up, observed, isFetching, failureCount, retryer, wire, torrents, isOffline>>

\* Query.onFocus: a refetch, and a retryer that paused goes on.
Focus ==
    /\ ~focused
    /\ focused' = TRUE
    /\ \/ retryer = "pause" /\ retryer' = "run" /\ SendRequest /\ UNCHANGED <<isFetching, failureCount>>
       \/ retryer # "pause" /\ Fetch
    /\ UNCHANGED <<version, up, observed, torrents, isOffline, faults>>

\* The retryer's delay is over.
RetryerWake ==
    /\ retryer = "sleep"
    /\ \/ focused /\ retryer' = "run" /\ SendRequest
       \/ ~focused /\ retryer' = "pause" /\ UNCHANGED wire
    /\ UNCHANGED <<version, up, focused, observed, isFetching, failureCount, torrents, isOffline, faults>>

\* The request resolves: setData, and onSuccess of the page.
Resolve(i) ==
    /\ wire[i].at = "answer"
    /\ torrents' = wire[i].list
    /\ isOffline' = FALSE
    /\ isFetching' = FALSE
    /\ failureCount' = 0
    /\ wire' = [wire EXCEPT ![i] = FreeWire]
    /\ UNCHANGED <<version, up, focused, observed, retryer, faults>>

\* The request fails: another one after a delay, or the end of the fetch and onError.
Reject(i) ==
    /\ wire[i].at = "error"
    /\ wire' = [wire EXCEPT ![i] = FreeWire]
    /\ \/ /\ failureCount < Retry
          /\ failureCount' = failureCount + 1
          /\ retryer' = "sleep"
          /\ UNCHANGED <<isFetching, isOffline>>
       \/ /\ failureCount >= Retry
          /\ isFetching' = FALSE
          /\ isOffline' = TRUE
          /\ UNCHANGED <<failureCount, retryer>>
    /\ UNCHANGED <<version, up, focused, observed, torrents, faults>>

\* The server, and the network to it.
ServerAnswers(i) ==
    /\ wire[i] = SentWire
    /\ wire' = [wire EXCEPT ![i] = IF up THEN [at |-> "answer", list |-> version] ELSE [FreeWire EXCEPT !.at = "error"]]
    /\ UNCHANGED <<version, up, focused, observed, isFetching, failureCount, retryer, torrents, isOffline, faults>>

ServerChanges ==
    /\ version < MaxVersion
    /\ version' = version + 1
    /\ UNCHANGED <<up, focused, observed, isFetching, failureCount, retryer, wire, torrents, isOffline, faults>>

ServerFails ==
    /\ up /\ faults < MaxFaults
    /\ up' = FALSE
    /\ faults' = faults + 1
    /\ UNCHANGED <<version, focused, observed, isFetching, failureCount, retryer, wire, torrents, isOffline>>

ServerReturns ==
    /\ ~up
    /\ up' = TRUE
    /\ UNCHANGED <<version, focused, observed, isFetching, failureCount, retryer, wire, torrents, isOffline, faults>>

Request(i) == ServerAnswers(i) \/ Resolve(i) \/ Reject(i)

QueryNext ==
    \/ RefetchInterval \/ RetryerWake \/ ObserveDialog
    \/ Blur \/ Focus
    \/ \E i \in Wires : Request(i)
    \/ ServerChanges \/ ServerFails \/ ServerReturns

\* Timers run out and every request is answered or fails; nobody has to look at the page
\* and the server need not come back.
QueryFairness ==
    /\ WF_queryVars(RefetchInterval)
    /\ WF_queryVars(RetryerWake)
    /\ \A i \in Wires : WF_queryVars(Request(i))

-----------------------------------------------------------------------------
\* The list shown never goes back to an older one, although the page and the add dialog
\* poll on their own, the dialog's opening and the focus fetch besides and a retry is late.
ListNeverOlder == [][torrents' >= torrents]_queryVars

\* If the server can be reached for good and the page keeps the focus, the page ends up
\* online and with the server's last list, whatever failed or paused before.
ListCatchesUp == <>[](up /\ focused) => <>[](torrents = version /\ ~isOffline)

\* The page's list follows the server's: it never goes back, and it catches up.
ListFollows == ListNeverOlder /\ ListCatchesUp
=============================================================================
