------------------------------- MODULE AddDialog -------------------------------
(***************************************************************************)
(* The title and the poster of the page's add and edit dialog (components  *)
(* Add/AddDialog and Add/RightSideComponent).  The dialog searches posters *)
(* for the title that the user types, debounced, and for the title parsed  *)
(* from the torrent's source; answers come whenever they come.             *)
(*                                                                         *)
(* React runs the dialog: an event sets state, the dialog renders, and its *)
(* effects run before the next event if something that they depend on has  *)
(* changed.  posterSearch and its debounced form are made anew whenever    *)
(* isUserInteractedWithPoster changes, so a search keeps the value that    *)
(* the flag had when its function was made.  The debounced form is used as *)
(* QuietCall promises; one that was replaced still carries out its call.   *)
(***************************************************************************)
EXTENDS Naturals, Bags

CONSTANTS
    Titles,         \* what the user may type
    Parsed,         \* the title that the torrent's name gives
    MaxEvents       \* bound on the user's events

ASSUME DialogAssumption == Parsed \notin Titles /\ "" \notin Titles \cup {Parsed} /\ MaxEvents \in Nat

VARIABLES
    isEditMode,
    torrentSource,      \* whether there is a source
    title,
    prevTitleState,     \* the title of the render before
    parsedTitle,
    interacted,         \* isUserInteractedWithPoster
    skipDebounce,
    language,           \* posterSearchLanguage
    deps,               \* what the title effect depended on when it last ran
    posterUrl,          \* "", "found" by a search or "chosen" by the user
    posterList,         \* whether posters are suggested
    delayed,            \* the pending call of delayedPosterSearch, or ""
    orphans,            \* the bag of the pending calls of debounced functions since replaced
    searches,           \* the bag of the searches sent and not answered
    parsing,            \* parses of the source's name that are under way
    callback,           \* where the parse's callback stands in its setters
    kept,               \* whether the chosen poster is the user's alone to change
    asked,              \* whether the title was searched since it was changed
    events

dialogVars == <<isEditMode, torrentSource, title, prevTitleState, parsedTitle, interacted,
                skipDebounce, language, deps, posterUrl, posterList, delayed, orphans,
                searches, parsing, callback, kept, asked, events>>
posterVars == <<posterUrl, posterList, searches, kept, asked>>
sourceVars == <<isEditMode, torrentSource, parsing, callback>>

Search == [name : Titles \cup {Parsed}, refresh : BOOLEAN, interacted : BOOLEAN]

DialogTypeOK ==
    /\ {isEditMode, torrentSource, interacted, skipDebounce, language, posterList, kept, asked} \subseteq BOOLEAN
    /\ {title, prevTitleState, delayed} \subseteq Titles \cup {""}
    /\ parsedTitle \in {"", Parsed}
    /\ posterUrl \in {"", "found", "chosen"}
    /\ BagToSet(orphans) \cup BagToSet(searches) \subseteq Search
    /\ parsing \in 0 .. MaxEvents
    /\ callback \in {"none", "title", "name", "parsed"}
    /\ events \in 0 .. MaxEvents

Current == <<title, parsedTitle, prevTitleState, interacted, skipDebounce, language>>
Settled == deps = Current

DialogInit ==
    /\ isEditMode \in BOOLEAN
    /\ torrentSource = isEditMode
    /\ title \in IF isEditMode THEN Titles \cup {""} ELSE {""}
    /\ prevTitleState = title
    /\ parsedTitle = IF isEditMode THEN Parsed ELSE ""
    /\ interacted = isEditMode
    /\ skipDebounce = FALSE
    /\ language = FALSE
    /\ deps = <<>>
    /\ posterUrl \in IF isEditMode THEN {"", "chosen"} ELSE {""}
    /\ posterList = FALSE
    /\ delayed = ""
    /\ orphans = EmptyBag
    /\ searches = IF isEditMode /\ posterUrl = ""
                  THEN SetToBag({[name |-> IF title # "" THEN title ELSE Parsed, refresh |-> TRUE, interacted |-> TRUE]})
                  ELSE EmptyBag
    /\ parsing = 0
    /\ callback = "none"
    /\ kept = (posterUrl = "chosen")
    /\ asked = (searches # EmptyBag /\ title # "")
    /\ events = 0

-----------------------------------------------------------------------------
(* Searching.                                                              *)

Send(name, refresh, flag) ==
    /\ searches' = searches (+) SetToBag({[name |-> name, refresh |-> refresh, interacted |-> flag]})
    /\ asked' = (asked \/ name = title)

\* posterSearch: without a name the suggestions and the poster go.
PosterSearch(name, refresh) ==
    \/ /\ name = ""
       /\ posterList' = FALSE
       /\ posterUrl' = ""
       /\ UNCHANGED <<searches, asked>>
    \/ /\ name # ""
       /\ Send(name, refresh, interacted)
       /\ UNCHANGED <<posterList, posterUrl>>

\* Searches under way that would set the poster when they are answered.
Automatic ==
    \/ \E s \in BagToSet(searches) : s.refresh \/ ~s.interacted
    \/ \E s \in BagToSet(orphans) : ~s.interacted
    \/ delayed # "" /\ ~interacted

\* Mutant: a search that finds nothing removes the poster whoever set it.
AnswerRemoves(s) ==
    /\ BagIn(s, searches) /\ Settled /\ callback = "none"
    /\ searches' = searches (-) SetToBag({s})
    /\ prevTitleState' = title
    /\ \/ posterList' = TRUE /\ posterUrl' = IF s.interacted /\ ~s.refresh THEN posterUrl ELSE "found"
       \/ posterList' = FALSE /\ posterUrl' = ""
    /\ UNCHANGED <<sourceVars, title, parsedTitle, interacted, skipDebounce, language, deps,
                   delayed, orphans, kept, asked, events>>

\* The then of getMoviePosters: posters, an empty list, or null.
Answer(s) ==
    /\ BagIn(s, searches) /\ Settled /\ callback = "none"
    /\ searches' = searches (-) SetToBag({s})
    /\ prevTitleState' = title
    /\ \/ posterList' = TRUE /\ posterUrl' = IF s.interacted /\ ~s.refresh THEN posterUrl ELSE "found"
       \/ posterList' = FALSE /\ posterUrl' = IF s.interacted /\ ~s.refresh THEN posterUrl ELSE ""
       \/ posterList' = FALSE /\ posterUrl' = IF s.interacted THEN posterUrl ELSE ""
    /\ UNCHANGED <<sourceVars, title, parsedTitle, interacted, skipDebounce, language, deps,
                   delayed, orphans, kept, asked, events>>

\* The timer of delayedPosterSearch, or of one that it replaced, runs out.
FireDelayed ==
    /\ delayed # "" /\ Settled /\ callback = "none"
    /\ Send(delayed, FALSE, interacted)
    /\ delayed' = ""
    /\ UNCHANGED <<sourceVars, title, prevTitleState, parsedTitle, interacted, skipDebounce,
                   language, deps, posterUrl, posterList, orphans, kept, events>>

FireOrphan(s) ==
    /\ BagIn(s, orphans) /\ Settled /\ callback = "none"
    /\ Send(s.name, FALSE, s.interacted)
    /\ orphans' = orphans (-) SetToBag({s})
    /\ UNCHANGED <<sourceVars, title, prevTitleState, parsedTitle, interacted, skipDebounce,
                   language, deps, posterUrl, posterList, delayed, kept, events>>

\* The effect that searches when the title changes.
TitleEffect ==
    /\ ~Settled
    /\ deps' = Current
    /\ \/ /\ title = prevTitleState /\ parsedTitle = ""
          /\ UNCHANGED <<posterUrl, posterList, searches, asked, skipDebounce, delayed, prevTitleState>>
       \/ /\ title # prevTitleState \/ parsedTitle # ""
          /\ skipDebounce
          /\ PosterSearch(IF title # "" THEN title ELSE parsedTitle, FALSE)
          /\ skipDebounce' = FALSE
          /\ prevTitleState' = title
          /\ UNCHANGED delayed
       \/ /\ title # prevTitleState \/ parsedTitle # ""
          /\ ~skipDebounce /\ title = ""
          /\ delayed' = ""
          /\ IF parsedTitle # "" THEN PosterSearch(parsedTitle, FALSE)
             ELSE posterUrl' = (IF interacted THEN posterUrl ELSE "") /\ UNCHANGED <<posterList, searches, asked>>
          /\ UNCHANGED <<skipDebounce, prevTitleState>>
       \/ /\ title # prevTitleState \/ parsedTitle # ""
          /\ ~skipDebounce /\ title # ""
          /\ delayed' = title
          /\ UNCHANGED <<posterUrl, posterList, searches, asked, skipDebounce, prevTitleState>>
    /\ UNCHANGED <<sourceVars, title, parsedTitle, interacted, language, orphans, kept, events>>

-----------------------------------------------------------------------------
(* Events.  The dialog renders after each of them.                         *)

Event == Settled /\ callback = "none" /\ prevTitleState' = title

UserEvent == Event /\ events < MaxEvents /\ events' = events + 1

\* The form shows once there is a source.
FormEvent == UserEvent /\ torrentSource

\* Mutant: the debounced function is cancelled when it is replaced.
SetInteractedCancels(v) ==
    /\ interacted' = v
    /\ delayed' = IF v = interacted THEN delayed ELSE ""
    /\ UNCHANGED orphans

\* setIsUserInteractedWithPoster: a change replaces the debounced function.
SetInteracted(v) ==
    /\ interacted' = v
    /\ delayed' = IF v = interacted THEN delayed ELSE ""
    /\ orphans' = IF v = interacted \/ delayed = "" THEN orphans
                  ELSE orphans (+) SetToBag({[name |-> delayed, refresh |-> FALSE, interacted |-> interacted]})

\* The polled list of torrents comes and the dialog renders.
Rerender ==
    /\ Event /\ prevTitleState # title
    /\ UNCHANGED <<sourceVars, posterVars, title, parsedTitle, interacted, skipDebounce,
                   language, deps, delayed, orphans, events>>

TypeTitle ==
    /\ FormEvent
    /\ title' \in (Titles \cup {""}) \ {title}
    /\ asked' = FALSE
    /\ UNCHANGED <<sourceVars, parsedTitle, interacted, skipDebounce, language, deps, posterUrl,
                   posterList, delayed, orphans, searches, kept>>

\* A click on a suggested poster (userChangesPosterUrl).
ChoosePoster ==
    /\ FormEvent /\ posterList
    /\ posterUrl' = "chosen"
    /\ kept' = ~Automatic
    /\ SetInteracted(TRUE)
    /\ UNCHANGED <<sourceVars, title, parsedTitle, skipDebounce, language, deps, posterList,
                   searches, asked>>

\* The poster's address is typed or emptied (handlePosterUrlChange).
TypePoster ==
    /\ FormEvent
    /\ posterUrl' \in {"", "chosen"}
    /\ kept' = (posterUrl' # "" /\ ~Automatic)
    /\ posterList' = FALSE
    /\ SetInteracted(posterUrl' # "")
    /\ UNCHANGED <<sourceVars, title, parsedTitle, skipDebounce, language, deps, searches, asked>>

ClearPoster ==
    /\ FormEvent /\ posterUrl # ""
    /\ posterUrl' = ""
    /\ kept' = FALSE
    /\ SetInteracted(TRUE)
    /\ UNCHANGED <<sourceVars, title, parsedTitle, skipDebounce, language, deps, posterList,
                   searches, asked>>

\* The title that a button's search takes: the one in the field for a title of one's own,
\* even when it is empty, or the parsed one if the source has a name and that field was
\* left alone, even when there is a title in it.
ButtonTitles == {title} \cup ({parsedTitle} \ {""})

\* The buttons Update and, with the poster set anew, the switch of the language.
UpdatePoster ==
    /\ FormEvent
    /\ \E name \in ButtonTitles :
          PosterSearch(name, FALSE) /\ kept' = (kept /\ name # "")
    /\ UNCHANGED <<sourceVars, title, parsedTitle, interacted, skipDebounce, language, deps,
                   delayed, orphans>>

SwitchLanguage ==
    /\ FormEvent /\ posterUrl # ""
    /\ language' = ~language
    /\ \E name \in ButtonTitles : PosterSearch(name, TRUE)
    /\ kept' = FALSE
    /\ UNCHANGED <<sourceVars, title, parsedTitle, interacted, skipDebounce, deps, delayed, orphans>>

\* The button that restores the title of the source.
RestoreTitle ==
    /\ FormEvent /\ parsedTitle # ""
    /\ title' = ""
    /\ asked' = FALSE
    /\ kept' = FALSE
    /\ parsing' = parsing + 1
    /\ SetInteracted(FALSE)
    /\ UNCHANGED <<isEditMode, torrentSource, callback, parsedTitle, skipDebounce, language, deps,
                   posterUrl, posterList, searches>>

\* A source is typed; updateTitleFromSource starts to parse it.
TypeSource ==
    /\ UserEvent /\ ~isEditMode
    /\ torrentSource' = TRUE
    /\ parsing' = parsing + 1
    /\ UNCHANGED <<posterVars, isEditMode, callback, title, parsedTitle, interacted, skipDebounce,
                   language, deps, delayed, orphans>>

\* The source is emptied; the effect on it clears the dialog.
ClearSource ==
    /\ FormEvent /\ ~isEditMode
    /\ torrentSource' = FALSE
    /\ title' = ""
    /\ asked' = FALSE
    /\ parsedTitle' = ""
    /\ posterUrl' = ""
    /\ posterList' = FALSE
    /\ kept' = FALSE
    /\ SetInteracted(FALSE)
    /\ UNCHANGED <<isEditMode, parsing, callback, skipDebounce, language, deps, searches>>

-----------------------------------------------------------------------------
(* The callback of updateTitleFromSource.  It is outside React's events,   *)
(* so each of its setters renders, and the effects run in between.         *)

ParseFails ==
    /\ Settled /\ callback = "none" /\ parsing > 0
    /\ parsing' = parsing - 1
    /\ UNCHANGED <<posterVars, isEditMode, torrentSource, callback, title, prevTitleState, parsedTitle,
                   interacted, skipDebounce, language, deps, delayed, orphans, events>>

ParseNames ==
    /\ Event /\ parsing > 0 /\ ~isEditMode
    /\ parsing' = parsing - 1
    /\ skipDebounce' = TRUE
    /\ callback' = "title"
    /\ UNCHANGED <<posterVars, isEditMode, torrentSource, title, parsedTitle, interacted, language,
                   deps, delayed, orphans, events>>

CallbackTitle ==
    /\ Settled /\ callback = "title"
    /\ title' = ""
    /\ prevTitleState' = title
    /\ asked' = FALSE
    /\ kept' = FALSE
    /\ callback' = "name"
    /\ UNCHANGED <<isEditMode, torrentSource, parsing, parsedTitle, interacted, skipDebounce, language,
                   deps, posterUrl, posterList, delayed, orphans, searches, events>>

CallbackName ==
    /\ Settled /\ callback = "name"
    /\ prevTitleState' = title
    /\ callback' = "parsed"
    /\ UNCHANGED <<posterVars, isEditMode, torrentSource, parsing, title, parsedTitle, interacted,
                   skipDebounce, language, deps, delayed, orphans, events>>

CallbackParsed ==
    /\ Settled /\ callback = "parsed"
    /\ parsedTitle' = Parsed
    /\ prevTitleState' = title
    /\ callback' = "none"
    /\ UNCHANGED <<posterVars, isEditMode, torrentSource, parsing, title, interacted, skipDebounce,
                   language, deps, delayed, orphans, events>>

Callback == CallbackTitle \/ CallbackName \/ CallbackParsed

DialogNext ==
    \/ TitleEffect \/ Callback
    \/ FireDelayed \/ \E s \in BagToSet(orphans) : FireOrphan(s)
    \/ \E s \in BagToSet(searches) : Answer(s)
    \/ Rerender \/ ParseFails \/ ParseNames
    \/ TypeTitle \/ ChoosePoster \/ TypePoster \/ ClearPoster \/ UpdatePoster \/ SwitchLanguage
    \/ RestoreTitle \/ TypeSource \/ ClearSource

\* React runs the effects, a callback runs to its end and timers run out; neither the
\* user nor the server that searches has to do anything.
DialogFairness ==
    /\ WF_dialogVars(TitleEffect \/ Callback)
    /\ WF_dialogVars(FireDelayed)
    /\ WF_dialogVars(\E s \in BagToSet(orphans) : FireOrphan(s))

-----------------------------------------------------------------------------
\* A poster that the user chose while no search was under way that could set the poster
\* is replaced only when the user asks for it or the name of a new source arrives: the
\* searches that later titles start only refresh the suggestions.
ChosenPosterKept == kept => posterUrl = "chosen"

\* A title that stays is searched: neither the debouncing, nor a change of the debounced
\* function while its timer runs, nor a parse of the source loses the last title typed.
TitleSearched == \A t \in Titles : title = t ~> (title # t \/ asked)
=============================================================================
