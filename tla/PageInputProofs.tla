---------------------------- MODULE PageInputProofs ----------------------------
(***************************************************************************)
(* PlayGuarded of a card and ChosenPosterKept of the add and edit dialog,  *)
(* for any values of the constants.  Each follows from an inductive        *)
(* invariant that says what the requests, timers and callbacks that are    *)
(* still to come will find.                                                *)
(***************************************************************************)
EXTENDS CardPlayer, AddDialog, FiniteSetTheorems, TLAPS

\* The Play button of a card.  PlayGuarded says nothing of what a probe that starts later
\* relies on: that a request for the files goes on with the audio tracks that the card
\* knows, and that until they are known nothing is opened over a file to be transcoded.

\* Each spinner turns for what it stands for, and the two probes exclude each other.
Spinners ==
    /\ isResolvingPlayers <=> request # "idle"
    /\ isResolvingAudio <=> probes # {}
    /\ "resolver" \in probes <=> request = "audio"
    /\ "button" \in probes => request = "idle"

\* What is probed is shown and not covered, and nothing that waits for it is either.
Uncovered ==
    /\ probes # {} => kind = "gst" /\ (polled \/ resolvedFileList) /\ Clickable
    /\ probes # {} => audioTracks = "unknown"
    /\ request \in {"get", "wait"} => known = audioTracks
    /\ request \in {"get", "wait"} /\ kind = "gst" /\ known = "unknown" => ~selectedPlayer
    /\ menu = "audio" => audioTracks # "unknown"
    /\ inline => kind = "plain"

CardInv == probes \subseteq {"resolver", "button"} /\ (isMounted /\ ~lost => Spinners /\ Uncovered)

LEMMA CardInvInit == CardInit => CardInv
BY Zenon DEF CardInit, CardInv, Spinners, Uncovered

\* PlayGst.
LEMMA PlayKeeps == ASSUME CardInv, PlayGst  PROVE CardInv'
<1> USE DEF PlayGst, ClickPlay, CardInv
<1>1. probes' \subseteq {"resolver", "button"}  BY Zenon
<1>2. ASSUME isMounted, ~lost  PROVE Spinners'
  BY <1>2 DEF Spinners
<1>3. ASSUME isMounted, ~lost  PROVE Uncovered'
  BY <1>3 DEF Spinners, Uncovered, Clickable, MenuShown, Players, ShowAudioTracks
<1> QED  BY <1>1, <1>2, <1>3, Zenon

\* The answer to a probe.
LEMMA ProbeKeeps ==
  ASSUME CardInv, NEW who \in {"resolver", "button"}, ProbeEnds(who)
  PROVE  CardInv'
<1> USE DEF ProbeEnds, CardInv
<1>1. probes' \subseteq {"resolver", "button"}  OBVIOUS
<1>2. ASSUME isMounted, ~lost  PROVE probes' = {} /\ request' = "idle"
  BY <1>2, Zenon DEF Spinners
<1>3. ASSUME isMounted, ~lost  PROVE Spinners'
  BY <1>2, <1>3, Zenon DEF Spinners
<1>4. ASSUME isMounted, ~lost  PROVE Uncovered'
  BY <1>2, <1>4, Zenon DEF Uncovered, ShowAudioTracks
<1> QED  BY <1>1, <1>3, <1>4, Zenon

\* ResolvePlayers.
LEMMA ResolveKeeps == ASSUME CardInv, ResolvePlayers  PROVE CardInv'
<1> USE DEF ResolvePlayers, CardInv
<1>1. ASSUME isMounted, ~lost  PROVE probes = {}
  BY <1>1, Zenon DEF Uncovered, Players
<1>2. ASSUME isMounted, ~lost  PROVE Spinners'
  BY <1>1, <1>2, Zenon DEF Spinners
<1>3. ASSUME isMounted, ~lost  PROVE Uncovered'
  BY <1>1, <1>3, Zenon DEF Uncovered, Clickable
<1> QED  BY <1>2, <1>3, Zenon

\* A request for the files that brings none, or fails, and the wait before the next one.
LEMMA NoFilesKeep == ASSUME CardInv, GetEmpty \/ GetFails \/ WaitOver  PROVE CardInv'
<1>1. /\ request \in {"get", "wait"}
      /\ UNCHANGED <<kind, isMounted, polled, resolvedFileList, known, probes, isResolvingAudio,
                     audioTracks, menu, selectedPlayer, inline, lost>>
  BY Zenon DEF GetEmpty, GetFails, WaitOver
<1>2. \/ request' \in {"get", "wait"} /\ isResolvingPlayers' = isResolvingPlayers
      \/ request' = "idle" /\ isResolvingPlayers' = (isResolvingPlayers /\ ~isMounted)
  BY Zenon DEF GetEmpty, GetFails, WaitOver, Resolved
<1>3. ASSUME isMounted, ~lost  PROVE probes = {} /\ isResolvingPlayers
  BY <1>1, <1>3, Zenon DEF CardInv, Spinners
<1>4. ASSUME isMounted, ~lost  PROVE Spinners'
  <2>1. isResolvingPlayers' <=> request' # "idle"
    <3>1. CASE request' \in {"get", "wait"} /\ isResolvingPlayers' = isResolvingPlayers
      BY <1>3, <1>4, <3>1, Zenon
    <3>2. CASE request' = "idle" /\ isResolvingPlayers' = (isResolvingPlayers /\ ~isMounted)
      BY <1>4, <3>2, Zenon
    <3> QED  BY <1>2, <3>1, <3>2, Zenon
  <2> QED  BY <1>1, <1>2, <1>3, <1>4, <2>1, Zenon DEF CardInv, Spinners
<1>5. ASSUME isMounted, ~lost  PROVE Uncovered'
  BY <1>1, <1>3, <1>5, Zenon DEF CardInv, Uncovered
<1> QED  BY <1>1, <1>4, <1>5, Zenon DEF CardInv

\* A request that brings the files.
LEMMA GetFilesKeeps == ASSUME CardInv, GetFiles  PROVE CardInv'
<1> USE DEF CardInv
<1>1. probes' \subseteq {"resolver", "button"} /\ isMounted' = isMounted /\ lost' = lost
  BY Zenon DEF GetFiles
<1>2. ASSUME isMounted, ~lost  PROVE probes = {} /\ request = "get"
  BY <1>2, Zenon DEF Spinners, GetFiles
<1>3. ASSUME isMounted, ~lost  PROVE Spinners'
  <2>1. isResolvingPlayers  BY <1>2, <1>3, Zenon DEF Spinners
  <2>2. CASE request' = "audio"
    BY <1>2, <1>3, <2>1, <2>2, Zenon DEF Spinners, GetFiles, Resolved
  <2>3. CASE request' # "audio"
    <3>1. Resolved /\ UNCHANGED <<isResolvingAudio, probes>>
      BY <2>3, Zenon DEF GetFiles
    <3> QED  BY <1>2, <1>3, <3>1, Zenon DEF Spinners, Resolved
  <2> QED  BY <2>2, <2>3, Zenon
<1>4. ASSUME isMounted, ~lost  PROVE Uncovered'
  <2>1. CASE kind = "gst" /\ known = "unknown"
    <3>1. /\ request' = "audio" /\ resolvedFileList'
          /\ UNCHANGED <<kind, isMounted, audioTracks, known, menu, selectedPlayer, inline>>
      BY <1>4, <2>1, Zenon DEF GetFiles
    <3>2. ~selectedPlayer /\ ~inline /\ menu # "audio" /\ audioTracks = "unknown"
      BY <1>2, <1>4, <2>1, Zenon DEF Uncovered
    <3>3. Clickable'
      BY <1>4, <2>1, <3>1, <3>2, Zenon DEF Clickable, MenuShown, Players
    <3> QED  BY <2>1, <3>1, <3>2, <3>3, Zenon DEF Uncovered
  <2>2. CASE ~(kind = "gst" /\ known = "unknown")
    BY <1>2, <1>4, <2>2, Zenon DEF Uncovered, GetFiles, Resolved, ShowAudioTracks
  <2> QED  BY <2>1, <2>2, Zenon
<1> QED  BY <1>1, <1>3, <1>4, Zenon

\* The poll, what the user opens and closes, and the end of the card.
LEMMA ShownKeeps == ASSUME CardInv, PollFiles \/ Show \/ Unmount  PROVE CardInv'
<1> USE DEF CardInv
<1>1. CASE PollFiles
  <2>1. ASSUME isMounted', ~lost'  PROVE isMounted /\ ~lost /\ ~(polled /\ probes # {})
    BY <1>1, <2>1, Zenon DEF PollFiles
  <2>2. ASSUME isMounted', ~lost'  PROVE Spinners'
    BY <1>1, <2>1, <2>2, Zenon DEF PollFiles, Spinners
  <2>3. ASSUME isMounted', ~lost'  PROVE Uncovered'
    BY <1>1, <2>1, <2>3, Zenon DEF PollFiles, Uncovered, Clickable, MenuShown, Players
  <2> QED  BY <1>1, <2>2, <2>3, Zenon DEF PollFiles
<1>2. CASE Show
  <2>1. ASSUME isMounted, ~lost  PROVE Spinners'
    BY <1>2, <2>1, Zenon DEF Show, Spinners
  <2>2. ASSUME isMounted, ~lost  PROVE Uncovered'
    <3> USE <1>2, <2>2 DEF Show
    <3>1. Uncovered  OBVIOUS
    <3>2. CASE OpenEpisodes
      BY <3>1, <3>2, Zenon DEF OpenEpisodes, Uncovered, Clickable, Players
    <3>3. CASE CloseMenu
      BY <3>1, <3>3, Zenon DEF CloseMenu, Uncovered, Clickable
    <3>4. CASE ChooseInMenu
      BY <3>1, <3>4, Zenon DEF ChooseInMenu, Uncovered, Clickable, MenuShown, Players
    <3>5. CASE ClosePlayer
      BY <3>1, <3>5, Zenon DEF ClosePlayer, Uncovered, Clickable
    <3>6. CASE ToggleInline
      BY <3>1, <3>6, Zenon DEF ToggleInline, Uncovered, Clickable, Players
    <3> QED  BY <3>2, <3>3, <3>4, <3>5, <3>6, Zenon
  <2> QED  BY <1>2, <2>1, <2>2, Zenon DEF Show
<1>3. CASE Unmount  BY <1>3, Zenon DEF Unmount
<1> QED  BY <1>1, <1>2, <1>3, Zenon

\* Whatever the poll, the requests and the user do, in whatever order, a shown card has at
\* most one probe under way, and none that ends behind an open player or menu (resolvePlayers
\* and resolveAudioTracks of the card, which are disabled by their spinners only).
THEOREM PlayAlwaysGuarded == CardInit /\ [][CardNext]_cardVars => []PlayGuarded
<1>1. CardInv /\ [CardNext]_cardVars => CardInv'
  <2> SUFFICES ASSUME CardInv, [CardNext]_cardVars  PROVE CardInv'
    OBVIOUS
  <2>1. CASE UNCHANGED cardVars
    BY <2>1, Zenon DEF cardVars, CardInv, Spinners, Uncovered, Clickable, MenuShown, Players
  <2> QED  BY <2>1, PlayKeeps, ProbeKeeps, ResolveKeeps, NoFilesKeep, GetFilesKeeps,
              ShownKeeps, Zenon
           DEF CardNext, Get, Probe
<1>2. CardInv => PlayGuarded
  <2> SUFFICES ASSUME CardInv, isMounted, ~lost  PROVE PlayGuarded
    BY Zenon DEF PlayGuarded
  <2>1. probes = {} \/ probes = {"resolver"} \/ probes = {"button"}
    BY Zenon DEF CardInv, Spinners
  <2>2. Cardinality(probes) <= 1
    <3>1. Cardinality(probes) = 0 \/ Cardinality(probes) = 1
      BY <2>1, FS_EmptySet, FS_Singleton, Zenon
    <3> QED  BY <3>1
  <2> QED  BY <2>2, Zenon DEF CardInv, Spinners, Uncovered, PlayGuarded
<1> QED  BY <1>1, <1>2, CardInvInit, PTL

-----------------------------------------------------------------------------
\* The dialog.  ChosenPosterKept says nothing of the searches that are to come.  A poster
\* that is the user's alone (kept) needs that none is under way that would set it, and that
\* the title effect does not clear it: the effect clears the poster without asking only
\* where the debounce is skipped and there is no title at all, which happens between two
\* setters of the parse's callback, when the poster is no longer kept.

\* No search that is under way, or that a timer will send, sets the poster.
Unthreatened ==
    /\ posterUrl = "chosen" /\ interacted
    /\ \A s \in BagToSet(searches) : s.interacted /\ ~s.refresh
    /\ \A s \in BagToSet(orphans) : s.interacted

\* Where the callback of a parse and the flag that it sets stand to each other.
Skipping ==
    /\ Settled /\ skipDebounce => parsedTitle = "" /\ callback # "none"
    /\ ~Settled /\ skipDebounce /\ callback = "none" => parsedTitle # ""
    /\ callback = "title" => prevTitleState = title
    /\ callback \in {"name", "parsed"} => ~kept
    /\ callback \in {"none", "title", "name", "parsed"}

DialogInv == Skipping /\ interacted \in BOOLEAN /\ (kept => Unthreatened)

\* What the bags of calls and searches hold.
LEMMA AddedIn == ASSUME NEW B, NEW e  PROVE BagToSet(B (+) SetToBag({e})) = BagToSet(B) \cup {e}
BY Zenon DEF BagToSet, SetToBag, (+)

LEMMA RemovedIn == ASSUME NEW B, NEW e  PROVE BagToSet(B (-) SetToBag({e})) \subseteq BagToSet(B)
BY Zenon DEF BagToSet, SetToBag, (-)

LEMMA EmptyIn == BagToSet(EmptyBag) = {}
BY Zenon DEF BagToSet, EmptyBag, SetToBag

LEMMA DialogInvInit == DialogInit => DialogInv
<1> SUFFICES ASSUME DialogInit  PROVE DialogInv
  OBVIOUS
<1>1. Skipping  BY Zenon DEF DialogInit, Skipping, Settled, Current
<1>2. ASSUME kept  PROVE isEditMode /\ posterUrl = "chosen"
  BY <1>2, Zenon DEF DialogInit
<1>3. ASSUME kept  PROVE Unthreatened
  BY <1>2, <1>3, EmptyIn, Zenon DEF DialogInit, Unthreatened
<1> QED  BY <1>1, <1>3, Zenon DEF DialogInv, DialogInit

\* A step of anything but the effect finds the effect done.  Where it does not start the
\* callback either, it leaves the two in step.
LEMMA EventsInStep ==
  ASSUME DialogInv, Settled, deps' = deps, callback = "none", callback' = "none",
         skipDebounce' = skipDebounce
  PROVE  Skipping'
BY Zenon DEF DialogInv, Skipping

LEMMA CallbackInStep ==
  ASSUME DialogInv, ParseNames \/ Callback
  PROVE  DialogInv'
<1>1. Settled /\ deps' = deps
  BY Zenon DEF ParseNames, Event, Callback, CallbackTitle, CallbackName, CallbackParsed
<1>2. Settled' => <<title, parsedTitle, skipDebounce>>' = <<title, parsedTitle, skipDebounce>>
  BY <1>1, Zenon DEF Settled, Current
<1>3. Skipping'
  <2>1. CASE ParseNames
    BY <1>1, <1>2, <2>1, Zenon DEF ParseNames, Event, DialogInv, Skipping
  <2>2. CASE CallbackTitle
    BY <1>1, <1>2, <2>2, Zenon DEF CallbackTitle, DialogInv, Skipping
  <2>3. CASE CallbackName
    BY <1>1, <1>2, <2>3, Zenon DEF CallbackName, posterVars, DialogInv, Skipping
  <2>4. CASE CallbackParsed
    BY <1>1, <1>2, <2>4, DialogAssumption, Zenon DEF CallbackParsed, DialogInv, Skipping
  <2> QED  BY <2>1, <2>2, <2>3, <2>4, Zenon DEF Callback
<1>4. UNCHANGED <<posterUrl, interacted, searches, orphans>> /\ (kept' => kept)
  <2>1. CASE CallbackTitle  BY <2>1, Zenon DEF CallbackTitle
  <2>2. CASE ParseNames \/ CallbackName \/ CallbackParsed
    BY <2>2 DEF ParseNames, CallbackName, CallbackParsed, posterVars
  <2> QED  BY <2>1, <2>2, Zenon DEF Callback
<1> QED  BY <1>3, <1>4, Zenon DEF DialogInv, Unthreatened

\* A search that keeps to what the user chose threatens nothing.
LEMMA SentKeeps ==
  ASSUME Unthreatened, NEW name, NEW refresh, NEW flag, refresh = FALSE, flag, Send(name, refresh, flag)
  PROVE  \A s \in BagToSet(searches') : s.interacted /\ ~s.refresh
<1> DEFINE e == [name |-> name, refresh |-> refresh, interacted |-> flag]
<1>1. e.interacted = flag /\ e.refresh = refresh  OBVIOUS
<1>2. searches' = searches (+) SetToBag({e})  BY Zenon DEF Send
<1> HIDE DEF e
<1>3. BagToSet(searches') = BagToSet(searches) \cup {e}  BY <1>2, AddedIn, Zenon
<1> QED  BY <1>1, <1>3, Zenon DEF Unthreatened

LEMMA EffectKeeps == ASSUME DialogInv, TitleEffect  PROVE DialogInv'
<1>1. deps' = Current /\ UNCHANGED <<callback, title, parsedTitle, interacted, language, orphans, kept>>
  BY Zenon DEF TitleEffect, sourceVars
<1>2. Skipping'
  <2>1. CASE ~skipDebounce' /\ prevTitleState' = title
    BY <1>1, <2>1, Zenon DEF DialogInv, Skipping
  <2>2. CASE ~skipDebounce /\ UNCHANGED <<skipDebounce, prevTitleState>>
    <3>1. ~skipDebounce'  BY <2>2, Zenon
    <3> QED  BY <1>1, <2>2, <3>1, Zenon DEF DialogInv, Skipping
  <2>3. CASE title = prevTitleState /\ parsedTitle = "" /\ UNCHANGED <<skipDebounce, prevTitleState>>
    <3>1. Settled'  BY <1>1, <2>3, Zenon DEF Settled, Current
    <3>2. skipDebounce' <=> skipDebounce  BY <2>3, Zenon
    <3>3. skipDebounce => callback # "none"
      BY <2>3, Zenon DEF DialogInv, Skipping, TitleEffect
    <3> QED  BY <1>1, <2>3, <3>1, <3>2, <3>3, Zenon DEF DialogInv, Skipping
  <2> QED  BY <2>1, <2>2, <2>3, Zenon DEF TitleEffect, DialogInv
<1>3. ASSUME kept, Unthreatened  PROVE Unthreatened'
  <2>1. CASE UNCHANGED <<posterUrl, searches>>
    BY <1>1, <1>3, <2>1, Zenon DEF Unthreatened
  <2>2. ASSUME NEW name, PosterSearch(name, FALSE), name # ""  PROVE Unthreatened'
    <3>1. Send(name, FALSE, interacted) /\ posterUrl' = posterUrl
      BY <2>2, Zenon DEF PosterSearch
    <3>2. \A s \in BagToSet(searches') : s.interacted /\ ~s.refresh
      BY <1>3, <3>1, SentKeeps, Zenon DEF Unthreatened
    <3> QED  BY <1>1, <1>3, <3>1, <3>2, Zenon DEF Unthreatened
  <2>3. CASE skipDebounce /\ (title # prevTitleState \/ parsedTitle # "")
    <3>1. ~Settled /\ PosterSearch(IF title # "" THEN title ELSE parsedTitle, FALSE)
      BY <2>3, Zenon DEF TitleEffect
    <3>2. (IF title # "" THEN title ELSE parsedTitle) # ""
      BY <1>3, <2>3, <3>1, Zenon DEF DialogInv, Skipping
    <3> QED  BY <2>2, <3>1, <3>2, Zenon
  <2>4. CASE ~skipDebounce /\ title = ""
    <3>1. CASE PosterSearch(parsedTitle, FALSE) /\ parsedTitle # ""
      BY <2>2, <3>1, Zenon
    <3>2. CASE UNCHANGED <<posterUrl, searches>>
      BY <2>1, <3>2, Zenon
    <3> QED  BY <1>3, <2>4, <3>1, <3>2, Zenon DEF TitleEffect, Unthreatened
  <2> QED  BY <2>1, <2>3, <2>4, Zenon DEF TitleEffect
<1> QED  BY <1>1, <1>2, <1>3, Zenon DEF DialogInv

\* Timers and answers: what is sent and what is answered keeps to what the user chose.
LEMMA SearchesKeep ==
  ASSUME DialogInv,
         \/ FireDelayed
         \/ \E s \in BagToSet(orphans) : FireOrphan(s)
         \/ \E s \in BagToSet(searches) : Answer(s)
  PROVE  DialogInv'
<1>1. /\ Settled /\ callback = "none"
      /\ UNCHANGED <<deps, callback, skipDebounce, kept, interacted>>
  BY Zenon DEF FireDelayed, FireOrphan, Answer, sourceVars
<1>2. Skipping'  BY <1>1, EventsInStep, Zenon
<1>3. ASSUME kept, Unthreatened  PROVE Unthreatened'
  <2>1. CASE FireDelayed
    <3>1. Send(delayed, FALSE, interacted) /\ UNCHANGED <<posterUrl, orphans>>
      BY <2>1, Zenon DEF FireDelayed
    <3>2. \A s \in BagToSet(searches') : s.interacted /\ ~s.refresh
      BY <1>3, <3>1, SentKeeps, Zenon DEF Unthreatened
    <3> QED  BY <1>1, <1>3, <3>1, <3>2, Zenon DEF Unthreatened
  <2>2. CASE \E s \in BagToSet(orphans) : FireOrphan(s)
    <3>1. PICK s \in BagToSet(orphans) : FireOrphan(s)
      BY <2>2, Zenon
    <3>2. Send(s.name, FALSE, s.interacted) /\ orphans' = orphans (-) SetToBag({s}) /\ UNCHANGED posterUrl
      BY <3>1, Zenon DEF FireOrphan
    <3>3. \A x \in BagToSet(searches') : x.interacted /\ ~x.refresh
      BY <1>3, <3>2, SentKeeps, Zenon DEF Unthreatened
    <3> QED  BY <1>1, <1>3, <3>2, <3>3, RemovedIn, Zenon DEF Unthreatened
  <2>3. CASE \E s \in BagToSet(searches) : Answer(s)
    <3>1. PICK s \in BagToSet(searches) : Answer(s)
      BY <2>3, Zenon
    <3>2. searches' = searches (-) SetToBag({s}) /\ UNCHANGED <<posterUrl, orphans>>
      BY <1>3, <3>1, Zenon DEF Answer, Unthreatened
    <3> QED  BY <1>1, <1>3, <3>2, RemovedIn, Zenon DEF Unthreatened
  <2> QED  BY <2>1, <2>2, <2>3, Zenon
<1> QED  BY <1>1, <1>2, <1>3, Zenon DEF DialogInv

\* The poster's own events: with no search under way that would set the poster, the
\* debounced search that the change replaces keeps to it as well.
LEMMA ChoiceKeeps ==
  ASSUME DialogInv, ChoosePoster \/ TypePoster \/ ClearPoster
  PROVE  DialogInv'
<1>1. /\ Settled /\ callback = "none"
      /\ UNCHANGED <<deps, callback, skipDebounce, searches>>
  BY Zenon DEF ChoosePoster, TypePoster, ClearPoster, FormEvent, UserEvent, Event, sourceVars
<1>2. Skipping'  BY <1>1, EventsInStep, Zenon
<1>3. interacted' \in BOOLEAN
  BY Zenon DEF ChoosePoster, TypePoster, ClearPoster, SetInteracted
<1>4. ASSUME kept'  PROVE Unthreatened'
  <2>1. posterUrl' = "chosen" /\ ~Automatic /\ SetInteracted(TRUE)
    <3>1. CASE ChoosePoster  BY <1>4, <3>1, Zenon DEF ChoosePoster
    <3>2. CASE TypePoster
      <4>1. posterUrl' # "" /\ posterUrl' \in {"", "chosen"} /\ ~Automatic /\ SetInteracted(posterUrl' # "")
        BY <1>4, <3>2, Zenon DEF TypePoster
      <4>2. (posterUrl' # "") = TRUE  BY <4>1, Zenon
      <4> QED  BY <4>1, <4>2, Zenon
    <3>3. CASE ClearPoster  BY <1>4, <3>3, Zenon DEF ClearPoster
    <3> QED  BY <3>1, <3>2, <3>3, Zenon
  <2>2. \A s \in BagToSet(orphans') : s.interacted
    <3>1. \A s \in BagToSet(orphans) : s.interacted
      BY <2>1, Zenon DEF Automatic
    <3>2. CASE orphans' = orphans  BY <3>1, <3>2, Zenon
    <3>3. CASE orphans' # orphans
      <4>1. /\ delayed # ""
            /\ orphans' = orphans (+) SetToBag({[name |-> delayed, refresh |-> FALSE, interacted |-> interacted]})
        BY <2>1, <3>3, Zenon DEF SetInteracted
      <4>2. interacted  BY <2>1, <4>1, Zenon DEF Automatic
      <4> DEFINE e == [name |-> delayed, refresh |-> FALSE, interacted |-> interacted]
      <4>3. e.interacted = interacted  OBVIOUS
      <4>4. orphans' = orphans (+) SetToBag({e})  BY <4>1, Zenon
      <4> HIDE DEF e
      <4>5. BagToSet(orphans') = BagToSet(orphans) \cup {e}  BY <4>4, AddedIn, Zenon
      <4> QED  BY <3>1, <4>2, <4>3, <4>5, Zenon
    <3> QED  BY <3>2, <3>3, Zenon
  <2>3. \A s \in BagToSet(searches') : s.interacted /\ ~s.refresh
    BY <1>1, <2>1, Zenon DEF Automatic
  <2> QED  BY <2>1, <2>2, <2>3, Zenon DEF Unthreatened, SetInteracted
<1> QED  BY <1>2, <1>3, <1>4, Zenon DEF DialogInv

\* The other events.
LEMMA FormKeeps ==
  ASSUME DialogInv,
         \/ Rerender \/ ParseFails \/ TypeTitle \/ UpdatePoster \/ SwitchLanguage
         \/ RestoreTitle \/ TypeSource \/ ClearSource
  PROVE  DialogInv'
<1>1. /\ Settled /\ callback = "none"
      /\ UNCHANGED <<deps, callback, skipDebounce>>
  BY Zenon DEF Rerender, ParseFails, TypeTitle, UpdatePoster, SwitchLanguage, RestoreTitle,
     TypeSource,
         ClearSource, FormEvent, UserEvent, Event, sourceVars
<1>2. Skipping'  BY <1>1, EventsInStep, Zenon
<1>3. CASE UpdatePoster
  <2>1. PICK name \in ButtonTitles : PosterSearch(name, FALSE) /\ kept' = (kept /\ name # "")
    BY <1>3, Zenon DEF UpdatePoster
  <2>2. UNCHANGED <<interacted, orphans>>  BY <1>3, Zenon DEF UpdatePoster
  <2>3. ASSUME kept'  PROVE Unthreatened'
    <3>1. kept /\ Unthreatened /\ name # ""
      BY <2>1, <2>3, Zenon DEF DialogInv
    <3>2. Send(name, FALSE, interacted) /\ posterUrl' = posterUrl
      BY <2>1, <3>1, Zenon DEF PosterSearch
    <3>3. \A s \in BagToSet(searches') : s.interacted /\ ~s.refresh
      BY <3>1, <3>2, SentKeeps, Zenon DEF Unthreatened
    <3> QED  BY <2>2, <3>1, <3>2, <3>3, Zenon DEF Unthreatened
  <2> QED  BY <1>2, <2>2, <2>3, Zenon DEF DialogInv
<1>4. CASE SwitchLanguage \/ RestoreTitle \/ ClearSource
  BY <1>2, <1>4, Zenon DEF SwitchLanguage, RestoreTitle, ClearSource, SetInteracted, DialogInv
<1>5. CASE Rerender \/ ParseFails \/ TypeTitle \/ TypeSource
  <2>1. UNCHANGED <<interacted, kept, posterUrl, searches, orphans>>
    BY <1>5, Zenon DEF Rerender, ParseFails, TypeTitle, TypeSource, posterVars
  <2> QED  BY <1>2, <2>1, Zenon DEF DialogInv, Unthreatened
<1> QED  BY <1>3, <1>4, <1>5, Zenon

\* A poster that the user chose while nothing that could set it was under way stays, for
\* any titles and any number of events: what searches, timers and the callbacks of parses
\* do later, in whatever order, only changes the suggestions (posterSearch, the title
\* effect and updateTitleFromSource of the dialog).
THEOREM ChosenStays == DialogInit /\ [][DialogNext]_dialogVars => []ChosenPosterKept
<1>1. DialogInv /\ [DialogNext]_dialogVars => DialogInv'
  <2> SUFFICES ASSUME DialogInv, [DialogNext]_dialogVars  PROVE DialogInv'
    OBVIOUS
  <2>1. CASE UNCHANGED dialogVars
    BY <2>1, Zenon DEF dialogVars, DialogInv, Skipping, Settled, Current, Unthreatened
  <2> QED  BY <2>1, CallbackInStep, EffectKeeps, SearchesKeep, ChoiceKeeps, FormKeeps,
              Zenon DEF DialogNext
<1>2. DialogInv => ChosenPosterKept
  BY Zenon DEF DialogInv, Unthreatened, ChosenPosterKept
<1> QED  BY <1>1, <1>2, DialogInvInit, PTL
==============================================================================
