------------------------------- MODULE CardPlayer -------------------------------
(***************************************************************************)
(* The Play button of a torrent's card (components/TorrentCard) on a       *)
(* server with transcoding.  While the card knows no files the button asks *)
(* the server for them, up to Attempts times; with one file that has to be *)
(* transcoded it asks for the file's audio tracks and opens a menu or the  *)
(* player.  Meanwhile the polled torrent may bring the files by itself, or *)
(* lose them, which changes the button, and the card may go.  The browser  *)
(* is one that plays HLS and the episodes of a torrent with several.       *)
(***************************************************************************)
EXTENDS Naturals, FiniteSets

CONSTANTS Attempts      \* attemptsLeft of requestTorrentFiles

ASSUME CardAssumption == Attempts \in Nat \ {0}

\* What the torrent holds: one file that plays as it is or that the browser cannot play,
\* one to be transcoded, several, or none that plays.
Kinds == {"plain", "foreign", "gst", "many", "none"}

VARIABLES
    kind,
    isMounted,
    polled,                 \* whether the polled torrent has its file list
    resolvedFileList,       \* whether requestTorrentFiles brought it
    request,                \* where requestTorrentFiles stands
    attemptsLeft,
    known,                  \* audioTracks when it was started: a closure keeps them
    isResolvingPlayers,
    playerResolveFailed,
    probes,                 \* who awaits the audio tracks: the "resolver", the "button"
    isResolvingAudio,
    audioTracks,            \* "unknown", or whether there are "some" or "no" tracks
    menu,                   \* the menu that is open: "", "audio" or "episodes"
    selectedPlayer,         \* whether a player of the card is open
    inline,                 \* whether the player of a plain file's own button is open
    lost                    \* whether the polled files went while a probe was under way

cardVars == <<kind, isMounted, polled, resolvedFileList, request, attemptsLeft, known, isResolvingPlayers,
              playerResolveFailed, probes, isResolvingAudio, audioTracks, menu, selectedPlayer, inline, lost>>

CardTypeOK ==
    /\ kind \in Kinds
    /\ {isMounted, polled, resolvedFileList, isResolvingPlayers, playerResolveFailed,
        isResolvingAudio, selectedPlayer, inline, lost} \subseteq BOOLEAN
    /\ request \in {"idle", "get", "wait", "audio"}
    /\ attemptsLeft \in 0 .. Attempts
    /\ probes \subseteq {"resolver", "button"}
    /\ {audioTracks, known} \subseteq {"unknown", "some", "no"}
    /\ menu \in {"", "audio", "episodes"}

CardInit ==
    /\ kind \in Kinds
    /\ isMounted = TRUE
    /\ polled = FALSE
    /\ resolvedFileList = FALSE
    /\ request = "idle"
    /\ attemptsLeft = 0
    /\ known = "unknown"
    /\ isResolvingPlayers = FALSE
    /\ playerResolveFailed = FALSE
    /\ probes = {}
    /\ isResolvingAudio = FALSE
    /\ audioTracks = "unknown"
    /\ menu = ""
    /\ selectedPlayer = FALSE
    /\ inline = FALSE
    /\ lost = FALSE

\* The players that the card shows.
Players == IF polled \/ resolvedFileList THEN kind ELSE "none"

\* A menu is rendered beside its button.
MenuShown == (menu = "audio" /\ Players = "gst") \/ (menu = "episodes" /\ Players = "many")

\* An open menu or player covers the card.
Clickable == isMounted /\ ~MenuShown /\ ~selectedPlayer /\ ~inline

-----------------------------------------------------------------------------
(* Audio tracks.                                                           *)

\* showAudioTracks: the menu, or the player when there is nothing to choose.
ShowAudioTracks(tracks) ==
    /\ menu' = IF tracks = "some" THEN "audio" ELSE menu
    /\ selectedPlayer' = (selectedPlayer \/ tracks = "no")

ClickPlay ==
    /\ Clickable /\ Players = "gst"
    /\ \/ /\ audioTracks # "unknown"
          /\ ShowAudioTracks(audioTracks)
          /\ UNCHANGED <<probes, isResolvingAudio>>
       \/ /\ audioTracks = "unknown"
          /\ isResolvingAudio' = TRUE
          /\ probes' = probes \cup {"button"}
          /\ UNCHANGED <<menu, selectedPlayer>>
    /\ UNCHANGED <<kind, isMounted, polled, resolvedFileList, request, attemptsLeft, known,
                   isResolvingPlayers, playerResolveFailed, audioTracks, inline, lost>>

\* Mutant: the button is disabled only by its own probe.
PlayGstEager == ~isResolvingAudio /\ ClickPlay

\* resolveAudioTracks from the button, which is disabled while a spinner turns.
PlayGst == ~isResolvingAudio /\ ~isResolvingPlayers /\ ClickPlay

\* The answer to a probe, or its failure, and what follows the await in resolvePlayers.
ProbeEnds(who) ==
    /\ who \in probes
    /\ probes' = probes \ {who}
    /\ request' = IF who = "resolver" THEN "idle" ELSE request
    /\ \/ ~isMounted /\ UNCHANGED <<audioTracks, menu, selectedPlayer, isResolvingAudio, isResolvingPlayers>>
       \/ /\ isMounted
          /\ \/ \E tracks \in {"some", "no"} : audioTracks' = tracks /\ ShowAudioTracks(tracks)
             \/ selectedPlayer' = TRUE /\ UNCHANGED <<audioTracks, menu>>
          /\ isResolvingAudio' = FALSE
          /\ isResolvingPlayers' = (isResolvingPlayers /\ who # "resolver")
    /\ UNCHANGED <<kind, isMounted, polled, resolvedFileList, attemptsLeft, known,
                   playerResolveFailed, inline, lost>>

-----------------------------------------------------------------------------
(* The files.                                                              *)

ResolvePlayers ==
    /\ Clickable /\ Players = "none"
    /\ ~playerResolveFailed /\ ~isResolvingPlayers
    /\ isResolvingPlayers' = TRUE
    /\ request' = "get"
    /\ attemptsLeft' = Attempts
    /\ known' = audioTracks
    /\ UNCHANGED <<kind, isMounted, polled, resolvedFileList, playerResolveFailed, probes,
                   isResolvingAudio, audioTracks, menu, selectedPlayer, inline, lost>>

\* The end of resolvePlayers other than after a probe.
Resolved ==
    /\ request' = "idle"
    /\ isResolvingPlayers' = (isResolvingPlayers /\ ~isMounted)

\* The request for the files is answered without files: another one, or the last one.
GetEmpty ==
    /\ request = "get"
    /\ \/ isMounted /\ attemptsLeft > 1 /\ request' = "wait" /\ UNCHANGED <<isResolvingPlayers, playerResolveFailed>>
       \/ ~(isMounted /\ attemptsLeft > 1) /\ Resolved /\ playerResolveFailed' = (playerResolveFailed \/ isMounted)
    /\ UNCHANGED <<kind, isMounted, polled, resolvedFileList, attemptsLeft, known, probes,
                   isResolvingAudio, audioTracks, menu, selectedPlayer, inline, lost>>

\* Mutant: attemptsLeft is passed on as it is.
WaitOverAgain ==
    /\ request = "wait"
    /\ \/ isMounted /\ request' = "get" /\ UNCHANGED <<attemptsLeft, isResolvingPlayers>>
       \/ ~isMounted /\ Resolved /\ UNCHANGED attemptsLeft
    /\ UNCHANGED <<kind, isMounted, polled, resolvedFileList, known, playerResolveFailed, probes,
                   isResolvingAudio, audioTracks, menu, selectedPlayer, inline, lost>>

WaitOver ==
    /\ request = "wait"
    /\ \/ isMounted /\ request' = "get" /\ attemptsLeft' = attemptsLeft - 1 /\ UNCHANGED isResolvingPlayers
       \/ ~isMounted /\ Resolved /\ UNCHANGED attemptsLeft
    /\ UNCHANGED <<kind, isMounted, polled, resolvedFileList, known, playerResolveFailed, probes,
                   isResolvingAudio, audioTracks, menu, selectedPlayer, inline, lost>>

GetFails ==
    /\ request = "get"
    /\ Resolved
    /\ playerResolveFailed' = (playerResolveFailed \/ isMounted)
    /\ UNCHANGED <<kind, isMounted, polled, resolvedFileList, attemptsLeft, known, probes,
                   isResolvingAudio, audioTracks, menu, selectedPlayer, inline, lost>>

\* The files are there: the player, the probe of the only file, or the menu of episodes.
GetFiles ==
    /\ request = "get"
    /\ resolvedFileList' = (resolvedFileList \/ isMounted)
    /\ \/ /\ isMounted /\ kind = "gst" /\ known = "unknown"
          /\ request' = "audio"
          /\ isResolvingAudio' = TRUE
          /\ probes' = probes \cup {"resolver"}
          /\ UNCHANGED <<isResolvingPlayers, playerResolveFailed, menu, selectedPlayer>>
       \/ /\ isMounted /\ kind = "gst" /\ known # "unknown"
          /\ ShowAudioTracks(known) /\ Resolved
          /\ UNCHANGED <<isResolvingAudio, probes, playerResolveFailed>>
       \/ /\ ~isMounted \/ kind # "gst"
          /\ selectedPlayer' = (selectedPlayer \/ (isMounted /\ kind = "plain"))
          /\ menu' = IF isMounted /\ kind = "many" THEN "episodes" ELSE menu
          /\ playerResolveFailed' = (playerResolveFailed \/ (isMounted /\ kind = "none"))
          /\ Resolved
          /\ UNCHANGED <<isResolvingAudio, probes>>
    /\ UNCHANGED <<kind, isMounted, polled, attemptsLeft, known, audioTracks, inline, lost>>

\* The polled torrent has its file list, or has it no more: the server dropped it and its
\* record names no files.
PollFiles ==
    /\ isMounted
    /\ polled' = ~polled
    /\ inline' = (inline /\ (polled' \/ resolvedFileList))
    /\ lost' = (lost \/ (polled /\ probes # {}))
    /\ UNCHANGED <<kind, isMounted, resolvedFileList, request, attemptsLeft, known, isResolvingPlayers,
                   playerResolveFailed, probes, isResolvingAudio, audioTracks, menu, selectedPlayer>>

-----------------------------------------------------------------------------
(* Menus and players.                                                      *)

OpenEpisodes == Clickable /\ Players = "many" /\ menu' = "episodes" /\ UNCHANGED <<selectedPlayer, inline>>
CloseMenu == MenuShown /\ menu' = "" /\ UNCHANGED <<selectedPlayer, inline>>
ChooseInMenu == MenuShown /\ menu' = "" /\ selectedPlayer' = TRUE /\ UNCHANGED inline
ClosePlayer == selectedPlayer /\ selectedPlayer' = FALSE /\ UNCHANGED <<menu, inline>>
ToggleInline == (inline \/ (Clickable /\ Players = "plain")) /\ inline' = ~inline /\ UNCHANGED <<menu, selectedPlayer>>

Show ==
    /\ isMounted
    /\ OpenEpisodes \/ CloseMenu \/ ChooseInMenu \/ ClosePlayer \/ ToggleInline
    /\ UNCHANGED <<kind, isMounted, polled, resolvedFileList, request, attemptsLeft, known,
                   isResolvingPlayers, playerResolveFailed, probes, isResolvingAudio, audioTracks, lost>>

\* The torrent is deleted; its card and what it shows go.
Unmount ==
    /\ isMounted
    /\ isMounted' = FALSE
    /\ menu' = ""
    /\ selectedPlayer' = FALSE
    /\ inline' = FALSE
    /\ UNCHANGED <<kind, polled, resolvedFileList, request, attemptsLeft, known,
                   isResolvingPlayers, playerResolveFailed, probes, isResolvingAudio, audioTracks, lost>>

Get == GetEmpty \/ GetFails \/ GetFiles
Probe == \E who \in {"resolver", "button"} : ProbeEnds(who)

CardNext ==
    \/ PlayGst \/ ResolvePlayers \/ Show
    \/ Get \/ WaitOver \/ Probe \/ PollFiles \/ Unmount

\* Requests are answered or fail, and the wait between two of them ends.
CardFairness == WF_cardVars(Get) /\ WF_cardVars(WaitOver) /\ WF_cardVars(Probe)

-----------------------------------------------------------------------------
\* While the card is shown its spinners turn exactly as long as what they stand for is
\* under way; two probes never overlap, although the files may come from the request and
\* from the poll at once, and none ends behind an open player or menu to put another over it.
\* (Not so if the polled files go while a probe is under way: the button of a card without
\* files is not disabled by it.)
PlayGuarded ==
    isMounted /\ ~lost =>
        /\ isResolvingPlayers <=> request # "idle"
        /\ isResolvingAudio <=> probes # {}
        /\ Cardinality(probes) <= 1
        /\ probes # {} => Clickable

\* A card that is looking for its files stops: its button is not disabled for good.
ResolveEnds == isResolvingPlayers ~> (~isResolvingPlayers \/ ~isMounted)
=============================================================================
