----------------------------- MODULE TranscodeTask -----------------------------
(***************************************************************************)
(* One remuxing task (gstreamer/task.go) and its pipeline (pipeline_gst.go): *)
(* requests for the init segment and for media segments, which hold the    *)
(* task's lock while they seek, read and write to the client; the bus      *)
(* watch of the pipeline, which runs beside them; the freezing of an       *)
(* inactive task; its disposal.                                            *)
(* A stream is a sequence of NSegments segments.  A pipeline that is up    *)
(* produces them in order from where it was started; positions are counted *)
(* in segments.  The cue timeline is never used (shouldUseCueTimeline).    *)
(***************************************************************************)
EXTENDS Integers, FiniteSets

CONSTANTS
    Requests,       \* HTTP requests that may be under way at the same time
    NSegments,      \* segments of the stream
    NAudio,         \* audio tracks, numbered from 1
    CatchUp,        \* maxSegmentCatchupSeconds / SegmentSeconds
    Starts, Wanted, \* segments asked for with an init segment, and by themselves
    MaxRequests,    \* bound on the requests of a behaviour
    MaxFailures     \* bound on the failures of the bus

VARIABLES
    mu,             \* holder of Task.mu, or "none"
    audio,          \* Task.Audio
    lastSent,       \* Task.LastSentSegment
    disposed,       \* Task.disposed
    r,              \* the runner, a record of Runner below
    req,            \* each request: where it stands, what it asks for, and the
                    \*   segment its GetSegment is reading
    served,         \* what the latest request got: asked for and delivered
    drifted,        \* history: the pipeline stands elsewhere than lastSent says
    asked, failed   \* requests made and bus failures so far

task == <<mu, audio, lastSent, disposed>>
bounds == <<asked, failed>>
vars == <<task, r, req, served, drifted, bounds>>

Segments == 0 .. NSegments - 1
Audios == 1 .. NAudio
Asks == [kind : {"init"}, index : Starts, audio : Audios]
            \cup [kind : {"segment"}, index : Wanted, audio : Audios]

ASSUME TaskAssumption ==
    /\ "none" \notin Requests
    /\ NSegments \in Nat \ {0} /\ NAudio \in Nat \ {0} /\ CatchUp \in Nat
    /\ Starts \subseteq Segments /\ Wanted \subseteq Segments
    /\ MaxRequests \in Nat /\ MaxFailures \in Nat

Idle == [at |-> "idle", kind |-> "init", index |-> 0, audio |-> 1, cur |-> 0]
NothingServed == [index |-> 0, audio |-> 1, content |-> 0, track |-> 1]

\* nil: Task.runner was cleared.  up: there is a pipeline, made for track and with
\* segment next to come.  ready: the index and the content of the complete segment,
\* or -1.  init: Task.initMP4, the track it was made for, or 0.  watch: the bus
\* watch is running.  err: busError, and freezers: the pending freezeBusGeneration
\* goroutines.  Generations are only compared with watchGeneration, so each of the
\* two says whether its generation is the current one or an older one.
Generations == {"current", "older"}
Runner == [nil : BOOLEAN, init : 0 .. NAudio, audio : Audios, playing : BOOLEAN,
           frozen : BOOLEAN, position : 0 .. NSegments, up : BOOLEAN,
           track : 0 .. NAudio, next : 0 .. NSegments, ready : -1 .. NSegments - 1,
           content : -1 .. NSegments - 1, watch : BOOLEAN,
           err : {"none"} \cup Generations, freezers : SUBSET Generations]

\* The types of the variables; positions stay within the stream.
TypeOK ==
    /\ mu \in Requests \cup {"none"}
    /\ audio \in Audios
    /\ lastSent \in -1 .. NSegments - 1
    /\ disposed \in BOOLEAN
    /\ r \in Runner
    /\ req \in [Requests -> [at : {"idle", "ensure", "pullInit", "init", "writeInit",
                                  "segment", "pull", "write"},
                            kind : {"init", "segment"}, index : Segments,
                            audio : Audios, cur : Segments]]
    /\ served \in [index : Segments, audio : Audios, content : Segments, track : Audios]
    /\ drifted \in BOOLEAN
    /\ asked \in 0 .. MaxRequests /\ failed \in 0 .. MaxFailures

Init ==
    /\ mu = "none" /\ audio = 1 /\ lastSent = -1 /\ disposed = FALSE
    /\ r = [nil |-> FALSE, init |-> 0, audio |-> 1, playing |-> FALSE, frozen |-> FALSE,
            position |-> 0, up |-> FALSE, track |-> 0, next |-> 0, ready |-> -1,
            content |-> -1, watch |-> FALSE, err |-> "none", freezers |-> {}]
    /\ req = [p \in Requests |-> Idle]
    /\ served = NothingServed /\ drifted = FALSE
    /\ asked = 0 /\ failed = 0

-----------------------------------------------------------------------------
(* The runner.                                                             *)

\* watchGeneration is advanced: those that remember it are outdated.
Older(g) == IF g = "current" THEN "older" ELSE g
NextGeneration(q) == [q EXCEPT !.err = Older(@), !.freezers = {Older(g) : g \in @}]

\* stopPipeline, releaseTransientState, clearInitMP4: everything is let go.
Stop(q) == [NextGeneration(q) EXCEPT !.init = 0, !.up = FALSE, !.track = 0, !.next = 0,
                                     !.ready = -1, !.content = -1, !.playing = FALSE,
                                     !.watch = FALSE, !.err = "none"]

\* freezeAtPosition.
Freeze(q, i) == [Stop(q) EXCEPT !.frozen = TRUE, !.position = i]

\* startPipeline and reusePipeline: on success the pipeline stands at segment i with
\* a bus watch of its own, for the audio track it was made for.
Start(q, i) ==
    [NextGeneration(q) EXCEPT
        !.up = TRUE, !.track = IF q.up THEN @ ELSE q.audio, !.next = i,
        !.ready = -1, !.content = -1, !.playing = TRUE, !.frozen = FALSE,
        !.position = i, !.watch = TRUE, !.err = "none"]

\* Seek may fail and freeze; in EnsureInit and GetSegment so may startPipeline.
Seek(q, i) == {Start(q, i), Freeze(q, i)}

\* Mutant: the pipeline goes on with the track it was made for.
SetAudioLater(q, a, i) == [q EXCEPT !.audio = a]

\* A change of the audio track stops the pipeline, to be started again at i.
SetAudio(q, a, i) == IF q.audio = a THEN q ELSE Freeze([q EXCEPT !.audio = a], i)

\* The states in which EnsureInit starts to pull, or has failed (frozen).
RunnerEnsure(q, a, i) ==
    LET s == SetAudio(q, a, i)
    IN  IF s.frozen \/ ~s.playing \/ (i > 0 /\ s.position # i) THEN Seek(s, i) ELSE {s}

\* The same for GetSegment; a frozen runner resumes at its own position.
RunnerGet(q, a, i) ==
    LET s == SetAudio(q, a, i)
    IN  IF s.frozen THEN Seek(s, s.position)
        ELSE IF ~s.playing THEN Seek(s, i) ELSE {s}

\* Mutant: the position is taken past the end of the segment.
AcceptPast(q, i) == [q EXCEPT !.init = q.track, !.ready = i, !.content = q.next,
                              !.next = @ + 1, !.position = q.next + 2]

\* acceptSegment: the next segment is complete and is taken for segment i.
Accept(q, i) == [q EXCEPT !.init = q.track, !.ready = i, !.content = q.next,
                          !.next = @ + 1, !.position = q.next + 1]

\* completeReadySegment in EnsureInit: a complete segment is taken for segment i.
Relabel(q, i) == IF q.ready = -1 THEN q ELSE [q EXCEPT !.ready = i]

Discard(q) == [q EXCEPT !.ready = -1, !.content = -1]

-----------------------------------------------------------------------------
(* Requests.                                                               *)

GoTo(p, at) == req' = [req EXCEPT ![p].at = at]
Return(p) == req' = [req EXCEPT ![p] = Idle]

\* The handlers initMP4 and master, and the handler segment, which looks for an
\* init segment without the lock.
Ask(p, a) ==
    /\ req[p].at = "idle" /\ asked < MaxRequests /\ ~disposed
    /\ req' = [req EXCEPT ![p] = [kind |-> a.kind, index |-> a.index, audio |-> a.audio,
                                  at |-> IF a.kind = "init" \/ r.init = 0 THEN "ensure"
                                         ELSE "segment", cur |-> 0]]
    /\ asked' = asked + 1 /\ served' = NothingServed
    /\ UNCHANGED <<task, r, drifted, failed>>

\* EnsureInit has succeeded: the handler goes on to the init segment or to the segment.
Ensured(p) == GoTo(p, req[p].kind)

\* LastSentSegment when EnsureInit has done something for segment i.
SentBefore(i) == IF i > 0 /\ lastSent = -1 THEN i - 1 ELSE lastSent

\* The segment after the one sent last is ready, or the next to come.
InOrder(q, sent) == (IF q.ready = sent + 1 THEN q.content ELSE q.next) = sent + 1

\* setInitMP4 and clearInitMP4 wait until nobody reads the init segment any more.  The
\* step they are part of waits as a whole: it holds Task.mu, or is about to take it, and
\* what can happen meanwhile does not depend on how far it got.
InitMu == r'.init = r.init \/ \A p \in Requests : req[p].at # "writeInit"

\* The early return of Task.EnsureInit: an init segment of this track is to hand.
HasInit(i, a) == r.init # 0 /\ audio = a /\ (i = 0 \/ lastSent # -1)

EnsureInitShort(p) ==
    /\ req[p].at = "ensure" /\ mu = "none"
    /\ HasInit(req[p].index, req[p].audio)
    /\ Ensured(p)
    /\ UNCHANGED <<task, r, served, drifted, bounds>>

\* Task.EnsureInit freezes the runner when the track changes.
FreezeFor(a) == IF audio = a \/ r.frozen THEN r ELSE Freeze(r, r.position)

\* Task.EnsureInit otherwise: the runner is made to stand at the segment, and the
\* request goes on to pull if there is no init segment yet.
EnsureInit(p) ==
    LET i == req[p].index
        a == req[p].audio
    IN
    /\ req[p].at = "ensure" /\ mu = "none"
    /\ ~HasInit(i, a)
    /\ audio' = a
    /\ \/ r.nil /\ Return(p) /\ UNCHANGED <<r, mu, lastSent, drifted>>
       \/ /\ ~r.nil
          /\ \E q \in RunnerEnsure(FreezeFor(a), a, i) :
               /\ r' = IF q.init # 0 THEN Relabel(q, i) ELSE q
               /\ \/ q.frozen /\ Return(p) /\ UNCHANGED <<mu, lastSent>>
                  \/ ~q.frozen /\ q.init # 0 /\ Ensured(p) /\ lastSent' = SentBefore(i)
                     /\ UNCHANGED mu
                  \/ ~q.frozen /\ q.init = 0 /\ GoTo(p, "pullInit") /\ mu' = p
                     /\ UNCHANGED lastSent
          /\ drifted' = (r'.up /\ ~InOrder(r', lastSent'))
    /\ InitMu
    /\ UNCHANGED <<disposed, served, bounds>>

\* EnsureInit pulls the init segment, alone or with the first media segment.
PullInit(p) ==
    /\ req[p].at = "pullInit" /\ r.err = "none"
    /\ \/ r' = [r EXCEPT !.init = r.track]
       \/ r.next < NSegments /\ r' = Accept(r, req[p].index)
    /\ lastSent' = SentBefore(req[p].index)
    /\ drifted' = ~InOrder(r', lastSent')
    /\ mu' = "none" /\ Ensured(p) /\ InitMu
    /\ UNCHANGED <<audio, disposed, served, bounds>>

\* The handler initMP4 writes the init segment to its client under initMu, not Task.mu,
\* if there still is one and the client has not gone.  The handler master only looks.
WithInitMP4(p) ==
    /\ req[p].at = "init"
    /\ \/ Return(p)
       \/ r.init # 0 /\ GoTo(p, "writeInit")
    /\ UNCHANGED <<task, r, served, drifted, bounds>>

\* Task.segmentLocked seeks to the segment first.
SeeksTo(i, a) ==
    \/ audio # a \/ r.frozen
    \/ lastSent = -1 /\ i > 0
    \/ lastSent # -1 /\ (i < lastSent \/ i - lastSent > CatchUp)

\* Mutant: the segments in between are not read.
ReadFromAhead(i, a) == i

\* The first segment Task.segmentLocked reads: the one asked for or, to catch up, the
\* one after the one sent last.
ReadFrom(i, a) ==
    IF SeeksTo(i, a) \/ lastSent = -1 \/ i = lastSent THEN i ELSE lastSent + 1

\* The states in which GetSegment looks for that segment, or has failed (frozen).
BeforeGet(i, a) ==
    UNION {IF q.frozen THEN {q} ELSE RunnerGet(q, a, ReadFrom(i, a)) : q \in
             IF SeeksTo(i, a)
               THEN Seek([r EXCEPT !.init = IF audio = a THEN @ ELSE 0], i) ELSE {r}}

\* WithSegment consumes what GetSegment returned, unless the client has gone: it writes
\* the segment to the client, and keeps the lock until that is done.
Consume(p, q, i) ==
    /\ r' = q /\ lastSent' = i
    /\ \/ /\ served' = [index |-> i, audio |-> req[p].audio, content |-> q.content,
                        track |-> q.track]
          /\ mu' = p /\ GoTo(p, "write")
       \/ mu' = "none" /\ Return(p) /\ UNCHANGED served

\* GetSegment drops the segment it has and pulls segment i, under the lock.
Pull(p, q, i) ==
    /\ r' = Discard(q) /\ mu' = p
    /\ req' = [req EXCEPT ![p].at = "pull", ![p].cur = i]
    /\ UNCHANGED served

\* Task.WithSegment up to the point where GetSegment pulls samples: the segment may
\* be ready, or the first one of a catch-up.
WithSegment(p) ==
    LET i == req[p].index
        a == req[p].audio
        j == ReadFrom(i, a)
    IN
    /\ req[p].at = "segment" /\ mu = "none"
    /\ \/ r.nil /\ Return(p) /\ UNCHANGED <<r, task, served, drifted>>
       \/ /\ ~r.nil /\ audio' = a
          /\ \E q \in BeforeGet(i, a) :
               /\ \/ q.frozen /\ r' = q /\ Return(p) /\ UNCHANGED <<mu, lastSent, served>>
                  \/ ~q.frozen /\ q.ready = j /\ j = i /\ Consume(p, q, i)
                  \/ ~q.frozen /\ q.ready = j /\ j # i /\ Pull(p, q, j + 1) /\ lastSent' = j
                  \/ ~q.frozen /\ q.ready # j /\ Pull(p, q, j) /\ UNCHANGED lastSent
               /\ drifted' = (/\ ~SeeksTo(i, a)
                              /\ drifted \/ (j = lastSent /\ q.ready # j))
          /\ UNCHANGED disposed
    /\ InitMu
    /\ UNCHANGED bounds

\* GetSegment has pulled a complete segment: the one asked for, or one that is read
\* to catch up.
PullSegment(p) ==
    LET i == req[p].cur
    IN
    /\ req[p].at = "pull" /\ r.err = "none" /\ r.next < NSegments
    /\ IF i = req[p].index
         THEN Consume(p, Accept(r, i), i)
         ELSE Pull(p, Accept(r, i), i + 1) /\ lastSent' = i
    /\ InitMu
    /\ UNCHANGED <<audio, disposed, drifted, bounds>>

\* Mutant: the lock is not let go of on this way out.
GiveUpLocked(p) ==
    /\ req[p].at \in {"pull", "pullInit"}
    /\ Return(p)
    /\ drifted' = ~InOrder(r, lastSent)
    /\ UNCHANGED <<task, r, served, bounds>>

\* GetSegment and EnsureInit: the client has gone, the deadline has passed or the
\* stream has ended.
GiveUp(p) ==
    /\ req[p].at \in {"pull", "pullInit"}
    /\ mu' = "none" /\ Return(p)
    /\ drifted' = ~InOrder(r, lastSent)
    /\ UNCHANGED <<audio, lastSent, disposed, r, served, bounds>>

\* GetSegment and EnsureInit: the parser fails, the stream ends too early or the bus
\* watch has stored an error.  The runner freezes at the segment.
PullFails(p) ==
    /\ req[p].at \in {"pull", "pullInit"}
    /\ r' = Freeze(r, IF req[p].at = "pull" THEN req[p].cur ELSE req[p].index)
    /\ mu' = "none" /\ Return(p) /\ InitMu
    /\ UNCHANGED <<audio, lastSent, disposed, served, drifted, bounds>>

\* The client has taken all of the segment or of the init segment, or its connection
\* has broken.  There is no deadline: until then the write and its lock last.
WriteEnds(p) ==
    /\ req[p].at \in {"write", "writeInit"}
    /\ mu' = IF req[p].at = "write" THEN "none" ELSE mu
    /\ Return(p)
    /\ UNCHANGED <<audio, lastSent, disposed, r, served, drifted, bounds>>

-----------------------------------------------------------------------------
(* Beside the requests.                                                    *)

\* watchBus pops an error, stores it and leaves a goroutine behind that is to freeze
\* this generation; it never takes Task.mu itself.
BusFails ==
    /\ r.watch /\ failed < MaxFailures
    /\ r' = [r EXCEPT !.watch = FALSE, !.err = "current",
                      !.freezers = @ \cup {"current"}]
    /\ failed' = failed + 1
    /\ UNCHANGED <<task, req, served, drifted, asked>>

\* Mutant: the generation is not compared again under the lock.
freezesAny(g) == ~disposed /\ ~r.nil

freezes(g) == g = "current" /\ ~disposed /\ ~r.nil

freezeBusGeneration(g) ==
    /\ mu = "none"
    /\ LET q == [r EXCEPT !.freezers = @ \ {g}]
       IN  r' = IF freezes(g) THEN Freeze(q, q.position) ELSE q
    /\ InitMu
    /\ UNCHANGED <<task, req, served, drifted, bounds>>

\* FreezeIfInactive, from the service's cleanup.
FreezeIfInactive ==
    /\ mu = "none" /\ ~disposed /\ ~r.nil /\ ~r.frozen
    /\ r' = Freeze(r, r.position) /\ InitMu
    /\ UNCHANGED <<task, req, served, drifted, bounds>>

\* Task.Dispose: the flag at once, the runner when the lock is free.
DisposeBegin ==
    /\ ~disposed
    /\ disposed' = TRUE
    /\ UNCHANGED <<mu, audio, lastSent, r, req, served, drifted, bounds>>

\* Mutant: the runner is forgotten and its pipeline left as it is.
DisposeForgets ==
    /\ disposed /\ ~r.nil /\ mu = "none"
    /\ r' = [r EXCEPT !.nil = TRUE, !.init = 0] /\ InitMu
    /\ UNCHANGED <<task, req, served, drifted, bounds>>

DisposeEnd ==
    /\ disposed /\ ~r.nil /\ mu = "none"
    /\ r' = [Stop(r) EXCEPT !.nil = TRUE] /\ InitMu
    /\ UNCHANGED <<task, req, served, drifted, bounds>>

-----------------------------------------------------------------------------
Handle(p) ==
    \/ EnsureInitShort(p) \/ EnsureInit(p) \/ PullInit(p) \/ WithInitMP4(p)
    \/ WithSegment(p) \/ PullSegment(p) \/ GiveUp(p) \/ PullFails(p)

Next ==
    \/ \E p \in Requests : Handle(p) \/ WriteEnds(p) \/ \E a \in Asks : Ask(p, a)
    \/ BusFails \/ \E g \in r.freezers : freezeBusGeneration(g)
    \/ FreezeIfInactive \/ DisposeBegin \/ DisposeEnd

Spec == Init /\ [][Next]_vars

\* Whoever the locks let go on does so in the end, a handler that pulls because the
\* deadline of the pull passes: no fairness between them is needed.  Nothing is assumed
\* of WriteEnds: a write has no deadline and lasts as long as its client likes.
Fairness == WF_vars(DisposeEnd \/ \E p \in Requests : Handle(p))

FairSpec == Spec /\ Fairness

-----------------------------------------------------------------------------
(* Properties.                                                             *)

\* A client gets the segment it asked for, with the sound it asked for, unless
\* EnsureInit or a request that gave up has left the pipeline elsewhere than
\* LastSentSegment says, or the segment sent last is wanted again when it is no
\* longer at hand, and no seek has followed.
ServedInOrder ==
    [][served' # served /\ ~drifted' =>
         served'.content = served'.index /\ served'.track = served'.audio]_vars

\* A client always gets the segment it asked for; a frozen task is to seek to it
\* (TestFrozenTaskSeeksToRequestedSegment).
ServesRequested == served.content = served.index

\* An init segment is only ever published for the current audio track: its header
\* would not fit the media segments otherwise.
InitOfAudio == r.init # 0 => r.init = audio

\* A task that is frozen or disposed of has no pipeline and no bus watch left.
StoppedHoldsNothing == r.frozen \/ r.nil => ~r.up /\ ~r.watch /\ r.init = 0

\* The goroutine a bus watch leaves behind takes the pipeline down only if it was
\* this pipeline's bus that failed, and the error of an earlier generation is never held
\* against the current one.
StaleBusHarmless ==
    [](r.err # "older") /\ [][\A g \in r.freezers :
         r.up /\ freezeBusGeneration(g) /\ ~r'.up => r.err = "current"]_vars

\* Disposal comes to its end, whatever the requests and the bus watch do, if no client
\* stops reading for good in the middle of an answer: Dispose waits for the locks that
\* the writes hold, and they have no deadline of their own.
DisposeFinishes ==
    (\A p \in Requests : []<>(req[p].at \notin {"write", "writeInit"}))
        => (disposed ~> (r.nil /\ ~r.up))
=============================================================================
