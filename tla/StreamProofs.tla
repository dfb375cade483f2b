----------------------------- MODULE StreamProofs -----------------------------
(***************************************************************************)
(* What a stream is fed from: the remuxer's task, for every number of      *)
(* segments, tracks and requests, and the engine's ranges, for all sizes   *)
(* and offsets.                                                            *)
(*                                                                         *)
(* The inductive invariant of the task says what the fields of a runner    *)
(* say of one another (RunnerOK) and what the lock, the handlers and the   *)
(* runner's position say of one another (IInv).  The operations of the     *)
(* runner preserve RunnerOK, each by a lemma; the actions preserve IInv.   *)
(*                                                                         *)
(* The ranges need no invariant: AvailableRange is right whatever is       *)
(* complete and written.  One round of its loop adds bytes that are there  *)
(* (RoundRight); the rest follows by induction on the bytes still wanted,  *)
(* over the set of the numbers for which a fact holds.                     *)
(***************************************************************************)
EXTENDS TranscodeTask, AvailableRange, WellFoundedInduction, TLAPS

\* What a runner's fields say of one another.
RunnerOK(q) ==
    /\ q.up => /\ q.track = q.audio /\ ~q.frozen /\ ~q.nil
    /\ ~q.up => ~q.watch /\ q.init = 0 /\ q.ready = -1
    /\ q.playing = q.up
    /\ q.init # 0 => q.init = q.track
    /\ q.ready = -1 <=> q.content = -1
    /\ q.ready # -1 => q.next = q.content + 1
    /\ q.err # "older"
    /\ "current" \in q.freezers => q.err = "current"

\* The places where a handler is in the middle of a read or a write, under Task.mu.
Held == {"pull", "pullInit", "write"}
Holding(p) == req[p].at \in Held

\* Only the lock's holder reads, from a pipeline that is up; it pulls the segment that
\* comes next, and while it writes and between the reads the segment after the one sent
\* last comes next.
IInv ==
    /\ RunnerOK(r)
    /\ r.up => r.audio = audio
    /\ \A p \in Requests : Holding(p) <=> mu = p
    /\ \A p \in Requests : Holding(p) => r.up
    /\ \A p \in Requests : req[p].at = "pull" =>
          /\ req[p].cur <= req[p].index /\ req[p].audio = audio
          /\ drifted \/ r.next = req[p].cur
    /\ \A p \in Requests : req[p].at = "write" => drifted \/ InOrder(r, lastSent)
    /\ mu = "none" /\ r.up => drifted \/ InOrder(r, lastSent)

-----------------------------------------------------------------------------
(* The operations of the runner.  The sets that its fields range over are  *)
(* named, so that membership is shown without a look inside them.          *)

Flags == BOOLEAN
Tracks == 0 .. NAudio
Positions == 0 .. NSegments
Labels == -1 .. NSegments - 1
Errors == {"none"} \cup Generations
Pending == SUBSET Generations

Shape == [nil : Flags, init : Tracks, audio : Audios, playing : Flags, frozen : Flags,
          position : Positions, up : Flags, track : Tracks, next : Positions,
          ready : Labels, content : Labels, watch : Flags, err : Errors,
          freezers : Pending]

LEMMA RunnerShape == Runner = Shape
BY Zenon DEF Runner, Shape, Flags, Tracks, Positions, Labels, Errors, Pending

LEMMA FieldSets ==
  /\ TRUE \in Flags /\ FALSE \in Flags /\ 0 \in Tracks /\ 0 \in Positions
  /\ -1 \in Labels /\ Segments \subseteq Labels /\ Segments \subseteq Positions
  /\ Audios \subseteq Tracks /\ "none" \in Errors /\ "current" \in Errors
  /\ \A g \in Errors : Older(g) \in Errors
  /\ \A F \in Pending : /\ {Older(g) : g \in F} \in Pending
                        /\ F \cup {"current"} \in Pending
                        /\ \A g : F \ {g} \in Pending
                        /\ "current" \notin {Older(g) : g \in F}
  /\ \A n \in Positions : n < NSegments => n \in Labels /\ n + 1 \in Positions
<1> USE TaskAssumption
<1>1. TRUE \in Flags /\ FALSE \in Flags  BY Zenon DEF Flags
<1>2. "none" \in Errors /\ "current" \in Errors /\ \A g \in Errors : Older(g) \in Errors
  BY Zenon DEF Errors, Older, Generations
<1>3. \A F \in Pending : /\ {Older(g) : g \in F} \in Pending
                         /\ F \cup {"current"} \in Pending
                         /\ \A g : F \ {g} \in Pending
                         /\ "current" \notin {Older(g) : g \in F}
  BY Zenon DEF Pending, Older, Generations
<1>4. /\ 0 \in Tracks /\ 0 \in Positions
      /\ -1 \in Labels /\ Segments \subseteq Labels /\ Segments \subseteq Positions
      /\ Audios \subseteq Tracks
  BY DEF Tracks, Positions, Labels, Segments, Audios
<1>5. \A n \in Positions : n < NSegments => n \in Labels /\ n + 1 \in Positions
  BY DEF Positions, Labels
<1> QED  BY <1>1, <1>2, <1>3, <1>4, <1>5, Zenon

LEMMA StopOK ==
  ASSUME NEW q \in Shape
  PROVE  /\ Stop(q) \in Shape /\ RunnerOK(Stop(q))
         /\ ~Stop(q).up /\ Stop(q).init = 0
         /\ Stop(q).audio = q.audio /\ Stop(q).nil = q.nil /\ Stop(q).frozen = q.frozen
BY FieldSets, Zenon DEF Stop, NextGeneration, Shape, RunnerOK

LEMMA FreezeOK ==
  ASSUME NEW q \in Shape, NEW i \in Positions
  PROVE  /\ Freeze(q, i) \in Shape /\ RunnerOK(Freeze(q, i))
         /\ Freeze(q, i).frozen /\ ~Freeze(q, i).up /\ Freeze(q, i).init = 0
         /\ Freeze(q, i).position = i
         /\ Freeze(q, i).audio = q.audio /\ Freeze(q, i).nil = q.nil
BY FieldSets, Zenon DEF Freeze, Stop, NextGeneration, Shape, RunnerOK

LEMMA StartOK ==
  ASSUME NEW q \in Shape, RunnerOK(q), ~q.nil, NEW i \in Positions
  PROVE  /\ Start(q, i) \in Shape /\ RunnerOK(Start(q, i))
         /\ Start(q, i).up /\ ~Start(q, i).frozen
         /\ Start(q, i).next = i /\ Start(q, i).ready = -1
         /\ Start(q, i).init = q.init
         /\ Start(q, i).audio = q.audio /\ Start(q, i).nil = q.nil
<1>1. Start(q, i) \in Shape
  BY FieldSets, ZenonT(60) DEF Start, NextGeneration, Shape
<1> QED
  BY <1>1, FieldSets, ZenonT(60) DEF Start, NextGeneration, Shape, RunnerOK

LEMMA SeekOK ==
  ASSUME NEW q \in Shape, RunnerOK(q), ~q.nil, NEW i \in Positions, NEW s \in Seek(q, i)
  PROVE  /\ s \in Shape /\ RunnerOK(s) /\ ~s.nil /\ s.audio = q.audio
         /\ ~s.frozen => s.up /\ s.next = i /\ s.ready = -1 /\ s.init = q.init
BY StartOK, FreezeOK DEF Seek

LEMMA SetAudioOK ==
  ASSUME NEW q \in Shape, RunnerOK(q), NEW a \in Audios, NEW i \in Positions
  PROVE  LET s == SetAudio(q, a, i)
         IN  /\ s \in Shape /\ RunnerOK(s) /\ s.audio = a /\ s.nil = q.nil
             /\ \/ q.audio = a /\ s = q
                \/ q.audio # a /\ s.frozen /\ s.position = i /\ s.init = 0
<1>1. [q EXCEPT !.audio = a] \in Shape /\ [q EXCEPT !.audio = a].audio = a
      /\ [q EXCEPT !.audio = a].nil = q.nil
  BY Zenon DEF Shape
<1> QED  BY <1>1, FreezeOK, Zenon DEF SetAudio

\* What RunnerEnsure and RunnerGet leave: a frozen runner, or one that is up for track a.
LEMMA RunnerEnsureOK ==
  ASSUME NEW q \in Shape, RunnerOK(q), ~q.nil, NEW a \in Audios, NEW i \in Positions,
         NEW s \in RunnerEnsure(q, a, i)
  PROVE  s \in Shape /\ RunnerOK(s) /\ ~s.nil /\ s.audio = a /\ (~s.frozen => s.up)
<1> DEFINE t == SetAudio(q, a, i)
<1>1. t \in Shape /\ RunnerOK(t) /\ t.audio = a /\ t.nil = q.nil
  BY SetAudioOK
<1>2. CASE s \in Seek(t, i)
  BY <1>1, <1>2, SeekOK
<1>3. CASE s = t /\ ~t.frozen /\ t.playing
  BY <1>1, <1>3, Zenon DEF RunnerOK
<1> QED  BY <1>2, <1>3, Zenon DEF RunnerEnsure

LEMMA RunnerGetOK ==
  ASSUME NEW q \in Shape, RunnerOK(q), ~q.nil, NEW a \in Audios, NEW j \in Positions,
         NEW s \in RunnerGet(q, a, j)
  PROVE  /\ s \in Shape /\ RunnerOK(s) /\ ~s.nil /\ s.audio = a
         /\ ~s.frozen => s.up
         /\ ~s.frozen /\ ~q.frozen => \/ s = q /\ q.up /\ q.audio = a
                                      \/ s.next = j /\ s.ready = -1
<1> DEFINE t == SetAudio(q, a, j)
<1>1. t \in Shape /\ RunnerOK(t) /\ t.audio = a /\ t.nil = q.nil
  BY SetAudioOK
<1>2. \/ q.audio = a /\ t = q
      \/ q.audio # a /\ t.frozen /\ t.position = j
  BY SetAudioOK
<1>3. t.position \in Positions
  BY <1>1, Zenon DEF Shape
<1>4. CASE t.frozen /\ s \in Seek(t, t.position)
  BY <1>1, <1>2, <1>3, <1>4, SeekOK
<1>5. CASE ~t.frozen /\ s \in Seek(t, j)
  BY <1>1, <1>5, SeekOK
<1>6. CASE s = t /\ ~t.frozen /\ t.playing
  BY <1>1, <1>2, <1>6, Zenon DEF RunnerOK
<1> QED  BY <1>4, <1>5, <1>6, Zenon DEF RunnerGet

LEMMA ReadFromOK ==
  ASSUME NEW i \in Segments, lastSent \in Labels, NEW a
  PROVE  /\ ReadFrom(i, a) \in Segments /\ ReadFrom(i, a) <= i
         /\ SeeksTo(i, a) => ReadFrom(i, a) = i
         /\ ~SeeksTo(i, a) => /\ audio = a /\ ~r.frozen
                              /\ ReadFrom(i, a) \in {lastSent, lastSent + 1}
                              /\ ReadFrom(i, a) = lastSent => i = lastSent
BY TaskAssumption DEF ReadFrom, SeeksTo, Segments, Labels

\* What GetSegment looks at: a frozen runner, or one that is up for track a and stands at
\* the segment to be read, unless it goes on from where it was.
LEMMA BeforeGetOK ==
  ASSUME r \in Shape, RunnerOK(r), ~r.nil, r.up => r.audio = audio, lastSent \in Labels,
         NEW a \in Audios, NEW i \in Segments, NEW s \in BeforeGet(i, a)
  PROVE  /\ s \in Shape /\ RunnerOK(s) /\ ~s.nil
         /\ ~s.frozen => s.up /\ s.audio = a
         /\ ~s.frozen => \/ s = r /\ r.up /\ ~SeeksTo(i, a)
                         \/ s.next = ReadFrom(i, a) /\ s.ready = -1
<1> DEFINE j == ReadFrom(i, a)
           q0 == [r EXCEPT !.init = IF audio = a THEN @ ELSE 0]
<1>1. j \in Positions /\ i \in Positions
  BY ReadFromOK, FieldSets, Zenon
<1>2. q0 \in Shape /\ RunnerOK(q0) /\ ~q0.nil
  BY FieldSets, Zenon DEF Shape, RunnerOK
<1>3. PICK q \in (IF SeeksTo(i, a) THEN Seek(q0, i) ELSE {r}) :
         s \in (IF q.frozen THEN {q} ELSE RunnerGet(q, a, j))
  BY Zenon DEF BeforeGet
<1> HIDE DEF j, q0
<1>4. CASE SeeksTo(i, a)
  <2>1. /\ q \in Shape /\ RunnerOK(q) /\ ~q.nil
        /\ ~q.frozen => q.next = i /\ q.ready = -1
    BY <1>1, <1>2, <1>3, <1>4, SeekOK
  <2>2. j = i
    BY <1>4, ReadFromOK, Zenon DEF j
  <2>3. CASE q.frozen  BY <1>3, <2>1, <2>3, Zenon
  <2>4. CASE ~q.frozen
    BY <1>1, <1>3, <1>4, <2>1, <2>2, <2>4, RunnerGetOK DEF j
  <2> QED  BY <2>3, <2>4, Zenon
<1>5. CASE ~SeeksTo(i, a)
  <2>1. q = r /\ ~r.frozen
    BY <1>3, <1>5, ReadFromOK, Zenon
  <2> QED
    BY <1>1, <1>3, <1>5, <2>1, RunnerGetOK DEF j
<1> QED  BY <1>4, <1>5, Zenon

LEMMA AcceptOK ==
  ASSUME NEW q \in Shape, RunnerOK(q), q.up, q.next < NSegments, NEW i \in Segments
  PROVE  LET s == Accept(q, i)
         IN  /\ s \in Shape /\ RunnerOK(s) /\ s.up /\ s.audio = q.audio
             /\ s.ready = i /\ s.content = q.next /\ s.next = q.next + 1
             /\ s.track = q.track
<1>1. q.next \in Segments /\ q.next + 1 \in Positions /\ q.next \in Labels /\ i \in Labels
  BY TaskAssumption DEF Shape, Positions, Labels, Segments
<1>2. i # -1 /\ q.next # -1
  BY <1>1, TaskAssumption DEF Segments
<1>3. Accept(q, i) \in Shape
  BY <1>1, Zenon DEF Accept, Shape
<1> QED  BY <1>2, <1>3, Zenon DEF Accept, RunnerOK, Shape

LEMMA RelabelOK ==
  ASSUME NEW q \in Shape, RunnerOK(q), NEW i \in Segments
  PROVE  LET s == Relabel(q, i)
         IN  /\ s \in Shape /\ RunnerOK(s) /\ s.nil = q.nil /\ s.frozen = q.frozen
             /\ s.up = q.up /\ s.audio = q.audio /\ s.init = q.init
<1>1. i \in Labels /\ i # -1
  BY TaskAssumption, FieldSets DEF Segments
<1> QED  BY <1>1, Zenon DEF Relabel, Shape, RunnerOK

LEMMA DiscardOK ==
  ASSUME NEW q \in Shape, RunnerOK(q)
  PROVE  LET s == Discard(q)
         IN  /\ s \in Shape /\ RunnerOK(s) /\ s.nil = q.nil /\ s.frozen = q.frozen
             /\ s.up = q.up /\ s.audio = q.audio /\ s.next = q.next
BY FieldSets, Zenon DEF Discard, Shape, RunnerOK

-----------------------------------------------------------------------------
(* The steps.                                                              *)

Places == {"idle", "ensure", "pullInit", "init", "writeInit", "segment", "pull", "write"}
Kinds == {"init", "segment"}
Handlers == [at : Places, kind : Kinds, index : Segments, audio : Audios, cur : Segments]
Answers == [index : Segments, audio : Audios, content : Segments, track : Audios]

\* TypeOK, with the sets above.
Typed ==
    /\ mu \in Requests \cup {"none"} /\ audio \in Audios /\ lastSent \in Labels
    /\ disposed \in Flags /\ r \in Shape /\ req \in [Requests -> Handlers]
    /\ served \in Answers /\ drifted \in Flags
    /\ asked \in 0 .. MaxRequests /\ failed \in 0 .. MaxFailures

LEMMA TypedIsTypeOK == TypeOK <=> Typed
BY RunnerShape, Zenon DEF TypeOK, Typed, Labels, Flags, Handlers, Places, Kinds, Answers

LEMMA Constants ==
  /\ 0 \in Segments /\ 1 \in Audios /\ Idle \in Handlers /\ Idle.at = "idle"
  /\ NothingServed \in Answers
  /\ \A h \in Handlers, l \in Places : [h EXCEPT !.at = l] \in Handlers
<1>1. 0 \in Segments /\ 1 \in Audios
  BY TaskAssumption DEF Segments, Audios
<1>2. "idle" \in Places /\ "init" \in Kinds
  BY Zenon DEF Places, Kinds
<1> QED
  BY <1>1, <1>2, Zenon DEF Idle, NothingServed, Handlers, Answers

LEMMA InitOK == Init => Typed /\ IInv
<1> SUFFICES ASSUME Init  PROVE Typed /\ IInv
  OBVIOUS
<1>1. r \in Shape
  BY FieldSets, Constants, Zenon DEF Init, Shape, Pending
<1>2. disposed \in Flags /\ drifted \in Flags
  BY Zenon DEF Init, Flags
<1>3. lastSent \in Labels /\ asked \in 0 .. MaxRequests /\ failed \in 0 .. MaxFailures
  BY FieldSets, TaskAssumption DEF Init
<1>4. Typed
  BY <1>1, <1>2, <1>3, Constants, Zenon DEF Init, Typed
<1>5. RunnerOK(r) /\ ~r.up
  BY Zenon DEF Init, RunnerOK
<1>6. \A p \in Requests : req[p].at = "idle" /\ mu # p
  BY TaskAssumption, Zenon DEF Init, Idle
<1> QED
  BY <1>4, <1>5, <1>6, Zenon DEF IInv, Holding, Held

\* A new request holds nothing.
LEMMA AskOK ==
  ASSUME Typed, IInv, NEW p \in Requests, NEW a \in Asks, Ask(p, a)
  PROVE  Typed' /\ IInv'
<1> DEFINE h == [kind |-> a.kind, index |-> a.index, audio |-> a.audio,
                 at |-> IF a.kind = "init" \/ r.init = 0 THEN "ensure" ELSE "segment",
                 cur |-> 0]
<1>1. a.kind \in Kinds /\ a.index \in Segments /\ a.audio \in Audios
  BY TaskAssumption, Zenon DEF Asks, Kinds
<1>2. h.at \in {"ensure", "segment"} /\ h.at \in Places
  BY Zenon DEF Places
<1>3. h \in Handlers
  BY <1>1, <1>2, Constants, Zenon DEF Handlers
<1>4. req' = [req EXCEPT ![p] = h]
  BY Zenon DEF Ask
<1> HIDE DEF h
<1>5. asked' \in 0 .. MaxRequests
  BY TaskAssumption DEF Ask, Typed
<1>6. Typed'
  BY <1>3, <1>4, <1>5, Constants, Zenon DEF Ask, Typed, task
<1>7. \A x \in Requests : Holding(x)' <=> Holding(x)
  BY <1>2, <1>4, Zenon DEF Holding, Held, Typed, Ask
<1>8. \A x \in Requests : req'[x].at \in {"pull", "write"} => req'[x] = req[x]
  BY <1>2, <1>4, Zenon DEF Typed
<1> QED
  BY <1>6, <1>7, <1>8 DEF IInv, Ask, task, Holding, InOrder

LEMMA ReturnOK ==
  ASSUME Typed, NEW p \in Requests, Return(p)
  PROVE  /\ req' \in [Requests -> Handlers] /\ req'[p].at \notin Held
         /\ \A x \in Requests : x # p => req'[x] = req[x]
BY Constants, Zenon DEF Return, Typed, Held

LEMMA GoToOK ==
  ASSUME Typed, NEW p \in Requests, NEW l \in Places, GoTo(p, l)
  PROVE  /\ req' \in [Requests -> Handlers] /\ req'[p].at = l
         /\ \A x \in Requests : x # p => req'[x] = req[x]
<1> DEFINE h == [req[p] EXCEPT !.at = l]
<1>1. h \in Handlers /\ h.at = l
  BY Constants, Zenon DEF Typed, Handlers
<1>2. req' = [req EXCEPT ![p] = h]
  BY Zenon DEF GoTo
<1> HIDE DEF h
<1> QED  BY <1>1, <1>2, Zenon DEF Typed

LEMMA EnsuredOK ==
  ASSUME Typed, NEW p \in Requests, Ensured(p)
  PROVE  /\ req' \in [Requests -> Handlers]
         /\ req'[p].at \notin Held
         /\ \A x \in Requests : x # p => req'[x] = req[x]
<1>1. Kinds \subseteq Places /\ Kinds \cap Held = {}
  BY Zenon DEF Kinds, Places, Held
<1>2. req[p].kind \in Kinds
  BY Zenon DEF Typed, Handlers
<1>3. PICK l \in Kinds : l = req[p].kind
  BY <1>2, Zenon
<1> QED  BY <1>1, <1>3, GoToOK, Zenon DEF Ensured

\* A handler that comes back without the lock leaves nobody in the middle of a read.
LEMMA NobodyHolds ==
  ASSUME IInv, NEW p \in Requests, mu = "none" \/ mu = p,
         \A x \in Requests : x # p => req'[x] = req[x],
         req'[p].at \notin Held
  PROVE  \A x \in Requests : req'[x].at \notin Held
<1> SUFFICES ASSUME NEW x \in Requests, x # p
             PROVE  req[x].at \notin Held
  OBVIOUS
<1> QED  BY TaskAssumption, Zenon DEF IInv, Holding

\* The invariant when nobody reads and the pipeline is down, or in order.
LEMMA FreeOK ==
  ASSUME RunnerOK(r'), mu' = "none",
         \A x \in Requests : req'[x].at \notin Held,
         r'.up => r'.audio = audio' /\ (drifted' \/ InOrder(r', lastSent'))
  PROVE  IInv'
BY TaskAssumption, Zenon DEF IInv, Holding, Held, InOrder

\* The invariant when a handler goes on to read under the lock.
LEMMA HeldOK ==
  ASSUME IInv, NEW p \in Requests, mu = "none" \/ mu = p,
         \A x \in Requests : x # p => req'[x] = req[x],
         RunnerOK(r'), r'.up, r'.audio = audio', mu' = p,
         \/ req'[p].at = "pullInit"
         \/ /\ req'[p].at = "pull"
            /\ req'[p].cur <= req'[p].index /\ req'[p].audio = audio'
            /\ drifted' \/ r'.next = req'[p].cur
         \/ req'[p].at = "write" /\ (drifted' \/ InOrder(r', lastSent'))
  PROVE  IInv'
<1>1. \A x \in Requests : x # p => req[x].at \notin Held
  BY TaskAssumption DEF IInv, Holding
<1>2. \A x \in Requests : Holding(x)' <=> mu' = x
  BY <1>1, Zenon DEF Holding, Held
<1>3. \A x \in Requests : x # p => req'[x].at # "pull" /\ req'[x].at # "write"
  BY <1>1, Zenon DEF Held
<1> QED  BY <1>2, <1>3, TaskAssumption, Zenon DEF IInv, Holding, InOrder

LEMMA EnsureInitShortOK ==
  ASSUME Typed, IInv, NEW p \in Requests, EnsureInitShort(p)
  PROVE  Typed' /\ IInv'
<1>1. /\ mu = "none" /\ Ensured(p)
      /\ r' = r /\ mu' = mu /\ audio' = audio /\ lastSent' = lastSent /\ drifted' = drifted
  BY Zenon DEF EnsureInitShort, task
<1>2. Typed'
  BY EnsuredOK, <1>1, Zenon DEF Typed, EnsureInitShort, task, bounds
<1>3. \A x \in Requests : req'[x].at \notin Held
  BY <1>1, EnsuredOK, NobodyHolds, Zenon
<1>4. RunnerOK(r) /\ (r.up => r.audio = audio /\ (drifted \/ InOrder(r, lastSent)))
  BY <1>1, Zenon DEF IInv
<1>5. RunnerOK(r') /\ (r'.up => r'.audio = audio' /\ (drifted' \/ InOrder(r', lastSent')))
  BY <1>1, <1>4, Zenon DEF InOrder
<1> QED
  BY <1>1, <1>2, <1>3, <1>5, FreeOK, Zenon

LEMMA EnsureInitOK ==
  ASSUME Typed, IInv, NEW p \in Requests, EnsureInit(p)
  PROVE  Typed' /\ IInv'
<1> DEFINE i == req[p].index
           a == req[p].audio
           f == FreezeFor(a)
<1>1. i \in Segments /\ i \in Positions /\ a \in Audios
  BY FieldSets, Zenon DEF Typed, Handlers
<1>2. mu = "none" /\ audio' = a
  BY Zenon DEF EnsureInit
<1>3. UNCHANGED <<disposed, served, asked, failed>>
  BY Zenon DEF EnsureInit, bounds
<1>4. CASE r.nil /\ Return(p) /\ UNCHANGED <<r, mu, lastSent, drifted>>
  <2>1. ~r'.up /\ RunnerOK(r')
    BY <1>4, Zenon DEF IInv, RunnerOK
  <2>2. \A x \in Requests : req'[x].at \notin Held
    BY <1>2, <1>4, ReturnOK, NobodyHolds, Zenon
  <2>3. Typed'
    BY <1>1, <1>2, <1>3, <1>4, ReturnOK, Zenon DEF Typed
  <2> QED  BY <1>2, <1>4, <2>1, <2>2, <2>3, FreeOK, Zenon
<1>5. CASE ~r.nil
  <2>1. f \in Shape /\ RunnerOK(f) /\ ~f.nil
    <3>1. r \in Shape /\ RunnerOK(r) /\ r.position \in Positions
      BY Zenon DEF Typed, IInv, Shape
    <3> QED  BY <1>5, <3>1, FreezeOK DEF FreezeFor
  <2>2. PICK q \in RunnerEnsure(f, a, i) :
          /\ r' = IF q.init # 0 THEN Relabel(q, i) ELSE q
          /\ \/ q.frozen /\ Return(p) /\ UNCHANGED <<mu, lastSent>>
             \/ ~q.frozen /\ q.init # 0 /\ Ensured(p) /\ lastSent' = SentBefore(i)
                /\ UNCHANGED mu
             \/ ~q.frozen /\ q.init = 0 /\ GoTo(p, "pullInit") /\ mu' = p
                /\ UNCHANGED lastSent
    BY <1>5, Zenon DEF EnsureInit
  <2>3. drifted' = (r'.up /\ ~InOrder(r', lastSent'))
    BY <1>5, Zenon DEF EnsureInit
  <2>4. q \in Shape /\ RunnerOK(q) /\ q.audio = a /\ (~q.frozen => q.up)
    BY <1>1, <2>1, RunnerEnsureOK
  <2>5. r' \in Shape /\ RunnerOK(r') /\ r'.audio = a /\ r'.up = q.up
    BY <1>1, <2>2, <2>4, RelabelOK, Zenon
  <2>6. drifted' \in Flags
    BY <2>3, Zenon DEF Flags
  <2>7. SentBefore(i) \in Labels
    BY <1>1, TaskAssumption DEF SentBefore, Typed, Labels, Segments
  <2>8. r'.up => r'.audio = audio' /\ (drifted' \/ InOrder(r', lastSent'))
    BY <1>2, <2>3, <2>5, Zenon
  <2> HIDE DEF i, a, f
  <2>9. CASE q.frozen /\ Return(p) /\ UNCHANGED <<mu, lastSent>>
    <3>1. \A x \in Requests : req'[x].at \notin Held
      BY <1>2, <2>9, ReturnOK, NobodyHolds, Zenon
    <3>2. Typed'
      BY <1>1, <1>2, <1>3, <2>5, <2>6, <2>9, ReturnOK, Zenon DEF Typed
    <3> QED  BY <1>2, <2>5, <2>8, <2>9, <3>1, <3>2, FreeOK, Zenon
  <2>10. CASE Ensured(p) /\ lastSent' = SentBefore(i) /\ UNCHANGED mu
    <3>1. \A x \in Requests : req'[x].at \notin Held
      BY <1>2, <2>10, EnsuredOK, NobodyHolds, Zenon
    <3>2. Typed'
      BY <1>1, <1>2, <1>3, <2>5, <2>6, <2>7, <2>10, EnsuredOK, Zenon DEF Typed
    <3> QED  BY <1>2, <2>5, <2>8, <2>10, <3>1, <3>2, FreeOK, Zenon
  <2>11. CASE ~q.frozen /\ GoTo(p, "pullInit") /\ mu' = p /\ UNCHANGED lastSent
    <3>1. "pullInit" \in Places
      BY Zenon DEF Places
    <3>2. Typed'
      BY <1>1, <1>2, <1>3, <2>5, <2>6, <2>11, <3>1, GoToOK, Zenon DEF Typed
    <3>3. r'.up
      BY <2>4, <2>5, <2>11, Zenon
    <3> QED  BY <1>2, <2>5, <2>11, <3>1, <3>2, <3>3, GoToOK, HeldOK, Zenon
  <2> QED  BY <2>2, <2>9, <2>10, <2>11, Zenon
<1> QED  BY <1>4, <1>5, Zenon DEF EnsureInit

LEMMA PullInitOK ==
  ASSUME Typed, IInv, NEW p \in Requests, PullInit(p)
  PROVE  Typed' /\ IInv'
<1>1. /\ r \in Shape /\ RunnerOK(r) /\ r.up /\ r.audio = audio /\ mu = p
      /\ req[p].index \in Segments
  BY Zenon DEF PullInit, IInv, Holding, Held, Typed, Handlers
<1>2. /\ audio' = audio /\ mu' = "none" /\ Ensured(p)
      /\ UNCHANGED <<disposed, served, asked, failed>>
      /\ drifted' = ~InOrder(r', lastSent')
  BY Zenon DEF PullInit, bounds
<1>3. lastSent' \in Labels
  BY <1>1, TaskAssumption DEF PullInit, SentBefore, Typed, Labels, Segments
<1>4. r' \in Shape /\ RunnerOK(r') /\ r'.audio = audio
  <2>1. CASE r' = [r EXCEPT !.init = r.track]
    BY <1>1, <2>1, Zenon DEF Shape, RunnerOK
  <2>2. CASE r.next < NSegments /\ r' = Accept(r, req[p].index)
    BY <1>1, <2>2, AcceptOK, Zenon
  <2> QED  BY <2>1, <2>2, Zenon DEF PullInit
<1>5. drifted' \in Flags
  BY <1>2, Zenon DEF Flags
<1>6. Typed'
  BY <1>2, <1>3, <1>4, <1>5, EnsuredOK, Zenon DEF Typed
<1>7. \A x \in Requests : req'[x].at \notin Held
  BY <1>1, <1>2, EnsuredOK, NobodyHolds, Zenon
<1> QED  BY <1>2, <1>4, <1>6, <1>7, FreeOK, Zenon

\* What a step leaves when it consumes a segment, or goes on to pull one.
LEMMA ConsumeOK ==
  ASSUME Typed, IInv, NEW p \in Requests, mu = "none" \/ mu = p,
         NEW q \in Shape, RunnerOK(q), q.up, NEW i \in Segments, q.ready = i,
         audio' \in Audios, q.audio = audio', req[p].audio = audio',
         drifted' \in Flags, drifted' \/ q.content = i,
         UNCHANGED <<disposed, asked, failed>>, Consume(p, q, i)
  PROVE  /\ Typed' /\ IInv'
         /\ served' # served /\ ~drifted' =>
              served'.content = served'.index /\ served'.track = served'.audio
<1>1. i # -1 /\ i \in Labels /\ i + 1 # i
  BY TaskAssumption, FieldSets DEF Segments
<1>2. q.content \in Segments /\ q.track = q.audio /\ q.next = q.content + 1
  BY <1>1, TaskAssumption DEF RunnerOK, Shape, Labels, Segments
<1>3. served' \in Answers
  BY <1>2 DEF Consume, Typed, Answers
<1>4. r' = q /\ lastSent' = i
  BY Zenon DEF Consume
<1>5. drifted' \/ InOrder(r', lastSent')
  BY <1>1, <1>2, <1>4, Zenon DEF InOrder
<1>6. served' # served /\ ~drifted' =>
        served'.content = served'.index /\ served'.track = served'.audio
  BY <1>2 DEF Consume
<1>7. CASE mu' = p /\ GoTo(p, "write")
  <2>1. "write" \in Places
    BY Zenon DEF Places
  <2>2. Typed'
    BY <1>1, <1>3, <1>4, <1>7, <2>1, GoToOK, Zenon DEF Typed
  <2> QED  BY <1>4, <1>5, <1>6, <1>7, <2>1, <2>2, GoToOK, HeldOK, Zenon
<1>8. CASE mu' = "none" /\ Return(p)
  <2>1. Typed'
    BY <1>1, <1>3, <1>4, <1>8, ReturnOK, Zenon DEF Typed
  <2>2. \A x \in Requests : req'[x].at \notin Held
    BY <1>8, ReturnOK, NobodyHolds, Zenon
  <2> QED  BY <1>4, <1>5, <1>6, <1>8, <2>1, <2>2, FreeOK, Zenon
<1> QED  BY <1>7, <1>8, Zenon DEF Consume

LEMMA PullOK ==
  ASSUME Typed, IInv, NEW p \in Requests, mu = "none" \/ mu = p,
         NEW q \in Shape, RunnerOK(q), q.up, NEW i \in Segments, i <= req[p].index,
         audio' \in Audios, q.audio = audio', req[p].audio = audio',
         drifted' \in Flags, drifted' \/ q.next = i, lastSent' \in Labels,
         UNCHANGED <<disposed, asked, failed>>, Pull(p, q, i)
  PROVE  Typed' /\ IInv' /\ served' = served
<1> DEFINE h == [req[p] EXCEPT !.at = "pull", !.cur = i]
<1>1. "pull" \in Places
  BY Zenon DEF Places
<1>2. h \in Handlers /\ h.at = "pull" /\ h.cur = i /\ h.index = req[p].index
      /\ h.audio = req[p].audio
  BY <1>1, Zenon DEF Typed, Handlers
<1>3. req' = [req EXCEPT ![p] = h]
  BY Zenon DEF Pull, Typed, Handlers
<1> HIDE DEF h
<1>4. req' \in [Requests -> Handlers] /\ req'[p] = h
      /\ \A x \in Requests : x # p => req'[x] = req[x]
  BY <1>2, <1>3, Zenon DEF Typed
<1>5. r' = Discard(q) /\ mu' = p /\ served' = served
  BY Zenon DEF Pull
<1>6. r' \in Shape /\ RunnerOK(r') /\ r'.up /\ r'.audio = q.audio /\ r'.next = q.next
  BY <1>5, DiscardOK, Zenon
<1>7. Typed'
  BY <1>4, <1>5, <1>6, Zenon DEF Typed
<1>8. /\ req'[p].at = "pull" /\ req'[p].cur <= req'[p].index /\ req'[p].audio = audio'
      /\ drifted' \/ r'.next = req'[p].cur
  BY <1>2, <1>4, <1>6, Zenon
<1>9. IInv'
  BY <1>4, <1>5, <1>6, <1>8, HeldOK, Zenon
<1> QED  BY <1>5, <1>7, <1>9, Zenon

LEMMA WithSegmentOK ==
  ASSUME Typed, IInv, NEW p \in Requests, WithSegment(p)
  PROVE  /\ Typed' /\ IInv'
         /\ served' # served /\ ~drifted' =>
              served'.content = served'.index /\ served'.track = served'.audio
<1> DEFINE i == req[p].index
           a == req[p].audio
           j == ReadFrom(i, a)
<1>1. i \in Segments /\ a \in Audios /\ lastSent \in Labels
  BY Zenon DEF Typed, Handlers
<1>2. mu = "none" /\ UNCHANGED <<asked, failed>>
  BY Zenon DEF WithSegment, bounds
<1>3. j \in Segments /\ j <= i /\ j \in Labels /\ j # -1
  BY <1>1, ReadFromOK, FieldSets, TaskAssumption DEF Segments
<1>4. ~SeeksTo(i, a) => j \in {lastSent, lastSent + 1} /\ (j = lastSent => i = lastSent)
  BY <1>1, ReadFromOK, Zenon
<1>5. CASE r.nil /\ Return(p) /\ UNCHANGED <<r, task, served, drifted>>
  <2>1. ~r.up /\ RunnerOK(r)
    BY <1>5, Zenon DEF IInv, RunnerOK
  <2>2. Typed'
    BY <1>2, <1>5, ReturnOK, Zenon DEF Typed, task
  <2>3. \A x \in Requests : req'[x].at \notin Held
    BY <1>2, <1>5, ReturnOK, NobodyHolds, Zenon
  <2>4. mu' = "none" /\ ~r'.up /\ RunnerOK(r') /\ served' = served
    BY <1>2, <1>5, <2>1, Zenon DEF task
  <2> QED  BY <2>2, <2>3, <2>4, FreeOK, Zenon
<1>6. CASE ~r.nil
  <2>1. PICK q \in BeforeGet(i, a) :
          /\ \/ q.frozen /\ r' = q /\ Return(p) /\ UNCHANGED <<mu, lastSent, served>>
             \/ ~q.frozen /\ q.ready = j /\ j = i /\ Consume(p, q, i)
             \/ ~q.frozen /\ q.ready = j /\ j # i /\ Pull(p, q, j + 1) /\ lastSent' = j
             \/ ~q.frozen /\ q.ready # j /\ Pull(p, q, j) /\ UNCHANGED lastSent
          /\ drifted' = (/\ ~SeeksTo(i, a)
                         /\ drifted \/ (j = lastSent /\ q.ready # j))
    BY <1>6, Zenon DEF WithSegment
  <2>2. audio' = a /\ disposed' = disposed
    BY <1>6, Zenon DEF WithSegment
  <2>3. drifted' \in Flags
    BY <2>1, Zenon DEF Flags
  <2>4. r \in Shape /\ RunnerOK(r) /\ (r.up => r.audio = audio)
    BY Zenon DEF Typed, IInv
  <2>5. /\ q \in Shape /\ RunnerOK(q)
        /\ ~q.frozen => q.up /\ q.audio = a
        /\ ~q.frozen => \/ q = r /\ r.up /\ ~SeeksTo(i, a)
                        \/ q.next = j /\ q.ready = -1
    BY <1>1, <1>6, <2>1, <2>4, BeforeGetOK
  <2>6. /\ q.next \in Int /\ q.content \in Int /\ q.ready \in Int /\ lastSent \in Int
        /\ i \in Int /\ j \in Int
    BY <1>1, <1>3, <2>5, TaskAssumption DEF Shape, Positions, Labels, Segments
  <2>7. r.up => drifted \/ InOrder(r, lastSent)
    BY <1>2, Zenon DEF IInv
  <2> HIDE DEF i, a, j
  <2>8. ~q.frozen /\ ~drifted' =>
          /\ q.ready = j => q.content = j /\ q.next = j + 1
          /\ q.ready # j => q.next = j
    BY <1>3, <1>4, <2>1, <2>5, <2>6, <2>7 DEF InOrder, RunnerOK
  <2>9. CASE q.frozen /\ r' = q /\ Return(p) /\ UNCHANGED <<mu, lastSent, served>>
    <3>1. Typed'
      BY <1>1, <1>2, <2>2, <2>3, <2>5, <2>9, ReturnOK, Zenon DEF Typed
    <3>2. \A x \in Requests : req'[x].at \notin Held
      BY <1>2, <2>9, ReturnOK, NobodyHolds, Zenon
    <3>3. ~r'.up /\ RunnerOK(r') /\ mu' = "none" /\ served' = served
      BY <1>2, <2>5, <2>9, Zenon DEF RunnerOK
    <3> QED  BY <3>1, <3>2, <3>3, FreeOK, Zenon
  <2>10. CASE ~q.frozen /\ q.ready = j /\ j = i /\ Consume(p, q, i)
    <3>1. drifted' \/ q.content = i
      BY <2>8, <2>10, Zenon
    <3> QED
      BY <1>1, <1>2, <2>2, <2>3, <2>5, <2>10, <3>1, ConsumeOK, Zenon DEF a
  <2>11. CASE ~q.frozen /\ q.ready = j /\ j # i /\ Pull(p, q, j + 1) /\ lastSent' = j
    <3>1. drifted' \/ q.next = j + 1
      BY <2>8, <2>11, Zenon
    <3>2. j + 1 \in Segments /\ j + 1 <= i
      BY <1>1, <1>3, <2>11, TaskAssumption DEF Segments
    <3> QED
      BY <1>1, <1>2, <1>3, <2>2, <2>3, <2>5, <2>11, <3>1, <3>2, PullOK, Zenon DEF a, i
  <2>12. CASE ~q.frozen /\ q.ready # j /\ Pull(p, q, j) /\ UNCHANGED lastSent
    <3>1. drifted' \/ q.next = j
      BY <2>8, <2>12, Zenon
    <3> QED
      BY <1>1, <1>2, <1>3, <2>2, <2>3, <2>5, <2>12, <3>1, PullOK, Zenon DEF a, i
  <2> QED  BY <2>1, <2>9, <2>10, <2>11, <2>12, Zenon
<1> QED  BY <1>5, <1>6, Zenon DEF WithSegment

LEMMA PullSegmentOK ==
  ASSUME Typed, IInv, NEW p \in Requests, PullSegment(p)
  PROVE  /\ Typed' /\ IInv'
         /\ served' # served /\ ~drifted' =>
              served'.content = served'.index /\ served'.track = served'.audio
<1> DEFINE i == req[p].cur
           q == Accept(r, i)
<1>1. /\ r \in Shape /\ RunnerOK(r) /\ r.up /\ r.audio = audio /\ mu = p
      /\ i \in Segments /\ req[p].index \in Segments /\ audio \in Audios
      /\ drifted \in Flags
  BY Zenon DEF PullSegment, IInv, Holding, Held, Typed, Handlers
<1>2. /\ i <= req[p].index /\ req[p].audio = audio /\ (drifted \/ r.next = i)
      /\ r.next < NSegments
  BY Zenon DEF PullSegment, IInv
<1>3. UNCHANGED <<audio, disposed, drifted, asked, failed>>
  BY Zenon DEF PullSegment, bounds
<1>4. /\ q \in Shape /\ RunnerOK(q) /\ q.up /\ q.audio = audio /\ q.ready = i
      /\ q.content = r.next /\ q.next = r.next + 1
  BY <1>1, <1>2, AcceptOK, Zenon
<1>5. CASE i = req[p].index /\ Consume(p, q, i)
  <2>1. drifted' \/ q.content = i
    BY <1>2, <1>3, <1>4, Zenon
  <2> HIDE DEF i, q
  <2> QED
    BY <1>1, <1>2, <1>3, <1>4, <1>5, <2>1, ConsumeOK, Zenon
<1>6. CASE i # req[p].index /\ Pull(p, q, i + 1) /\ lastSent' = i
  <2>1. drifted' \/ q.next = i + 1
    BY <1>2, <1>3, <1>4, Zenon
  <2>2. i + 1 \in Segments /\ i + 1 <= req[p].index /\ i \in Labels
    BY <1>1, <1>2, <1>6, FieldSets, TaskAssumption DEF Segments
  <2> HIDE DEF i, q
  <2> QED
    BY <1>1, <1>2, <1>3, <1>4, <1>6, <2>1, <2>2, PullOK, Zenon
<1> QED  BY <1>5, <1>6, Zenon DEF PullSegment

LEMMA GiveUpOK ==
  ASSUME Typed, IInv, NEW p \in Requests, GiveUp(p)
  PROVE  Typed' /\ IInv'
<1>1. /\ mu = p /\ mu' = "none" /\ Return(p)
      /\ UNCHANGED <<audio, lastSent, disposed, r, served, asked, failed>>
      /\ drifted' = ~InOrder(r, lastSent)
  BY Zenon DEF GiveUp, IInv, Holding, Held, bounds
<1>2. drifted' \in Flags
  BY <1>1, Zenon DEF Flags
<1>3. Typed'
  BY <1>1, <1>2, ReturnOK, Zenon DEF Typed
<1>4. \A x \in Requests : req'[x].at \notin Held
  BY <1>1, ReturnOK, NobodyHolds, Zenon
<1>5. RunnerOK(r') /\ (r'.up => r'.audio = audio')
  BY <1>1, Zenon DEF IInv
<1>6. drifted' \/ InOrder(r', lastSent')
  BY <1>1, Zenon DEF InOrder
<1> QED  BY <1>1, <1>3, <1>4, <1>5, <1>6, FreeOK, Zenon

LEMMA PullFailsOK ==
  ASSUME Typed, IInv, NEW p \in Requests, PullFails(p)
  PROVE  Typed' /\ IInv'
<1> DEFINE i == IF req[p].at = "pull" THEN req[p].cur ELSE req[p].index
<1>1. /\ mu = p /\ mu' = "none" /\ Return(p) /\ r' = Freeze(r, i)
      /\ UNCHANGED <<audio, lastSent, disposed, served, drifted, asked, failed>>
  BY Zenon DEF PullFails, IInv, Holding, Held, bounds
<1>2. i \in Positions /\ r \in Shape
  BY FieldSets, Zenon DEF Typed, Handlers
<1>3. r' \in Shape /\ RunnerOK(r') /\ ~r'.up
  BY <1>1, <1>2, FreezeOK, Zenon
<1>4. Typed'
  BY <1>1, <1>3, ReturnOK, Zenon DEF Typed
<1>5. \A x \in Requests : req'[x].at \notin Held
  BY <1>1, ReturnOK, NobodyHolds, Zenon
<1> QED  BY <1>1, <1>3, <1>4, <1>5, FreeOK, Zenon

\* A handler that has not got the lock goes on to where it needs none.
LEMMA BesideOK ==
  ASSUME Typed, IInv, NEW p \in Requests, req[p].at \notin Held,
         req' \in [Requests -> Handlers], req'[p].at \notin Held,
         \A x \in Requests : x # p => req'[x] = req[x],
         UNCHANGED <<mu, audio, lastSent, disposed, r, served, drifted, asked, failed>>
  PROVE  Typed' /\ IInv'
<1>1. Typed'
  BY Zenon DEF Typed
<1>2. \A x \in Requests : Holding(x)' <=> Holding(x)
  BY Zenon DEF Holding
<1>3. \A x \in Requests : req'[x].at \in {"pull", "write"} => req'[x] = req[x]
  BY Zenon DEF Held
<1> QED  BY <1>1, <1>2, <1>3, Zenon DEF IInv, Holding, InOrder

\* The client of an init segment is served beside the lock.
LEMMA WithInitMP4OK ==
  ASSUME Typed, IInv, NEW p \in Requests, WithInitMP4(p)
  PROVE  Typed' /\ IInv'
<1>1. /\ req[p].at = "init" /\ (Return(p) \/ GoTo(p, "writeInit"))
      /\ UNCHANGED <<mu, audio, lastSent, disposed, r, served, drifted, asked, failed>>
  BY Zenon DEF WithInitMP4, task, bounds
<1>2. "writeInit" \in Places /\ "writeInit" \notin Held /\ "init" \notin Held
  BY Zenon DEF Places, Held
<1>3. /\ req' \in [Requests -> Handlers] /\ req'[p].at \notin Held
      /\ \A x \in Requests : x # p => req'[x] = req[x]
  BY <1>1, <1>2, ReturnOK, GoToOK, Zenon
<1> QED  BY <1>1, <1>2, <1>3, BesideOK, Zenon

\* A write that ends lets go of what it held; nothing else changes.
LEMMA WriteEndsOK ==
  ASSUME Typed, IInv, NEW p \in Requests, WriteEnds(p)
  PROVE  Typed' /\ IInv'
<1>1. /\ Return(p) /\ req[p].at \in {"write", "writeInit"}
      /\ mu' = IF req[p].at = "write" THEN "none" ELSE mu
      /\ UNCHANGED <<audio, lastSent, disposed, r, served, drifted, asked, failed>>
  BY Zenon DEF WriteEnds, bounds
<1>2. CASE req[p].at = "write"
  <2>1. mu = p /\ mu' = "none" /\ (drifted \/ InOrder(r, lastSent))
    BY <1>1, <1>2, Zenon DEF IInv, Holding, Held
  <2>2. RunnerOK(r) /\ (r.up => r.audio = audio)
    BY Zenon DEF IInv
  <2>3. Typed'
    BY <1>1, <2>1, ReturnOK, Zenon DEF Typed
  <2>4. \A x \in Requests : req'[x].at \notin Held
    BY <1>1, <2>1, ReturnOK, NobodyHolds, Zenon
  <2>5. RunnerOK(r') /\ (r'.up => r'.audio = audio' /\ (drifted' \/ InOrder(r', lastSent')))
    BY <1>1, <2>1, <2>2, Zenon DEF InOrder
  <2> QED  BY <2>1, <2>3, <2>4, <2>5, FreeOK, Zenon
<1>3. CASE req[p].at = "writeInit"
  <2>1. mu' = mu /\ "writeInit" \notin Held
    BY <1>1, <1>3, Zenon DEF Held
  <2> QED  BY <1>1, <1>3, <2>1, ReturnOK, BesideOK, Zenon
<1> QED  BY <1>1, <1>2, <1>3, Zenon

\* The bus watch acts at any time, but changes nothing that a reader looks at.
LEMMA BusFailsOK ==
  ASSUME Typed, IInv, BusFails
  PROVE  Typed' /\ IInv'
<1>1. r' = [r EXCEPT !.watch = FALSE, !.err = "current", !.freezers = @ \cup {"current"}]
  BY Zenon DEF BusFails
<1>2. UNCHANGED <<mu, audio, lastSent, disposed, req, served, drifted, asked>>
  BY Zenon DEF BusFails, task
<1>3. r \in Shape /\ RunnerOK(r) /\ r.watch
  BY Zenon DEF BusFails, Typed, IInv
<1>4. r' \in Shape
  BY <1>1, <1>3, FieldSets, Zenon DEF Shape
<1>5. failed' \in 0 .. MaxFailures
  BY TaskAssumption DEF BusFails, Typed
<1>6. Typed'
  BY <1>2, <1>4, <1>5, Zenon DEF Typed
<1>7. /\ r'.up = r.up /\ r'.audio = r.audio /\ r'.next = r.next /\ r'.ready = r.ready
      /\ r'.content = r.content
  BY <1>1, <1>3, Zenon DEF Shape
<1>8. RunnerOK(r')
  BY <1>1, <1>3, Zenon DEF Shape, RunnerOK
<1> QED
  BY <1>2, <1>6, <1>7, <1>8, Zenon DEF IInv, Holding, InOrder

\* What takes the pipeline down, or leaves it alone, when nobody reads.
LEMMA AsideOK ==
  ASSUME Typed, IInv, mu = "none", r' \in Shape, RunnerOK(r'),
         UNCHANGED <<task, req, served, drifted, bounds>>,
         \/ ~r'.up
         \/ /\ r'.up = r.up /\ r'.audio = r.audio /\ r'.next = r.next
            /\ r'.ready = r.ready /\ r'.content = r.content
  PROVE  Typed' /\ IInv'
<1>1. Typed'
  BY Zenon DEF Typed, task, bounds
<1>2. \A x \in Requests : req'[x].at \notin Held
  BY TaskAssumption, Zenon DEF IInv, Holding
<1>3. mu' = "none" /\ (r'.up => r'.audio = audio' /\ (drifted' \/ InOrder(r', lastSent')))
  BY Zenon DEF IInv, InOrder, task
<1> QED  BY <1>1, <1>2, <1>3, FreeOK, Zenon

LEMMA FreezeBusGenerationOK ==
  ASSUME Typed, IInv, NEW g \in r.freezers, freezeBusGeneration(g)
  PROVE  Typed' /\ IInv'
<1> DEFINE q == [r EXCEPT !.freezers = @ \ {g}]
<1>1. /\ mu = "none" /\ UNCHANGED <<task, req, served, drifted, bounds>>
      /\ r' = IF freezes(g) THEN Freeze(q, q.position) ELSE q
  BY Zenon DEF freezeBusGeneration
<1>2. r \in Shape /\ RunnerOK(r)
  BY Zenon DEF Typed, IInv
<1>3. /\ q \in Shape /\ q.position \in Positions /\ RunnerOK(q)
      /\ q.up = r.up /\ q.audio = r.audio /\ q.next = r.next
      /\ q.ready = r.ready /\ q.content = r.content
  BY <1>2, FieldSets, Zenon DEF Shape, RunnerOK
<1> HIDE DEF q
<1>4. CASE freezes(g)
  BY <1>1, <1>3, <1>4, FreezeOK, AsideOK, Zenon
<1>5. CASE ~freezes(g)
  BY <1>1, <1>3, <1>5, AsideOK, Zenon
<1> QED  BY <1>4, <1>5, Zenon

LEMMA FreezeIfInactiveOK ==
  ASSUME Typed, IInv, FreezeIfInactive
  PROVE  Typed' /\ IInv'
<1>1. r \in Shape /\ r.position \in Positions
  BY Zenon DEF Typed, Shape
<1> QED  BY <1>1, FreezeOK, AsideOK, Zenon DEF FreezeIfInactive

LEMMA DisposeOK ==
  ASSUME Typed, IInv, DisposeBegin \/ DisposeEnd
  PROVE  Typed' /\ IInv'
<1>1. r \in Shape
  BY Zenon DEF Typed
<1>2. CASE DisposeBegin
  <2>1. Typed'
    BY <1>2, FieldSets, Zenon DEF DisposeBegin, Typed, bounds
  <2>2. IInv'
    BY <1>2, Zenon DEF DisposeBegin, IInv, Holding, InOrder
  <2> QED  BY <2>1, <2>2, Zenon
<1>3. CASE DisposeEnd
  <2>1. r' = [Stop(r) EXCEPT !.nil = TRUE]
    BY <1>3, Zenon DEF DisposeEnd
  <2>2. r' \in Shape /\ RunnerOK(r') /\ ~r'.up
    BY <1>1, <2>1, StopOK, FieldSets, ZenonT(60) DEF Shape, RunnerOK
  <2> QED  BY <1>3, <2>2, AsideOK, Zenon DEF DisposeEnd
<1> QED  BY <1>2, <1>3, Zenon

\* Every step preserves the invariant.
LEMMA StepOK ==
  ASSUME Typed, IInv, [Next]_vars
  PROVE  Typed' /\ IInv'
<1>1. ASSUME NEW p \in Requests, Handle(p)  PROVE Typed' /\ IInv'
  BY <1>1, EnsureInitShortOK, EnsureInitOK, PullInitOK, WithInitMP4OK, WithSegmentOK,
     PullSegmentOK, GiveUpOK, PullFailsOK, Zenon DEF Handle
<1>2. ASSUME NEW p \in Requests, NEW a \in Asks, Ask(p, a)  PROVE Typed' /\ IInv'
  BY <1>2, AskOK, Zenon
<1>3. CASE BusFails  BY <1>3, BusFailsOK, Zenon
<1>4. ASSUME NEW g \in r.freezers, freezeBusGeneration(g)  PROVE Typed' /\ IInv'
  BY <1>4, FreezeBusGenerationOK, Zenon
<1>5. CASE FreezeIfInactive  BY <1>5, FreezeIfInactiveOK, Zenon
<1>6. CASE DisposeBegin \/ DisposeEnd  BY <1>6, DisposeOK, Zenon
<1>7. CASE UNCHANGED vars
  <2>1. Typed'
    BY <1>7, Zenon DEF vars, task, bounds, Typed
  <2>2. IInv'
    BY <1>7, Zenon DEF vars, task, bounds, IInv, Holding, InOrder
  <2> QED  BY <2>1, <2>2, Zenon
<1>8. ASSUME NEW p \in Requests, WriteEnds(p)  PROVE Typed' /\ IInv'
  BY <1>8, WriteEndsOK, Zenon
<1> QED  BY <1>1, <1>2, <1>3, <1>4, <1>5, <1>6, <1>7, <1>8, Zenon DEF Next

-----------------------------------------------------------------------------
(* The theorems.                                                           *)

\* The inductive invariant holds: the runner's fields agree, exactly the holder of Task.mu
\* is in the middle of a read or a write, a pipeline that is up plays the task's track and, unless the
\* position has drifted, stands where LastSentSegment says.
THEOREM TaskInvariant == Spec => [](TypeOK /\ IInv)
<1>1. Init => Typed /\ IInv
  BY InitOK, Zenon
<1>2. Typed /\ IInv /\ [Next]_vars => Typed' /\ IInv'
  BY StepOK, Zenon
<1>3. Typed <=> TypeOK
  BY TypedIsTypeOK, Zenon
<1> QED  BY <1>1, <1>2, <1>3, PTL DEF Spec

\* Every variable keeps its type: for any number of segments, tracks and requests, no
\* operation of the runner takes a label or a position out of the range of the file.
THEOREM TaskTypes == Spec => []TypeOK
BY TaskInvariant, PTL

\* An init segment is only ever published for the current audio track, whatever the
\* interleaving of EnsureInit, WithSegment, the bus watch and Dispose.
THEOREM InitMatchesAudio == Spec => []InitOfAudio
<1>1. IInv => InitOfAudio
  BY Zenon DEF IInv, RunnerOK, InitOfAudio
<1> QED  BY <1>1, TaskInvariant, PTL

\* A task that is frozen or disposed of has no pipeline, no bus watch and no init segment.
THEOREM StoppedIsEmpty == Spec => []StoppedHoldsNothing
<1>1. IInv => StoppedHoldsNothing
  BY Zenon DEF IInv, RunnerOK, StoppedHoldsNothing
<1> QED  BY <1>1, TaskInvariant, PTL

\* Only WithSegment and GetSegment's pull serve a segment.
LEMMA OthersServeNothing ==
  ASSUME [Next]_vars, \A p \in Requests : ~WithSegment(p) /\ ~PullSegment(p)
  PROVE  \/ served' = served
         \/ \E p \in Requests, a \in Asks : Ask(p, a)
BY Zenon DEF Next, Handle, EnsureInitShort, EnsureInit, PullInit, WithInitMP4, GiveUp, PullFails,
   WriteEnds, BusFails, freezeBusGeneration, FreezeIfInactive, DisposeBegin, DisposeEnd, vars

\* Unless the position has drifted, a client gets the segment it asked for with the sound
\* it asked for, caught up with, sought or found ready.
THEOREM SegmentsInOrder == Spec => ServedInOrder
<1> DEFINE Fits == served' # served /\ ~drifted' =>
                     served'.content = served'.index /\ served'.track = served'.audio
<1>1. TypeOK /\ IInv /\ [Next]_vars => [Fits]_vars
  <2> SUFFICES ASSUME Typed, IInv, [Next]_vars  PROVE Fits
    BY TypedIsTypeOK, Zenon
  <2>1. ASSUME NEW p \in Requests, WithSegment(p) \/ PullSegment(p)  PROVE Fits
    BY <2>1, WithSegmentOK, PullSegmentOK, Zenon
  <2>2. ASSUME NEW p \in Requests, NEW a \in Asks, Ask(p, a)  PROVE Fits
    BY <2>2, Zenon DEF Ask, NothingServed
  <2>3. CASE served' = served  BY <2>3, Zenon
  <2> QED  BY <2>1, <2>2, <2>3, OthersServeNothing, Zenon
<1> QED  BY <1>1, TaskInvariant, PTL DEF Spec, ServedInOrder

\* The goroutine that a bus watch leaves behind takes a pipeline down only if it was this
\* pipeline's bus that failed.
THEOREM StaleBus == Spec => StaleBusHarmless
<1> DEFINE Own == \A g \in r.freezers :
                    r.up /\ freezeBusGeneration(g) /\ ~r'.up => r.err = "current"
<1>1. IInv => r.err # "older"
  BY Zenon DEF IInv, RunnerOK
<1>2. TypeOK /\ IInv /\ [Next]_vars => [Own]_vars
  <2> SUFFICES ASSUME Typed, IInv, NEW g \in r.freezers,
                      r.up, freezeBusGeneration(g), ~r'.up
               PROVE  r.err = "current"
    BY TypedIsTypeOK, Zenon
  <2>1. freezes(g)
    BY Zenon DEF freezeBusGeneration, Typed, Shape
  <2> QED  BY <2>1, Zenon DEF freezes, IInv, RunnerOK
<1> QED  BY <1>1, <1>2, TaskInvariant, PTL DEF Spec, StaleBusHarmless
-----------------------------------------------------------------------------
(* Ranges: facts on naturals.  The order is well-founded, so that a set    *)
(* has a least member and a fact can be shown by induction.                *)

Less == {ss \in Nat \X Nat : ss[1] < ss[2]}

\* A set of naturals has a least one.
LEMMA LeastOne == ASSUME NEW S \in SUBSET Nat, S # {}  PROVE \E x \in S : \A y \in S : x <= y
<1>1. IsWellFoundedOn(Less, Nat)  BY NatLessThanWellFounded DEF OpToRel, Less
<1>2. PICK x \in S : \A y \in S : ~(<<y, x>> \in Less)  BY <1>1, WFMin, Zenon
<1>3. ASSUME NEW y \in S  PROVE x <= y
  <2>1. x \in Nat /\ y \in Nat  OBVIOUS
  <2>2. <<y, x>> \notin Less  BY <1>2
  <2> QED  BY <2>1, <2>2 DEF Less
<1> QED  BY <1>3

\* What holds of n if it holds below n holds of every natural.
LEMMA ByLess ==
  ASSUME NEW G, \A n \in Nat : (\A k \in Nat : k < n => k \in G) => n \in G
  PROVE  \A n \in Nat : n \in G
<1> SUFFICES ASSUME NEW a \in Nat, a \notin G  PROVE FALSE  OBVIOUS
<1> DEFINE S == {n \in Nat : n \notin G}
<1>1. S \in SUBSET Nat /\ S # {}  OBVIOUS
<1>2. PICK x \in S : \A y \in S : x <= y  BY <1>1, LeastOne, Zenon
<1>3. \A k \in Nat : k < x => k \in G  BY <1>2
<1> QED  BY <1>2, <1>3

\* What Max returns: a set of naturals with a bound has a greatest one.
LEMMA GreatestOne ==
  ASSUME NEW S \in SUBSET Nat, S # {}, NEW m \in Nat, \A x \in S : x <= m
  PROVE  Max(S) \in S /\ \A x \in S : x <= Max(S)
<1> DEFINE U == {k \in Nat : \A x \in S : x <= k}
<1>1. U \in SUBSET Nat /\ U # {}  OBVIOUS
<1>2. PICK k \in U : \A j \in U : k <= j  BY <1>1, LeastOne, Zenon
<1>3. k \in S
  <2> SUFFICES ASSUME k \notin S  PROVE FALSE  OBVIOUS
  <2>1. \A x \in S : x <= k - 1
    <3> TAKE x \in S
    <3>1. x <= k /\ x # k /\ x \in Nat /\ k \in Nat  BY <1>2
    <3> QED  BY <3>1
  <2>2. k - 1 \in Nat
    <3>1. PICK x \in S : TRUE  BY Zenon
    <3>2. x <= k - 1 /\ x \in Nat /\ k \in Nat  BY <1>2, <2>1
    <3> QED  BY <3>2
  <2>3. k - 1 \in U  BY <2>1, <2>2
  <2> QED  BY <1>2, <2>3
<1>4. \E x \in S : \A y \in S : x >= y  BY <1>2, <1>3
<1> QED  BY <1>4, Zenon DEF Max

\* What Min returns.
LEMMA SmallestOne ==
  ASSUME NEW S \in SUBSET Nat, S # {}
  PROVE  Min(S) \in S /\ \A x \in S : Min(S) <= x
<1>1. \E x \in S : \A y \in S : x =< y  BY LeastOne
<1> QED  BY <1>1, Zenon DEF Min

\* Quotient and remainder.
LEMMA DivFacts ==
  ASSUME NEW a \in Nat, NEW b \in Nat \ {0}
  PROVE  /\ a \div b \in Nat /\ a % b \in Nat
         /\ a = b * (a \div b) + (a % b) /\ a % b < b
<1>1. b \in Int /\ b > 0 /\ a \in Int  OBVIOUS
<1>2. a = b * (a \div b) + (a % b)  BY <1>1, SMTT(30)
<1>3. a % b \in Nat /\ a % b < b /\ a \div b \in Int  BY <1>1
<1>4. a \div b >= 0  BY <1>1, <1>2, <1>3, SMTT(30)
<1>5. \A i \in Int : i >= 0 => i \in Nat  OBVIOUS
<1> QED  BY <1>2, <1>3, <1>4, <1>5, Zenon

\* There is one quotient and one remainder.
LEMMA DivUnique ==
  ASSUME NEW a \in Nat, NEW b \in Nat \ {0}, NEW q \in Nat, NEW rem \in Nat, a = b * q + rem, rem < b
  PROVE  a \div b = q /\ a % b = rem
OBVIOUS

-----------------------------------------------------------------------------
(* Pieces and chunks.                                                      *)

\* A piece is a whole number of chunks.
LEMMA ChunksFit == ChunksPerPiece \in Nat \ {0} /\ PieceLength = ChunksPerPiece * ChunkSize
<1> DEFINE K == PieceLength \div ChunkSize
<1>1. PieceLength \in Nat \ {0} /\ ChunkSize \in Nat \ {0} /\ PieceLength % ChunkSize = 0
  BY RangeAssumption
<1>2. K \in Nat /\ PieceLength = ChunkSize * K + (PieceLength % ChunkSize)  BY <1>1, DivFacts
<1> HIDE DEF K
<1>3. PieceLength = K * ChunkSize  BY <1>1, <1>2
<1>4. K # 0  BY <1>1, <1>3
<1> QED  BY <1>2, <1>3, <1>4 DEF ChunksPerPiece, K

\* The chunk of a byte is one of the byte's piece, and RequestOffset is where it begins.
LEMMA ChunkOf ==
  ASSUME NEW a \in Nat
  PROVE  /\ RequestOffset(a) = ChunkSize * (a \div ChunkSize)
         /\ RequestOffset(a) \div ChunkSize = a \div ChunkSize
         /\ a - RequestOffset(a) = a % ChunkSize
         /\ (a \div ChunkSize) \div ChunksPerPiece = a \div PieceLength
         /\ a % PieceLength < ChunkSize => a % PieceLength = a % ChunkSize
<1> DEFINE K == ChunksPerPiece
           C == ChunkSize
           q == a \div PieceLength
           rem == a % PieceLength
           s == rem \div C
           t == rem % C
<1>1. K \in Nat \ {0} /\ C \in Nat \ {0} /\ PieceLength = K * C /\ PieceLength \in Nat \ {0}
  BY ChunksFit, RangeAssumption
<1>2. q \in Nat /\ rem \in Nat /\ a = PieceLength * q + rem /\ rem < PieceLength  BY <1>1, DivFacts, Zenon
<1>3. s \in Nat /\ t \in Nat /\ rem = C * s + t /\ t < C  BY <1>1, <1>2, DivFacts, Zenon
<1>4. RequestOffset(a) = PieceLength * q + s * C  BY DEF RequestOffset
<1> HIDE DEF K, C, q, rem, s, t
<1>5. s < K
  <2> SUFFICES ASSUME s >= K  PROVE FALSE  BY <1>1, <1>3
  <2>1. C * s >= C * K  BY <1>1, <1>3
  <2> QED  BY <1>1, <1>2, <1>3, <2>1
<1>6. a = C * (K * q + s) + t  BY <1>1, <1>2, <1>3
<1>7. K * q + s \in Nat  BY <1>1, <1>2, <1>3
<1>8. a \div C = K * q + s /\ a % C = t  BY <1>1, <1>3, <1>6, <1>7, DivUnique, Zenon
<1>9. (K * q + s) \div K = q  BY <1>1, <1>2, <1>3, <1>5, <1>7, DivUnique
<1>10. RequestOffset(a) = C * (K * q + s)  BY <1>1, <1>2, <1>3, <1>4
<1>11. RequestOffset(a) \div C = K * q + s
  <2>1. C * (K * q + s) \in Nat  BY <1>1, <1>7
  <2> QED  BY <1>1, <1>7, <1>10, <2>1, DivUnique
<1>12. rem < C => rem = t
  <2> SUFFICES ASSUME rem < C  PROVE rem = t  OBVIOUS
  <2>1. s = 0
    <3> SUFFICES ASSUME s >= 1  PROVE FALSE  BY <1>3
    <3>1. C * s >= C  BY <1>1, <1>3
    <3> QED  BY <1>1, <1>3, <3>1
  <2> QED  BY <1>1, <1>3, <2>1
<1>13. a - RequestOffset(a) = t  BY <1>1, <1>3, <1>6, <1>7, <1>10
<1> QED  BY <1>8, <1>9, <1>10, <1>11, <1>12, <1>13 DEF K, C, q, rem

-----------------------------------------------------------------------------
(* The bytes that are contiguously there.                                  *)

\* Contiguous is the longest run of bytes that are there.
LEMMA RunOfBytes ==
  ASSUME NEW at \in Nat, NEW m \in Nat, NEW w \in BOOLEAN
  PROVE  /\ Contiguous(at, m, w) \in 0 .. m
         /\ \A b \in at .. at + Contiguous(at, m, w) - 1 : Present(b, w)
         /\ \A n \in 0 .. m : (\A b \in at .. at + n - 1 : Present(b, w)) => n <= Contiguous(at, m, w)
<1> DEFINE S == {n \in 0 .. m : \A b \in at .. at + n - 1 : Present(b, w)}
<1>1. S \in SUBSET Nat /\ \A n \in S : n <= m  OBVIOUS
<1>2. 0 \in S
  <2>1. \A b \in at .. at + 0 - 1 : FALSE  OBVIOUS
  <2>2. 0 \in 0 .. m  OBVIOUS
  <2> QED  BY <2>1, <2>2, Zenon
<1>3. Max(S) \in S /\ \A n \in S : n <= Max(S)
  <2>1. S # {}  BY <1>2
  <2> HIDE DEF S
  <2> QED  BY <1>1, <2>1, GreatestOne, Zenon
<1> QED  BY <1>3 DEF Contiguous

\* What is there from an offset is at most what a first part and what follows it give ...
LEMMA RunAtMost ==
  ASSUME NEW at \in Nat, NEW m \in Nat, NEW w \in BOOLEAN, NEW n \in 0 .. m
  PROVE  Contiguous(at, m, w) <= n + Contiguous(at + n, m - n, w)
<1> DEFINE c == Contiguous(at, m, w)
           d == Contiguous(at + n, m - n, w)
<1>1. c \in 0 .. m /\ \A b \in at .. at + c - 1 : Present(b, w)  BY RunOfBytes
<1>2. d \in 0 .. m - n
      /\ \A k \in 0 .. m - n : (\A b \in at + n .. at + n + k - 1 : Present(b, w)) => k <= d
  <2>1. at + n \in Nat /\ m - n \in Nat  OBVIOUS
  <2> QED  BY <2>1, RunOfBytes
<1> HIDE DEF c, d
<1> SUFFICES c <= n + d  BY DEF c, d
<1>3. CASE c <= n  BY <1>1, <1>2, <1>3
<1>4. CASE c > n
  <2>1. c - n \in 0 .. m - n  BY <1>1, <1>4
  <2>2. \A b \in at + n .. at + n + (c - n) - 1 : Present(b, w)  BY <1>1, <1>4
  <2>3. c - n <= d  BY <1>2, <2>1, <2>2
  <2> QED  BY <1>1, <1>2, <2>3
<1> QED  BY <1>1, <1>3, <1>4

\* ... and exactly that if the first part is there.
LEMMA RunAtLeast ==
  ASSUME NEW at \in Nat, NEW m \in Nat, NEW w \in BOOLEAN, NEW n \in 0 .. m,
         \A b \in at .. at + n - 1 : Present(b, w)
  PROVE  n + Contiguous(at + n, m - n, w) <= Contiguous(at, m, w)
<1> DEFINE c == Contiguous(at, m, w)
           d == Contiguous(at + n, m - n, w)
<1>1. \A k \in 0 .. m : (\A b \in at .. at + k - 1 : Present(b, w)) => k <= c  BY RunOfBytes
<1>2. d \in 0 .. m - n /\ \A b \in at + n .. at + n + d - 1 : Present(b, w)
  <2>1. at + n \in Nat /\ m - n \in Nat  OBVIOUS
  <2> QED  BY <2>1, RunOfBytes
<1> HIDE DEF c, d
<1>3. n + d \in 0 .. m  BY <1>2
<1>4. \A b \in at .. at + (n + d) - 1 : Present(b, w)
  <2> TAKE b \in at .. at + (n + d) - 1
  <2>1. b \in at .. at + n - 1 \/ b \in at + n .. at + n + d - 1  BY <1>2
  <2> QED  BY <1>2, <2>1
<1> QED  BY <1>1, <1>3, <1>4 DEF c, d

\* It ends before a byte that is not there.
LEMMA RunStops ==
  ASSUME NEW at \in Nat, NEW m \in Nat, NEW w \in BOOLEAN, NEW n \in 0 .. m,
         n < m => \E b \in at .. at + n : ~Present(b, w)
  PROVE  Contiguous(at, m, w) <= n
<1> DEFINE c == Contiguous(at, m, w)
<1>1. c \in 0 .. m /\ \A b \in at .. at + c - 1 : Present(b, w)  BY RunOfBytes
<1> HIDE DEF c
<1>2. c > n => at .. at + n \subseteq at .. at + c - 1  BY <1>1
<1> QED  BY <1>1, <1>2 DEF c

-----------------------------------------------------------------------------
(* One round of the loop.                                                  *)

\* Min of two numbers.
LEMMA LeastOfTwo ==
  ASSUME NEW x \in Nat, NEW y \in Nat
  PROVE  Min({x, y}) = IF x <= y THEN x ELSE y
<1>1. {x, y} \in SUBSET Nat /\ {x, y} # {}  OBVIOUS
<1>2. Min({x, y}) \in {x, y} /\ \A z \in {x, y} : Min({x, y}) <= z  BY <1>1, SmallestOne, Zenon
<1> QED  BY <1>2

\* Min of three of which the second is not below the first.
LEMMA LeastOfThree ==
  ASSUME NEW x \in Nat, NEW y \in Nat, NEW z \in Nat, x <= y
  PROVE  Min({x, y, z}) = IF x <= z THEN x ELSE z
<1>1. {x, y, z} \in SUBSET Nat /\ {x, y, z} # {}  OBVIOUS
<1>2. Min({x, y, z}) \in {x, y, z} /\ \A v \in {x, y, z} : Min({x, y, z}) <= v
  BY <1>1, SmallestOne, Zenon
<1> QED  BY <1>2

\* Quotients of the numbers between two multiples.
LEMMA DivBetween ==
  ASSUME NEW a \in Nat, NEW b \in Nat \ {0}, NEW lo \in Nat, NEW hi \in Nat,
         b * lo <= a, a < b * hi
  PROVE  a \div b \in lo .. hi - 1
<1> DEFINE q == a \div b
<1>1. q \in Nat /\ a % b \in Nat /\ a = b * q + (a % b) /\ a % b < b  BY DivFacts
<1> HIDE DEF q
<1>2. lo <= q
  <2> SUFFICES ASSUME q + 1 <= lo  PROVE FALSE  BY <1>1
  <2>1. b * (q + 1) <= b * lo  BY <1>1
  <2>2. b * (q + 1) = b * q + b  BY <1>1
  <2> QED  BY <1>1, <2>1, <2>2
<1>3. q < hi
  <2> SUFFICES ASSUME hi <= q  PROVE FALSE  BY <1>1
  <2>1. b * hi <= b * q  BY <1>1
  <2> QED  BY <1>1, <2>1
<1> QED  BY <1>1, <1>2, <1>3 DEF q

\* The run of dirty chunks from a dirty chunk: it ends in its piece, at the piece's end or
\* at a chunk that is not dirty.
LEMMA DirtyRun ==
  ASSUME NEW s \in Nat, s \in dirtyChunks
  PROVE  LET e == (s \div ChunksPerPiece + 1) * ChunksPerPiece
         IN  /\ CurrBit(s) \in s + 1 .. e /\ e \in Nat /\ e - s <= ChunksPerPiece
             /\ \A c \in s .. CurrBit(s) - 1 : c \in dirtyChunks
             /\ CurrBit(s) % ChunksPerPiece = 0 => CurrBit(s) = e
             /\ CurrBit(s) % ChunksPerPiece # 0 =>
                    /\ CurrBit(s) \notin dirtyChunks
                    /\ CurrBit(s) \div ChunksPerPiece = s \div ChunksPerPiece
<1> DEFINE K == ChunksPerPiece
           p == s \div K
           rem == s % K
           e == (p + 1) * K
           S == {b \in s .. e : b = e \/ b \notin dirtyChunks}
           c == CurrBit(s)
<1>1. K \in Nat \ {0}  BY ChunksFit
<1>2. p \in Nat /\ rem \in Nat /\ s = K * p + rem /\ rem < K  BY <1>1, DivFacts
<1>3. c = Min(S)  BY DEF CurrBit
<1> SUFFICES /\ c \in s + 1 .. e /\ e \in Nat /\ e - s <= K
             /\ \A x \in s .. c - 1 : x \in dirtyChunks
             /\ c % K = 0 => c = e
             /\ c % K # 0 => c \notin dirtyChunks /\ c \div K = p
  OBVIOUS
<1> HIDE DEF K, p, rem, c
<1>4. e = K * p + K /\ e \in Nat  BY <1>1, <1>2
<1> HIDE DEF e
<1>5. s < e /\ e - s <= K  BY <1>1, <1>2, <1>4
<1>6. S \in SUBSET Nat /\ e \in S  BY <1>4, <1>5
<1>7. c \in S /\ \A x \in S : c <= x
  <2> HIDE DEF S
  <2>1. S # {}  BY <1>6
  <2> QED  BY <1>3, <1>6, <2>1, SmallestOne, Zenon
<1>8. c \in s + 1 .. e  BY <1>4, <1>5, <1>7
<1>9. ASSUME NEW x \in s .. c - 1  PROVE x \in dirtyChunks
  <2>1. x \in s .. e /\ x < c  BY <1>4, <1>8
  <2> QED  BY <1>4, <1>7, <1>8, <2>1
<1>10. CASE c = e
  <2>1. e = K * (p + 1) + 0  BY <1>1, <1>2, <1>4
  <2>2. e % K = 0  BY <1>1, <1>2, <1>4, <2>1, DivUnique
  <2> QED  BY <1>4, <1>5, <1>8, <1>9, <1>10, <2>2
<1>11. CASE c # e
  <2>1. c \in Nat /\ c - K * p \in Nat \ {0} /\ c - K * p < K  BY <1>1, <1>2, <1>4, <1>8, <1>11
  <2>2. c = K * p + (c - K * p)  BY <1>1, <1>2, <2>1
  <2>3. c \div K = p /\ c % K = c - K * p  BY <1>1, <1>2, <2>1, <2>2, DivUnique, Zenon
  <2> QED  BY <1>4, <1>5, <1>7, <1>8, <1>9, <1>11, <2>1, <2>3
<1> QED  BY <1>10, <1>11

\* The round ends the loop at once; the bytes of a round that does not; whether it goes on.
Whole(at) == at \div PieceLength \in completedPieces
Ends(at, m, w) ==
  \/ m = 0 \/ at \notin 0 .. TorrentLength - 1
  \/ ~Whole(at) /\ (~w \/ RequestOffset(at) \div ChunkSize \notin dirtyChunks)
Bytes(at, m) ==
  IF Whole(at) THEN Min({PieceLength - (at - RequestOffset(at)), m}) ELSE ServeChunks(at, m).serve
GoesOn(at, m) == Whole(at) \/ ServeChunks(at, m).goOn

\* What a round does, if at is the offset and m > 0 bytes are wanted.
RoundRight(at, m, w) ==
  /\ Bytes(at, m) \in 1 .. m
  /\ Present(at, w)
  /\ ~GoesOn(at, m) /\ Bytes(at, m) < m => ~Present(at + Bytes(at, m), w)
  /\ at + m <= TorrentLength /\ (Whole(at) => at % PieceLength < ChunkSize) =>
        /\ \A b \in at .. at + Bytes(at, m) - 1 : Present(b, w)
        /\ GoesOn(at, m) /\ Bytes(at, m) < m => (at + Bytes(at, m)) % PieceLength = 0

\* A round over a complete piece.
LEMMA WholeRound ==
  ASSUME NEW at \in Nat, NEW m \in Nat, NEW w \in BOOLEAN, ~Ends(at, m, w), Whole(at)
  PROVE  RoundRight(at, m, w)
<1> DEFINE P == PieceLength
           C == ChunkSize
           q == at \div P
           rem == at % P
           i == at % C
           n == Bytes(at, m)
<1>1. P \in Nat \ {0} /\ C \in Nat \ {0} /\ C <= P
  <2>1. ChunksPerPiece \in Nat \ {0} /\ PieceLength = ChunksPerPiece * ChunkSize  BY ChunksFit
  <2>2. ChunksPerPiece * ChunkSize >= ChunkSize  BY <2>1, RangeAssumption
  <2> QED  BY <2>1, <2>2, RangeAssumption
<1>2. q \in Nat /\ rem \in Nat /\ at = P * q + rem /\ rem < P  BY <1>1, DivFacts
<1>3. i \in Nat /\ i < C  BY <1>1, DivFacts
<1>4. at - RequestOffset(at) = i /\ (rem < C => rem = i)  BY ChunkOf
<1>5. m # 0 /\ at \in 0 .. TorrentLength - 1 /\ q \in completedPieces  BY DEF Ends, Whole
<1>6. n = Min({P - i, m})  BY <1>4 DEF Bytes
<1>7. Present(at, w)  BY <1>5 DEF Present
<1>8. GoesOn(at, m)  BY DEF GoesOn
<1> HIDE DEF P, C, rem, i, n
<1>9. P - i \in Nat \ {0}  BY <1>1, <1>3
<1>10. n = IF P - i <= m THEN P - i ELSE m  BY <1>6, <1>9, LeastOfTwo
<1>11. n \in 1 .. m  BY <1>5, <1>9, <1>10
<1>12. ASSUME at + m <= TorrentLength, rem < C
       PROVE  /\ \A b \in at .. at + n - 1 : Present(b, w)
              /\ n < m => (at + n) % P = 0
  <2>1. rem = i /\ at + (P - i) = P * q + P  BY <1>1, <1>2, <1>3, <1>4, <1>12
  <2>2. P * (q + 1) = P * q + P  BY <1>1, <1>2
  <2>3. ASSUME NEW b \in at .. at + n - 1  PROVE Present(b, w)
    <3>1. b \in Nat /\ P * q <= b /\ b < P * (q + 1)  BY <1>1, <1>2, <1>3, <1>9, <1>10, <2>1, <2>2
    <3>2. b \div P \in q .. (q + 1) - 1  BY <1>1, <1>2, <3>1, DivBetween
    <3>3. b \div P = q  BY <1>2, <3>2
    <3>4. b \in 0 .. TorrentLength - 1  BY <1>11, <1>12, <3>1, RangeAssumption
    <3> QED  BY <1>5, <3>3, <3>4 DEF Present, P
  <2>4. ASSUME n < m  PROVE (at + n) % P = 0
    <3>1. at + n = P * (q + 1) + 0  BY <1>1, <1>2, <1>9, <1>10, <2>1, <2>2, <2>4
    <3>2. at + n \in Nat /\ q + 1 \in Nat  BY <1>2, <1>11
    <3>3. 0 \in Nat /\ 0 < P  BY <1>1
    <3> QED  BY <1>1, <3>1, <3>2, <3>3, DivUnique, Zenon
  <2> QED  BY <2>3, <2>4
<1> QED  BY <1>7, <1>8, <1>11, <1>12 DEF RoundRight, n, P, rem, C

\* A round over dirty chunks.
LEMMA ChunkRound ==
  ASSUME NEW at \in Nat, NEW m \in Nat, NEW w \in BOOLEAN, ~Ends(at, m, w), ~Whole(at)
  PROVE  RoundRight(at, m, w)
<1> DEFINE P == PieceLength
           C == ChunkSize
           K == ChunksPerPiece
           s == at \div C
           i == at % C
           n == Bytes(at, m)
           e == CurrBit(s)
           q == s \div K
           ready == (e - s) * C - i
<1>1. P \in Nat \ {0} /\ C \in Nat \ {0} /\ K \in Nat \ {0} /\ P = K * C
  BY ChunksFit, RangeAssumption
<1>2. s \in Nat /\ i \in Nat /\ at = C * s + i /\ i < C  BY <1>1, DivFacts
<1>3. /\ at - RequestOffset(at) = i /\ RequestOffset(at) \div C = s
      /\ q = at \div P
  BY ChunkOf
<1>4. /\ m # 0 /\ at \in 0 .. TorrentLength - 1
      /\ w = TRUE /\ s \in dirtyChunks /\ q \notin completedPieces
  BY <1>3 DEF Ends, Whole
<1>5. n = Min({ready, P - i, m}) /\ (GoesOn(at, m) <=> e % K = 0)
  BY <1>3, Zenon DEF Bytes, GoesOn, ServeChunks
<1>6. /\ e \in s + 1 .. (q + 1) * K /\ (q + 1) * K \in Nat /\ (q + 1) * K - s <= K
      /\ \A c \in s .. e - 1 : c \in dirtyChunks
      /\ e % K = 0 => e = (q + 1) * K
      /\ e % K # 0 => e \notin dirtyChunks /\ e \div K = q
  BY <1>2, <1>4, DirtyRun
<1>7. q \in Nat  BY <1>1, <1>2, DivFacts
<1>8. Present(at, w)  BY <1>4 DEF Present
<1> HIDE DEF P, C, K, s, i, n, e, q
<1>9. e \in Nat /\ e - s \in 1 .. K  BY <1>1, <1>2, <1>6
<1>10. (e - s) * C >= C /\ (e - s) * C <= P /\ (e - s) * C = C * e - C * s
  <2>1. (e - s) * C >= 1 * C  BY <1>1, <1>9
  <2>2. (e - s) * C <= K * C  BY <1>1, <1>9
  <2>3. (e - s) * C = C * e - C * s  BY <1>1, <1>2, <1>9
  <2> QED  BY <1>1, <2>1, <2>2, <2>3
<1>11. ready \in Nat \ {0} /\ P - i \in Nat /\ ready <= P - i /\ at + ready = C * e
  <2>1. C * e \in Nat /\ C * s \in Nat  BY <1>1, <1>2, <1>9
  <2> QED  BY <1>1, <1>2, <1>10, <2>1
<1> HIDE DEF ready
<1>12. n = IF ready <= m THEN ready ELSE m  BY <1>5, <1>11, LeastOfThree
<1>13. n \in 1 .. m  BY <1>4, <1>11, <1>12
<1>14. n < m => at + n = C * e  BY <1>11, <1>12, <1>13
<1>15. ASSUME e % K # 0, n < m  PROVE ~Present(at + n, w)
  <2>1. at + n \in Nat /\ at + n = C * e + 0  BY <1>1, <1>9, <1>13, <1>14, <1>15
  <2>2. (at + n) \div C = e  BY <1>1, <1>9, <2>1, DivUnique
  <2>3. (at + n) \div P = e \div K  BY <2>1, <2>2, ChunkOf DEF C, P, K
  <2> QED  BY <1>4, <1>6, <1>15, <2>2, <2>3 DEF Present, C, P
<1>16. ASSUME at + m <= TorrentLength, NEW b \in at .. at + n - 1  PROVE Present(b, w)
  <2>1. C * s \in Nat /\ C * e \in Nat  BY <1>1, <1>2, <1>9
  <2>2. b \in Nat /\ C * s <= b /\ b < C * e  BY <1>2, <1>11, <1>12, <1>13, <2>1
  <2>3. b \div C \in s .. e - 1  BY <1>1, <1>2, <1>9, <2>2, DivBetween, Zenon
  <2>4. b \in 0 .. TorrentLength - 1  BY <1>13, <1>16, <2>2, RangeAssumption
  <2> QED  BY <1>4, <1>6, <2>3, <2>4 DEF Present, C
<1>17. ASSUME e % K = 0, n < m  PROVE (at + n) % P = 0
  <2>1. C * ((q + 1) * K) = P * (q + 1) + 0  BY <1>1, <1>7
  <2>2. at + n = P * (q + 1) + 0  BY <1>6, <1>14, <1>17, <2>1
  <2>3. at + n \in Nat /\ q + 1 \in Nat  BY <1>7, <1>13
  <2> QED  BY <1>1, <2>2, <2>3, DivUnique
<1> QED  BY <1>5, <1>8, <1>13, <1>15, <1>16, <1>17 DEF RoundRight, n, P

-----------------------------------------------------------------------------
(* The loop.                                                               *)

\* The value of the loop with m bytes still wanted, from its values below m.
Value(at, m, w, f) ==
  IF Ends(at, m, w) THEN 0 ELSE Bytes(at, m) + (IF GoesOn(at, m) THEN f[m - Bytes(at, m)] ELSE 0)

\* The body of avail in Available.
Body(off, max, responsive, avail, m) ==
  LET at == off + (max - m)
      canServe == Min({PieceLength - (at - RequestOffset(at)), m})
      chunks == ServeChunks(at, m)
  IN  IF m = 0 \/ at \notin 0 .. TorrentLength - 1 THEN 0
      ELSE IF at \div PieceLength \in completedPieces THEN canServe + avail[m - canServe]
      ELSE IF ~responsive \/ RequestOffset(at) \div ChunkSize \notin dirtyChunks THEN 0
      ELSE chunks.serve + (IF chunks.goOn THEN avail[m - chunks.serve] ELSE 0)

\* They are the same.
LEMMA BodyIs ==
  ASSUME NEW off, NEW max, NEW w \in BOOLEAN, NEW f, NEW m
  PROVE  Body(off, max, w, f, m) = Value(off + (max - m), m, w, f)
BY DEF Body, Value, Ends, Whole, Bytes, GoesOn

\* Every round that does not end the loop.
LEMMA RoundIsRight ==
  ASSUME NEW at \in Nat, NEW m \in Nat, NEW w \in BOOLEAN, ~Ends(at, m, w)
  PROVE  RoundRight(at, m, w)
BY WholeRound, ChunkRound

\* The value looks at nothing else than the values below m: every round takes a byte.
LEMMA ValueSame ==
  ASSUME NEW at \in Nat, NEW m \in Nat, NEW w \in BOOLEAN, NEW f, NEW g,
         \A k \in Nat : k < m => f[k] = g[k]
  PROVE  Value(at, m, w, f) = Value(at, m, w, g)
<1>1. CASE Ends(at, m, w)  BY <1>1 DEF Value
<1>2. CASE ~Ends(at, m, w)
  <2>1. Bytes(at, m) \in 1 .. m  BY <1>2, RoundIsRight DEF RoundRight
  <2>2. f[m - Bytes(at, m)] = g[m - Bytes(at, m)]  BY <2>1
  <2> QED  BY <1>2, <2>2 DEF Value
<1> QED  BY <1>1, <1>2

\* The recursion has a solution: one up to n - 1 is continued by the value at n.
LEMMA LoopHas ==
  ASSUME NEW off \in Nat, NEW max \in Nat, NEW w \in BOOLEAN
  PROVE  \E f : f = [m \in 0 .. max |-> Value(off + (max - m), m, w, f)]
<1> DEFINE Sol(g, n) == g = [m \in 0 .. n |-> Value(off + (max - m), m, w, g)]
           G == {n \in Nat : n <= max => \E g : Sol(g, n)}
<1>1. ASSUME NEW n \in Nat, \A k \in Nat : k < n => k \in G  PROVE n \in G
  <2> SUFFICES ASSUME n <= max  PROVE \E h : Sol(h, n)  OBVIOUS
  <2>1. \E g : \A m \in 0 .. n - 1 : g[m] = Value(off + (max - m), m, w, g)
    <3>1. CASE n = 0
      <4>1. 0 .. n - 1 = {}  BY <3>1
      <4> QED  BY <4>1
    <3>2. CASE n # 0
      <4>1. n - 1 \in Nat /\ n - 1 < n /\ n - 1 <= max  BY <3>2
      <4>2. n - 1 \in G  BY <1>1, <4>1
      <4>3. PICK g : Sol(g, n - 1)  BY <4>1, <4>2
      <4> QED  BY <4>3
    <3> QED  BY <3>1, <3>2
  <2>2. PICK g : \A m \in 0 .. n - 1 : g[m] = Value(off + (max - m), m, w, g)  BY <2>1
  <2> DEFINE h == [m \in 0 .. n |-> IF m < n THEN g[m] ELSE Value(off + (max - m), m, w, g)]
  <2>3. \A k \in Nat : k < n => h[k] = g[k]  OBVIOUS
  <2>4. ASSUME NEW m \in 0 .. n  PROVE h[m] = Value(off + (max - m), m, w, h)
    <3>1. m \in Nat /\ off + (max - m) \in Nat  OBVIOUS
    <3>2. \A k \in Nat : k < m => h[k] = g[k]  BY <2>3
    <3>3. h[m] = Value(off + (max - m), m, w, g)
      <4>1. CASE m < n  BY <2>2, <4>1
      <4>2. CASE ~(m < n)  BY <4>2
      <4> QED  BY <4>1, <4>2
    <3> HIDE DEF h
    <3>4. Value(off + (max - m), m, w, h) = Value(off + (max - m), m, w, g)
      BY <3>1, <3>2, ValueSame
    <3> QED  BY <3>3, <3>4
  <2>5. h = [m \in 0 .. n |-> h[m]]  OBVIOUS
  <2> HIDE DEF h
  <2>6. Sol(h, n)  BY <2>4, <2>5
  <2> QED  BY <2>6
<1> HIDE DEF G
<1>2. \A n \in Nat : n \in G  BY <1>1, ByLess
<1>3. max \in G  BY <1>2
<1> QED  BY <1>3 DEF G

\* Available is the value of a solution.
LEMMA LoopUnfolds ==
  ASSUME NEW off \in Nat, NEW max \in Nat, NEW w \in BOOLEAN
  PROVE  \E f : /\ Available(off, max, w) = f[max]
                 /\ \A m \in 0 .. max : f[m] = Value(off + (max - m), m, w, f)
<1> DEFINE F == CHOOSE f : f = [m \in 0 .. max |-> Body(off, max, w, f, m)]
<1>1. Available(off, max, w) = F[max]  BY DEF Available, Body
<1>2. \E f : f = [m \in 0 .. max |-> Body(off, max, w, f, m)]
  <2>1. PICK f : f = [m \in 0 .. max |-> Value(off + (max - m), m, w, f)]  BY LoopHas, Zenon
  <2>2. \A m \in 0 .. max : Body(off, max, w, f, m) = Value(off + (max - m), m, w, f)  BY BodyIs
  <2>3. f = [m \in 0 .. max |-> Body(off, max, w, f, m)]  BY <2>1, <2>2
  <2> QED  BY <2>3
<1>3. F = [m \in 0 .. max |-> Body(off, max, w, F, m)]  BY <1>2
<1> HIDE DEF F
<1>4. \A m \in 0 .. max : F[m] = Body(off, max, w, F, m)  BY <1>3
<1>5. \A m \in 0 .. max : F[m] = Value(off + (max - m), m, w, F)  BY <1>4, BodyIs
<1> QED  BY <1>1, <1>5

-----------------------------------------------------------------------------
(* The result.                                                             *)

\* What the loop's value v with m bytes still wanted from at is to the bytes that are there.
ValueRight(at, m, w, v) ==
  /\ v \in Contiguous(at, m, w) .. m
  /\ v > 0 <=> m > 0 /\ Present(at, w)
  /\ \/ v = Contiguous(at, m, w) \/ at + m > TorrentLength
     \/ m > 0 /\ Whole(at) /\ at % PieceLength >= ChunkSize

\* A round keeps the value right.
LEMMA RoundKeepsRight ==
  ASSUME NEW at \in Nat, NEW m \in Nat, NEW w \in BOOLEAN, NEW f,
         \A k \in Nat : k < m => ValueRight(at + (m - k), k, w, f[k])
  PROVE  ValueRight(at, m, w, Value(at, m, w, f))
<1> DEFINE c == Contiguous(at, m, w)
           n == Bytes(at, m)
<1>1. c \in 0 .. m  BY RunOfBytes
<1>2. CASE Ends(at, m, w)
  <2>1. Value(at, m, w, f) = 0  BY <1>2 DEF Value
  <2>2. m = 0 \/ ~Present(at, w)
    <3>1. RequestOffset(at) \div ChunkSize = at \div ChunkSize  BY ChunkOf
    <3> QED  BY <1>2, <3>1 DEF Ends, Present, Whole
  <2>3. c <= 0
    <3>1. 0 < m => \E b \in at .. at + 0 : ~Present(b, w)
      <4>1. at \in at .. at + 0  OBVIOUS
      <4> QED  BY <2>2, <4>1
    <3>2. 0 \in 0 .. m  OBVIOUS
    <3> QED  BY <3>1, <3>2, RunStops
  <2>4. c = 0  BY <1>1, <2>3
  <2> QED  BY <2>1, <2>2, <2>4 DEF ValueRight
<1>3. CASE ~Ends(at, m, w)
  <2>1. RoundRight(at, m, w)  BY <1>3, RoundIsRight
  <2>2. n \in 1 .. m /\ m > 0 /\ Present(at, w)  BY <2>1 DEF RoundRight
  <2>3. CASE ~GoesOn(at, m)
    <3>1. Value(at, m, w, f) = n + 0  BY <1>3, <2>3 DEF Value
    <3>2. n < m => ~Present(at + n, w)  BY <2>1, <2>3 DEF RoundRight
    <3>3. c <= n
      <4>1. n \in 0 .. m /\ at + n \in at .. at + n  BY <2>2
      <4>2. n < m => \E b \in at .. at + n : ~Present(b, w)  BY <3>2, <4>1
      <4> HIDE DEF n
      <4> QED  BY <4>1, <4>2, RunStops
    <3>4. ASSUME at + m <= TorrentLength, Whole(at) => at % PieceLength < ChunkSize
          PROVE  n <= c
      <4>1. \A b \in at .. at + n - 1 : Present(b, w)  BY <2>1, <3>4 DEF RoundRight
      <4> HIDE DEF n
      <4> QED  BY <2>2, <4>1, RunOfBytes
    <3> HIDE DEF n, c
    <3>5. Value(at, m, w, f) = n /\ n \in c .. m /\ n > 0  BY <1>1, <2>2, <3>1, <3>3
    <3>6. n = c \/ at + m > TorrentLength \/ (Whole(at) /\ at % PieceLength >= ChunkSize)
      <4>1. TorrentLength \in Nat /\ at % PieceLength \in Nat /\ ChunkSize \in Nat
        BY RangeAssumption, DivFacts
      <4> QED  BY <1>1, <2>2, <3>3, <3>4, <4>1
    <3> QED  BY <2>2, <3>5, <3>6 DEF ValueRight, c
  <2>4. CASE GoesOn(at, m)
    <3> DEFINE k == m - n
               d == Contiguous(at + n, k, w)
    <3>1. Value(at, m, w, f) = n + f[k]  BY <1>3, <2>4 DEF Value
    <3>2. k \in Nat /\ k < m /\ m - k = n /\ at + n \in Nat /\ n \in 0 .. m  BY <2>2
    <3>3. ValueRight(at + n, k, w, f[k])
      <4> HIDE DEF k, n
      <4>1. ValueRight(at + (m - k), k, w, f[k])  BY <3>2
      <4> QED  BY <3>2, <4>1
    <3>4. d \in 0 .. k
      <4> HIDE DEF k, n
      <4> QED  BY <3>2, RunOfBytes
    <3>5. f[k] \in d .. k  BY <3>3 DEF ValueRight
    <3>6. c <= n + d
      <4> HIDE DEF n
      <4> QED  BY <3>2, RunAtMost
    <3>7. ASSUME at + m <= TorrentLength, Whole(at) => at % PieceLength < ChunkSize
          PROVE  n + f[k] = c
      <4>1. /\ \A b \in at .. at + n - 1 : Present(b, w)
            /\ n < m => (at + n) % PieceLength = 0
        BY <2>1, <2>4, <3>7 DEF RoundRight
      <4>2. n + d <= c
        <5> HIDE DEF n
        <5> QED  BY <3>2, <4>1, RunAtLeast
      <4>3. f[k] = d
        <5>1. f[k] = d \/ at + n + k > TorrentLength
              \/ (k > 0 /\ (at + n) % PieceLength >= ChunkSize)
          BY <3>3 DEF ValueRight
        <5> HIDE DEF n, d
        <5>2. at + n + k = at + m  BY <3>2
        <5>3. k > 0 => n < m  BY <3>2
        <5> QED  BY <3>7, <4>1, <5>1, <5>2, <5>3, RangeAssumption
      <4> HIDE DEF n, d, k, c
      <4> QED  BY <1>1, <3>2, <3>4, <3>6, <4>2, <4>3
    <3> HIDE DEF n, d, c, k
    <3>8. n + f[k] \in c .. m /\ n + f[k] > 0  BY <1>1, <2>2, <3>2, <3>4, <3>5, <3>6
    <3>9. n + f[k] = c \/ at + m > TorrentLength \/ (Whole(at) /\ at % PieceLength >= ChunkSize)
      <4>1. TorrentLength \in Nat /\ at % PieceLength \in Nat /\ ChunkSize \in Nat
        BY RangeAssumption, DivFacts
      <4> QED  BY <3>2, <3>7, <4>1
    <3> QED  BY <2>2, <3>1, <3>8, <3>9 DEF ValueRight, c
  <2> QED  BY <2>3, <2>4
<1> QED  BY <1>2, <1>3

\* RangeExact holds in every state, reached or not.
LEMMA RangeIsExact == RangeExact
<1> SUFFICES ASSUME NEW off \in 0 .. TorrentLength, NEW max \in 1 .. MaxWanted, NEW w \in BOOLEAN
             PROVE  LET n == Available(off, max, w)
                        there == Contiguous(off, max, w)
                    IN  /\ n > 0 <=> Present(off, w)
                        /\ n \in there .. max
                        /\ \/ n = there \/ off + max > TorrentLength
                           \/ off \div PieceLength \in completedPieces /\ off % PieceLength >= ChunkSize
  BY DEF RangeExact
<1>1. off \in Nat /\ max \in Nat /\ max > 0  BY RangeAssumption
<1>2. PICK f : /\ Available(off, max, w) = f[max]
               /\ \A m \in 0 .. max : f[m] = Value(off + (max - m), m, w, f)
  BY <1>1, LoopUnfolds
<1> DEFINE G == {m \in Nat : m <= max => ValueRight(off + (max - m), m, w, f[m])}
<1>3. ASSUME NEW m \in Nat, \A k \in Nat : k < m => k \in G  PROVE m \in G
  <2> SUFFICES ASSUME m <= max  PROVE ValueRight(off + (max - m), m, w, f[m])  OBVIOUS
  <2> DEFINE at == off + (max - m)
  <2>1. at \in Nat /\ m \in 0 .. max  BY <1>1
  <2>2. ASSUME NEW k \in Nat, k < m  PROVE ValueRight(at + (m - k), k, w, f[k])
    <3>1. k <= max /\ at + (m - k) = off + (max - k)  BY <1>1, <2>2
    <3>2. ValueRight(off + (max - k), k, w, f[k])  BY <1>3, <2>2, <3>1
    <3> QED  BY <3>1, <3>2
  <2>3. f[m] = Value(at, m, w, f)  BY <1>2, <2>1
  <2> HIDE DEF at
  <2>4. ValueRight(at, m, w, Value(at, m, w, f))  BY <2>1, <2>2, RoundKeepsRight
  <2> QED  BY <2>3, <2>4 DEF at
<1> HIDE DEF G
<1>4. \A m \in Nat : m \in G  BY <1>3, ByLess
<1>5. max \in G  BY <1>1, <1>4
<1>6. ValueRight(off + (max - max), max, w, f[max])  BY <1>1, <1>5 DEF G
<1>7. off + (max - max) = off  BY <1>1
<1>8. ValueRight(off, max, w, Available(off, max, w))  BY <1>2, <1>6, <1>7
<1> QED  BY <1>1, <1>8 DEF ValueRight, Whole

\* What is complete or written is a piece or a chunk of the torrent.
LEMMA RangeTypes == RangeSpec => []RangeTypeOK
<1>1. RangeInit => RangeTypeOK  BY DEF RangeInit, RangeTypeOK
<1>2. RangeTypeOK /\ [RangeNext]_rangeVars => RangeTypeOK'
  BY DEF RangeTypeOK, RangeNext, rangeVars, ChunkWritten, PieceHashed, PieceDropped
<1> QED  BY <1>1, <1>2, PTL DEF RangeSpec

\* Whatever pieces were preloaded, written, hashed and dropped, AvailableRange tells a
\* reader that bytes are available exactly if the byte at its offset is there, never fewer
\* than are contiguously there, and exactly that many for an offset in the first chunk of
\* its piece or in a piece that is not complete, if the end is not nearer than what is wanted.
THEOREM RangesExact == RangeSpec => [](RangeTypeOK /\ RangeExact /\ RangeReadable)
<1>1. RangeReadable  BY RangeIsExact DEF RangeReadable
<1> QED  BY <1>1, RangeIsExact, RangeTypes, PTL
=============================================================================
