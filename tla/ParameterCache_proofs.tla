------------------------ MODULE ParameterCache_proofs ------------------------
(***************************************************************************)
(* Delivery, the reports of commands and the currency of polls, for any    *)
(* number of parameters, polls, commands, frames and changes; and the      *)
(* safety half of the refinement of SettledView.                           *)
(***************************************************************************)
EXTENDS ParameterCache, TLAPS

USE DEF Versions

\* What is asked for now, and what is put over something else, are versions
\* that the portal has had.
LEMMA OfIsHad ==
  ASSUME portal \in Versions, NEW S
  PROVE  Of(S) \in Versions /\ UpTo(Of(S))
  BY DEF Of, UpTo

\* Nothing new comes of putting versions over others.
LEMMA OverlayIsHad ==
  ASSUME NEW S, NEW new \in Versions, NEW old \in Versions
  PROVE  /\ Overlay(S, new, old) \in Versions
         /\ UpTo(new) /\ UpTo(old) => UpTo(Overlay(S, new, old))
  BY DEF Overlay, UpTo

\* A portal that moves on has had what it had.
LEMMA StillHad ==
  ASSUME portal \in Versions, portal' \in Versions, \A i \in Items : portal[i] <= portal'[i],
         NEW v \in Versions, UpTo(v)
  PROVE  \A i \in Items : v[i] <= portal'[i]
<1> TAKE i \in Items
<1>1. v[i] <= portal[i] /\ portal[i] <= portal'[i]
  BY DEF UpTo
<1> QED
  BY <1>1

Places == Requests \cup {"idle", "command"}

\* The request of one reader is a matter of its own.
LEMMA AwaitKeeps ==
  ASSUME TypeOK, NothingInvented, SnapshotInv, UNCHANGED portal,
         NEW r \in Readers, NEW request \in Places, NEW S \in SUBSET {Events},
         Await(r, request, S)
  PROVE  /\ stage' \in [Readers -> Places]
         /\ answered' \in [Readers -> BOOLEAN]
         /\ answer' \in [Readers -> Versions]
         /\ collected' \in [Readers -> SUBSET {Events}]
         /\ since' \in [Readers -> Versions]
         /\ \A q \in Readers : UpTo(answer[q])' /\ UpTo(since[q])'
         /\ SnapshotInv'
<1>1. Nothing \in Versions /\ UpTo(Nothing)
  BY DEF Nothing, UpTo, TypeOK
<1>2. Of(Telemetry) \in Versions /\ UpTo(Of(Telemetry))
  BY OfIsHad DEF TypeOK
<1>3. PICK asked \in Versions : UpTo(asked) /\ since' = [since EXCEPT ![r] = asked]
  BY <1>1, <1>2 DEF Await
<1>4. \A q \in Readers :
        /\ answer'[q] = (IF q = r THEN Nothing ELSE answer[q])
        /\ since'[q] = (IF q = r THEN asked ELSE since[q])
  BY <1>3 DEF Await, TypeOK
<1>5. \A q \in Readers : UpTo(answer'[q]) /\ UpTo(since'[q])
  BY <1>1, <1>3, <1>4 DEF NothingInvented
<1>6. \A q \in Readers : UpTo(answer[q])' /\ UpTo(since[q])'
  BY <1>5 DEF UpTo
<1>7. SnapshotInv'
  BY <1>4 DEF SnapshotInv, Await, TypeOK
<1>8. stage' \in [Readers -> Places] /\ answered' \in [Readers -> BOOLEAN]
      /\ collected' \in [Readers -> SUBSET {Events}]
  BY DEF Await, TypeOK, Places
<1>9. answer' \in [Readers -> Versions] /\ since' \in [Readers -> Versions]
  BY <1>1, <1>3 DEF Await, TypeOK
<1> QED
  BY <1>6, <1>7, <1>8, <1>9

-----------------------------------------------------------------------------
\* What a channel of frames is made of.

FrameSet == [names : SUBSET Telemetry, versions : Versions]

\* The elements of a sequence are of its type.
LEMMA ElementOf ==
  ASSUME NEW F, NEW s \in Seq(F), NEW k \in 1 .. Len(s)  PROVE s[k] \in F
  OBVIOUS

\* Every frame under way carries versions that the portal has had.
LEMMA FrameTyped ==
  ASSUME TypeOK, NothingInvented
  PROVE  \A k \in 1 .. Len(frames) : /\ frames[k].versions \in Versions
                                     /\ UpTo(frames[k].versions)
<1> TAKE k \in 1 .. Len(frames)
<1>1. frames \in Seq(FrameSet)
  BY DEF TypeOK, FrameSet
<1>2. frames[k] \in FrameSet
  BY <1>1, ElementOf
<1>3. frames[k].versions \in Versions
  BY <1>2 DEF FrameSet
<1> QED
  BY <1>3 DEF NothingInvented

-----------------------------------------------------------------------------
\* The parts of the invariant.

\* What entities are told, and what they show.
Views ==
  /\ cache \in Versions /\ shown \in Versions
  /\ UpTo(cache) /\ UpTo(shown)
  /\ ShownIsCached

\* What the commands report.
Reports ==
  /\ kind \in [Commands -> Kinds]
  /\ outcome \in [Commands -> {"none", "done", "unread", "rejected", "failed", "expired"}]
  /\ verdict \in [Commands -> {"none", "accepted", "refused"}]
  /\ lost \in [Commands -> BOOLEAN]
  /\ readback \in [Commands -> BOOLEAN]
  /\ HonestOutcome /\ CommandInv

\* The invariant by what it is about.
LEMMA Parts == CacheInv => TypeOK /\ NothingInvented /\ SnapshotInv /\ Views /\ Reports
  BY DEF CacheInv, DeliveryInv, TypeOK, NothingInvented, Views, Reports

\* A reader that goes on or returns leaves it to what it showed and reported.
LEMMA ReaderKeeps ==
  ASSUME CacheInv, UNCHANGED <<portal, channel>>,
         NEW r \in Readers, NEW request \in Places, NEW S \in SUBSET {Events},
         Await(r, request, S), Views', Reports'
  PROVE  CacheInv'
<1>1. /\ stage' \in [Readers -> Places]
      /\ answered' \in [Readers -> BOOLEAN]
      /\ answer' \in [Readers -> Versions]
      /\ collected' \in [Readers -> SUBSET {Events}]
      /\ since' \in [Readers -> Versions]
      /\ \A q \in Readers : UpTo(answer[q])' /\ UpTo(since[q])'
      /\ SnapshotInv'
  BY Parts, AwaitKeeps
<1>2. TypeOK'
  BY <1>1 DEF CacheInv, DeliveryInv, TypeOK, Views, Reports, Places, channel
<1>3. \A k \in 1 .. Len(frames') : UpTo(frames[k].versions)'
  BY DEF CacheInv, DeliveryInv, NothingInvented, UpTo, channel
<1>4. NothingInvented'
  BY <1>1, <1>3 DEF NothingInvented, Views
<1> QED
  BY <1>1, <1>2, <1>4 DEF CacheInv, DeliveryInv, Views, Reports

\* What a reader ingests, takes over or notifies is a version that the portal
\* has had, and telemetry is shown as it is cached.
LEMMA IngestKeeps ==
  ASSUME CacheInv, UNCHANGED portal, NEW S, NEW new \in Versions, UpTo(new), Ingest(S, new)
  PROVE  Views'
<1> DEFINE T == News(S, new)
<1>1. /\ Overlay(T, new, cache) \in Versions /\ UpTo(Overlay(T, new, cache))
      /\ Overlay(T, new, shown) \in Versions /\ UpTo(Overlay(T, new, shown))
  BY Parts, OverlayIsHad DEF Views
<1>2. UpTo(cache)' /\ UpTo(shown)' /\ cache' \in Versions /\ shown' \in Versions
  BY <1>1 DEF Ingest, UpTo
<1>3. ShownIsCached'
  BY Parts DEF Ingest, Overlay, Views, ShownIsCached, Items
<1> QED
  BY <1>2, <1>3 DEF Views

\* Events or rows are cached, and S or everything is notified.
LEMMA MetadataKeeps ==
  ASSUME CacheInv, UNCHANGED portal, NEW S,
         cache' \in Versions, UpTo(cache'), \A i \in Telemetry : cache'[i] = cache[i],
         shown' \in {shown, Overlay(S, cache', shown), cache'}
  PROVE  Views'
<1>1. Overlay(S, cache', shown) \in Versions /\ UpTo(Overlay(S, cache', shown))
  BY Parts, OverlayIsHad DEF Views
<1>2. shown \in Versions /\ UpTo(shown) /\ shown' \in Versions /\ UpTo(shown')
  BY <1>1, Parts DEF Views
<1>3. UpTo(cache)' /\ UpTo(shown)'
  BY <1>2 DEF UpTo
<1>4. ShownIsCached'
  BY Parts DEF Overlay, Views, ShownIsCached, Items
<1> QED
  BY <1>2, <1>3, <1>4 DEF Views

\* The end of a refresh is reported as it was.
LEMMA ReturnKeeps ==
  ASSUME CacheInv, NEW r \in Readers, NEW ok \in BOOLEAN, Return(r, ok), UNCHANGED record,
         stage[r] \in Requests, ok => stage[r] # "statuses"
  PROVE  Reports'
<1>1. \A c \in Commands : outcome'[c] = (IF c = r THEN ReadResult(r, ok) ELSE outcome[c])
  BY DEF Return, Report
<1>2. \A q \in Readers : /\ stage'[q] = (IF q = r THEN "idle" ELSE stage[q])
                         /\ answered'[q] = (IF q = r THEN FALSE ELSE answered[q])
  BY Parts DEF Return, Await, TypeOK
<1>3. outcome' \in [Commands -> {"none", "done", "unread", "rejected", "failed", "expired"}]
  BY Parts DEF Reports, Return, Report, ReadResult
<1>4. CommandInv'
  BY Parts, <1>1, <1>2 DEF Reports, CommandInv, record, Requests, Readers
<1>5. HonestOutcome'
  BY Parts, <1>1 DEF Reports, CommandInv, HonestOutcome, ReadResult, record, Requests
<1> QED
  BY Parts, <1>3, <1>4, <1>5 DEF Reports, record

\* A refresh that goes on to its supplements has parsed its snapshot.
LEMMA GoingOnKeeps ==
  ASSUME CacheInv, NEW r \in Readers, NEW S, NEW request \in {"events", "rows"},
         Await(r, request, S), stage[r] \in Requests, UNCHANGED <<outcome, kind, verdict, lost>>,
         readback' = [c \in Commands |-> IF c = r THEN TRUE ELSE readback[c]]
  PROVE  Reports'
<1>1. \A q \in Readers : /\ stage'[q] = (IF q = r THEN request ELSE stage[q])
                         /\ answered'[q] = (IF q = r THEN FALSE ELSE answered[q])
  BY Parts DEF Await, TypeOK
<1>2. CommandInv'
  BY Parts, <1>1 DEF Reports, CommandInv, Requests, Readers
<1>3. HonestOutcome'
  BY Parts DEF Reports, HonestOutcome
<1> QED
  BY Parts, <1>2, <1>3 DEF Reports

-----------------------------------------------------------------------------
\* The portal and the channel.

\* The portal moves on.
LEMMA PortalKeeps == ASSUME CacheInv, NEW i \in Items, Change(i)  PROVE CacheInv'
<1>1. portal' \in Versions /\ \A j \in Items : portal[j] <= portal'[j]
  BY Parts DEF Change, TypeOK
<1>2. TypeOK'
  BY <1>1, Parts DEF TypeOK, Change, channel, reading, record
<1>3. \A v \in Versions : UpTo(v) => \A j \in Items : v[j] <= portal'[j]
  BY <1>1, Parts, StillHad DEF TypeOK
<1>4. cache \in Versions /\ shown \in Versions /\ UpTo(cache) /\ UpTo(shown)
  BY Parts DEF Views
<1>5. \A k \in 1 .. Len(frames) : frames[k].versions \in Versions /\ UpTo(frames[k].versions)
  BY Parts, FrameTyped
<1>6. \A r \in Readers : /\ answer[r] \in Versions /\ UpTo(answer[r])
                         /\ since[r] \in Versions /\ UpTo(since[r])
  BY Parts DEF TypeOK, NothingInvented
<1>7. NothingInvented'
  BY <1>3, <1>4, <1>5, <1>6 DEF NothingInvented, UpTo, Change, channel, reading
<1>8. ShownIsCached' /\ HonestOutcome' /\ CommandInv' /\ SnapshotInv'
  BY Parts DEF Change, Views, Reports, ShownIsCached, HonestOutcome, CommandInv, SnapshotInv,
               reading, record
<1> QED
  BY <1>2, <1>7, <1>8 DEF CacheInv, DeliveryInv

\* What the channel carries is typed, was had, and touches no reader.
LEMMA ChannelKeeps ==
  ASSUME CacheInv, UNCHANGED <<portal, reading, outcome, record>>, Views',
         connected' \in BOOLEAN,
         frames' \in Seq([names : SUBSET Telemetry, versions : Versions]),
         \A k \in 1 .. Len(frames') : UpTo(frames'[k].versions)
  PROVE  CacheInv'
<1>1. TypeOK'
  BY Parts DEF TypeOK, Views, reading, record
<1>2. UpTo(cache)' /\ UpTo(shown)' /\ \A k \in 1 .. Len(frames') : UpTo(frames[k].versions)'
  BY DEF Views, UpTo
<1>3. \A r \in Readers : UpTo(answer[r])' /\ UpTo(since[r])'
  BY Parts DEF NothingInvented, UpTo, reading
<1>4. NothingInvented'
  BY <1>2, <1>3 DEF NothingInvented
<1>5. ShownIsCached' /\ HonestOutcome' /\ CommandInv' /\ SnapshotInv'
  BY Parts DEF Views, Reports, HonestOutcome, CommandInv, SnapshotInv, reading, record
<1> QED
  BY <1>1, <1>4, <1>5 DEF CacheInv, DeliveryInv

\* Views are about nothing but portal, cache and what is shown.
LEMMA ViewsStay == ASSUME CacheInv, UNCHANGED <<portal, cache, shown>>  PROVE Views'
  BY Parts DEF Views, UpTo, ShownIsCached

\* Being notified shows what is cached.
LEMMA NotifyAllKeeps == ASSUME CacheInv, UNCHANGED <<portal, cache>>, MayNotifyAll  PROVE Views'
  BY Parts DEF Views, UpTo, ShownIsCached, MayNotifyAll, Items

\* The portal sends a frame with what it has now.
LEMMA PushKeeps == ASSUME CacheInv, NEW S \in SUBSET Telemetry, Push(S)  PROVE CacheInv'
<1> DEFINE new == [names |-> S, versions |-> Of(S)]
<1>1. frames \in Seq([names : SUBSET Telemetry, versions : Versions])
      /\ \A k \in 1 .. Len(frames) : UpTo(frames[k].versions)
  BY Parts DEF TypeOK, NothingInvented
<1>2. new \in [names : SUBSET Telemetry, versions : Versions] /\ UpTo(new.versions)
  BY Parts, OfIsHad DEF TypeOK
<1>3. frames' = Append(frames, new)
  BY DEF Push
<1>4. frames' \in Seq([names : SUBSET Telemetry, versions : Versions])
      /\ \A k \in 1 .. Len(frames') : UpTo(frames'[k].versions)
  <2> HIDE DEF new
  <2> QED
    BY <1>1, <1>2, <1>3
<1>5. Views' /\ connected' \in BOOLEAN
  BY Parts, ViewsStay DEF Push, TypeOK
<1> QED
  BY <1>4, <1>5, ChannelKeeps DEF Push

\* A frame is ingested, or dropped.
LEMMA FrameKeeps == ASSUME CacheInv, NEW S \in SUBSET Telemetry, Frame(S)  PROVE CacheInv'
<1>1. frames \in Seq(FrameSet) /\ frames # <<>>
  BY Parts DEF TypeOK, FrameSet, Frame
<1>2. 1 \in 1 .. Len(frames) /\ Head(frames) = frames[1]
  BY <1>1
<1>3. Head(frames).versions \in Versions /\ UpTo(Head(frames).versions)
  BY <1>2, FrameTyped, Parts
<1>4. Views'
  BY <1>3, IngestKeeps DEF Frame
<1>5. frames' \in Seq(FrameSet)
  BY <1>1 DEF Frame
<1>6. \A k \in 1 .. Len(frames') : UpTo(frames'[k].versions)
  <2> TAKE k \in 1 .. Len(frames')
  <2>1. k + 1 \in 1 .. Len(frames) /\ frames'[k] = frames[k + 1]
    BY <1>1 DEF Frame
  <2> QED
    BY <2>1, FrameTyped, Parts
<1> QED
  BY <1>4, <1>5, <1>6, ChannelKeeps, Parts DEF Frame, TypeOK, FrameSet

\* A connection that is lost takes its frames with it; either may notify all.
LEMMA ConnectionKeeps == ASSUME CacheInv, Connect \/ Disconnect  PROVE CacheInv'
<1>1. Views'
  BY NotifyAllKeeps DEF Connect, Disconnect
<1>2. frames' \in Seq(FrameSet) /\ \A k \in 1 .. Len(frames') : UpTo(frames'[k].versions)
  <2>1. CASE frames' = frames
    BY <2>1, FrameTyped, Parts DEF TypeOK, FrameSet
  <2>2. CASE frames' = <<>>
    BY <2>2
  <2> QED
    BY <2>1, <2>2 DEF Connect, Disconnect
<1> QED
  BY <1>1, <1>2, ChannelKeeps DEF Connect, Disconnect, FrameSet

-----------------------------------------------------------------------------
\* What the portal does with a request.

\* The portal answers with what it has now.
LEMMA AnswerKeeps == ASSUME CacheInv, NEW r \in Readers, Answer(r)  PROVE CacheInv'
<1>1. stage[r] \in Requests /\ stage[r] \notin {"command", "idle"}
  BY DEF Answer, Requests
<1>2. Built(r) \in Versions /\ UpTo(Built(r))
  BY Parts, OfIsHad DEF TypeOK, Built
<1>3. \A q \in Readers :
        /\ answer'[q] = (IF q = r THEN Built(r) ELSE answer[q])
        /\ answered'[q] = (IF q = r THEN TRUE ELSE answered[q])
  BY Parts DEF Answer, Builds, TypeOK
<1>4. answer' \in [Readers -> Versions] /\ answered' \in [Readers -> BOOLEAN]
  BY <1>2, Parts DEF Answer, Builds, TypeOK
<1>5. TypeOK'
  BY <1>4, Parts DEF TypeOK, Answer, channel, record
<1>6. \A q \in Readers : UpTo(answer'[q])
  BY <1>2, <1>3, Parts DEF NothingInvented
<1>7. NothingInvented'
  BY <1>6, Parts DEF NothingInvented, UpTo, Answer, channel
<1>8. SnapshotInv'
  <2> SUFFICES ASSUME NEW q \in Readers, stage[q] = "statuses", answered'[q], NEW i \in Telemetry
               PROVE  since[q][i] <= answer'[q][i]
    BY DEF SnapshotInv, Answer
  <2>1. CASE q = r
    <3>1. answer'[q][i] = portal[i]
      BY <1>3, <2>1 DEF Built, Requested, Of, Items
    <3> QED
      BY <3>1, Parts DEF NothingInvented, UpTo, Items
  <2>2. CASE q # r
    BY <1>3, <2>2, Parts DEF SnapshotInv
  <2> QED
    BY <2>1, <2>2
<1>9. ShownIsCached' /\ HonestOutcome' /\ CommandInv'
  BY <1>1, <1>3, Parts DEF Answer, Views, Reports, ShownIsCached, HonestOutcome, CommandInv,
                           Readers, channel, record
<1> QED
  BY <1>5, <1>7, <1>8, <1>9 DEF CacheInv, DeliveryInv

\* The portal accepts a command or refuses it.
LEMMA DecideKeeps == ASSUME CacheInv, NEW c \in Commands, Decide(c)  PROVE CacheInv'
<1>1. c \in Readers
  BY DEF Readers
<1>2. PICK v \in {"accepted", "refused"} : verdict' = [verdict EXCEPT ![c] = v]
  BY DEF Decide
<1>3. /\ verdict' \in [Commands -> {"none", "accepted", "refused"}]
      /\ \A d \in Commands : verdict'[d] = (IF d = c THEN v ELSE verdict[d])
  BY <1>2, Parts DEF TypeOK
<1>4. /\ answered' \in [Readers -> BOOLEAN]
      /\ \A q \in Readers : answered'[q] = (IF q = c THEN TRUE ELSE answered[q])
  BY <1>1, Parts DEF Decide, Builds, TypeOK
<1>5. TypeOK'
  BY <1>3, <1>4, Parts DEF TypeOK, Decide, channel
<1>6. NothingInvented' /\ ShownIsCached'
  BY Parts DEF NothingInvented, Views, ShownIsCached, UpTo, Decide, channel
<1>7. SnapshotInv'
  BY <1>4, Parts DEF SnapshotInv, Decide
<1>8. CommandInv'
  BY <1>3, <1>4, Parts DEF Decide, Reports, CommandInv, Requests, Readers
<1>9. HonestOutcome'
  BY <1>3, Parts DEF Decide, Reports, CommandInv, HonestOutcome
<1> QED
  BY <1>5, <1>6, <1>7, <1>8, <1>9 DEF CacheInv, DeliveryInv

-----------------------------------------------------------------------------
\* What readers report when they move on.

\* A command that goes on has earned what it goes on to.
LEMMA ReportsStay ==
  ASSUME CacheInv, NEW r \in Readers, NEW request \in Requests, NEW S,
         Await(r, request, S), UNCHANGED <<outcome, record>>,
         r \in Commands =>
           verdict[r] = "accepted" /\ (request \in {"events", "rows"} => readback[r])
  PROVE  Reports'
<1>1. \A q \in Readers : /\ stage'[q] = (IF q = r THEN request ELSE stage[q])
                         /\ answered'[q] = (IF q = r THEN FALSE ELSE answered[q])
  BY Parts DEF Await, TypeOK
<1>2. CommandInv'
  BY Parts, <1>1 DEF Reports, CommandInv, Requests, Readers, record
<1> QED
  BY Parts, <1>2 DEF Reports, HonestOutcome, record

\* A command that ends without a refresh says what is true.
LEMMA ReportKeeps ==
  ASSUME CacheInv, NEW c \in Commands, NEW result \in {"rejected", "failed", "expired"},
         Await(c, "idle", {}), Report(c, result), UNCHANGED <<kind, verdict, readback>>,
         lost' \in [Commands -> BOOLEAN], \A d \in Commands \ {c} : lost'[d] = lost[d],
         result = "rejected" => verdict[c] = "refused" \/ (kind[c] # "number" /\ lost'[c]),
         result = "failed" => kind[c] = "number" /\ lost'[c],
         result = "expired" => verdict[c] = "none"
  PROVE  Reports'
<1>1. \A d \in Commands : outcome'[d] = (IF d = c THEN result ELSE outcome[d])
  BY DEF Report
<1>2. \A q \in Readers : /\ stage'[q] = (IF q = c THEN "idle" ELSE stage[q])
                         /\ answered'[q] = (IF q = c THEN FALSE ELSE answered[q])
  BY Parts DEF Await, TypeOK
<1>3. outcome' \in [Commands -> {"none", "done", "unread", "rejected", "failed", "expired"}]
  BY Parts DEF Reports, Report
<1>4. CommandInv'
  BY Parts, <1>1, <1>2 DEF Reports, CommandInv, Requests, Readers
<1>5. HonestOutcome'
  BY Parts, <1>1 DEF Reports, HonestOutcome
<1> QED
  BY Parts, <1>3, <1>4, <1>5 DEF Reports

-----------------------------------------------------------------------------
\* The steps of a refresh.

\* An answer that is in carries what the portal has had.
LEMMA AnswerHad == ASSUME CacheInv, NEW r \in Readers  PROVE answer[r] \in Versions /\ UpTo(answer[r])
  BY Parts DEF TypeOK, NothingInvented

\* Entities still show what they showed when the cache takes over events or
\* rows.
LEMMA TakenOver ==
  ASSUME CacheInv, UNCHANGED portal, NEW r \in Readers, NEW S \in SUBSET {Events, Rows},
         cache' = Overlay(S, answer[r], cache)
  PROVE  cache' \in Versions /\ UpTo(cache') /\ \A i \in Telemetry : cache'[i] = cache[i]
<1>1. cache \in Versions /\ UpTo(cache)
  BY Parts DEF Views
<1>2. cache' \in Versions /\ UpTo(cache')
  BY <1>1, AnswerHad, OverlayIsHad
<1>3. \A i \in Telemetry : i \notin S /\ i \in Items
  BY CacheAssumption DEF Items
<1> QED
  BY <1>2, <1>3 DEF Overlay

\* The tick begins a refresh.
LEMMA PollKeeps == ASSUME CacheInv, NEW r \in Readers, Poll(r)  PROVE CacheInv'
<1>1. Reports'
  BY ReportsStay, CacheAssumption DEF Poll, Requests
<1> QED
  BY <1>1, ViewsStay, ReaderKeeps DEF Poll, Places, Requests

\* A snapshot is parsed, with whatever it leaves out.
LEMMA ParseStatusesKeeps ==
  ASSUME CacheInv, NEW r \in Readers, NEW S \in SUBSET Telemetry, ParseStatuses(r, S)
  PROVE  CacheInv'
<1>1. Views'
  BY AnswerHad, IngestKeeps DEF ParseStatuses
<1>2. Reports'
  BY GoingOnKeeps DEF ParseStatuses, Requests
<1> QED
  BY <1>1, <1>2, ReaderKeeps DEF ParseStatuses, Places, Requests

\* A refresh that finishes leaves the invariant to what it has cached.
LEMMA FinishKeeps ==
  ASSUME CacheInv, NEW r \in Readers, NEW S, Finish(r, S), stage[r] \in {"events", "rows"},
         UNCHANGED <<portal, channel, record>>,
         cache' \in Versions, UpTo(cache'), \A i \in Telemetry : cache'[i] = cache[i]
  PROVE  CacheInv'
<1>1. Views'
  BY MetadataKeeps DEF Finish, Notified
<1>2. Reports'
  BY ReturnKeeps DEF Finish, Requests
<1> QED
  BY <1>1, <1>2, ReaderKeeps DEF Finish, Return, Places

\* So does one that goes on to the rows.
LEMMA GoOnKeeps ==
  ASSUME CacheInv, NEW r \in Readers, NEW S \in SUBSET {Events}, Await(r, "rows", S),
         stage[r] = "events", UNCHANGED <<portal, shown, outcome, channel, record>>,
         cache' \in Versions, UpTo(cache'), \A i \in Telemetry : cache'[i] = cache[i]
  PROVE  CacheInv'
<1>1. Views'
  BY MetadataKeeps
<1>2. r \in Commands => verdict[r] = "accepted" /\ readback[r]
  BY Parts DEF Reports, CommandInv, Requests
<1>3. Reports'
  BY <1>2, ReportsStay DEF Requests
<1> QED
  BY <1>1, <1>3, ReaderKeeps DEF Places, Requests

\* The events of an answer are cached.
LEMMA ParseEventsKeeps ==
  ASSUME CacheInv, NEW r \in Readers, NEW due \in BOOLEAN, ParseEvents(r, due)
  PROVE  CacheInv'
<1>1. cache' = Overlay({Events}, answer[r], cache)
  BY Parts DEF ParseEvents, Overlay, Views, Items
<1>2. cache' \in Versions /\ UpTo(cache') /\ \A i \in Telemetry : cache'[i] = cache[i]
  BY <1>1, TakenOver DEF ParseEvents
<1> QED
  BY <1>2, FinishKeeps, GoOnKeeps DEF ParseEvents

\* The settings rows of an answer end the refresh.
LEMMA ParseRowsKeeps == ASSUME CacheInv, NEW r \in Readers, ParseRows(r)  PROVE CacheInv'
<1>1. cache' = Overlay({Rows}, answer[r], cache)
  BY Parts DEF ParseRows, Overlay, Views, Items
<1>2. cache' \in Versions /\ UpTo(cache') /\ \A i \in Telemetry : cache'[i] = cache[i]
  BY <1>1, TakenOver DEF ParseRows
<1> QED
  BY <1>2, FinishKeeps DEF ParseRows

\* A request fails on its way.
LEMMA LoseKeeps == ASSUME CacheInv, NEW r \in Readers, Lose(r)  PROVE CacheInv'
<1>1. cache' \in Versions /\ UpTo(cache') /\ \A i \in Telemetry : cache'[i] = cache[i]
  BY Parts DEF Lose, Views
<1>2. CASE stage[r] = "statuses" /\ Return(r, FALSE) /\ UNCHANGED shown
  <2>1. Reports'
    BY <1>2, ReturnKeeps DEF Lose, Requests
  <2> QED
    BY <1>2, <2>1, ViewsStay, ReaderKeeps DEF Lose, Return, Places
<1>3. CASE stage[r] = "events" /\ Await(r, "rows", {}) /\ UNCHANGED <<shown, outcome>>
  BY <1>1, <1>3, GoOnKeeps DEF Lose
<1>4. CASE stage[r] = "events" /\ Finish(r, {})
  BY <1>1, <1>4, FinishKeeps DEF Lose
<1>5. CASE stage[r] = "rows" /\ Finish(r, collected[r])
  BY <1>1, <1>5, FinishKeeps DEF Lose
<1> QED
  BY <1>2, <1>3, <1>4, <1>5 DEF Lose

\* A request meets the login page.
LEMMA ExpireKeeps == ASSUME CacheInv, NEW r \in Readers, Expire(r)  PROVE CacheInv'
<1>1. Reports'
  BY ReturnKeeps DEF Expire, Requests
<1> QED
  BY <1>1, ViewsStay, ReaderKeeps DEF Expire, Return, Places

\* A snapshot that the parser fails on is cached up to there.
LEMMA GarbledKeeps ==
  ASSUME CacheInv, NEW r \in Readers, NEW S \in SUBSET Telemetry, Garbled(r, S)
  PROVE  CacheInv'
<1>1. Views'
  BY AnswerHad, IngestKeeps DEF Garbled
<1>2. Reports'
  BY ReturnKeeps DEF Garbled, Requests
<1> QED
  BY <1>1, <1>2, ReaderKeeps DEF Garbled, Return, Places

\* Metadata that the parser fails on may have been cached before.
LEMMA GarbledMetadataKeeps ==
  ASSUME CacheInv, NEW r \in Readers, GarbledMetadata(r)  PROVE CacheInv'
<1>1. PICK S \in {{}, Requested(stage[r])} : cache' = Overlay(S, answer[r], cache)
  BY DEF GarbledMetadata
<1>2. S \in SUBSET {Events, Rows}
  BY <1>1 DEF GarbledMetadata, Requested
<1>3. cache' \in Versions /\ UpTo(cache') /\ \A i \in Telemetry : cache'[i] = cache[i]
  BY <1>1, <1>2, TakenOver DEF GarbledMetadata
<1>4. Views'
  BY <1>3, MetadataKeeps DEF GarbledMetadata
<1>5. Reports'
  BY ReturnKeeps DEF GarbledMetadata, Requests
<1> QED
  BY <1>4, <1>5, ReaderKeeps DEF GarbledMetadata, Return, Places

-----------------------------------------------------------------------------
\* The steps of a command.

\* Commands are readers.
LEMMA CommandsRead == \A c \in Commands : c \in Readers
  BY DEF Readers

\* An entity sends a command.
LEMMA PressKeeps == ASSUME CacheInv, NEW c \in Commands, Press(c)  PROVE CacheInv'
<1>1. \A q \in Readers : /\ stage'[q] = (IF q = c THEN "command" ELSE stage[q])
                         /\ answered'[q] = (IF q = c THEN FALSE ELSE answered[q])
  BY Parts, CommandsRead DEF Press, Await, TypeOK
<1>2. /\ outcome' \in [Commands -> {"none", "done", "unread", "rejected", "failed", "expired"}]
      /\ \A d \in Commands : outcome'[d] = (IF d = c THEN "none" ELSE outcome[d])
  BY Parts DEF Press, Report, Reports
<1>3. /\ kind' = kind
      /\ verdict' \in [Commands -> {"none", "accepted", "refused"}]
      /\ readback' \in [Commands -> BOOLEAN]
      /\ \A d \in Commands : /\ verdict'[d] = (IF d = c THEN "none" ELSE verdict[d])
                             /\ readback'[d] = (IF d = c THEN FALSE ELSE readback[d])
  BY Parts DEF Press, Reports
<1>4. lost' \in [Commands -> BOOLEAN]
      /\ \A d \in Commands : lost'[d] = (IF d = c THEN FALSE ELSE lost[d])
  BY Parts DEF Press, Reports
<1>5. CommandInv'
  <2> SUFFICES ASSUME NEW d \in Commands
               PROVE  /\ stage'[d] \in Requests => verdict'[d] = "accepted"
                      /\ stage'[d] \in {"events", "rows"} => readback'[d]
                      /\ stage'[d] = "command" =>
                           outcome'[d] = "none" /\ (answered'[d] <=> verdict'[d] # "none")
    BY DEF CommandInv, Requests
  <2>1. CASE d = c
    BY <2>1, <1>1, <1>2, <1>3, CommandsRead DEF Requests
  <2>2. CASE d # c
    BY <2>2, Parts, <1>1, <1>2, <1>3, CommandsRead DEF Reports, CommandInv
  <2> QED
    BY <2>1, <2>2
<1>6. HonestOutcome'
  <2> SUFFICES ASSUME NEW d \in Commands
               PROVE  /\ outcome'[d] \in {"done", "unread"} => verdict'[d] = "accepted"
                      /\ outcome'[d] = "done" /\ kind'[d] # "button" => readback'[d]
                      /\ outcome'[d] = "rejected" =>
                           verdict'[d] = "refused" \/ (kind'[d] # "number" /\ lost'[d])
                      /\ outcome'[d] = "failed" => kind'[d] = "number" /\ lost'[d]
                      /\ outcome'[d] = "expired" => verdict'[d] = "none"
    BY DEF HonestOutcome
  <2>1. CASE d = c
    BY <2>1, <1>2
  <2>2. CASE d # c
    <3>1. /\ outcome'[d] = outcome[d] /\ verdict'[d] = verdict[d] /\ kind'[d] = kind[d]
          /\ readback'[d] = readback[d] /\ lost'[d] = lost[d]
      BY <2>2, <1>2, <1>3, <1>4
    <3>2. HonestOutcome
      BY Parts DEF Reports
    <3> QED
      BY <3>1, <3>2 DEF HonestOutcome
  <2> QED
    BY <2>1, <2>2
<1>7. Reports'
  BY Parts, <1>2, <1>3, <1>4, <1>5, <1>6 DEF Reports
<1> QED
  BY <1>7, ViewsStay, ReaderKeeps, CommandsRead DEF Press, Places

\* A command that was answered goes on to its refresh, or ends.
LEMMA SettleKeeps == ASSUME CacheInv, NEW c \in Commands, Settle(c)  PROVE CacheInv'
<1>1. verdict[c] = "accepted" \/ verdict[c] = "refused"
  BY Parts DEF Settle, Reports, CommandInv
<1>2. CASE Success(c)
  <2>1. Reports'
    BY <1>2, ReportsStay, CommandsRead DEF Settle, Success, Requests
  <2> QED
    BY <1>2, <2>1, ViewsStay, ReaderKeeps, CommandsRead DEF Settle, Places, Requests
<1>3. CASE ~Success(c)
  <2>1. Reports'
    BY <1>1, <1>3, Parts, ReportKeeps DEF Settle, Success, Reports, record
  <2> QED
    BY <1>3, <2>1, ViewsStay, ReaderKeeps, CommandsRead DEF Settle, Places
<1> QED
  BY <1>2, <1>3

\* A command ends without an answer.
LEMMA CommandEndKeeps ==
  ASSUME CacheInv, NEW c \in Commands, LoseCommand(c) \/ ExpireCommand(c)
  PROVE  CacheInv'
<1>1. CASE LoseCommand(c)
  <2> DEFINE result == IF kind[c] = "number" THEN "failed" ELSE "rejected"
  <2>1. lost' \in [Commands -> BOOLEAN]
        /\ lost'[c] = TRUE /\ \A d \in Commands \ {c} : lost'[d] = lost[d]
    BY <1>1, Parts DEF LoseCommand, Reports
  <2>2. result \in {"rejected", "failed", "expired"} /\ Report(c, result)
    BY <1>1 DEF LoseCommand
  <2>3. Reports'
    BY <1>1, <2>1, <2>2, ReportKeeps DEF LoseCommand
  <2> QED
    BY <1>1, <2>3, ViewsStay, ReaderKeeps, CommandsRead DEF LoseCommand, Places
<1>2. CASE ExpireCommand(c)
  <2>1. verdict[c] = "none"
    BY <1>2, Parts DEF ExpireCommand, Reports, CommandInv
  <2>2. Reports'
    BY <1>2, <2>1, Parts, ReportKeeps DEF ExpireCommand, Reports, record
  <2> QED
    BY <1>2, <2>2, ViewsStay, ReaderKeeps, CommandsRead DEF ExpireCommand, Places
<1> QED
  BY <1>1, <1>2

-----------------------------------------------------------------------------
\* CacheInv is inductive.

\* At first nothing has changed and nothing was asked for.
LEMMA Initialised == Init => CacheInv
<1> SUFFICES ASSUME Init  PROVE CacheInv
  OBVIOUS
<1>1. Nothing \in Versions /\ UpTo(Nothing)
  BY DEF Nothing, UpTo, Init
<1>2. frames \in Seq([names : SUBSET Telemetry, versions : Versions]) /\ Len(frames) = 0
  BY DEF Init
<1>3. TypeOK
  BY <1>1, <1>2 DEF Init, TypeOK
<1>4. NothingInvented
  BY <1>1, <1>2 DEF Init, NothingInvented
<1>5. ShownIsCached /\ HonestOutcome /\ CommandInv /\ SnapshotInv
  BY DEF Init, ShownIsCached, HonestOutcome, CommandInv, SnapshotInv, Readers, Requests
<1> QED
  BY <1>3, <1>4, <1>5 DEF CacheInv, DeliveryInv

\* The steps of a refresh, whichever comes next.
LEMMA ResumeKeeps == ASSUME CacheInv, NEW r \in Readers, Resume(r)  PROVE CacheInv'
  BY PollKeeps, ParseRowsKeeps, LoseKeeps, ExpireKeeps, GarbledMetadataKeeps,
     ParseEventsKeeps, ParseStatusesKeeps, GarbledKeeps
  DEF Resume

\* The invariant is about the state alone.
LEMMA StutterKeeps == ASSUME CacheInv, UNCHANGED vars  PROVE CacheInv'
<1>1. TypeOK' /\ NothingInvented'
  BY Parts DEF vars, TypeOK, NothingInvented, UpTo
<1>2. ShownIsCached' /\ HonestOutcome' /\ CommandInv' /\ SnapshotInv'
  BY Parts DEF vars, Views, Reports, ShownIsCached, HonestOutcome, CommandInv, SnapshotInv
<1> QED
  BY <1>1, <1>2 DEF CacheInv, DeliveryInv

\* CacheInv is inductive.
LEMMA StepKeeps == CacheInv /\ [Next]_vars => CacheInv'
<1> SUFFICES ASSUME CacheInv, [Next]_vars  PROVE CacheInv'
  OBVIOUS
<1>1. ASSUME NEW i \in Items, Change(i)  PROVE CacheInv'
  BY <1>1, PortalKeeps
<1>2. ASSUME NEW S \in SUBSET Telemetry, Push(S) \/ Frame(S)  PROVE CacheInv'
  BY <1>2, PushKeeps, FrameKeeps
<1>3. CASE Connect \/ Disconnect
  BY <1>3, ConnectionKeeps
<1>4. ASSUME NEW r \in Readers, Answer(r) \/ Resume(r)  PROVE CacheInv'
  BY <1>4, AnswerKeeps, ResumeKeeps
<1>5. ASSUME NEW c \in Commands,
             Press(c) \/ Decide(c) \/ Settle(c) \/ LoseCommand(c) \/ ExpireCommand(c)
      PROVE  CacheInv'
  BY <1>5, PressKeeps, DecideKeeps, SettleKeeps, CommandEndKeeps
<1>6. CASE UNCHANGED vars
  BY <1>6, StutterKeeps
<1> QED
  BY <1>1, <1>2, <1>3, <1>4, <1>5, <1>6 DEF Next

-----------------------------------------------------------------------------
\* What follows.

\* CacheInv is an invariant.
LEMMA Invariant == Spec => []CacheInv
  BY Initialised, StepKeeps, PTL DEF Spec

\* Whatever order frames, snapshots and failures come in, the collection and
\* the entities only hold what the portal has had, and each entity of a
\* telemetry parameter shows what the collection holds
\* (WebBoilerDeviceCollection.py, WebBoilerClient.py:187-217, 319-334).
THEOREM Delivery == Spec => []DeliveryInv
<1>1. CacheInv => DeliveryInv
  BY DEF CacheInv
<1> QED
  BY Invariant, <1>1, PTL

\* What is reported of a command is as true as HonestOutcome has it, for every kind
\* of entity: what is done or sent was accepted, what a number says was not accepted
\* was refused, and nothing but a lost answer lets a switch or a button say so of a
\* command that was executed (number.py:338-355, WebBoilerCircuitSwitch.py:166-192,
\* WebBoilerPowerSwitch.py:138-158, button.py:55-70, WebBoilerClient.py:358-457).
THEOREM CommandsAreHonest == Spec => []HonestOutcome
<1>1. CacheInv => HonestOutcome
  BY DEF CacheInv
<1> QED
  BY Invariant, <1>1, PTL

\* A parsed snapshot leaves readings of no earlier time than its refresh
\* (WebBoilerClient.py:181-189).
THEOREM PollsAreCurrent == Spec => PollIsCurrent
<1> DEFINE Current ==
      \A r \in Readers, S \in SUBSET Telemetry :
        ParseStatuses(r, S) =>
          \A i \in S : \E n \in since[r][i] .. portal[i] :
            ValueOf(i, cache'[i]) = ValueOf(i, n)
<1>1. ASSUME CacheInv  PROVE Current
  <2> SUFFICES ASSUME NEW r \in Readers, NEW S \in SUBSET Telemetry, ParseStatuses(r, S),
                      NEW i \in S
               PROVE  \E n \in since[r][i] .. portal[i] : ValueOf(i, cache'[i]) = ValueOf(i, n)
    OBVIOUS
  <2>1. i \in Telemetry /\ i \in Items
    BY DEF Items
  <2>2. /\ portal[i] \in Nat /\ since[r][i] \in Nat /\ answer[r][i] \in Nat
        /\ since[r][i] <= answer[r][i] /\ answer[r][i] <= portal[i]
    BY <1>1, <2>1, Parts DEF TypeOK, NothingInvented, UpTo, SnapshotInv, ParseStatuses
  <2>3. ValueOf(i, cache'[i]) = ValueOf(i, answer[r][i])
    BY <2>1 DEF ParseStatuses, Ingest, Overlay, News, Repeats
  <2>4. answer[r][i] \in since[r][i] .. portal[i]
    BY <2>2
  <2> QED
    BY <2>3, <2>4
<1>2. CacheInv /\ [Next]_vars => [Current]_vars
  BY <1>1
<1> QED
  BY Invariant, <1>2, PTL DEF Spec, PollIsCurrent

\* The collection, its channels and its refreshes implement the safety part of
\* SettledView: an entity never shows what the portal has not had
\* (WebBoilerParameter.py, WebBoilerDeviceCollection.py).
THEOREM ImplementsSafeView == Spec => View!Init /\ [][View!Next]_(View!viewed)
<1>1. Init => View!Init
  BY DEF Init, View!Init, Nothing
<1>2. CacheInv /\ CacheInv' /\ [Next]_vars => [View!Next]_(View!viewed)
  <2> SUFFICES ASSUME CacheInv, CacheInv', [Next]_vars  PROVE [View!Next]_(View!viewed)
    OBVIOUS
  <2>1. CASE UNCHANGED portal
    <3>1. shown' \in Versions /\ \A i \in Items : shown'[i] \in Nat /\ shown'[i] <= portal[i]
      BY <2>1 DEF CacheInv, DeliveryInv, TypeOK, NothingInvented, UpTo
    <3>2. \A i \in Items : shown'[i] \in 0 .. portal[i]
      BY <3>1 DEF CacheInv, DeliveryInv, TypeOK
    <3> QED
      BY <2>1, <3>1, <3>2 DEF View!Next, View!Show
  <2>2. ASSUME NEW i \in Items, Change(i)  PROVE View!Next
    BY <2>2 DEF Change, View!Next, View!Publish
  <2>3. UNCHANGED portal \/ \E i \in Items : Change(i)
    BY DEF Next, vars, Push, Frame, Connect, Disconnect, Answer, Resume, Poll, ParseRows, Lose,
           Expire, GarbledMetadata, ParseEvents, ParseStatuses, Garbled, Press, Decide, Settle,
           LoseCommand, ExpireCommand
  <2> QED
    BY <2>1, <2>2, <2>3
<1> QED
  BY Invariant, <1>1, <1>2, PTL DEF Spec
=============================================================================
