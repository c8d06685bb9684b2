---------------------------- MODULE ParameterCache ----------------------------
(***************************************************************************)
(* How readings reach the entities.  WebBoilerDeviceCollection keeps one   *)
(* cache, which HTTP snapshots and realtime frames feed in any order; a    *)
(* snapshot is built by the portal at one time and parsed at a later one.  *)
(* refresh() is cut at its awaits, and several coroutines may be inside:   *)
(* the tick's, and one for each entity command that reads its result back. *)
(*                                                                         *)
(* A reading is represented by its version: portal[i] counts the changes   *)
(* of item i, and ValueOf says which reading a version carries, so that    *)
(* a reading may return.                                                   *)
(***************************************************************************)
EXTENDS Integers, Sequences

CONSTANTS
  Telemetry,        \* parameters that snapshots and frames carry
  Events,           \* Errors_History
  Rows,             \* the parameter-list rows, which name and bound settings
  ValueOf(_, _),    \* the reading that version n of an item carries
  Polls,            \* coroutines of the tick
  Commands,         \* entity commands, each followed by a refresh
  MaxVersion,       \* bound: changes of each item
  MaxFrames         \* bound: frames on the way

Items   == Telemetry \cup {Events, Rows}
Readers == Polls \cup Commands

ASSUME CacheAssumption ==
  /\ Events \notin Telemetry /\ Rows \notin Telemetry /\ Events # Rows
  /\ Polls \cap Commands = {}
  /\ MaxVersion \in [Items -> Nat]
  /\ MaxFrames \in Nat

VARIABLES
  portal,           \* the portal's version of each item
  cache,            \* the version in the collection
  shown,            \* the version in the state that the entity last wrote
  connected,        \* the realtime channel is up
  frames,           \* realtime frames on the way, in order
  stage,            \* the request that each reader awaits
  answered,         \* the portal has built the answer to it
  answer,           \* what that answer carries
  collected,        \* metadata_parameters: what the reader is to notify
  kind,             \* what entity a command is of
  outcome,          \* how the last command of an entity ended
  since,            \* history: the portal when the refresh of a snapshot began
  verdict,          \* history: what the portal did with the last command
  lost,             \* history: the last command or its answer did not arrive
  readback          \* history: a later snapshot has been parsed by it

vars == <<portal, cache, shown, connected, frames, stage, answered,
          answer, collected, kind, outcome, since, verdict, lost, readback>>

channel == <<connected, frames>>
reading == <<stage, answered, answer, collected, since>>
record  == <<kind, verdict, lost, readback>>

Kinds    == {"number", "switch", "button"}
Versions == [Items -> Nat]
Nothing  == [i \in Items |-> 0]
Of(S)    == [i \in Items |-> IF i \in S THEN portal[i] ELSE 0]

Init ==
  /\ portal = Nothing /\ cache = Nothing /\ shown = Nothing
  /\ connected \in BOOLEAN /\ frames = <<>>
  /\ stage = [r \in Readers |-> "idle"]
  /\ answered = [r \in Readers |-> FALSE]
  /\ answer = [r \in Readers |-> Nothing]
  /\ collected = [r \in Readers |-> {}]
  /\ kind \in [Commands -> Kinds]
  /\ outcome = [c \in Commands |-> "none"]
  /\ since = [r \in Readers |-> Nothing]
  /\ verdict = [c \in Commands |-> "none"]
  /\ lost = [c \in Commands |-> FALSE]
  /\ readback = [c \in Commands |-> FALSE]

-----------------------------------------------------------------------------
\* The portal and the controller behind it.

Change(i) ==
  /\ portal[i] < MaxVersion[i]
  /\ portal' = [portal EXCEPT ![i] = @ + 1]
  /\ UNCHANGED <<cache, shown, channel, reading, outcome, record>>

\* A realtime frame for the parameters of S sets out; what changed may also
\* go unforwarded.
Push(S) ==
  /\ connected /\ Len(frames) < MaxFrames
  /\ frames' = Append(frames, [names |-> S, versions |-> Of(S)])
  /\ UNCHANGED <<portal, cache, shown, connected, reading, outcome, record>>

\* The portal works on the request that r awaits.
Builds(r) ==
  /\ ~answered[r]
  /\ answered' = [answered EXCEPT ![r] = TRUE]

\* Which items the answer to a request carries.
Requested(request) ==
  CASE request = "statuses" -> Telemetry
    [] request = "events"   -> {Events}
    [] request = "rows"     -> {Rows}

\* Faulty variant: a request like one that is under way gets its answer.
Coalesced(r) ==
  LET like == {q \in Readers \ {r} : stage[q] = stage[r] /\ answered[q]}
  IN  IF like = {} THEN Of(Requested(stage[r])) ELSE answer[CHOOSE q \in like : TRUE]
Built(r) == Of(Requested(stage[r]))

Answer(r) ==
  /\ stage[r] \in {"statuses", "events", "rows"}
  /\ Builds(r)
  /\ answer' = [answer EXCEPT ![r] = Built(r)]
  /\ UNCHANGED <<portal, cache, shown, channel, stage, collected, since,
                 outcome, record>>

\* The portal decides on a command; the controller may act on it later, as a
\* Change.
Decide(c) ==
  /\ stage[c] = "command"
  /\ Builds(c)
  /\ \E v \in {"accepted", "refused"} : verdict' = [verdict EXCEPT ![c] = v]
  /\ UNCHANGED <<portal, cache, shown, channel, stage, answer, collected,
                 outcome, since, kind, lost, readback>>

-----------------------------------------------------------------------------
\* The collection.

\* A reading that equals the cached one is skipped.
Repeats(i, old, new) == ValueOf(i, old) = ValueOf(i, new)

News(S, new) == {i \in S : ~Repeats(i, cache[i], new[i])}

\* update_parameter() and the parameter's callbacks: each entity that shows
\* one of the parameters writes its state.
Overlay(S, new, old)  == [i \in Items |-> IF i \in S THEN new[i] ELSE old[i]]
Silent(S, new)        == cache' = Overlay(News(S, new), new, cache) /\ shown' = shown  \* faulty variant
Ingest(S, new) ==
  /\ cache' = Overlay(News(S, new), new, cache)
  /\ shown' = Overlay(News(S, new), new, shown)

\* notify_all_updated(), which needs a callback on the collection to reach
\* anybody.
MayNotifyAll == shown' \in {shown, cache}

\* Two frames merged into one: what is before the garbage is saved, if anything.
Salvaged(frame) == SUBSET frame.names

Frame(S) ==
  /\ connected /\ frames # <<>>
  /\ S \in Salvaged(Head(frames))
  /\ Ingest(S, Head(frames).versions)
  /\ frames' = Tail(frames)
  /\ UNCHANGED <<portal, connected, reading, outcome, record>>

Connect ==
  /\ ~connected
  /\ connected' = TRUE
  /\ MayNotifyAll
  /\ UNCHANGED <<portal, cache, frames, reading, outcome, record>>

Disconnect ==
  /\ connected
  /\ connected' = FALSE /\ frames' = <<>>
  /\ MayNotifyAll
  /\ UNCHANGED <<portal, cache, reading, outcome, record>>

-----------------------------------------------------------------------------
\* refresh(), cut at its awaits.

\* r goes on to await another request, with S collected, or returns.
Await(r, request, S) ==
  /\ collected' = [collected EXCEPT ![r] = S]
  /\ stage' = [stage EXCEPT ![r] = request]
  /\ answered' = [answered EXCEPT ![r] = FALSE]
  /\ answer' = [answer EXCEPT ![r] = Nothing]
  /\ since' = [since EXCEPT ![r] =
                 IF request = "statuses" THEN Of(Telemetry) ELSE Nothing]

Report(r, result) ==
  outcome' = [c \in Commands |-> IF c = r THEN result ELSE outcome[c]]

\* What an entity makes of the refresh behind its command; a button does not
\* look at what it returns.
ReadResult(r, ok) == IF ok \/ kind[r] = "button" THEN "done" ELSE "unread"

Return(r, ok) == Await(r, "idle", {}) /\ Report(r, ReadResult(r, ok))

\* The end of a successful refresh: what the events and the rows describe is
\* notified, and everything if the integration was stale at entry.
Unheard(S)  == {}       \* faulty variant: fetched, and nobody told
Notified(S) == S
Finish(r, S) ==
  /\ Return(r, TRUE)
  /\ shown' \in {Overlay(Notified(S), cache', shown), cache'}

Poll(r) ==
  /\ r \in Polls /\ stage[r] = "idle"
  /\ Await(r, "statuses", {})
  /\ UNCHANGED <<portal, cache, shown, channel, outcome, record>>

\* The snapshot has arrived, with the parameters of S; the portal leaves some
\* out of some answers.
ParseStatuses(r, S) ==
  /\ stage[r] = "statuses" /\ answered[r]
  /\ Ingest(S, answer[r])
  /\ Await(r, "events", {})
  /\ readback' = [c \in Commands |-> IF c = r THEN TRUE ELSE readback[c]]
  /\ UNCHANGED <<portal, channel, outcome, kind, verdict, lost>>

\* The event list replaces the cached one, silently for the time being.  due:
\* an hour has passed since last_metadata_refresh.
ParseEvents(r, due) ==
  /\ stage[r] = "events" /\ answered[r]
  /\ cache' = [cache EXCEPT ![Events] = answer[r][Events]]
  /\ IF due THEN Await(r, "rows", {Events}) /\ UNCHANGED <<shown, outcome>>
            ELSE Finish(r, {Events})
  /\ UNCHANGED <<portal, channel, record>>

ParseRows(r) ==
  /\ stage[r] = "rows" /\ answered[r]
  /\ cache' = [cache EXCEPT ![Rows] = answer[r][Rows]]
  /\ Finish(r, collected[r] \cup {Rows})
  /\ UNCHANGED <<portal, channel, record>>

-----------------------------------------------------------------------------
\* What goes wrong in it.

\* HttpClientConnectionError: fatal for the snapshot, not for its supplements.
Lose(r) ==
  /\ UNCHANGED <<portal, cache, channel, record>>
  /\ \/ stage[r] = "statuses" /\ Return(r, FALSE) /\ UNCHANGED shown
     \/ stage[r] = "events" /\ Await(r, "rows", {}) /\ UNCHANGED <<shown, outcome>>
     \/ stage[r] = "events" /\ Finish(r, {})
     \/ stage[r] = "rows" /\ Finish(r, collected[r])

\* HttpClientAuthError leaves refresh() at once; what was collected so far is
\* not notified.
Expire(r) ==
  /\ stage[r] \in {"statuses", "events", "rows"} /\ ~answered[r]
  /\ Return(r, FALSE)
  /\ UNCHANGED <<portal, cache, shown, channel, record>>

\* An answer of another shape raises in the middle of being parsed.
Garbled(r, S) ==
  /\ stage[r] = "statuses" /\ answered[r]
  /\ Ingest(S, answer[r])
  /\ Return(r, FALSE)
  /\ UNCHANGED <<portal, channel, record>>

\* The same in the events or the rows, before or after they are taken over.
GarbledMetadata(r) ==
  /\ stage[r] \in {"events", "rows"} /\ answered[r]
  /\ \E S \in {{}, Requested(stage[r])} : cache' = Overlay(S, answer[r], cache)
  /\ Return(r, FALSE)
  /\ UNCHANGED <<portal, shown, channel, record>>

-----------------------------------------------------------------------------
\* Entity commands: write, then read back.

Press(c) ==
  /\ stage[c] = "idle"
  /\ Await(c, "command", {})
  /\ Report(c, "none")
  /\ verdict' = [verdict EXCEPT ![c] = "none"]
  /\ lost' = [lost EXCEPT ![c] = FALSE]
  /\ readback' = [readback EXCEPT ![c] = FALSE]
  /\ UNCHANGED <<portal, cache, shown, channel, kind>>

Answered(c) == answered[c]      \* faulty variant: any answer will do
Success(c) == verdict[c] = "accepted"

\* The answer is in: an accepted command is read back.  A refused one ends as a
\* lost one does, but for numbers.
Settle(c) ==
  /\ stage[c] = "command" /\ answered[c]
  /\ IF Success(c) THEN Await(c, "statuses", {}) /\ UNCHANGED outcome
                   ELSE Await(c, "idle", {}) /\ Report(c, "rejected")
  /\ UNCHANGED <<portal, cache, shown, channel, record>>

\* The request or its answer is lost: nobody knows which.  A number lets the
\* connection error through; to a switch or a button the client returns False,
\* as it does for a refusal.
LoseCommand(c) ==
  /\ stage[c] = "command"
  /\ Await(c, "idle", {})
  /\ Report(c, IF kind[c] = "number" THEN "failed" ELSE "rejected")
  /\ lost' = [lost EXCEPT ![c] = TRUE]
  /\ UNCHANGED <<portal, cache, shown, channel, kind, verdict, readback>>

\* The login page instead of an answer.
ExpireCommand(c) ==
  /\ stage[c] = "command" /\ ~answered[c]
  /\ Await(c, "idle", {}) /\ Report(c, "expired")
  /\ UNCHANGED <<portal, cache, shown, channel, record>>

\* What a coroutine does once its request has ended, in whichever way.
Resume(r) ==
  \/ Poll(r) \/ ParseRows(r) \/ Lose(r) \/ Expire(r) \/ GarbledMetadata(r)
  \/ \E due \in BOOLEAN : ParseEvents(r, due)
  \/ \E S \in SUBSET Telemetry : ParseStatuses(r, S) \/ Garbled(r, S)

Next ==
  \/ \E i \in Items : Change(i)
  \/ \E S \in SUBSET Telemetry : Push(S) \/ Frame(S)
  \/ Connect \/ Disconnect
  \/ \E r \in Readers : Answer(r) \/ Resume(r)
  \/ \E c \in Commands :
       Press(c) \/ Decide(c) \/ Settle(c) \/ LoseCommand(c) \/ ExpireCommand(c)

Spec == Init /\ [][Next]_vars

\* The tick polls again and again, and every request ends (it has a timeout).
\* Of the portal: whatever it loses, cuts short or refuses in between, now and then
\* it answers in full, and now and then its rows right after its events.
Fairness ==
  \A r \in Polls :
    /\ WF_vars(Resume(r))
    /\ []<><<ParseStatuses(r, Telemetry)>>_vars
    /\ []<><<collected[r] = {Events} /\ ParseRows(r)>>_vars

FairSpec == Spec /\ Fairness

-----------------------------------------------------------------------------
\* What the delivery guarantees.

Requests == {"statuses", "events", "rows"}
UpTo(v)  == \A i \in Items : v[i] <= portal[i]

TypeOK ==
  /\ portal \in Versions /\ cache \in Versions /\ shown \in Versions
  /\ connected \in BOOLEAN
  /\ frames \in Seq([names : SUBSET Telemetry, versions : Versions])
  /\ stage \in [Readers -> Requests \cup {"idle", "command"}]
  /\ answered \in [Readers -> BOOLEAN]
  /\ answer \in [Readers -> Versions]
  /\ collected \in [Readers -> SUBSET {Events}]
  /\ kind \in [Commands -> Kinds]
  /\ outcome \in [Commands -> {"none", "done", "unread", "rejected", "failed", "expired"}]
  /\ since \in [Readers -> Versions]
  /\ verdict \in [Commands -> {"none", "accepted", "refused"}]
  /\ lost \in [Commands -> BOOLEAN]
  /\ readback \in [Commands -> BOOLEAN]

\* Nothing is invented: what is cached, shown or on the way is a version that
\* the portal has had.
NothingInvented ==
  /\ UpTo(cache) /\ UpTo(shown)
  /\ \A k \in 1 .. Len(frames) : UpTo(frames[k].versions)
  /\ \A r \in Readers : UpTo(answer[r]) /\ UpTo(since[r])

\* Every entity of a telemetry parameter shows what is cached, however the
\* reading came in and whatever became of the refresh that brought it.
ShownIsCached == \A i \in Telemetry : shown[i] = cache[i]

DeliveryInv == TypeOK /\ NothingInvented /\ ShownIsCached

\* What is told of a command is true as far as it goes.  One that is reported
\* done was accepted, and (but for the buttons) a later snapshot has been parsed;
\* one that is reported sent was accepted; one that met the login page was not
\* decided on.  A new setting that is reported as not accepted was refused.  A
\* switch's or a button's command that is reported as not accepted or not sent
\* was refused or lost, and a lost one may have been executed: the client returns
\* False for both (WebBoilerClient.py:373-375, 397-399, 447-449), and the entities
\* raise one text (button.py:63-64, WebBoilerPowerSwitch.py:145-146,
\* WebBoilerCircuitSwitch.py:173-179).  Only a lost one: no command whose answer
\* arrived is reported otherwise than the portal decided.
HonestOutcome ==
  \A c \in Commands :
    /\ outcome[c] \in {"done", "unread"} => verdict[c] = "accepted"
    /\ outcome[c] = "done" /\ kind[c] # "button" => readback[c]
    /\ outcome[c] = "rejected" => verdict[c] = "refused" \/ (kind[c] # "number" /\ lost[c])
    /\ outcome[c] = "failed" => kind[c] = "number" /\ lost[c]
    /\ outcome[c] = "expired" => verdict[c] = "none"

\* Why: a command whose refresh is under way was accepted, one that is still
\* decided on has not reported anything, ...
CommandInv ==
  \A c \in Commands :
    /\ stage[c] \in Requests => verdict[c] = "accepted"
    /\ stage[c] \in {"events", "rows"} => readback[c]
    /\ stage[c] = "command" =>
         outcome[c] = "none" /\ (answered[c] <=> verdict[c] # "none")

\* ... and a snapshot is built after it was asked for.
SnapshotInv ==
  \A r \in Readers : stage[r] = "statuses" /\ answered[r] =>
    \A i \in Telemetry : since[r][i] <= answer[r][i]

CacheInv == DeliveryInv /\ HonestOutcome /\ CommandInv /\ SnapshotInv

\* A snapshot that is parsed leaves each parameter it carries in a reading that
\* the portal has had since the refresh began, whatever older readings were
\* delivered meanwhile.
PollIsCurrent ==
  [][\A r \in Readers, S \in SUBSET Telemetry :
       ParseStatuses(r, S) =>
         \A i \in S : \E n \in since[r][i] .. portal[i] :
           ValueOf(i, cache'[i]) = ValueOf(i, n)]_vars

\* Entities show readings that the portal has had, and once the portal rests
\* they come to show its own.
View == INSTANCE SettledView WITH truth <- portal, view <- shown
ImplementsView == View!Spec
=============================================================================
