---------------------------- MODULE Availability ----------------------------
(***************************************************************************)
(* What Home Assistant displays as available.  WebBoilerClient records     *)
(* when it last heard from the portal; an entity evaluates                 *)
(* has_fresh_data() only when something writes its state, and what it then *)
(* displays stays until the next write.                                    *)
(*                                                                         *)
(* Time is counted in periods of the tick (60 s).  A timestamp is          *)
(* represented by its age, and an age beyond the freshness window by       *)
(* Expired.  Several coroutines may be inside refresh() at once: the       *)
(* tick's, and one for each command that reads its result back.            *)
(***************************************************************************)
EXTENDS Integers

CONSTANTS
  Entities,       \* one entity per parameter
  Readers,        \* coroutines that call refresh(); Ticker is the tick's
  Ticker,
  MinWindow,      \* 300 s
  Interval,       \* refresh_interval
  RefreshBound    \* how long a refresh can take (every request has a timeout)

ASSUME AvailabilityAssumption ==
  /\ Ticker \in Readers
  /\ MinWindow \in Nat /\ Interval \in Nat \ {0} /\ RefreshBound \in Nat
  /\ RefreshBound < Interval       \* the tick's refreshes do not overlap

VARIABLES
  reliable,     \* the portal answers every request, from the beginning
  connected,    \* websocket_connected
  message_age,  \* age of last_websocket_message
  http_age,     \* age of last_successful_http_refresh
  due_age,      \* age of last_refresh_timestamp, up to Interval
  ticked,       \* the tick of this period has run
  hooked,       \* on_update_callbacks is not empty
  stage,        \* where each reader is inside refresh()
  was_stale,    \* the local variable of that name
  elapsed,      \* how long the refresh has been running
  read_age,     \* age of the snapshot that the refresh has parsed
  shown,        \* the availability each entity displays
  data_age      \* history: age of the newest snapshot parsed by anybody

vars == <<reliable, connected, message_age, http_age, due_age, ticked, hooked,
          stage, was_stale, elapsed, read_age, shown, data_age>>

channel == <<reliable, connected, message_age, hooked>>
clocks  == <<http_age, due_age, ticked, data_age>>
reading == <<stage, was_stale, elapsed, read_age>>

\* WebBoilerSystem.__init__: the window follows the configured interval.
FixedWindow     == MinWindow            \* faulty variant: 300 s whatever the interval
FreshnessWindow == IF 2 * Interval > MinWindow THEN 2 * Interval ELSE MinWindow

\* A portal that answers does so promptly.
PromptAnswers == 2 * RefreshBound <= Interval

Expired == FreshnessWindow + 1
Ages    == 0 .. Expired
Older(age) == IF age < Expired THEN age + 1 ELSE age

\* has_fresh_data(): a connected socket that still delivers, or a recent refresh.
FreshGiven(up, message, http) ==
  (up /\ message <= FreshnessWindow) \/ http <= FreshnessWindow
Fresh == FreshGiven(connected, message_age, http_age)

\* The entities of S write their state while has_fresh_data() is fresh.
Write(S, fresh) == shown' = [e \in Entities |-> IF e \in S THEN fresh ELSE shown[e]]

\* notify_all_updated() reaches the entities through the collection's callbacks.
NotifyAll(fresh) == IF hooked' THEN Write(Entities, fresh) ELSE shown' = shown

\* Setup has just refreshed; the realtime channel may or may not have come up,
\* and a number entity may or may not have hooked the collection.
Init ==
  /\ reliable \in {b \in BOOLEAN : b => PromptAnswers}
  /\ connected \in BOOLEAN
  /\ message_age = IF connected THEN 0 ELSE Expired
  /\ http_age = 0 /\ due_age = 0 /\ data_age = 0
  /\ ticked = TRUE
  /\ hooked \in {b \in BOOLEAN : connected => b}
  /\ stage = [r \in Readers |-> "idle"]
  /\ was_stale = [r \in Readers |-> FALSE]
  /\ elapsed = [r \in Readers |-> 0]
  /\ read_age = [r \in Readers |-> 0]
  /\ shown = [e \in Entities |-> TRUE]

-----------------------------------------------------------------------------
\* The websocket.

\* ws_connected_callback: subscribing may raise, and then nobody is notified.
Connected ==
  /\ ~connected
  /\ connected' = TRUE /\ message_age' = 0
  /\ \/ hooked' = TRUE /\ NotifyAll(TRUE)
     \/ UNCHANGED <<hooked, shown>>
  /\ UNCHANGED <<reliable, clocks, reading>>

\* ws_disconnected_callback, also for a socket that never became connected.
Disconnected ==
  /\ connected' = FALSE
  /\ UNCHANGED <<message_age, hooked>>
  /\ NotifyAll(FreshGiven(FALSE, message_age, http_age))
  /\ UNCHANGED <<reliable, clocks, reading>>

\* ws_data_callback: the frame changes the parameters of S.
Data(S) ==
  /\ connected
  /\ message_age' = 0
  /\ Write(S, TRUE)
  /\ UNCHANGED <<reliable, connected, hooked, clocks, reading>>

-----------------------------------------------------------------------------
\* refresh(), cut at its awaits.

StaleAtEntry == ~Fresh

Enter(r) ==
  /\ stage[r] = "idle"
  /\ stage' = [stage EXCEPT ![r] = "commands"]
  /\ was_stale' = [was_stale EXCEPT ![r] = StaleAtEntry]
  /\ elapsed' = [elapsed EXCEPT ![r] = 0]
  /\ read_age' = [read_age EXCEPT ![r] = 0]

\* An entity command that was accepted, or a relogin, reads the state back.
Command(r) ==
  /\ r # Ticker
  /\ Enter(r)
  /\ UNCHANGED <<channel, clocks, shown>>

\* The snapshot arrives: what it changes is written before the refresh counts
\* as successful.
Parse(r, S) ==
  /\ stage[r] = "commands"
  /\ stage' = [stage EXCEPT ![r] = "errors"]
  /\ read_age' = [read_age EXCEPT ![r] = 0]
  /\ data_age' = 0
  /\ Write(S, Fresh)
  /\ UNCHANGED <<was_stale, elapsed, channel, http_age, due_age, ticked>>

\* The errors list and the metadata are in: the entities of S that show them
\* are written first, then the refresh is recorded with the time of its
\* snapshot, then everything is written if the refresh began stale.
RecordedAtEnd(r) == 0                   \* faulty variant: the time at the end
Recorded(r)      == read_age[r]

RendersNothing(r) == FALSE              \* faulty variant: no re-render
Rerenders(r)      == was_stale[r]

Succeed(r, S) ==
  /\ stage[r] = "errors"
  /\ stage' = [stage EXCEPT ![r] = "idle"]
  /\ http_age' = Recorded(r)
  /\ due_age' \in IF r = Ticker THEN {due_age} ELSE {due_age, 0}
  /\ UNCHANGED <<channel, ticked, data_age, was_stale, elapsed, read_age>>
  /\ IF Rerenders(r) /\ hooked
     THEN Write(Entities, FreshGiven(connected, message_age, http_age'))
     ELSE Write(S, Fresh)

\* Any request failed, or the session had expired.
Fail(r) ==
  /\ ~reliable
  /\ stage[r] # "idle"
  /\ stage' = [stage EXCEPT ![r] = "idle"]
  /\ UNCHANGED <<was_stale, elapsed, read_age, channel, clocks, shown>>

-----------------------------------------------------------------------------
\* Time.

RefreshDue == due_age >= Interval

Tick ==
  /\ ~ticked
  /\ ticked' = TRUE
  /\ IF RefreshDue
     THEN Enter(Ticker) /\ due_age' = 0
     ELSE UNCHANGED <<due_age, reading>>
  /\ UNCHANGED <<channel, http_age, data_age, shown>>

\* A period passes once its tick has run, and not beyond the time a refresh can take.
Pass ==
  /\ ticked
  /\ \A r \in Readers : stage[r] # "idle" => elapsed[r] < RefreshBound
  /\ ticked' = FALSE
  /\ message_age' = Older(message_age)
  /\ http_age' = Older(http_age)
  /\ data_age' = Older(data_age)
  /\ due_age' = IF due_age < Interval THEN due_age + 1 ELSE due_age
  /\ elapsed' = [r \in Readers |-> IF stage[r] = "idle" THEN elapsed[r] ELSE elapsed[r] + 1]
  /\ read_age' = [r \in Readers |-> IF stage[r] = "errors" THEN read_age[r] + 1 ELSE read_age[r]]
  /\ UNCHANGED <<reliable, connected, hooked, stage, was_stale, shown>>

Next ==
  \/ Connected
  \/ Disconnected
  \/ \E S \in SUBSET Entities : Data(S)
  \/ \E r \in Readers :
       \/ Command(r)
       \/ \E S \in SUBSET Entities : Parse(r, S)
       \/ \E S \in SUBSET Entities : Succeed(r, S)
       \/ Fail(r)
  \/ Tick
  \/ Pass

Spec == Init /\ [][Next]_vars

-----------------------------------------------------------------------------
TypeOK ==
  /\ reliable \in BOOLEAN /\ (reliable => PromptAnswers)
  /\ connected \in BOOLEAN /\ hooked \in BOOLEAN /\ ticked \in BOOLEAN
  /\ message_age \in Ages /\ http_age \in Ages /\ data_age \in Ages
  /\ due_age \in 0 .. Interval
  /\ stage \in [Readers -> {"idle", "commands", "errors"}]
  /\ was_stale \in [Readers -> BOOLEAN]
  /\ elapsed \in [Readers -> 0 .. RefreshBound]
  /\ read_age \in [Readers -> 0 .. RefreshBound]
  /\ shown \in [Entities -> BOOLEAN]

\* The client never takes data for newer than it is: with overlapping refreshes
\* that finish in any order, the recorded refresh is no younger than the newest
\* snapshot (WebBoilerClient.py:199, 235: now is taken when the snapshot is in).
HonestAge == data_age <= http_age

\* Its inductive strengthening: what a reader is about to record is no younger
\* than the newest snapshot either.
AgeInv ==
  /\ TypeOK /\ HonestAge
  /\ \A r \in Readers :
       stage[r] = "errors" => data_age <= read_age[r] /\ read_age[r] <= elapsed[r]

\* A portal that answers keeps every entity available, whatever the websocket
\* does and however commands and ticks interleave (__init__.py:138-140,
\* "Entities must not go unavailable between two scheduled refreshes").
NeverUnavailable == reliable => Fresh /\ \A e \in Entities : shown[e]

\* A scheduled refresh begins when it is due, and until it is over the last one
\* recorded is at most that much older.
RefreshedInTime ==
  /\ ticked => due_age < Interval
  /\ IF stage[Ticker] = "idle"
     THEN http_age <= due_age + RefreshBound
     ELSE http_age <= Interval + RefreshBound + elapsed[Ticker]

\* The inductive strengthening of NeverUnavailable (__init__.py:138-146, 303-309).
PollInv == AgeInv /\ NeverUnavailable /\ (reliable => RefreshedInTime)

\* A refresh that began stale and succeeds re-renders every entity, provided
\* that something has hooked the collection (WebBoilerClient.py:181-187,
\* CHANGELOG.md:73).
RecoveryRendersEveryEntity ==
  [][\A r \in Readers :
       hooked /\ was_stale[r] /\ (\E S \in SUBSET Entities : Succeed(r, S))
       => \A e \in Entities : shown'[e]]_vars
=============================================================================
