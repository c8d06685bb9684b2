# Verification of hass-centrometal-boiler

TLA+ models of the Home Assistant integration in
`src/custom_components/centrometal_boiler`, the TLC runs that check them on
small instances, and the TLAPS proofs of what holds for every instance.

Paths below are relative to `src/custom_components/centrometal_boiler/`;
`centrometal_web_boiler/` is abbreviated to `cwb/`.

## 1. The system

The integration mirrors boilers from the Centrometal web portal into Home
Assistant. It speaks to the portal in two ways: HTTP requests over one shared
`aiohttp.ClientSession` (login, snapshots, commands) and a STOMP-over-websocket
channel that pushes changed parameters. Everything runs on one asyncio loop: code
is atomic between two awaits and everything interesting happens at the awaits.

### Inventory

| Component | State | Operations | Makes it correct |
|---|---|---|---|
| HTTP session (`cwb/HttpClient.py:181-268`) | `http_session`, `_session_lock` | `_ensure_session`, `reinitialize_session`, `close_session`, `_request_text` | one session at a time, none leaked, none handed out while it is closed, nobody waits for ever |
| HTTP endpoints (`cwb/HttpClient.py:270-465`, `HttpHelper.py`) | cached bodies | login, snapshot, lists, commands | a login page is told from an answer; what a command reports is true |
| Session recovery (`__init__.py:295-378, 389-438`) | the portal's login, the CSRF token | silent relogin, full relogin | an expired login is restored; valid credentials are not asked for again; the channel is left alone |
| Websocket client (`cwb/WebBoilerWsClient.py`) | `_task`, `_ws`, `_heartbeat_task`, two events | `start`, `close`, the background `_run` | no task runs unseen; the connected flag is true; calls return |
| Scheduling (`__init__.py:242-323, 380-462`, `cwb/backoff.py`) | attempt counter, three timestamps | `tick`, `relogin`, `_start_websocket` | retries are spaced and never end; the backoff is reset only by a channel that came up |
| Refresh and availability (`cwb/WebBoilerClient.py:165-351`) | times of the last refresh and frame | `refresh`, the websocket callbacks, `has_fresh_data` | what is shown as available is fresh, and the other way round |
| Device collection (`cwb/WebBoilerDeviceCollection.py`) | devices, parameters, callbacks | `parse_*`, `update_parameter`, `notify_all_updated` | nothing is cached that the portal has not had; listeners hear of every change; what is shown settles on what the portal says |
| Number entities (`number.py`) | `_hooked`, `_restored` | late slots, restore, write and read back | shows the latest reading; what was seen is kept over restarts |
| Circuit switches (`switches/`) | fallback registration | slot or fallback, commands | shows the row's state |
| Sensors and binary sensors (`sensors/`, `binary_sensor.py`) | callbacks, the state last written | create, add, render, remove | an entity shows what its readings say now; value, availability and attributes agree; a removed entity is deaf |
| Power switch, buttons (`switches/`, `button.py`) | -- | write, read back | what they report is true |
| Setup, unload (`__init__.py:64-120, 177-249`) | the config entry's runtime | start, stop, reload | nothing survives an unload; a loaded entry keeps ticking |
| Registry cleanup (`sensor.py:60-194`) | entity registry | create sensors, remove what is obsolete | nothing that comes back is removed |
| PelTec II decoding (`peltec2.py`) | -- | tables, decoders, validations | out-of-range readings are not shown; the table of configurations agrees with itself |
| STOMP framing (`cwb/stomp.py`, `cwb/WebBoilerWsClient.py:84-128`) | the carried remainder | split, parse | however the stream is cut, frames arrive intact and in order |
| Config and options flow, diagnostics | -- | forms, read-only output | -- |

Interactions: the **tick** (every 60 s, started whether or not the last one has
finished) reads the websocket client's flags, calls `refresh()` and `relogin()`;
**entity commands** run at any time and call the same client; the **websocket
task** runs by itself and calls back into the client, the collection and the
entities; **callbacks** (parameter to entity, collection to entity) run within the
update that calls them.

What is hard: several coroutines in one shared session; state read before an
await and used after it; a task that is cancelled while it awaits another; timeouts
against late answers; snapshots that are older than a frame that overtook them;
availability as a function of time with nobody to look at the clock; parameters
that the portal reports late or stops reporting; unloads with a tick under way;
restarts.
`PROJECT.json` lists each hazard at its line, with the property that covers it
or the reason why none does.

## 2. Modules

| Module | Models | State |
|---|---|---|
| `HttpSession` | the shared session and its lock | published session, open sessions, lock, and the plan (remaining steps) of each coroutine |
| `SessionRecovery` | `EXTENDS HttpSession`: what the portal answers and what the tick and the commands make of it | logged-in sessions, CSRF tokens, reauth, the channel |
| `WebsocketClient` | background task, heartbeat, `start`, `close` | the three pointers, the events, stage of each run, progress of each caller |
| `RealtimeChannel` | abstract: what the tick takes the websocket client for; `WebsocketClient` implements it, whatever its callers do, until a `close()` is overtaken | stopped, retrying or up; where each client is |
| `Orchestrator` | `tick`, `_refresh_if_due`, `relogin`, backoff | ages of the timestamps, the attempt counter, slots for overlapping ticks |
| `Availability` | `refresh` cut at its awaits, `has_fresh_data`, what entities display | ages, one stage for each reader, the displayed availability |
| `SlotEntities` | number and circuit-switch entities over parameters that come late, restarts | parameter cache, hooks, restored and stored values, what was last written |
| `RegistryCleanup` | which sensors a setup creates from what was reported, and which registry entries it removes | reported parameters and placeholders, settings rows, running sensors, the registry |
| `ParameterCache` | how readings reach the entities: portal, frames, snapshots, `refresh` cut at its awaits, entity commands and their read-back | versions of each item at the portal, in the cache and shown; frames under way; what each reader awaits |
| `SettledView` | abstract: what a mirror of the portal promises; `ParameterCache` implements it | the portal's versions and those shown |
| `PelTec2` | decoders, validations and the 45 configurations (no state) | -- |
| `SensorReadings` | `EXTENDS PelTec2`: creation, addition, rendering and removal of sensors | cached readings, callbacks, what each sensor last wrote |
| `Lifecycle` | the config entry over setups, unloads, reloads and the end of Home Assistant, with ticks under way | the entry's state, and for each system its timer, listener, session, websocket and tick |
| `StompFraming` | splitting and parsing the stream of frames | frames sent, the stream with where each of them ends in it, how much of it has been taken, the carried remainder, frames handed on |

Each with behaviour of its own has an `MC…` module with the model values. The
proofs are in eight modules: `Orchestrator`, `Availability`, `SlotEntities`,
`ParameterCache` and `SensorReadings` have a `…_proofs` module each,
`WebsocketClient_proofs` has those of `StompFraming` too, `SessionRecovery_proofs` those
of `HttpSession`, and `ConfigEntry_proofs` those of `Lifecycle` and `RegistryCleanup`.

How they fit together: `SessionRecovery` composes the session with the recoveries
that use it and implements its discipline; `ParameterCache` implements
`SettledView`; `WebsocketClient` implements `RealtimeChannel` up to the
step in which a `close()` is overtaken (section 5); `SensorReadings` uses the functions of `PelTec2`. `Availability` and
`ParameterCache` cut the same `refresh()` at the same awaits, one for when it was,
the other for what it brought. `Lifecycle` takes one step for what `HttpSession`,
`WebsocketClient` and `Orchestrator` unfold, and adds what they leave out: that
the system may be stopped under them.

Conventions common to all of them:

- an action is the code between two suspension points of one coroutine, with
  every callback it awaits that does not suspend itself;
- **time** is counted in ticks (60 s); a timestamp is an age, capped where no
  comparison tells two ages apart (`Expired`, `OldRelogin`, `Tolerance`);
- a **history variable** says so in its declaration and never guards an action;
- an operator marked *faulty variant* is not used: it stands before the
  definition it would replace, and shows which mistake a property excludes.

How state and actions correspond to the code is the `map` of `PROJECT.json`,
definition by definition. The points at which a model departs from a literal reading:

- `HttpSession`: a coroutine's *plan* replaces its call stack; the endpoints are
  steps of a plan. A failed step hands over to the plan of its handler.
- `SessionRecovery`: the portal is available and the credentials are valid, so
  that whatever goes wrong is of the client's making. The portal forgets logins
  at any time (`Expire`).
- `WebsocketClient`: a run identity is reused once nothing refers to it.
  A cancellation that reaches a run while it awaits its own heartbeat is
  swallowed, as `WebBoilerWsClient.py:130-135` does. Nothing keeps two callers apart.
  The history variable `overtaken` records that a `close()` has ended while a task ran
  that was started after the one it waited for: the one event after which the client
  no longer knows what runs.
- `Orchestrator`: the websocket is stopped, retrying or up, and stays what the pointers
  say, as it does until a `close()` is overtaken; what a request answers is left open.
- `Availability`: an entity's value is left out, only when it is written and
  whether it then shows available is kept.
- `SlotEntities`: a setting row and a circuit row, each with its real slots;
  a portal value is a number or anything else (`Unusable`). It has its own, smaller
  notion of an update: the value of one parameter differs from the cached one.
- `RegistryCleanup`: one boiler, and parameters by their names only. What depends
  on a value (a scheme with a buffer, a relay that is a circuit's pump) is a fact
  of the installation: `Needs` and `Twins` say which other parameters decide, and a
  parameter that its scheme never shows needs a name that is never reported. That
  the platforms are set up in the order of `PLATFORMS` is taken from Home Assistant
  starting them in that order; the code itself does not enforce it, and
  `IncompleteKeepsAll` fails if the power switch comes first.
- `ParameterCache`: a reading is the number of changes before it (its version),
  and `ValueOf` says which reading a version carries, so that a reading may come
  back and then counts as no news. All telemetry of a boiler is in one snapshot; the
  requests for a refresh of the portal's own data, which precede it, are part of
  its round trip. What one snapshot leaves out is any set (`S`). An item that is
  shown stands for the entities of that parameter. A command has a kind, which decides
  what is told of a lost request or answer (`LoseCommand`): a number lets the error
  through ("failed"), to a switch or a button the client returns the `False` of a
  refusal ("rejected"). `lost` is history and tells the two apart. The
  merging of several boilers' answers is left out.
- `RealtimeChannel`: the channel is what really runs, not what `is_running()` says, and
  whoever closes it is seen to close until nothing runs. `Orchestrator` takes a timed-out
  `start()` and its `close()` for one step.
- `SettledView` lets what is shown fall back to an older reading: the code does.
- `PelTec2`, `SensorReadings`: a reading is a kind (number, decimal, hexadecimal
  text, NaN, word, null, absent) and a number, the least that the decoders tell
  apart; labels are numbers, and times, units and icons are left out. One boiler
  reports the parameters of one sensor and of those that qualify it.
- `Lifecycle`: what a request answers is open, a system has one tick at a time, and
  a step of a relogin is one of its awaits.
- `StompFraming`: characters come in runs, so a cut falls between symbols; the
  limit of the buffer is counted in them. Headers are recognised by being headers.
  What the broker has written is kept whole, and a websocket message is the next
  few symbols of it (`taken`). `sent`, `frame_ends` and `beats` are history:
  they only tell what the stream meant, and bound it. One connection is one stream;
  the messages of a socket are lost with it (`Reconnect`).

## 3. Runs

Twelve runs, `tlc -config X.cfg M`. "Fails" is a run of one property which
states what a document says and which the code does not keep; the trace is the
counterexample.

| Run | Instance | Shows |
|---|---|---|
| `HttpSession_sharing` | 2 tasks, 3 sessions | no leak, no session published while it closes, every caller finishes |
| `SessionRecovery_collisions` | 2 tasks, 3 sessions | every step is one of `HttpSession` (refinement `SessionDiscipline`); recoveries that do not overlap never ask for valid credentials, spare the channel and restore the login |
| `WebsocketClient_overlap` | 2 callers, 2 runs | until a `close()` is overtaken: no unseen task, honest flag, every step is one of `RealtimeChannel` (refinement `ImplementsChannel`); calls return unless an outage holds them or their stop event is withdrawn |
| `Orchestrator_single` | 1 slot | spacing, bounded counter, honest reset, retries never stop |
| `Availability_overlap` | tick and 1 command, 2 entities | ages are honest, a recovering refresh re-renders all, a reliable portal keeps all available |
| `SlotEntities_rows` | a setting row or a circuit row | numbers and switches are current; a setting keeps what was last seen over reloads, what was stored over kills |
| `RegistryCleanup_setups` | a PelTec II and a BioTec-Plus, 7 parameters reported or not, rows answered or not | gaps cost no entry of a table, degenerate answers cost nothing, what earlier builds left goes for good |
| `RegistryCleanup_conditions` | the same | **fails** `RemovedForGood`: what is exposed without a table, or only if another parameter is there, is removed by one incomplete answer and created anew by the next |
| `ParameterCache_delivery` | 1 parameter, events and rows; tick and 1 command; 1 frame | only what the portal has had is shown, telemetry as it is cached; a command's report is what the portal decided unless the answer was lost; a parsed snapshot is as recent as its refresh; what is shown settles (refinement of `SettledView`) |
| `SensorReadings_display` | 24 boilers of 1 to 3 parameters, readings at the bounds | sensors show what their readings say now; value, availability and attributes agree; removed sensors are deaf; for all 45 configurations the sensors that a setup creates agree with the manual's lists and with the relays' functions |
| `Lifecycle_reloads` | 3 setups | an entry that is not loaded leaves nothing behind but what a tick under way still uses; a loaded one ticks |
| `StompFraming_cuts` | 3 kinds of frames, 3 of them and a heartbeat on a connection, buffer of 11 symbols | wherever the stream is cut, what fits arrives intact, once, in order; what does not fit mixes with nothing |

### Bounds, and why they are enough

- *Tasks, callers, slots, readers*: two actors show every pairwise interleaving;
  the disagreements found need exactly two, and the safety properties that hold
  are proved for any number (section 4).
- *Sessions*: one published, one held by each task that may still answer on
  an old one. *Runs*: two, so that
  an old and a new task meet under both callers; with three TLC has checked the safety
  properties once (9.6 million states).
- *Intervals*: the smallest with every order among them (`refresh_interval` 2
  ticks, base 1, maximum 4, so that growth and the cap both occur; window = 2
  intervals). `MaxAttempt` 3 reaches the cap; it is 32 in the code.
- `SlotBound`, `RefreshBound`: the longest a tick or a refresh may take; each
  await in them has a timeout (30 s per request, 20 s for `start()`), and a tick
  that takes longer than this many periods is outside the model. `TickDropped`
  is such a bound: a tick for which the model has no slot does nothing.
- *Readings*: for each slot the values that the decision tells apart (0 and 1,
  the row's minimum or maximum, anything else). The two rows are checked one at
  a time (`RowSets`): they share no parameter, and the callbacks of one never touch
  the state of the other except through `notify_all_updated`, which needs a
  number or the websocket to have hooked the collection. The proofs allow both rows.

- *Parameters*: one for every way in which a sensor comes about (mapped, mapped
  with a condition, circuit, identity, events, setting, raw), the decision on an
  entry looks at no two of a kind. The proofs are for any sets.

- *Versions*: two changes, the second of which brings the first reading back; one
  change of the events. With one frame and two readers under way a snapshot, a frame and
  a command's read-back can overtake one another in every order.
- *Systems*: three setups, so that two earlier ones may have ticks under way while
  a third is set up.
- *Frames*: one shorter than the buffer, one as long with empty lines in its body,
  one longer; three on a connection so that a cut frame has neighbours on both sides.
- *Readings* (`MCSensorReadings`): the ends of each range and one beyond, the
  sentinels, NaN, infinity, a text and null; for `B_KONF` one configuration for each
  answer that its three conditions and the relay of a circuit can give.

Deadlock is checked in every run but `Lifecycle_reloads`, where a halted Home
Assistant, or an entry that has used up its setups, may rest.

### Fairness

- Every coroutine that can run runs (asyncio's ready queue is FIFO): weak
  fairness of the steps between suspension points.
- `asyncio.Lock` is a FIFO queue: strong fairness of acquiring it.
- Every request ends (`DEFAULT_CLIENT_TIMEOUT`, `HttpClient.py:40`), every
  `start()` ends (20 s), the executor answers: weak fairness of the
  disjunction "succeeds or fails", never of success alone.
- Home Assistant starts a tick every period: weak fairness of `Tick` and `Pass`.
- `LoginRestored` also takes for granted that the next poll or command comes.
- `CallersReturn` assumes nothing of an attempt to connect: `connect()` of the
  websockets library retries transient errors without limit, so it may last for ever. A
  `close()` cancels it, but not once the cancellation was swallowed; the property
  therefore says of a caller that it returns unless it stays `Stranded` in this way, and
  that one whose stop event a `start()` withdraws (`Withdrawn`) may not.
- `ImplementsView` is about a portal that is asked again and again, and takes for
  granted that it answers now and then: in full (`ParseStatuses(r, Telemetry)`), and its
  rows now and then right after its events, with the hour of
  `METADATA_REFRESH_INTERVAL` over. Both are stated as what happens infinitely often,
  which is what strong fairness of the two comes to while the tick polls. Weak
  fairness is enough for the tick's coroutine itself: it polls, and every request ends.
  Nothing is assumed of frames, commands or the websocket: the poll alone makes the view
  settle.
- Otherwise nothing is assumed of the websocket's or the portal's health.

## 4. Proofs

All proofs are for every value of the constants that the named assumption of
the module allows.

| Module | Theorem | Argument |
|---|---|---|
| `SessionRecovery_proofs` (session) | `SessionInvariant`, `NoLeak`, `Usability`, `HandOver` | `SessionInv`: while the lock is free the published session is the only open one; while it is held nothing is published and only a closer has one open, its own. `NoSessionLeak` by itself is not inductive: it does not say who holds the lock. |
| `SessionRecovery_proofs` (recovery) | `RecoveryIsDisciplined`, `RecoveryLeaksNothing`, `ReauthNeedsCollision`, `RecoverySparesChannel` | each step of recovery is a step of `HttpSession` or leaves its variables alone, so its invariant carries over. `QuietInv` adds what holds as long as no two requests have overlapped: one task is under way, its request is out on the published session, and a login is sent with the token of that session; a request can then neither lose its session nor be refused. That plans are worked off from the front (`Remainders`) says that a login always follows its token. |
| `WebsocketClient_proofs` | `ClientInvariant`, `NothingUnseen`, `FlagTellsTheTruth`, `OvertakenByAnother`, `ClientIsAChannel` | `ClientInv` = `RunInv` (the active run is the one `_task` names; the socket belongs to it; no run that is over is being cancelled), `FlagInv`, `CloserInv` (a run that is being cancelled has a caller that waits for its end, which is why the channel goes from up to stopped only under somebody who closes it), until a `close()` is overtaken. For any number of callers and runs, however they overlap: only `RunJoined` can part `_task` from what runs, and only if `start()` has written `_task` since. `OvertakenByAnother` says that this needs two callers: for one of them nothing is excused. What follows an overtaken `close()` no property can excuse or bound: the task it forgot has nobody to end it. |
| `Orchestrator_proofs` | `TypeCorrect`, `RetriesAreSpaced`, `ResetsAreFounded` | spacing: a late tick subtracts its own age from that of the timestamp, so an overlapping relogin only makes it wait longer; the exponent never reaches the clamp (`RetryInv`). Reset: a relogin that runs alone finds its channel stopped when it has logged in, so `start()` waits for a connection (`BackInv`). The premise `[]ReloginsApart` is about relogins, not ticks: ticks may overlap. It is needed (section 5). |
| `Availability_proofs` | `AgeIsHonest`, `PollInvariant`, `AlwaysAvailable`, `RecoveryRenders` | `AgeInv`: also what a reader is about to record is no younger than the newest snapshot. `PollInv` adds that a refresh starts when it is due and until it ends the last one is at most one interval and one refresh old; with `2 * RefreshBound <= Interval` (`PromptAnswers`) that is within the window. |
| `SlotEntities_proofs` | `SlotInvariant`, `NumbersAreCurrent`, `SwitchesAreCurrent`, `SettingsAreKept` | `SettingInv`: the number listens to exactly the slots that exist, and what it has no live reading of is what was restored; `CircuitInv`: the slots of a built switch exist and, if no fallback is waiting to be noticed, it is hooked and shown |
| `ConfigEntry_proofs` (registry) | `CleanupInvariant`, `MappedEntriesAreKept`, `RetiredEntriesGo`, `IncompleteRemovesNothing` | `CleanupInv`: the sensor platform goes by what the portal itself reported, and running sensors are exposed names with an entry. A mapped name is kept either because it is not reported or because its sensor runs; a retired one can be neither. |
| `ConfigEntry_proofs` (entry) | `NothingIsLeftBehind`, `LoadedEntriesTick` | `EntryInv`: only the newest system can get a timer, a listener or a tick; any older one has neither, and what it still has open belongs to a tick that was under way when it was stopped. What is found after an unload says nothing of how far a teardown has got, so the order of its steps is part of the invariant (`Teardown`, `Sequence`). |
| `WebsocketClient_proofs` (framing) | `FramesArriveWhole` | see below |
| `SensorReadings_proofs` | `SensorsAreCurrent`, `RemovedSensorsAreDeaf`, `SensorsAreSound`, `SensorsAgreeOnStandby`, `SchemesAlwaysAgree` | `ReadingsInv`: a sensor that is present was created and listens (`Hooked`) to every reading it depends on that was reported when it was added, a removed one to none; so an update either renders it or does not concern it. Soundness is of what was rendered, from what the renderers return for every reading (`Sound`). The schemes: row by row, which functions a configuration's relays have (`Driven`) and that they agree with its scheme (`Coherent`), with the lists of the manual (`Matches`) and with nothing twice (`Distinct`); then that the conditions under which a setup creates a sensor read nothing but the scheme, whatever else is reported. |
| `ParameterCache_proofs` | `Delivery`, `CommandsAreHonest`, `PollsAreCurrent`, `ImplementsSafeView` | `CacheInv`: frames and answers under way carry only what the portal has had; a command whose refresh runs was accepted, and one past its snapshot has read back (`CommandInv`); an answer to a snapshot request is no older than the request (`SnapshotInv`). `HonestOutcome` by itself is not inductive: an outcome is written from the stage that `CommandInv` is about. One lemma per action; `ReaderKeeps` and `ChannelKeeps` carry what actions of a reader and of the channel have in common. |

### The frames

`FramesArrive` says what has been handed on, and nothing of how the receiver stands in
the stream; a step that takes more symbols can break it from states that satisfy it (with
a buffer of something that was never sent). `FramingInv` says three things more:

- `StreamInv`: the stream is the frames in their order, each followed by the only NULs
  there are, with nothing but heartbeats between them, no more of them than were sent;
- `BufferInv`: the buffer is the stretch of the stream that ends at `taken`. It begins after
  the last frame that has arrived, and what lies between is nothing but heartbeats --
  unless the next frame does not fit in the buffer, for then its beginning may have
  been dropped;
- `OriginInv`: what was handed on comes from the frames that have arrived, each from a
  later one than the one before it, each that fits from some, as one of its `Outcomes`.

`ReceiveKeepsFraming` is the step that matters: of what is in the buffer and the message
together, the NULs are exactly the ends of the frames that this message completes
(`SplitAtEnds`), so there is a piece for each of them. Every piece but the first is
heartbeats and a whole frame (`PieceWhole`); the first one is that, or what is left of
a frame that does not fit (`PieceRest`). `ParsedPayload` says that the parser gets the frame
back: the first empty line of a payload is the one that ends its headers, however many
there are in the body. The new origins extend the old ones (`OriginsExtend`).

The k-th position of a NUL is defined by how many are before it (`Nth`), so that no
recursion is needed; what `Nth` picks in a finite set of naturals (`EnumeratedNth`) follows
from there being a smallest of any set of them (`SmallestNat`), which is proved from the
library's theorem that `<` on the naturals is well-founded, without an induction.

`Fits` counts `MaxBeats` heartbeats in front of a frame: a message of nothing but heartbeats
is not buffered, but those that come with the end of one frame or the beginning of the next
are, and take room. What is guaranteed of a frame nearly as long as the buffer
depends on how many may precede it.

### Assumptions

What the proofs rest on, besides the types of the constants:

- `[]ReloginsApart` (section 5);
- `PromptAnswers`: a refresh takes at most half an interval;
- `ReadingsAssumption`: a reading is one of the kinds, once reported it is never
  absent, counters come as numbers or null, and the index of the grate is not negative.
  The last two are what the portal sends; a counter that is a text would be handed on as it
  is (section 5), and the index of the grate is truncated by `int()` and divided here;
- `FramingAssumption`: a NUL ends a frame and is nowhere in it, and neither a command nor a
  header holds a newline, as the format of STOMP requires.

### Only model-checked

Liveness (`EveryCallerFinishes`, `LoginRestored`, `CallersReturn`, `KeepsRetrying`, the
liveness half of `ImplementsView`), which together with `ENABLED` is out of the prover's
reach. Every other property that a passing run checks is a theorem. Of the run that fails
there is nothing to prove.

No module declares a recursive operator.

## 5. What the code does not keep

The run that fails, with the sentence it refutes, is in `findings` of
`PROJECT.json`. The following was seen while modelling and has no run of its
own. Of the first four TLC has given a trace, with the property stated of the same
modules; they were not kept as runs because the properties that do hold say where
the boundary is.

- Two recoveries at once mix tokens and sessions, and the user is asked for valid
  credentials (`__init__.py:348` against the promise at 337): `ReauthOnlyByCollision`
  without its condition.
- With two callers `close()` forgets a task that `start()` has just made: it writes
  `_task` after an await (`cwb/WebBoilerWsClient.py:234` against 190, "Return True when
  the websocket background task is active"): `NoUnseenRun` and `ImplementsChannel`
  without `overtaken`. What `Orchestrator` says of overlapping relogins is therefore said
  of a better websocket than they have.
- `was_stale` is read when `refresh()` begins; if the window lapses inside it, a refresh
  that succeeds leaves entities unavailable (`cwb/WebBoilerClient.py:188` against the
  comment at 181-187).
- Nothing writes a state when time alone makes data stale
  (`cwb/WebBoilerClient.py:342-345`): what is shown as available may stay so for ever.

Coroutines that overlap:

- A `close()` that cancels a run while it awaits its heartbeat has no effect on it
  (`cwb/WebBoilerWsClient.py:130-135`): the run goes back to `connect()`, which retries
  for as long as the outage lasts (line 144), and `close()` waits for it (line 231), in a
  relogin, an unload or the end of Home Assistant. `CallersReturn` without `Stranded`.
- `start()` clears the stop event (line 202) also while a `close()` that has set it is
  still on its way; that `close()` may then come to wait for the new run, which nothing
  tells to stop any more: `CallersReturn` without `Withdrawn`.
- With two slots `ResetMeansBack` of `Orchestrator` does not hold: `start()`
  returns at once for a task that another tick's relogin has started and that is
  not connected yet, `_start_websocket()` reports success, and the backoff is
  reset although no channel came up (`__init__.py:431-435`). Two relogins at once are
  the only way to it (`ResetsAreFounded`).
- A silent relogin closes the session under another poll, which takes it for an
  outage and tears the websocket down (`__init__.py:338` promises otherwise);
  `ChannelUntouched` therefore holds only without overlap, and so does `LoginRestored`.
- `tick()` decides by what it read of the websocket before it awaited the
  refresh, and may end a reconnect loop within the tolerance of `__init__.py:274-277`.
- An entry that is unloaded while a tick is under way: the tick logs in on a new
  session and may start a websocket that nobody will close
  (`__init__.py:108-120`; `overtaken` in `Lifecycle`; `tests_ha/conftest.py:100` takes
  an unload to end both). `EVENT_HOMEASSISTANT_STOP` stops the system and leaves the timer
  running, with the same effect.
- The login page on the request for the configuration, right after a login that was
  accepted, ends setup in a reauth flow rather than in a retry.

Readings on their way:

- A snapshot that was built before a frame and parsed after it puts the older reading back
  until the next poll. `SettledView` allows it.
- A switch's or a button's command that was executed and whose answer was lost is told to
  the user like a refusal: the client returns `False` for both
  (`cwb/WebBoilerClient.py:373-375, 397-399, 447-449`), and the entities have one text for
  it (`button.py:63-64`, `switches/WebBoilerPowerSwitch.py:145-146`,
  `switches/WebBoilerCircuitSwitch.py:173-179`). `HonestOutcome` says that this is the
  only way in which a report can differ from what the portal decided. "Done" means that a later snapshot
  has been parsed, not that the new value is shown (`tests/test_editable_settings.py:125`).
  Buttons do not look at what the refresh returns. `number.set_parameter_value` lets
  `HttpClientConnectionError` through as it is, where the other entities translate it.
- Events that were cached are not notified if the settings request after them meets the
  login page: they are shown with the next hourly refresh that succeeds.
- `notify_all_updated()` needs a callback of the collection: without a number
  entity and before the first websocket connection it reaches nobody
  (`cwb/WebBoilerDeviceCollection.py:242-248`). `RecoveryRendersEveryEntity`
  has `hooked` as its condition for that.

Entities:

- A fallback parameter that appears after the circuit switch was added is not
  shown until a slot of its row is updated or everything is notified
  (`switches/WebBoilerCircuitSwitch.py:75-92`); `SwitchIsCurrent` excludes that
  interval, the history variable `unnoticed`. And a PVAL that was once reported
  keeps winning over a fallback that moves on.
- A live slot that turns unusable falls back to the value restored at startup,
  which may be older than what was last seen (`number.py:188-192`). `LastSeenIsKept`
  counts such a slot as not seen.
- A sensor does not listen to a parameter that qualifies it and is first reported after
  the sensor was added (`sensors/WebBoilerGenericSensor.py:115`); `ShownIsCurrent` has
  `met` as its condition. The "Function" attribute of a relay reads `B_KONF` and never
  listens to it.
- Counters, and the sensors of the older families, hand on raw readings although they
  have a display precision; `PVAL_582_0` is available with no value. `StateIsSound`
  makes an exception of them.
- `decode_input_bitmask`, `decode_accessory_bitmask`, `format_portal_hex` and
  `configuration_has_dhw` are used by tests only.

Options and forms:

- A maximum delay below the base is accepted by the options form and then
  exceeded (`cwb/backoff.py:27`).
- An entry whose unique id was stored before normalisation fails its own reauth as a wrong
  account if the id has blanks (`config_flow.py:183`), and can be added a second
  time (`config_flow.py:37-41, 102`).

## 6. Not modelled, and the plan

Left out for good: wording and layout, diagnostics, translations, logging, the
forms of the config flow (one request each; what they accept is the assumption
on the intervals in `Orchestrator` and `Availability`), icons and units, timestamps
of parameters (nothing is decided by them), the value tables of the older families
and the text of the event sensor.

Left out so far: several boilers in one account (the merging of their lists in
`cwb/HttpHelper.py`), rejected credentials within `SessionRecovery`, subscription
indices of the websocket, and which reading the power switch shows.

Where the development could be taken further: several boilers (a snapshot of one of
them, and the lists merged by device), and rejected credentials within
`SessionRecovery`.
