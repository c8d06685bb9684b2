---------------------------- MODULE Orchestrator ----------------------------
(***************************************************************************)
(* WebBoilerSystem: the tick that polls over HTTP and the relogin, backed  *)
(* off, that brings the realtime channel back.                             *)
(*                                                                         *)
(* Time is counted in periods of the tick (60 s).  Home Assistant starts a *)
(* tick every period, whether or not an earlier one has finished: a slot   *)
(* is one execution of tick().  The websocket is reduced to what the       *)
(* orchestrator sees of it: its task is not running, is trying to connect, *)
(* or is connected.  What a request answers is left open.                  *)
(***************************************************************************)
EXTENDS Integers

CONSTANTS
  Slots,              \* executions of tick() that may overlap
  refresh_interval,
  retry_base_interval,
  retry_max_interval,
  MaxAttempt,         \* bound of _relogin_attempt (32 in the code)
  SlotBound           \* how long a tick can take: every await in it has a timeout

ASSUME OrchestratorAssumption ==
  /\ refresh_interval \in Nat /\ retry_max_interval \in Nat
  /\ retry_base_interval \in Nat \ {0}    \* the options accept 15 s and more
  /\ MaxAttempt \in 1 .. 64 /\ SlotBound \in Nat

VARIABLES
  channel,       \* "stopped", "retrying" or "up"
  down_age,      \* age of disconnected_since, 0 while up
  relogin_age,   \* age of last_relogin_timestamp
  refresh_age,   \* age of last_refresh_timestamp
  attempt,       \* _relogin_attempt
  ticked,        \* the tick of this period has been started
  pc,            \* progress of each slot
  elapsed,       \* age of the slot's local variable now
  connected,     \* the slot's local variables of these names
  websocket_running,
  disconnected_for,
  websocket_ok,
  came_up        \* history: connected since the slot's relogin closed the channel

vars == <<channel, down_age, relogin_age, refresh_age, attempt, ticked, pc, elapsed,
          connected, websocket_running, disconnected_for, websocket_ok, came_up>>

socket == <<channel, down_age>>
clocks == <<relogin_age, refresh_age, ticked, elapsed>>
seen   == <<connected, websocket_running, disconnected_for>>

Greater(a, b) == IF a > b THEN a ELSE b
Lesser(a, b)  == IF a < b THEN a ELSE b

\* next_retry_delay(); the shortest delay, 1 s in the code, is one period here.
NoGrowth(n, base, cap) == Greater(base, 1)   \* faulty variant: always the base
next_retry_delay(n, base, cap) ==
  Lesser(Greater(base, 1) * 2^Lesser(n, 64), Greater(cap, Greater(base, 1)))

_current_retry_delay == next_retry_delay(attempt, retry_base_interval, retry_max_interval)

Tolerance == 3 * retry_base_interval

\* Ages beyond every comparison are not told apart.
LongestDelay == Greater(retry_max_interval, Greater(retry_base_interval, 1))
OldRelogin   == LongestDelay + SlotBound + 1
Older(age, oldest) == Lesser(age + 1, oldest)

Running == channel # "stopped"

Init ==
  /\ channel \in {"stopped", "up"}
  /\ down_age = 0 /\ relogin_age = 0 /\ refresh_age = 0
  /\ attempt = 0
  /\ ticked = TRUE
  /\ pc = [s \in Slots |-> "idle"]
  /\ elapsed = [s \in Slots |-> 0]
  /\ connected = [s \in Slots |-> FALSE]
  /\ websocket_running = [s \in Slots |-> FALSE]
  /\ disconnected_for = [s \in Slots |-> 0]
  /\ websocket_ok = [s \in Slots |-> FALSE]
  /\ came_up = [s \in Slots |-> FALSE]

-----------------------------------------------------------------------------
\* The websocket on its own.

\* The slots that wait in start() are told.
Connected ==
  /\ channel = "retrying"
  /\ channel' = "up" /\ down_age' = 0
  /\ pc' = [s \in Slots |-> IF pc[s] = "starting" THEN "started" ELSE pc[s]]
  /\ came_up' = [s \in Slots |-> pc[s] # "idle"]
  /\ UNCHANGED <<clocks, attempt, seen, websocket_ok>>

\* ws_disconnected_callback sets disconnected_since only if it is not set: a
\* connection that fails in its handshake does not restart the clock.
Restarted == 0              \* faulty variant: set it every time
SinceFirst == down_age

Disconnected ==
  /\ Running
  /\ channel' = "retrying"
  /\ down_age' = SinceFirst
  /\ UNCHANGED <<clocks, attempt, pc, seen, websocket_ok, came_up>>

\* connect() met an error that it does not retry.
RunEnds ==
  /\ channel = "retrying"
  /\ channel' = "stopped"
  /\ UNCHANGED <<down_age, clocks, attempt, pc, seen, websocket_ok, came_up>>

-----------------------------------------------------------------------------
\* tick(), _refresh_if_due(), relogin().

Goto(s, place) == pc' = [pc EXCEPT ![s] = place]

\* relogin() takes its timestamp first, then closes the websocket.
BeginRelogin(s) ==
  /\ Goto(s, "closing")
  /\ relogin_age' = 0

\* The rest of the tick of a slot that had found the websocket down: it goes by
\* what it read before it awaited the refresh.
Tolerated(s) == websocket_running'[s] /\ disconnected_for'[s] < Tolerance

MayRelogin(s) == relogin_age - elapsed'[s] > _current_retry_delay

Decide(s) ==
  IF ~connected'[s] /\ ~Tolerated(s) /\ MayRelogin(s)
  THEN BeginRelogin(s)
  ELSE Goto(s, "idle") /\ UNCHANGED relogin_age

RefreshDue == refresh_age >= refresh_interval

Tick(s) ==
  /\ ~ticked /\ pc[s] = "idle"
  /\ ticked' = TRUE
  /\ elapsed' = [elapsed EXCEPT ![s] = 0]
  /\ connected' = [connected EXCEPT ![s] = channel = "up"]
  /\ websocket_running' = [websocket_running EXCEPT ![s] = Running]
  /\ disconnected_for' = [disconnected_for EXCEPT ![s] = down_age]
  /\ IF RefreshDue
     THEN Goto(s, "refreshing") /\ refresh_age' = 0 /\ UNCHANGED relogin_age
     ELSE Decide(s) /\ UNCHANGED refresh_age
  /\ UNCHANGED <<socket, attempt, websocket_ok, came_up>>

\* A bound of the model: a tick for which there is no slot does nothing.
TickDropped ==
  /\ ~ticked /\ \A s \in Slots : pc[s] # "idle"
  /\ ticked' = TRUE
  /\ UNCHANGED <<socket, relogin_age, refresh_age, elapsed, attempt, pc, seen,
                 websocket_ok, came_up>>

\* The refresh is over.  A failed one is followed by a relogin at once, but not
\* by a slot that had found the websocket down.
RefreshEnds(s) ==
  /\ pc[s] = "refreshing"
  /\ UNCHANGED <<socket, refresh_age, ticked, elapsed, attempt, seen, websocket_ok, came_up>>
  /\ \/ Decide(s)
     \/ connected[s] /\ BeginRelogin(s)

\* The HTTP session had expired: a silent relogin, and another refresh.
SessionExpired(s) ==
  /\ pc[s] = "refreshing"
  /\ Goto(s, "silent")
  /\ UNCHANGED <<socket, clocks, attempt, seen, websocket_ok, came_up>>

SilentReloginEnds(s) ==
  /\ pc[s] = "silent"
  /\ refresh_age' \in {refresh_age, 0}
  /\ UNCHANGED <<socket, ticked, elapsed, attempt, seen, websocket_ok, came_up>>
  /\ Decide(s)

\* close_websocket() is through.
Stopped ==
  /\ channel' = "stopped"
  /\ UNCHANGED down_age      \* 0 while up: the age of a connection lost now

WebsocketClosed(s) ==
  /\ pc[s] = "closing"
  /\ Stopped
  /\ Goto(s, "logging_in")
  /\ came_up' = [came_up EXCEPT ![s] = FALSE]
  /\ UNCHANGED <<clocks, attempt, seen, websocket_ok>>

Unbounded(n)   == n + 1     \* faulty variant: counts for ever
NextAttempt(n) == Lesser(n + 1, MaxAttempt)

_record_relogin_failure == attempt' = NextAttempt(attempt)

LoginFails(s) ==
  /\ pc[s] = "logging_in"
  /\ _record_relogin_failure
  /\ Goto(s, "idle")
  /\ UNCHANGED <<socket, clocks, seen, websocket_ok, came_up>>

\* _start_websocket(): start() returns at once if the task is running already.
LoggedIn(s) ==
  /\ pc[s] = "logging_in"
  /\ IF Running
     THEN /\ Goto(s, "reading")
          /\ websocket_ok' = [websocket_ok EXCEPT ![s] = TRUE]
          /\ channel' = channel
     ELSE /\ Goto(s, "starting")
          /\ channel' = "retrying"
          /\ UNCHANGED websocket_ok
  /\ UNCHANGED <<down_age, clocks, attempt, seen, came_up>>

WebsocketStarted(s) ==
  /\ pc[s] = "started"
  /\ Goto(s, "reading")
  /\ websocket_ok' = [websocket_ok EXCEPT ![s] = TRUE]
  /\ UNCHANGED <<socket, clocks, attempt, seen, came_up>>

\* No CONNECTED frame within 20 s: start() closes the websocket and raises.
WebsocketTimesOut(s) ==
  /\ pc[s] \in {"starting", "started"}
  /\ Stopped
  /\ Goto(s, "reading")
  /\ websocket_ok' = [websocket_ok EXCEPT ![s] = FALSE]
  /\ UNCHANGED <<clocks, attempt, seen, came_up>>

\* The refresh at the end of a relogin, whatever its outcome.
LoginCounts(s)   == TRUE    \* faulty variant: the HTTP login is success enough
ChannelBack(s)   == websocket_ok[s]

RefreshedAfterRelogin(s) ==
  /\ pc[s] = "reading"
  /\ refresh_age' \in {refresh_age, 0}
  /\ IF ChannelBack(s) THEN attempt' = 0 ELSE _record_relogin_failure
  /\ Goto(s, "idle")
  /\ UNCHANGED <<socket, relogin_age, ticked, elapsed, seen, websocket_ok, came_up>>

-----------------------------------------------------------------------------
Pass ==
  /\ ticked
  /\ \A s \in Slots : pc[s] # "idle" => elapsed[s] < SlotBound
  /\ ticked' = FALSE
  /\ down_age' = IF channel = "up" THEN 0 ELSE Older(down_age, Tolerance)
  /\ relogin_age' = Older(relogin_age, OldRelogin)
  /\ refresh_age' = Older(refresh_age, refresh_interval)
  /\ elapsed' = [s \in Slots |-> IF pc[s] = "idle" THEN elapsed[s] ELSE elapsed[s] + 1]
  /\ UNCHANGED <<channel, attempt, pc, seen, websocket_ok, came_up>>

Next ==
  \/ Connected \/ Disconnected \/ RunEnds
  \/ TickDropped \/ Pass
  \/ \E s \in Slots :
       \/ Tick(s)
       \/ RefreshEnds(s) \/ SessionExpired(s) \/ SilentReloginEnds(s)
       \/ WebsocketClosed(s)
       \/ LoginFails(s) \/ LoggedIn(s)
       \/ WebsocketStarted(s) \/ WebsocketTimesOut(s)
       \/ RefreshedAfterRelogin(s)

Spec == Init /\ [][Next]_vars

\* Time passes, ticks run, and every await in a tick ends: requests, start() and
\* the closing handshake have timeouts.  The websocket may do as it likes.
Fairness ==
  /\ WF_vars(Pass)
  /\ WF_vars(TickDropped \/ \E s \in Slots : Tick(s))
  /\ \A s \in Slots :
       /\ WF_vars(RefreshEnds(s) \/ SilentReloginEnds(s))
       /\ WF_vars(WebsocketClosed(s))
       /\ WF_vars(LoginFails(s) \/ LoggedIn(s))
       /\ WF_vars(WebsocketStarted(s) \/ WebsocketTimesOut(s))
       /\ WF_vars(RefreshedAfterRelogin(s))

FairSpec == Spec /\ Fairness

-----------------------------------------------------------------------------
Places == {"idle", "refreshing", "silent", "closing", "logging_in", "starting",
           "started", "reading"}

TypeOK ==
  /\ channel \in {"stopped", "retrying", "up"}
  /\ down_age \in 0 .. Tolerance /\ relogin_age \in 0 .. OldRelogin
  /\ refresh_age \in 0 .. refresh_interval
  /\ attempt \in 0 .. MaxAttempt
  /\ ticked \in BOOLEAN
  /\ pc \in [Slots -> Places]
  /\ elapsed \in [Slots -> 0 .. SlotBound]
  /\ {connected, websocket_running, websocket_ok, came_up} \subseteq [Slots -> BOOLEAN]
  /\ disconnected_for \in [Slots -> 0 .. Tolerance]

Relogins(s) == pc[s] # "closing" /\ pc'[s] = "closing"

\* While the channel is down, relogins keep their distance: with each relogin in
\* a row that did not bring it back, the next begins later, until the longest
\* delay is reached.  Never are two that a tick schedules closer than that, in
\* real time and however slowly the ticks run (CHANGELOG.md:128, a websocket-only
\* outage is not "a full relogin every 60 seconds indefinitely").
RetriesBackOff ==
  [][\A s \in Slots :
       Relogins(s) /\ ~connected'[s] =>
         relogin_age > Lesser(retry_base_interval * 2^attempt, retry_max_interval)]_vars

\* What RetriesBackOff rests on: a tick that is late knows that it is, and the
\* exponent stays where next_retry_delay() does not clamp it.
RetryInv ==
  /\ attempt \in 0 .. MaxAttempt
  /\ elapsed \in [Slots -> Nat]
  /\ relogin_age \in Int
  /\ pc \in [Slots -> Places]

\* The backoff starts afresh only after a relogin that has seen the realtime
\* channel come up (__init__.py:431-434, "Success means the realtime channel is
\* actually back").  With overlapping ticks the code does not keep this: start()
\* returns at once for a task that another tick has just started.
ResetMeansBack ==
  [][\A s \in Slots :
       pc[s] = "reading" /\ pc'[s] = "idle" /\ attempt' = 0 => came_up[s]]_vars

\* As long as the channel is down, new attempts to bring it back are made
\* (CHANGELOG.md:130, "it keeps retrying in the background").
KeepsRetrying ==
  channel # "up" ~> (channel = "up" \/ \E s \in Slots : pc[s] = "closing")
=============================================================================
