------------------------------- MODULE Lifecycle -------------------------------
(***************************************************************************)
(* The config entry over setups, unloads and reloads.  Every setup makes a *)
(* WebBoilerSystem of its own, with an HTTP session, a websocket task and  *)
(* a timer whose ticks poll and, if need be, log in again.  A tick that is *)
(* under way when its timer is cancelled goes on.                          *)
(*                                                                         *)
(* What a request answers is left open; Availability, Orchestrator,        *)
(* HttpSession and WebsocketClient model what is one step here.  A system  *)
(* has one tick at a time.                                                 *)
(***************************************************************************)
EXTENDS Integers

CONSTANT
  MaxSystems        \* bound: setups of the entry

ASSUME LifecycleAssumption == MaxSystems \in Nat \ {0}

Systems == 1 .. MaxSystems

VARIABLES
  entry,            \* the state of the config entry
  current,          \* the system of the last setup, 0 before the first
  pc,               \* progress of the setup or unload of the entry
  verdict,          \* how the setup failed that is being cleaned up
  platforms,        \* "up" or "down": entities have been added
  halt,             \* progress of EVENT_HOMEASSISTANT_STOP
  timer,            \* _tick_unsub is set
  listener,         \* stop_listener is set
  session,          \* an HTTP session is open
  websocket,        \* its background task is running
  tick,             \* progress of the tick
  overtaken         \* history: a tick was under way as the timer was cancelled

entryVars == <<entry, current, pc, verdict, platforms, halt, timer, listener,
          session, websocket, tick, overtaken>>

hass  == <<entry, current, pc, verdict, platforms, halt>>
hooks == <<timer, listener, overtaken>>

None    == [s \in Systems |-> FALSE]
On(f, s)  == [f EXCEPT ![s] = TRUE]
Off(f, s) == [f EXCEPT ![s] = FALSE]

EntryInit ==
  /\ entry = "not_loaded" /\ current = 0 /\ pc = "idle" /\ verdict = "none"
  /\ platforms = "down" /\ halt = "no"
  /\ timer = None /\ listener = None /\ session = None /\ websocket = None
  /\ overtaken = None
  /\ tick = [s \in Systems |-> "idle"]

\* cancel_tick(): the timer is stopped, not what it has started.
Cancelled(s) ==
  /\ timer' = Off(timer, s)
  /\ overtaken' = [overtaken EXCEPT ![s] = @ \/ tick[s] # "idle"]

-----------------------------------------------------------------------------
\* async_setup_entry(): the stages of system.start(), then the platforms.

SetupEntry ==
  /\ pc = "idle" /\ halt = "no" /\ entry \in {"not_loaded", "setup_retry", "setup_error"}
  /\ current < MaxSystems
  /\ current' = current + 1
  /\ pc' = "login" /\ entry' = "setup_in_progress"
  /\ session' = On(session, current + 1)
  /\ UNCHANGED <<verdict, platforms, halt, hooks, websocket, tick>>

Goto(stage) ==
  /\ pc' = stage
  /\ UNCHANGED <<entry, current, verdict, platforms, halt>>

\* An answer leads on to the next request.
Proceed ==
  /\ \/ pc = "login" /\ Goto("configuration")
     \/ pc = "refresh" /\ Goto("forward")
     \/ pc = "refresh" /\ Goto("renewal")      \* the login page
     \/ pc = "renewal" /\ Goto("second refresh")
     \/ pc = "second refresh" /\ Goto("forward")
  /\ UNCHANGED <<hooks, session, websocket, tick>>

\* A websocket that does not come up is closed again, and setup goes on.
ChannelStarted ==
  \/ /\ pc = "configuration" /\ Goto("channel")
     /\ websocket' = On(websocket, current)
     /\ UNCHANGED <<hooks, session, tick>>
  \/ /\ pc = "channel" /\ Goto("refresh")
     /\ websocket' \in {websocket, Off(websocket, current)}
     /\ UNCHANGED <<hooks, session, tick>>

\* The handler of any exception: cancel the timer and stop the system.
Uncleaned    == "idle"                  \* faulty variant: nothing is stopped
CleanedFirst == "clean channel"
Failed(how) ==
  /\ verdict' = how /\ pc' = CleanedFirst
  /\ entry' = IF CleanedFirst = "idle" THEN how ELSE entry
  /\ Cancelled(current) /\ listener' = Off(listener, current)
  /\ UNCHANGED <<current, halt, session, websocket, tick>>

\* Bad credentials end in a reauth flow; everything else is tried again.
Fail ==
  \/ /\ pc \in {"login", "configuration", "renewal"} /\ Failed("setup_error")
     /\ UNCHANGED platforms
  \/ /\ pc \in {"login", "configuration", "refresh", "renewal", "second refresh"}
     /\ Failed("setup_retry") /\ UNCHANGED platforms
  \/ /\ pc = "forwarded" /\ Failed("setup_error") /\ platforms' \in {platforms, "up"}

\* The listener and the timer are there before the platforms are.
Forward ==
  /\ pc = "forward" /\ Goto("forwarded")
  /\ listener' = On(listener, current) /\ timer' = On(timer, current)
  /\ UNCHANGED <<overtaken, session, websocket, tick>>

Loaded ==
  /\ pc = "forwarded" /\ platforms = "down"
  /\ entry' = "loaded" /\ platforms' = "up" /\ pc' = "idle"
  /\ UNCHANGED <<current, verdict, halt, hooks, session, websocket, tick>>

-----------------------------------------------------------------------------
\* async_unload_entry(), also as the first half of a reload.

UnloadEntry ==
  /\ pc = "idle" /\ entry = "loaded" /\ halt = "no"
  /\ entry' = "unload_in_progress" /\ pc' = "unload platforms"
  /\ UNCHANGED <<current, verdict, platforms, halt, hooks, session, websocket, tick>>

\* The entities are removed before the system they use is stopped.
TimerFirst(removed) == Cancelled(current)     \* faulty variant: whatever becomes of the platforms
TimerAfter(removed) == IF removed THEN Cancelled(current) ELSE UNCHANGED <<timer, overtaken>>
PlatformsUnloaded ==
  /\ pc = "unload platforms"
  /\ \E removed \in BOOLEAN :
       /\ TimerAfter(removed)
       /\ IF removed
          THEN /\ platforms' = "down" /\ pc' = "stop channel"
               /\ listener' = Off(listener, current) /\ UNCHANGED entry
          ELSE /\ entry' = "failed_unload" /\ pc' = "idle"
               /\ UNCHANGED <<platforms, listener>>
  /\ UNCHANGED <<current, verdict, halt, session, websocket, tick>>

\* system.stop(): the websocket, then the session.
ChannelStopped ==
  /\ pc \in {"stop channel", "clean channel"}
  /\ Goto(IF pc = "stop channel" THEN "stop session" ELSE "clean session")
  /\ websocket' = Off(websocket, current)
  /\ UNCHANGED <<hooks, session, tick>>

SessionStopped ==
  /\ pc \in {"stop session", "clean session"}
  /\ pc' = "idle"
  /\ entry' = IF pc = "stop session" THEN "not_loaded" ELSE verdict
  /\ session' = Off(session, current)
  /\ UNCHANGED <<current, verdict, platforms, halt, hooks, websocket, tick>>

\* EVENT_HOMEASSISTANT_STOP: the same, with the timer left to itself.
Halt ==
  /\ \/ /\ halt = "no" /\ (\E s \in Systems : listener[s]) /\ halt' = "channel"
        /\ listener' = None /\ UNCHANGED <<session, websocket>>
     \/ /\ halt = "channel" /\ halt' = "session"
        /\ websocket' = Off(websocket, current) /\ UNCHANGED <<listener, session>>
     \/ /\ halt = "session" /\ halt' = "done"
        /\ session' = Off(session, current) /\ UNCHANGED <<listener, websocket>>
  /\ UNCHANGED <<entry, current, pc, verdict, platforms, timer, overtaken, tick>>

-----------------------------------------------------------------------------
\* tick() of the system s, cut at its awaits.

\* A request needs a session, and makes one if there is none.
Request(s, stage) ==
  /\ tick' = [tick EXCEPT ![s] = stage]
  /\ session' = On(session, s)
  /\ UNCHANGED <<hass, hooks, websocket>>

Pass(s, stage) ==
  /\ tick' = [tick EXCEPT ![s] = stage]
  /\ UNCHANGED <<hass, hooks, session, websocket>>

\* Polling is due, with the channel up or down, or only the relogin is.
Tick(s) ==
  /\ timer[s] /\ tick[s] = "idle"
  /\ \/ websocket[s] /\ Request(s, "poll, up")
     \/ Request(s, "poll, down")
     \/ Pass(s, "relogin")

Polls == {"poll, up", "poll, down", "poll again", "last poll"}

\* The next request of a refresh.
PollOn(s) == tick[s] \in Polls /\ ~session[s] /\ Request(s, tick[s])

Polled(s) == tick[s] \in Polls /\ session[s] /\ Pass(s, "idle")

\* A request whose session is closed under it fails, like any other.
PollFails(s) ==
  \/ tick[s] = "poll, up" /\ Pass(s, "relogin")
  \/ tick[s] = "poll, down" /\ (Pass(s, "relogin") \/ Pass(s, "idle"))
  \/ tick[s] \in {"poll again", "last poll"} /\ Pass(s, "idle")

OnLoginPage(s) ==
  \/ tick[s] \in {"poll, up", "poll, down"} /\ session[s] /\ Request(s, "silent login")
  \/ tick[s] = "silent login" /\ session[s] /\ Request(s, "poll again")
  \/ tick[s] = "silent login" /\ Pass(s, "idle")

\* relogin(): close the channel, log in on a new session, start the channel.
Relogin(s) ==
  \/ /\ tick[s] = "relogin"
     /\ tick' = [tick EXCEPT ![s] = "login"]
     /\ websocket' = Off(websocket, s) /\ session' = On(session, s)
     /\ UNCHANGED <<hass, hooks>>
  \/ tick[s] = "login" /\ Pass(s, "idle")
  \/ /\ tick[s] = "login" /\ session[s]
     /\ tick' = [tick EXCEPT ![s] = "channel"]
     /\ websocket' = On(websocket, s)
     /\ UNCHANGED <<hass, hooks, session>>
  \/ /\ tick[s] = "channel"
     /\ tick' = [tick EXCEPT ![s] = "last poll"]
     /\ session' = On(session, s)
     /\ websocket' \in {websocket, Off(websocket, s)}
     /\ UNCHANGED <<hass, hooks>>

\* The background task gives up.
RunEnds(s) ==
  /\ websocket[s] /\ websocket' = Off(websocket, s)
  /\ UNCHANGED <<hass, hooks, session, tick>>

Resume(s) == PollOn(s) \/ Polled(s) \/ PollFails(s) \/ OnLoginPage(s) \/ Relogin(s)

Operate ==
  Proceed \/ ChannelStarted \/ Fail \/ Forward \/ Loaded
    \/ PlatformsUnloaded \/ ChannelStopped \/ SessionStopped

EntryNext ==
  \/ SetupEntry \/ UnloadEntry \/ Operate \/ Halt
  \/ \E s \in Systems : Tick(s) \/ Resume(s) \/ RunEnds(s)

EntrySpec == EntryInit /\ [][EntryNext]_entryVars

-----------------------------------------------------------------------------
\* What the life cycle guarantees.

SetupStages == {"login", "configuration", "channel", "refresh", "renewal", "second refresh", "forward"}
Closing     == {"stop channel", "stop session", "clean channel", "clean session"}

TypeOK ==
  /\ entry \in {"not_loaded", "setup_in_progress", "setup_retry", "setup_error",
                "loaded", "unload_in_progress", "failed_unload"}
  /\ current \in 0 .. MaxSystems
  /\ pc \in SetupStages \cup Closing \cup {"idle", "forwarded", "unload platforms"}
  /\ verdict \in {"none", "setup_retry", "setup_error"}
  /\ platforms \in {"up", "down"}
  /\ halt \in {"no", "channel", "session", "done"}
  /\ \A flag \in {timer, listener, session, websocket, overtaken} : flag \in [Systems -> BOOLEAN]
  /\ tick \in [Systems -> Polls \cup {"idle", "silent login", "relogin", "login", "channel"}]

\* An entry that is not loaded, whether it was unloaded or could not be set up,
\* has left nothing behind: no timer, no listener, no websocket, no session.
\* Only a tick that was under way when the timer was cancelled may still use or
\* make some of it.
Gone(s) ==
  /\ ~timer[s] /\ ~listener[s]
  /\ ~overtaken[s] => tick[s] = "idle" /\ ~session[s] /\ ~websocket[s]

QuietAfterwards ==
  /\ TypeOK
  /\ \A s \in Systems : s # current \/ (pc = "idle" /\ entry \in {"not_loaded", "setup_retry", "setup_error"}) => Gone(s)

\* An entry that is loaded keeps ticking, also after an unload that failed, and
\* entities are never left with a system that an unload has stopped.
LoadedIsAlive ==
  /\ pc = "idle" /\ entry \in {"loaded", "failed_unload"} =>
       platforms = "up" /\ timer[current] /\ (halt = "no" => listener[current])
  /\ platforms = "up" => pc \notin {"stop channel", "stop session"}
=============================================================================
