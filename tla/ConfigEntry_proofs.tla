------------------------- MODULE ConfigEntry_proofs -------------------------
(***************************************************************************)
(* What setups, unloads and reloads of the config entry leave behind: in   *)
(* the first part in the process (Lifecycle), in the second part in the    *)
(* entity registry (RegistryCleanup).  The parts do not use each other.    *)
(*                                                                         *)
(* Over any number of setups, an entry that is not loaded leaves nothing   *)
(* behind, and one that is loaded ticks.  For every family, table and      *)
(* condition, gaps and incomplete answers cost no entry that a table       *)
(* stands for, and what this build no longer creates is removed for good.  *)
(***************************************************************************)
EXTENDS Lifecycle, RegistryCleanup, TLAPS

\* Without a timer nothing starts a tick: only one that was under way goes on.
NoNewTicks == \A s \in Systems : ~timer[s] /\ ~overtaken[s] => tick[s] = "idle"

\* The systems of other setups, gone or still to come, are quiet.
OthersGone == \A s \in Systems : s # current => Gone(s)

Quiet == {"not_loaded", "setup_retry", "setup_error"}

\* How far the system of the last setup has been taken down.
Teardown ==
  \A s \in Systems : s = current =>
    /\ pc \in Closing => ~timer[s] /\ ~listener[s]
    /\ pc \in {"stop session", "clean session"} => overtaken[s] \/ ~websocket[s]
    /\ pc = "idle" /\ entry \in Quiet => Gone(s)

\* A failure has a verdict, and whatever is under way or loaded has a system.
Sequence ==
  /\ pc \in {"clean channel", "clean session"} => verdict # "none"
  /\ current = 0 => pc = "idle" /\ entry = "not_loaded"

\* Entities are up only over a system that ticks and that Home Assistant's end
\* will stop.
Ticking == timer[current] /\ (halt = "no" => listener[current])
Alive ==
  /\ pc = "forwarded" => Ticking
  /\ pc = "unload platforms" => platforms = "up" /\ Ticking
  /\ LoadedIsAlive

EntryInv ==
  TypeOK /\ NoNewTicks /\ OthersGone /\ Teardown /\ Sequence /\ Alive

-----------------------------------------------------------------------------
\* The ticks.

\* A step of a tick is taken by one that is under way or started by the timer,
\* and concerns its own system only.
LEMMA TickStep ==
  ASSUME TypeOK, NEW s \in Systems, Tick(s) \/ Resume(s)
  PROVE  /\ timer[s] \/ tick[s] # "idle"
         /\ UNCHANGED <<hass, hooks>>
         /\ \A r \in Systems \ {s} :
              tick'[r] = tick[r] /\ session'[r] = session[r] /\ websocket'[r] = websocket[r]
<1> USE DEF TypeOK, Request, Pass, On, Off
<1>1. CASE Tick(s)
  BY <1>1 DEF Tick
<1>2. CASE PollOn(s) \/ Polled(s) \/ PollFails(s)
  BY <1>2 DEF PollOn, Polled, PollFails, Polls
<1>3. CASE OnLoginPage(s) \/ Relogin(s)
  BY <1>3 DEF OnLoginPage, Relogin
<1>4. QED
  BY <1>1, <1>2, <1>3 DEF Resume

\* The steps of a tick keep the types.
LEMMA TickType ==
  ASSUME TypeOK, NEW s \in Systems, Tick(s) \/ Resume(s) \/ RunEnds(s)
  PROVE  TypeOK'
<1> USE DEF TypeOK, Request, Pass, On, Off, Polls, hass, hooks
<1>1. CASE Tick(s) \/ RunEnds(s)
  BY <1>1 DEF Tick, RunEnds
<1>2. CASE PollOn(s) \/ Polled(s) \/ PollFails(s)
  BY <1>2 DEF PollOn, Polled, PollFails
<1>3. CASE OnLoginPage(s)
  BY <1>3 DEF OnLoginPage
<1>4. CASE Relogin(s)
  <2>1. websocket' \in [Systems -> BOOLEAN] /\ session' \in [Systems -> BOOLEAN]
    BY <1>4 DEF Relogin
  <2>2. tick' \in [Systems -> Polls \cup {"idle", "silent login", "relogin", "login", "channel"}]
    BY <1>4 DEF Relogin
  <2>3. UNCHANGED <<hass, hooks>>
    BY <1>4 DEF Relogin
  <2>4. QED
    BY <2>1, <2>2, <2>3
<1>5. QED
  BY <1>1, <1>2, <1>3, <1>4 DEF Resume

\* What a tick does cannot be told from outside once its timer is cancelled.
LEMMA TickKeepsInv ==
  ASSUME EntryInv, NEW s \in Systems, Tick(s) \/ Resume(s)
  PROVE  EntryInv'
<1>1. TypeOK'
  BY TickType DEF EntryInv
<1>2. /\ timer[s] \/ overtaken[s]
      /\ UNCHANGED <<entry, current, pc, verdict, platforms, halt, timer, listener, overtaken>>
      /\ \A r \in Systems \ {s} :
           tick'[r] = tick[r] /\ session'[r] = session[r] /\ websocket'[r] = websocket[r]
  BY TickStep DEF EntryInv, NoNewTicks, hass, hooks
<1>3. \A r \in Systems : Gone(r) => Gone(r)'
  BY <1>2 DEF Gone
<1>4. NoNewTicks' /\ OthersGone'
  BY <1>2, <1>3 DEF EntryInv, NoNewTicks, OthersGone
<1>5. Teardown'
  BY <1>2, <1>3 DEF EntryInv, Teardown, Closing
<1>6. Sequence' /\ Alive'
  BY <1>2 DEF EntryInv, Sequence, Alive, Ticking, LoadedIsAlive
<1>7. QED
  BY <1>1, <1>4, <1>5, <1>6 DEF EntryInv

\* Nor does it matter when the websocket's task gives up.
LEMMA RunEndsKeepsInv ==
  ASSUME EntryInv, NEW s \in Systems, RunEnds(s)
  PROVE  EntryInv'
<1>1. TypeOK'
  BY TickType DEF EntryInv
<1>2. /\ UNCHANGED <<entry, current, pc, verdict, platforms, halt, timer, listener, overtaken, tick, session>>
      /\ \A r \in Systems : websocket'[r] => websocket[r]
  BY DEF RunEnds, hass, hooks, Off, EntryInv, TypeOK
<1>3. \A r \in Systems : Gone(r) => Gone(r)'
  BY <1>2 DEF Gone
<1>4. NoNewTicks' /\ OthersGone'
  BY <1>2, <1>3 DEF EntryInv, NoNewTicks, OthersGone
<1>5. Teardown'
  BY <1>2, <1>3 DEF EntryInv, Teardown
<1>6. Sequence' /\ Alive'
  BY <1>2 DEF EntryInv, Sequence, Alive, Ticking, LoadedIsAlive
<1>7. QED
  BY <1>1, <1>4, <1>5, <1>6 DEF EntryInv

-----------------------------------------------------------------------------
\* Setup, unload and the end of Home Assistant.

\* A setup begins where the one before has left nothing.
LEMMA SetupEntryKeepsInv == EntryInv /\ SetupEntry => EntryInv'
<1> SUFFICES ASSUME EntryInv, SetupEntry  PROVE EntryInv'
  OBVIOUS
<1>1. /\ pc' = "login" /\ entry' = "setup_in_progress" /\ pc = "idle" /\ entry \in Quiet
      /\ UNCHANGED <<verdict, platforms, halt, timer, listener, overtaken, websocket, tick>>
      /\ current' = current + 1 /\ session' = [session EXCEPT ![current + 1] = TRUE]
  BY DEF SetupEntry, hooks, On, Quiet
<1>2. current' \in Systems
  <2>1. current < MaxSystems /\ current \in 0 .. MaxSystems
    BY DEF SetupEntry, EntryInv, TypeOK
  <2>2. QED
    BY <1>1, <2>1, LifecycleAssumption DEF Systems
<1>3. \A r \in Systems : Gone(r)
  BY <1>1 DEF EntryInv, OthersGone, Teardown
<1>4. TypeOK'
  <2>1. session' \in [Systems -> BOOLEAN]
    BY <1>1 DEF EntryInv, TypeOK
  <2>2. current' \in 0 .. MaxSystems
    BY <1>2 DEF Systems
  <2>3. QED
    BY <1>1, <2>1, <2>2 DEF EntryInv, TypeOK, SetupStages
<1>5. OthersGone'
  BY <1>1, <1>3 DEF OthersGone, Gone, EntryInv, TypeOK
<1>6. NoNewTicks' /\ Teardown' /\ Sequence'
  BY <1>2, <1>1 DEF EntryInv, NoNewTicks, Teardown, Sequence, Closing, Systems
<1>7. Alive'
  BY <1>1 DEF Alive, LoadedIsAlive
<1>8. QED
  BY <1>4, <1>5, <1>6, <1>7 DEF EntryInv

\* Once there was a setup, the newest system is one of them.
LEMMA HasSystem == TypeOK /\ current # 0 => current \in Systems
<1>1. ASSUME NEW n \in 0 .. MaxSystems, n # 0  PROVE n \in Systems
  BY <1>1, LifecycleAssumption DEF Systems
<1>2. QED
  BY <1>1 DEF TypeOK

\* What the entry does concerns the system of its last setup: it starts no tick
\* and leaves the others alone.
LEMMA OthersUntouched ==
  ASSUME EntryInv, UNCHANGED <<current, tick>>,
         \A s \in Systems : (timer'[s] => timer[s]) \/ s = current,
         \A s \in Systems \ {current} :
           /\ listener'[s] => listener[s]
           /\ session'[s] => session[s]
           /\ websocket'[s] => websocket[s]
           /\ overtaken[s] = overtaken'[s],
         \A s \in Systems : ~timer'[s] /\ ~overtaken'[s] =>
           (~timer[s] /\ ~overtaken[s]) \/ tick[s] = "idle"
  PROVE  OthersGone' /\ NoNewTicks'
  BY DEF EntryInv, OthersGone, NoNewTicks, Gone

\* A setup begins only when the system before it is gone.
LEMMA SetupKeepsInv ==
  ASSUME EntryInv, Proceed \/ ChannelStarted \/ Forward \/ Loaded
  PROVE  EntryInv'
<1>1. TypeOK'
  <2> USE DEF EntryInv, TypeOK, Goto, On, Off, hooks, SetupStages
  <2>1. CASE Proceed
    BY <2>1 DEF Proceed
  <2>2. CASE ChannelStarted
    BY <2>2 DEF ChannelStarted
  <2>3. CASE Forward \/ Loaded
    BY <2>3 DEF Forward, Loaded
  <2>4. QED
    BY <2>1, <2>2, <2>3
<1>2. OthersGone' /\ NoNewTicks'
  <2> USE DEF EntryInv, TypeOK, Goto, On, Off, hooks
  <2>1. CASE Proceed
    BY <2>1, OthersUntouched DEF Proceed
  <2>2. CASE ChannelStarted
    BY <2>2, OthersUntouched DEF ChannelStarted
  <2>3. CASE Forward \/ Loaded
    BY <2>3, OthersUntouched DEF Forward, Loaded
  <2>4. QED
    BY <2>1, <2>2, <2>3
<1>3. Teardown'
  BY DEF Proceed, ChannelStarted, Forward, Loaded, Goto, Teardown, Closing, Quiet
<1>4. Sequence'
  BY DEF Proceed, ChannelStarted, Forward, Loaded, Goto, EntryInv, Sequence
<1>5. Alive'
  <2>1. CASE Proceed \/ ChannelStarted
    BY <2>1 DEF Proceed, ChannelStarted, Goto, hooks, EntryInv, Alive, Ticking, LoadedIsAlive
  <2>2. CASE Forward
    <3>1. current \in Systems
      BY <2>2, HasSystem DEF Forward, EntryInv, Sequence
    <3>2. QED
      BY <2>2, <3>1 DEF Forward, Goto, On, EntryInv, TypeOK, Alive, Ticking, LoadedIsAlive
  <2>3. CASE Loaded
    BY <2>3 DEF Loaded, hooks, EntryInv, Alive, Ticking, LoadedIsAlive
  <2>4. QED
    BY <2>1, <2>2, <2>3
<1>6. QED
  BY <1>1, <1>2, <1>3, <1>4, <1>5 DEF EntryInv

\* A setup that fails, at any stage, cancels its timer and begins to clean up.
LEMMA FailKeepsInv == EntryInv /\ Fail => EntryInv'
<1> SUFFICES ASSUME EntryInv, Fail  PROVE EntryInv'
  OBVIOUS
<1>1. /\ pc' = "clean channel" /\ entry' = entry
      /\ verdict' \in {"setup_error", "setup_retry"}
      /\ Cancelled(current) /\ listener' = Off(listener, current)
      /\ platforms' \in {platforms, "up"}
      /\ UNCHANGED <<current, halt, session, websocket, tick>>
      /\ current # 0
  BY DEF Fail, Failed, CleanedFirst, EntryInv, Sequence
<1>2. current \in Systems
  BY <1>1, HasSystem DEF EntryInv
<1>3. TypeOK'
  <2>1. /\ timer' \in [Systems -> BOOLEAN] /\ overtaken' \in [Systems -> BOOLEAN]
        /\ listener' \in [Systems -> BOOLEAN]
    BY <1>1 DEF EntryInv, TypeOK, Cancelled, Off
  <2>2. QED
    BY <1>1, <2>1 DEF EntryInv, TypeOK, Closing
<1>4. OthersGone' /\ NoNewTicks'
  BY <1>1, <1>2, OthersUntouched DEF EntryInv, TypeOK, Cancelled, Off
<1>5. Teardown'
  BY <1>1 DEF EntryInv, TypeOK, Teardown, Closing, Cancelled, Off
<1>6. Sequence' /\ Alive'
  BY <1>1 DEF Sequence, Alive, LoadedIsAlive
<1>7. QED
  BY <1>3, <1>4, <1>5, <1>6 DEF EntryInv

\* An unload that fails leaves the entry ticking; one that succeeds cancels the
\* timer with the entities already gone.
LEMMA UnloadKeepsInv ==
  ASSUME EntryInv, UnloadEntry \/ PlatformsUnloaded
  PROVE  EntryInv'
<1>1. CASE UnloadEntry
  <2>1. TypeOK'
    BY <1>1 DEF UnloadEntry, hooks, EntryInv, TypeOK
  <2>2. OthersGone' /\ NoNewTicks'
    BY <1>1, OthersUntouched DEF UnloadEntry, hooks
  <2>3. Teardown' /\ Sequence'
    BY <1>1 DEF UnloadEntry, Teardown, Sequence, EntryInv, Closing
  <2>4. Alive'
    BY <1>1 DEF UnloadEntry, hooks, EntryInv, Alive, Ticking, LoadedIsAlive
  <2>5. QED
    BY <2>1, <2>2, <2>3, <2>4 DEF EntryInv
<1>2. CASE PlatformsUnloaded /\ pc' = "stop channel"
  <2>1. /\ Cancelled(current) /\ platforms' = "down" /\ entry' = entry /\ current # 0
        /\ listener' = Off(listener, current)
        /\ UNCHANGED <<current, verdict, halt, session, websocket, tick>>
    BY <1>2 DEF PlatformsUnloaded, TimerAfter, EntryInv, Sequence
  <2>2. current \in Systems
    BY <2>1, HasSystem DEF EntryInv
  <2>3. TypeOK'
    <3>1. /\ timer' \in [Systems -> BOOLEAN] /\ overtaken' \in [Systems -> BOOLEAN]
          /\ listener' \in [Systems -> BOOLEAN]
      BY <2>1 DEF EntryInv, TypeOK, Cancelled, Off
    <3>2. QED
      BY <1>2, <2>1, <3>1 DEF EntryInv, TypeOK, Closing
  <2>4. OthersGone' /\ NoNewTicks'
    BY <2>1, <2>2, OthersUntouched DEF EntryInv, TypeOK, Cancelled, Off
  <2>5. Teardown'
    BY <1>2, <2>1 DEF EntryInv, TypeOK, Teardown, Closing, Cancelled, Off
  <2>6. Sequence' /\ Alive'
    BY <1>2, <2>1 DEF Sequence, Alive, LoadedIsAlive
  <2>7. QED
    BY <2>3, <2>4, <2>5, <2>6 DEF EntryInv
<1>3. CASE PlatformsUnloaded /\ pc' # "stop channel"
  <2>1. /\ pc = "unload platforms" /\ pc' = "idle" /\ entry' = "failed_unload"
        /\ UNCHANGED <<current, verdict, platforms, halt, timer, listener, session, websocket,
                       tick, overtaken>>
    BY <1>3 DEF PlatformsUnloaded, TimerAfter
  <2>2. TypeOK'
    BY <2>1 DEF EntryInv, TypeOK
  <2>3. OthersGone' /\ NoNewTicks'
    BY <2>1, OthersUntouched
  <2>4. Teardown' /\ Sequence'
    BY <2>1 DEF Teardown, Sequence, EntryInv, Closing, Quiet
  <2>5. Alive'
    BY <2>1 DEF EntryInv, Alive, Ticking, LoadedIsAlive
  <2>6. QED
    BY <2>2, <2>3, <2>4, <2>5 DEF EntryInv
<1>4. QED
  BY <1>1, <1>2, <1>3

\* The system is stopped: the websocket first, the session last.
LEMMA StopKeepsInv ==
  ASSUME EntryInv, ChannelStopped \/ SessionStopped
  PROVE  EntryInv'
<1>1. CASE ChannelStopped
  <2>1. /\ pc \in {"stop channel", "clean channel"}
        /\ pc' \in {"stop session", "clean session"}
        /\ pc' = "clean session" => pc = "clean channel"
        /\ websocket' = Off(websocket, current)
        /\ UNCHANGED <<entry, current, verdict, platforms, halt, timer, listener, session,
                       tick, overtaken>>
    BY <1>1 DEF ChannelStopped, Goto, hooks
  <2>2. TypeOK'
    <3>1. websocket' \in [Systems -> BOOLEAN]
      BY <2>1 DEF EntryInv, TypeOK, Off
    <3>2. QED
      BY <2>1, <3>1 DEF EntryInv, TypeOK, Closing
  <2>3. OthersGone' /\ NoNewTicks'
    BY <2>1, OthersUntouched DEF EntryInv, TypeOK, Off
  <2>4. Teardown'
    BY <2>1 DEF EntryInv, TypeOK, Teardown, Closing, Off
  <2>5. Sequence' /\ Alive'
    BY <1>1, <2>1 DEF ChannelStopped, Goto, EntryInv, Sequence, Alive, LoadedIsAlive
  <2>6. QED
    BY <2>2, <2>3, <2>4, <2>5 DEF EntryInv
<1>2. CASE SessionStopped
  <2>1. /\ pc \in {"stop session", "clean session"} /\ pc' = "idle"
        /\ entry' \in Quiet /\ current # 0
        /\ session' = Off(session, current)
        /\ UNCHANGED <<current, verdict, platforms, halt, timer, listener, websocket,
                       tick, overtaken>>
    BY <1>2 DEF SessionStopped, hooks, EntryInv, TypeOK, Sequence, Quiet
  <2>2. TypeOK'
    <3>1. session' \in [Systems -> BOOLEAN]
      BY <2>1 DEF EntryInv, TypeOK, Off
    <3>2. QED
      BY <2>1, <3>1 DEF EntryInv, TypeOK, Quiet
  <2>3. OthersGone' /\ NoNewTicks'
    BY <2>1, OthersUntouched DEF EntryInv, TypeOK, Off
  <2>4. Teardown'
    <3>1. ASSUME NEW s \in Systems, s = current  PROVE Gone(s)'
      <4>1. ~timer[s] /\ ~listener[s] /\ (overtaken[s] \/ ~websocket[s])
        BY <2>1, <3>1 DEF EntryInv, Teardown, Closing
      <4>2. ~overtaken[s] => tick[s] = "idle"
        BY <4>1 DEF EntryInv, NoNewTicks
      <4>3. ~session'[s]
        BY <2>1, <3>1 DEF EntryInv, TypeOK, Off
      <4>4. QED
        BY <2>1, <4>1, <4>2, <4>3 DEF Gone
    <3>2. QED
      BY <2>1, <3>1 DEF Teardown, Closing
  <2>5. Sequence' /\ Alive'
    BY <2>1 DEF EntryInv, Sequence, Alive, LoadedIsAlive, Quiet
  <2>6. QED
    BY <2>2, <2>3, <2>4, <2>5 DEF EntryInv
<1>3. QED
  BY <1>1, <1>2

\* Home Assistant ends: the listener is called once, whatever the entry is at.
LEMMA HaltKeepsInv == EntryInv /\ Halt => EntryInv'
<1> SUFFICES ASSUME EntryInv, Halt  PROVE EntryInv'
  OBVIOUS
<1>1. /\ halt' \in {"channel", "session", "done"}
      /\ listener' \in {listener, None}
      /\ websocket' \in {websocket, Off(websocket, current)}
      /\ session' \in {session, Off(session, current)}
      /\ UNCHANGED <<entry, current, pc, verdict, platforms, timer, overtaken, tick>>
  BY DEF Halt
<1>2. TypeOK'
  <2>1. /\ listener' \in [Systems -> BOOLEAN] /\ websocket' \in [Systems -> BOOLEAN]
        /\ session' \in [Systems -> BOOLEAN]
    BY <1>1 DEF EntryInv, TypeOK, Off, None
  <2>2. QED
    BY <1>1, <2>1 DEF EntryInv, TypeOK
<1>3. \A s \in Systems : /\ listener'[s] => listener[s]
                         /\ session'[s] => session[s]
                         /\ websocket'[s] => websocket[s]
  BY <1>1 DEF EntryInv, TypeOK, Off, None
<1>4. OthersGone' /\ NoNewTicks'
  BY <1>1, <1>3, OthersUntouched
<1>5. Teardown'
  BY <1>1, <1>3 DEF EntryInv, Teardown, Gone
<1>6. Sequence' /\ Alive'
  BY <1>1 DEF EntryInv, Sequence, Alive, Ticking, LoadedIsAlive
<1>7. QED
  BY <1>2, <1>4, <1>5, <1>6 DEF EntryInv

-----------------------------------------------------------------------------
\* An entry that has not been set up yet satisfies the invariant.
LEMMA EntryInitialised == EntryInit => EntryInv
<1> SUFFICES ASSUME EntryInit  PROVE EntryInv
  OBVIOUS
<1>1. TypeOK
  BY LifecycleAssumption DEF EntryInit, TypeOK, None
<1>2. QED
  BY <1>1 DEF EntryInit, EntryInv, NoNewTicks, OthersGone, Teardown, Sequence, Alive,
              LoadedIsAlive, Gone, None, Closing, Quiet

\* EntryInv is inductive.
LEMMA EntryStepKeepsInv == EntryInv /\ [EntryNext]_entryVars => EntryInv'
<1> SUFFICES ASSUME EntryInv, [EntryNext]_entryVars  PROVE EntryInv'
  OBVIOUS
<1>1. CASE SetupEntry
  BY <1>1, SetupEntryKeepsInv
<1>2. CASE UnloadEntry \/ PlatformsUnloaded
  BY <1>2, UnloadKeepsInv
<1>3. CASE Proceed \/ ChannelStarted \/ Forward \/ Loaded
  BY <1>3, SetupKeepsInv
<1>4. CASE Fail
  BY <1>4, FailKeepsInv
<1>5. CASE ChannelStopped \/ SessionStopped
  BY <1>5, StopKeepsInv
<1>6. CASE Halt
  BY <1>6, HaltKeepsInv
<1>7. ASSUME NEW s \in Systems, Tick(s) \/ Resume(s) \/ RunEnds(s)  PROVE EntryInv'
  BY <1>7, TickKeepsInv, RunEndsKeepsInv
<1>8. CASE UNCHANGED entryVars
  <2> USE <1>8 DEF entryVars, EntryInv
  <2>1. TypeOK'
    BY DEF TypeOK
  <2>2. OthersGone' /\ NoNewTicks'
    BY DEF OthersGone, NoNewTicks, Gone
  <2>3. Teardown'
    BY DEF Teardown, Gone
  <2>4. Sequence' /\ Alive'
    BY DEF Sequence, Alive, Ticking, LoadedIsAlive
  <2>5. QED
    BY <2>1, <2>2, <2>3, <2>4
<1>9. QED
  BY <1>1, <1>2, <1>3, <1>4, <1>5, <1>6, <1>7, <1>8 DEF EntryNext, Operate

\* EntryInv is an invariant, for any number of setups.
LEMMA EntryInvariant == EntrySpec => []EntryInv
  BY EntryInitialised, EntryStepKeepsInv, PTL DEF EntrySpec

\* However often the entry is set up and unloaded, and wherever a setup fails,
\* an entry that is not loaded has left no timer, listener, websocket or session
\* but for a tick that its timer's cancellation overtook (__init__.py:93-118).
THEOREM NothingIsLeftBehind == EntrySpec => []QuietAfterwards
<1>1. EntryInv => QuietAfterwards
  BY DEF EntryInv, QuietAfterwards, OthersGone, Teardown, Quiet
<1>2. QED
  BY EntryInvariant, <1>1, PTL

\* An entry that is loaded, or that could not be unloaded, has its timer, and
\* its entities are never left over a stopped system (__init__.py:84-92, 108-118).
THEOREM LoadedEntriesTick == EntrySpec => []LoadedIsAlive
<1>1. EntryInv => LoadedIsAlive
  BY DEF EntryInv, Alive
<1>2. QED
  BY EntryInvariant, <1>1, PTL

-----------------------------------------------------------------------------
(***************************************************************************)
(* RegistryCleanup.                                                        *)
(***************************************************************************)

\* The parts of a step of the sensor platform, as in SensorPlatform.
Params   == IF listed THEN parameters \cup Late[family] ELSE parameters
Current  == IF listed THEN Created(family, Params, rows) ELSE {}
Obsolete == {name \in registry :
               listed /\ registry_entry_is_obsolete(family, name, Current, Params, rows)}

\* The running sensors are exposed by this build.
LEMMA CurrentIsExposed == Current \subseteq Exposed(family)
  BY DEF Current, Created, ConfSensors, CircuitSensors, SettingSensors, DirectSensors,
         EventSensors, UnknownSensors, Exposed, Tables

\* No parameter that a table exposes unconditionally, no read-only setting and
\* no foreign entry is ever obsolete.
LEMMA ObsoleteIsNotMapped ==
  ASSUME CleanupInv
  PROVE  Obsolete \cap (Unconditional(family) \cup ReadOnly \cup Foreign) = {}
<1> SUFFICES ASSUME NEW name \in Obsolete,
                    name \in Unconditional(family) \cup ReadOnly \cup Foreign
             PROVE  FALSE
  OBVIOUS
<1>1. /\ listed
      /\ name \notin Current /\ name \notin Foreign
      /\ ~SlotIsSafe(name, rows)
      /\ ~GapIsSafe(family, name, Params, rows)
  BY DEF Obsolete, registry_entry_is_obsolete
<1>2. name \notin ReadOnly
  BY <1>1, CleanupAssumption DEF SlotIsSafe, Slots
<1>3. \/ name \in Circuits
      \/ name \in Mapped[family] /\ Needs[family][name] = {} /\ Twins[family][name] = {}
  BY <1>1, <1>2 DEF Unconditional
<1>4. name \in Tables(family) /\ name \notin Slots
  BY <1>3, CleanupAssumption DEF CleanupInv, Tables
<1>5. name \in Params
  BY <1>1, <1>4 DEF GapIsSafe, creatable_parameter_names
<1>6. name \in Created(family, Params, rows)
  BY <1>3, <1>5 DEF Created, ConfSensors, CircuitSensors
<1> QED
  BY <1>1, <1>6 DEF Current

\* What this build does not expose is obsolete in every complete answer.
LEMMA RetiredIsObsolete ==
  ASSUME CleanupInv, listed, device_snapshot_is_complete(Params)
  PROVE  registry \cap Retired(family) \subseteq Obsolete
<1> SUFFICES ASSUME NEW name \in registry \cap Retired(family)
             PROVE  name \in Obsolete
  OBVIOUS
<1>1. name \notin Exposed(family) /\ name \notin Slots /\ name \notin Foreign
  BY DEF Retired
<1>2. name \notin Current
  BY <1>1, CurrentIsExposed
<1>3. name \notin creatable_parameter_names(family, rows)
  BY <1>1 DEF creatable_parameter_names, Exposed, CleanupInv
<1>4. ~SlotIsSafe(name, rows) /\ ~GapIsSafe(family, name, Params, rows)
  BY <1>1, <1>3 DEF SlotIsSafe, GapIsSafe
<1> QED
  BY <1>1, <1>2, <1>4 DEF Obsolete, registry_entry_is_obsolete

\* Placeholders of the sensor platform are no identity parameters.
LEMMA PlaceholdersDoNotComplete ==
  ASSUME CleanupInv, at = "sensor", reported \cap Identity = {}
  PROVE  ~device_snapshot_is_complete(Params)
<1>1. parameters = reported
  BY DEF CleanupInv
<1>2. Late[family] \cap Identity = {}
  BY CleanupAssumption DEF CleanupInv
<1> QED
  BY <1>1, <1>2 DEF Params, device_snapshot_is_complete

\* The step of the sensor platform in these terms.
LEMMA SensorStep ==
  ASSUME SensorPlatform
  PROVE  /\ at = "sensor" /\ at' = "switch"
         /\ parameters' = Params
         /\ entities' = Current
         /\ registry' = (registry \ Obsolete) \cup Current
         /\ removed' = removed \cup Obsolete
         /\ cleaned' = (cleaned \/ (listed /\ device_snapshot_is_complete(Params)))
         /\ UNCHANGED <<family, listed, reported, rows>>
  BY Zenon DEF SensorPlatform, PLATFORMS, Params, Current, Obsolete

-----------------------------------------------------------------------------
\* Before the first setup nothing runs and nothing was reported.
LEMMA CleanupInit == Init => CleanupInv
  BY DEF Init, CleanupInv, Exposed

\* CleanupInv is inductive.
LEMMA CleanupStep == CleanupInv /\ [Next]_vars => CleanupInv'
<1> SUFFICES ASSUME CleanupInv, [Next]_vars PROVE CleanupInv'
  OBVIOUS
<1> USE DEF CleanupInv
<1>1. ASSUME NEW answer \in SUBSET Reportable, NEW settings \in SUBSET Slots,
             NEW present \in BOOLEAN, Setup(present, answer, settings)
      PROVE  CleanupInv'
  <2>1. /\ at = "down" /\ at' = "sensor"
        /\ entities' = {} /\ registry' = registry /\ removed' = removed
        /\ family' = family /\ cleaned' = cleaned
    BY <1>1 DEF Setup, PLATFORMS
  <2>2. listed' = present /\ reported' = answer /\ parameters' = answer /\ rows' = settings
    BY <1>1 DEF Setup
  <2> QED  BY <2>1, <2>2 DEF Exposed
<1>2. CASE SensorPlatform
  <2>1. /\ at' = "switch"
        /\ parameters' = Params /\ entities' = Current
        /\ registry' = (registry \ Obsolete) \cup Current
        /\ removed' = removed \cup Obsolete
        /\ UNCHANGED <<family, listed, reported, rows>>
    BY <1>2, SensorStep
  <2>2. cleaned' \in BOOLEAN
    BY <1>2 DEF SensorPlatform
  <2>3. Params \subseteq Reportable \cup Late[family] \cup Commanded[family]
    BY DEF Params
  <2>4. Obsolete \subseteq registry
    BY DEF Obsolete
  <2>5. entities' \subseteq registry' \cap Exposed(family)'
    BY <2>1, CurrentIsExposed DEF Exposed
  <2>6. (registry \cup removed)' \subseteq (Earlier \cup Foreign \cup Exposed(family))'
    BY <2>1, <2>4, CurrentIsExposed DEF Exposed
  <2> QED  BY <2>1, <2>2, <2>3, <2>5, <2>6
<1>3. CASE SwitchPlatform
  <2>1. /\ at' = "up"
        /\ parameters' \subseteq parameters \cup Commanded[family]
        /\ UNCHANGED <<family, listed, reported, rows, entities, registry, removed, cleaned>>
    BY <1>3 DEF SwitchPlatform, WithCommands, PLATFORMS
  <2> QED  BY <2>1 DEF Exposed
<1>4. CASE Unload
  BY <1>4 DEF Unload, Exposed
<1>5. CASE UNCHANGED vars
  BY <1>5 DEF vars, data, Exposed
<1> QED
  BY <1>1, <1>2, <1>3, <1>4, <1>5 DEF Next, RowAnswers

\* What a setup goes by is what the portal reported, and each running sensor
\* has its registry entry.
THEOREM CleanupInvariant == Spec => []CleanupInv
  BY CleanupInit, CleanupStep, PTL DEF Spec

\* Entries are removed by the sensor platform only.
LEMMA OthersRemoveNothing ==
  ASSUME [Next]_vars, ~SensorPlatform
  PROVE  UNCHANGED <<family, registry, removed, cleaned>>
  BY DEF Next, Setup, SwitchPlatform, Unload, vars, data

\* Gaps in the answers never cost an entry that a table, a read-only setting or
\* a foreign shape stands for, over any number of setups.
THEOREM MappedEntriesAreKept == Spec => []MappedIsKept
<1>1. Init => MappedIsKept
  BY DEF Init, MappedIsKept
<1>2. CleanupInv /\ MappedIsKept /\ [Next]_vars => MappedIsKept'
  <2> SUFFICES ASSUME CleanupInv, MappedIsKept, [Next]_vars PROVE MappedIsKept'
    OBVIOUS
  <2>1. CASE SensorPlatform
    <3>1. removed' = removed \cup Obsolete /\ family' = family
      BY <2>1, SensorStep
    <3>2. Obsolete \cap (Unconditional(family) \cup ReadOnly \cup Foreign) = {}
      BY ObsoleteIsNotMapped
    <3> QED  BY <3>1, <3>2 DEF MappedIsKept, Unconditional
  <2>2. CASE ~SensorPlatform
    BY <2>2, OthersRemoveNothing DEF MappedIsKept, Unconditional
  <2> QED  BY <2>1, <2>2
<1> QED
  BY <1>1, <1>2, CleanupInvariant, PTL DEF Spec

\* What earlier builds left is gone after one setup over a complete answer, and
\* does not come back.
THEOREM RetiredEntriesGo == Spec => []RetiredIsGone
<1>1. Init => RetiredIsGone
  BY DEF Init, RetiredIsGone
<1>2. CleanupInv /\ RetiredIsGone /\ [Next]_vars => RetiredIsGone'
  <2> SUFFICES ASSUME CleanupInv, RetiredIsGone, [Next]_vars PROVE RetiredIsGone'
    OBVIOUS
  <2>1. CASE SensorPlatform
    <3>1. /\ registry' = (registry \ Obsolete) \cup Current /\ family' = family
          /\ cleaned' = (cleaned \/ (listed /\ device_snapshot_is_complete(Params)))
      BY <2>1, SensorStep
    <3>2. Retired(family)' = Retired(family)
      BY <3>1 DEF Retired, Exposed
    <3>3. Current \cap Retired(family) = {}
      BY CurrentIsExposed DEF Retired
    <3>4. CASE listed /\ device_snapshot_is_complete(Params)
      BY <3>1, <3>2, <3>3, <3>4, RetiredIsObsolete DEF RetiredIsGone
    <3>5. CASE ~(listed /\ device_snapshot_is_complete(Params))
      BY <3>1, <3>2, <3>3, <3>5 DEF RetiredIsGone
    <3> QED  BY <3>4, <3>5
  <2>2. CASE ~SensorPlatform
    BY <2>2, OthersRemoveNothing DEF RetiredIsGone, Retired, Exposed
  <2> QED  BY <2>1, <2>2
<1> QED
  BY <1>1, <1>2, CleanupInvariant, PTL DEF Spec

\* An answer without identity parameters removes nothing, whatever placeholders
\* the platforms make.
THEOREM IncompleteRemovesNothing == Spec => IncompleteKeepsAll
<1>1. CleanupInv /\ [Next]_vars
        => [reported \cap Identity = {} => registry \subseteq registry']_vars
  <2> SUFFICES ASSUME CleanupInv, [Next]_vars, reported \cap Identity = {}
               PROVE  registry \subseteq registry'
    OBVIOUS
  <2>1. CASE SensorPlatform
    <3>1. at = "sensor" /\ registry' = (registry \ Obsolete) \cup Current
      BY <2>1, SensorStep
    <3>2. ~device_snapshot_is_complete(Params)
      BY <3>1, PlaceholdersDoNotComplete
    <3>3. Obsolete = {}
      BY <3>2 DEF Obsolete, registry_entry_is_obsolete
    <3> QED  BY <3>1, <3>3
  <2>2. CASE ~SensorPlatform
    BY <2>2, OthersRemoveNothing
  <2> QED  BY <2>1, <2>2
<1> QED
  BY <1>1, CleanupInvariant, PTL DEF Spec, IncompleteKeepsAll
=============================================================================
