-------------------------- MODULE WebsocketClient --------------------------
(***************************************************************************)
(* WebBoilerWsClient: the background task that keeps one websocket         *)
(* connected, and the start() and close() that control it; with the        *)
(* connection callbacks of WebBoilerClient that it awaits.                 *)
(*                                                                         *)
(* A run is one execution of _run(), with the socket and the heartbeat it  *)
(* has at the moment.  A caller is a coroutine in start() or close(): the  *)
(* setup, a relogin, the shutdown.  Nothing in the code keeps two callers  *)
(* apart: the pointers _task, _ws and _heartbeat_task and the two events   *)
(* are shared by all of them.  An action is the code between two           *)
(* suspension points; awaiting a task that is done does not suspend.       *)
(***************************************************************************)
EXTENDS Naturals

CONSTANTS
  Callers,   \* coroutines that use start() and close()
  Runs,      \* identities of background tasks
  NoRun      \* None

ASSUME WebsocketAssumption == NoRun \notin Runs /\ Callers \cap Runs = {}

VARIABLES
  task,                 \* _task
  ws,                   \* _ws: the run whose socket it is
  hb,                   \* _heartbeat_task: the run whose heartbeat it is
  stop,                 \* _stop_event
  connected_event,      \* _connected_event
  websocket_connected,  \* WebBoilerClient.websocket_connected
  stage,                \* progress of each run
  cancelled,            \* runs with a cancellation that they have not met yet
  sockets,              \* runs whose socket is open
  heart,                \* the heartbeat task of each run
  pc,                   \* progress of each caller
  awaits,               \* the run that a caller or a run waits for
  overtaken             \* history: a close() has ended in spite of a task that
                        \* was started while it waited for an earlier one

vars == <<task, ws, hb, stop, connected_event, websocket_connected, stage,
          cancelled, sockets, heart, pc, awaits, overtaken>>

pointers == <<task, ws, hb>>
events   == <<stop, connected_event, websocket_connected>>
running  == <<stage, cancelled, sockets, heart>>
calling  == <<pc, awaits>>

Over      == {"free", "done", "failed"}
InSession == {"handshake", "live"}
Unwinding == {"unwinding", "leaving"}    \* leaving: the run ends afterwards
Stages    == Over \cup InSession \cup Unwinding \cup {"tls", "connecting"}
Waiting   == {"starting", "connected"}   \* in start(); connected: woken up
Closing   == {"closing", "joining_heartbeat", "joining_run"}

Init ==
  /\ task = NoRun /\ ws = NoRun /\ hb = NoRun
  /\ stop = FALSE /\ connected_event = FALSE /\ websocket_connected = FALSE
  /\ stage = [r \in Runs |-> "free"]
  /\ cancelled = {} /\ sockets = {}
  /\ heart = [r \in Runs |-> "still"]
  /\ pc = [c \in Callers |-> "idle"]
  /\ awaits = [x \in Callers \cup Runs |-> NoRun]
  /\ overtaken = FALSE

is_running == task # NoRun /\ stage[task] \notin Over

Beating    == hb # NoRun /\ heart[hb] # "still"

\* An identity can stand for a new task when nothing refers to the old one.
Unused(r) ==
  /\ stage[r] \in Over /\ heart[r] = "still"
  /\ r \notin {task, ws, hb} /\ \A x \in Callers \cup Runs : awaits[x] # r

-----------------------------------------------------------------------------
\* _run() and _handle_connection().

Goto(r, st) == stage' = [stage EXCEPT ![r] = st]

\* The SSL context is there, or building it raised outside the try.
Secured(r) ==
  /\ stage[r] = "tls" /\ r \notin cancelled
  /\ Goto(r, "connecting") \/ Goto(r, "failed")
  /\ UNCHANGED <<pointers, events, cancelled, sockets, heart, calling, overtaken>>

\* connect() yields a socket: a run that was told to stop leaves, any other
\* publishes the socket and starts its heartbeat.
NeverSeen == FALSE          \* faulty variant: the check after connect() dropped
StopSeen  == stop

Established(r) ==
  /\ stage[r] = "connecting" /\ r \notin cancelled
  /\ \/ /\ StopSeen
        /\ Goto(r, "done")
        /\ UNCHANGED <<ws, hb, sockets, heart>>
     \/ /\ ~StopSeen
        /\ Goto(r, "handshake")
        /\ ws' = r /\ hb' = r
        /\ sockets' = sockets \cup {r}
        /\ heart' = [heart EXCEPT ![r] = "beating"]
  /\ UNCHANGED <<task, events, cancelled, calling, overtaken>>

\* connect() retries what it takes for transient; anything else ends the run.
ConnectRaises(r) ==
  /\ stage[r] = "connecting" /\ r \notin cancelled
  /\ Goto(r, "done")
  /\ UNCHANGED <<pointers, events, cancelled, sockets, heart, calling, overtaken>>

\* The CONNECTED frame: the waiters of the event wake up, ws_connected_callback runs.
Connected(r) ==
  /\ stage[r] = "handshake" /\ r \notin cancelled
  /\ Goto(r, "live")
  /\ connected_event' = TRUE /\ websocket_connected' = TRUE
  /\ pc' = [c \in Callers |-> IF pc[c] = "starting" THEN "connected" ELSE pc[c]]
  /\ UNCHANGED <<pointers, stop, cancelled, sockets, heart, awaits, overtaken>>

\* The network, the server or the keepalive closes the socket.
SocketLost(r) ==
  /\ r \in sockets
  /\ sockets' = sockets \ {r}
  /\ UNCHANGED <<pointers, events, stage, cancelled, heart, calling, overtaken>>

\* The end of _handle_connection() and ws_disconnected_callback: the run goes
\* back to connect(), or ends if it is being cancelled.
StillUp == websocket_connected  \* faulty variant: the flag is left alone
Down    == FALSE

Settle(r, ends) ==
  /\ Goto(r, IF ends THEN "done" ELSE "connecting")
  /\ ws' = NoRun /\ hb' = NoRun
  /\ connected_event' = FALSE /\ websocket_connected' = Down
  /\ awaits' = [awaits EXCEPT ![r] = NoRun]

\* The finally block: the heartbeat is cancelled and awaited first.
LeaveConnection(r, ends) ==
  /\ sockets' = sockets \ {r}
  /\ \/ /\ Beating
        /\ heart' = [heart EXCEPT ![hb] = "cancelled"]
        /\ awaits' = [awaits EXCEPT ![r] = hb]
        /\ Goto(r, IF ends THEN "leaving" ELSE "unwinding")
        /\ UNCHANGED <<ws, hb, connected_event, websocket_connected>>
     \/ /\ ~Beating
        /\ Settle(r, ends)
        /\ UNCHANGED heart
  /\ UNCHANGED <<task, stop, pc, overtaken>>

Noticed(r) ==
  /\ stage[r] \in InSession /\ r \notin sockets \cup cancelled
  /\ LeaveConnection(r, FALSE)
  /\ UNCHANGED cancelled

Unwound(r) ==
  /\ stage[r] \in Unwinding /\ heart[awaits[r]] = "still"
  /\ Settle(r, stage[r] = "leaving")
  /\ UNCHANGED <<task, stop, cancelled, sockets, heart, pc, overtaken>>

\* A cancellation reaches the run at the await where it is suspended.
CancelMet(r) ==
  /\ r \in cancelled
  /\ cancelled' = cancelled \ {r}
  /\ \/ /\ stage[r] \in InSession
        /\ LeaveConnection(r, TRUE)
     \/ /\ stage[r] \in {"tls", "connecting"}
        /\ Goto(r, "done")
        /\ UNCHANGED <<pointers, events, sockets, heart, calling, overtaken>>

\* The heartbeat ends when it is cancelled, told to stop, or cannot send.
HeartbeatEnds(r) ==
  /\ heart[r] # "still"
  /\ heart[r] = "cancelled" \/ stop \/ r \notin sockets
  /\ heart' = [heart EXCEPT ![r] = "still"]
  /\ UNCHANGED <<pointers, events, stage, cancelled, sockets, calling, overtaken>>

-----------------------------------------------------------------------------
\* start() and close().

Proceed(c, to, r) == pc' = [pc EXCEPT ![c] = to] /\ awaits' = [awaits EXCEPT ![c] = r]

\* start() of a client that is running returns at once and changes nothing.
Start(c) ==
  /\ pc[c] = "idle" /\ ~is_running
  /\ \E r \in Runs :
       /\ Unused(r)
       /\ task' = r
       /\ Goto(r, "tls")
  /\ stop' = FALSE /\ connected_event' = FALSE
  /\ Proceed(c, "starting", NoRun)
  /\ UNCHANGED <<ws, hb, websocket_connected, cancelled, sockets, heart, overtaken>>

StartReturns(c) ==
  /\ pc[c] = "connected"
  /\ Proceed(c, "idle", NoRun)
  /\ UNCHANGED <<pointers, events, running, overtaken>>

\* Both tasks are gone: close() forgets them.
Forget(c) ==
  /\ task' = NoRun /\ ws' = NoRun
  /\ connected_event' = FALSE
  /\ Proceed(c, "idle", NoRun)

\* The awaited task raised: so does close(), which leaves everything as it is.
CloseRaises(c) ==
  /\ Proceed(c, "idle", NoRun)
  /\ UNCHANGED <<task, ws, connected_event>>

JoinEnds(c, r) == IF stage[r] = "failed" THEN CloseRaises(c) ELSE Forget(c)

\* Cancelling a run that awaits its heartbeat has no effect: the finally block
\* of _handle_connection() takes the cancellation for the heartbeat's.
JoinRun(c) ==
  \/ /\ task = NoRun
     /\ Forget(c)
     /\ UNCHANGED cancelled
  \/ /\ task # NoRun /\ ~is_running
     /\ JoinEnds(c, task)
     /\ UNCHANGED cancelled
  \/ /\ is_running
     /\ cancelled' = IF stage[task] \in Unwinding THEN cancelled ELSE cancelled \cup {task}
     /\ Proceed(c, "joining_run", task)
     /\ UNCHANGED <<task, ws, connected_event>>

JoinHeartbeat(c) ==
  \/ /\ Beating
     /\ heart' = [heart EXCEPT ![hb] = "cancelled"]
     /\ Proceed(c, "joining_heartbeat", hb)
     /\ UNCHANGED <<task, ws, hb, connected_event, cancelled>>
  \/ /\ ~Beating
     /\ hb' = NoRun
     /\ JoinRun(c)
     /\ UNCHANGED heart

CloseBegins(c) ==
  /\ stop' = TRUE
  /\ \/ /\ ws # NoRun
        /\ Proceed(c, "closing", ws)
        /\ UNCHANGED <<pointers, connected_event, cancelled, heart>>
     \/ /\ ws = NoRun
        /\ JoinHeartbeat(c)
  /\ UNCHANGED <<websocket_connected, stage, sockets, overtaken>>

Close(c) == pc[c] = "idle" /\ CloseBegins(c)

\* No CONNECTED frame within 20 s, or none that start() got to see in time.
StartTimesOut(c) == pc[c] \in Waiting /\ CloseBegins(c)

\* _ws.close() has returned or failed.
SocketClosed(c) ==
  /\ pc[c] = "closing"
  /\ sockets' = sockets \ {awaits[c]}
  /\ JoinHeartbeat(c)
  /\ UNCHANGED <<stop, websocket_connected, stage, overtaken>>

HeartbeatJoined(c) ==
  /\ pc[c] = "joining_heartbeat" /\ heart[awaits[c]] = "still"
  /\ hb' = NoRun
  /\ JoinRun(c)
  /\ UNCHANGED <<stop, websocket_connected, stage, sockets, heart, overtaken>>

\* The awaited run is over.  The close() that waited for it takes it for the
\* present one, whatever _task has become.
WithoutWaiting(r) == TRUE   \* faulty variant: cancel() and go on
IsOver(r) == stage[r] \in Over

RunJoined(c) ==
  /\ pc[c] = "joining_run" /\ IsOver(awaits[c])
  /\ JoinEnds(c, awaits[c])
  /\ overtaken' = (overtaken \/ (is_running /\ task # awaits[c]))
  /\ UNCHANGED <<hb, stop, websocket_connected, running>>

Next ==
  \/ \E r \in Runs :
       \/ Secured(r)   \/ Established(r) \/ ConnectRaises(r)
       \/ Connected(r) \/ SocketLost(r)
       \/ Noticed(r)   \/ Unwound(r)     \/ CancelMet(r)
       \/ HeartbeatEnds(r)
  \/ \E c \in Callers :
       \/ Start(c) \/ StartReturns(c) \/ StartTimesOut(c)
       \/ Close(c) \/ SocketClosed(c) \/ HeartbeatJoined(c) \/ RunJoined(c)

Spec == Init /\ [][Next]_vars

\* Ready tasks run; the executor answers; start() has a timeout and so has the
\* closing handshake.  An attempt to connect need not end: connect() retries
\* for as long as an outage lasts.
Fairness ==
  /\ \A r \in Runs :
       /\ WF_vars(Secured(r))
       /\ WF_vars(Noticed(r))
       /\ WF_vars(Unwound(r))
       /\ WF_vars(CancelMet(r))
       /\ WF_vars(HeartbeatEnds(r))
  /\ \A c \in Callers :
       /\ WF_vars(StartReturns(c) \/ StartTimesOut(c))
       /\ WF_vars(SocketClosed(c))
       /\ WF_vars(HeartbeatJoined(c))
       /\ WF_vars(RunJoined(c))

FairSpec == Spec /\ Fairness

-----------------------------------------------------------------------------
TypeOK ==
  /\ task \in Runs \cup {NoRun} /\ ws \in Runs \cup {NoRun} /\ hb \in Runs \cup {NoRun}
  /\ stop \in BOOLEAN /\ connected_event \in BOOLEAN /\ websocket_connected \in BOOLEAN
  /\ stage \in [Runs -> Stages]
  /\ cancelled \subseteq Runs /\ sockets \subseteq Runs
  /\ heart \in [Runs -> {"still", "beating", "cancelled"}]
  /\ pc \in [Callers -> {"idle"} \cup Waiting \cup Closing]
  /\ awaits \in [Callers \cup Runs -> Runs \cup {NoRun}]
  /\ overtaken \in BOOLEAN

\* Every background task that is active is the one that is_running() reports:
\* none is running unseen, with nobody left to stop it
\* (WebBoilerWsClient.py:190, "Return True when the websocket background task is
\* active").  However callers overlap, one thing alone puts an end to that:
\* close() writes _task = None (line 234) for the task that it waited for, and
\* meanwhile start() has written another one (line 205).
NoUnseenRun == overtaken \/ \A r \in Runs : stage[r] \notin Over => task = r

\* The flag that entities and the tick go by is up exactly while a session is
\* established, until its loss has been dealt with; start() believes the event
\* only in such a session.  This too holds however callers overlap, until a task
\* runs that close() has forgotten.
HonestFlag ==
  \/ overtaken
  \/ /\ \A r \in Runs : stage[r] = "live" => websocket_connected /\ connected_event
     /\ websocket_connected => \E r \in Runs : stage[r] \in {"live"} \cup Unwinding
     /\ connected_event => websocket_connected

\* The inductive invariant, as long as no close() has been overtaken: the run
\* that _task names is the only active one, it has the socket that _ws names, the
\* flags are about its session, and if it is being cancelled, somebody waits for it.
RunInv ==
  /\ NoUnseenRun
  /\ \A r \in Runs :
       /\ stage[r] \in InSession \cup Unwinding <=> ws = r
       /\ r \in cancelled => stage[r] \notin Over \cup Unwinding

FlagInv ==
  /\ websocket_connected => ws # NoRun /\ stage[ws] \in {"live"} \cup Unwinding
  /\ connected_event => websocket_connected
  /\ \A r \in Runs : stage[r] = "live" => websocket_connected /\ connected_event

CloserInv ==
  \A r \in Runs : r \in cancelled \/ stage[r] = "leaving" =>
    \E c \in Callers : pc[c] = "joining_run" /\ awaits[c] = r

ClientInv == TypeOK /\ (overtaken \/ (RunInv /\ FlagInv /\ CloserInv))

\* What a client of the websocket can know of it: the channel by what really
\* runs, not by what the pointers say, and itself.
Active == \E r \in Runs : stage[r] \notin Over

ChannelSeen ==
  IF ~Active THEN "stopped" ELSE IF websocket_connected THEN "up" ELSE "retrying"

PlaceSeen == [c \in Callers |->
  IF pc[c] \in Closing THEN "closing" ELSE IF pc[c] = "connected" THEN "started" ELSE pc[c]]

Channel == INSTANCE RealtimeChannel WITH
  Clients <- Callers, channel <- ChannelSeen, place <- PlaceSeen

\* However its callers overlap, and up to the step in which a close() is overtaken,
\* the client is the channel that the tick takes it for: it runs only between
\* start() and close(), it goes from up to stopped only while it is being closed, a
\* start() that does not raise has seen it come up, and after close() nothing runs
\* (WebBoilerWsClient.py:189-236).
ImplementsChannel ==
  Channel!Init /\ [][Channel!Next \/ overtaken']_(Channel!channelVars)

\* start() and close() return, with two exceptions.  A close() whose cancellation
\* was swallowed waits for a run that is back in connect(), which lasts as long as
\* the outage (WebBoilerWsClient.py:134, 144, 231); once it gets a socket, it ends.
\* And a start() of somebody else may withdraw the stop event under a close()
\* (line 202) and leave it to wait for a run that goes on.
Stranded(c)  == pc[c] = "joining_run" /\ stage[awaits[c]] = "connecting"
Withdrawn(c) == pc[c] \in Closing /\ ~stop

CallersReturn == \A c \in Callers :
  []<>~Stranded(c) => (pc[c] # "idle" ~> pc[c] = "idle" \/ Withdrawn(c) \/ overtaken)
=============================================================================
