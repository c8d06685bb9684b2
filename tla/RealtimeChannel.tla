--------------------------- MODULE RealtimeChannel ---------------------------
(***************************************************************************)
(* What the orchestrator takes the websocket client for: a channel that is *)
(* stopped, trying to connect, or up, and coroutines that start and close  *)
(* it.  It starts only by start(); it comes up only by connecting; it      *)
(* stops while it is up only under somebody who closes it; a start() that  *)
(* does not raise has been told that it came up; and whoever has closed it *)
(* leaves it stopped.                                                      *)
(***************************************************************************)

CONSTANT Clients    \* coroutines that use start() and close()

VARIABLES
  channel,   \* "stopped", "retrying" or "up"
  place      \* where each client is: "idle", "starting", "started" or "closing"

channelVars == <<channel, place>>

Init ==
  /\ channel \in {"stopped", "up"}
  /\ place = [c \in Clients |-> "idle"]

Goto(c, p) == place' = [place EXCEPT ![c] = p]

\* The clients that wait in start() are told.
Connected ==
  /\ channel = "retrying" /\ channel' = "up"
  /\ place' = [c \in Clients |-> IF place[c] = "starting" THEN "started" ELSE place[c]]

Disconnected ==
  /\ channel = "up" /\ channel' = "retrying"
  /\ UNCHANGED place

Ends ==
  /\ channel = "retrying" \/ \E c \in Clients : place[c] = "closing"
  /\ channel' = "stopped"
  /\ UNCHANGED place

Start(c) ==
  /\ place[c] = "idle" /\ channel = "stopped"
  /\ channel' = "retrying"
  /\ Goto(c, "starting")

StartReturns(c) ==
  /\ place[c] = "started"
  /\ Goto(c, "idle")
  /\ UNCHANGED channel

\* close(), by itself or because start() has waited long enough.
Close(c) ==
  /\ place[c] # "closing"
  /\ Goto(c, "closing")
  /\ UNCHANGED channel

Closed(c) ==
  /\ place[c] # "idle"
  /\ channel' = "stopped"
  /\ Goto(c, "idle")

Next ==
  \/ Connected \/ Disconnected \/ Ends
  \/ \E c \in Clients : Start(c) \/ StartReturns(c) \/ Close(c) \/ Closed(c)

Spec == Init /\ [][Next]_channelVars
=============================================================================
