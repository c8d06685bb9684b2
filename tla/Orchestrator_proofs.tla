------------------------ MODULE Orchestrator_proofs ------------------------
(***************************************************************************)
(* The distance between the relogins that ticks schedule, for any number   *)
(* of overlapping ticks and any configuration of the intervals.            *)
(***************************************************************************)
EXTENDS Orchestrator, TLAPS

USE DEF socket, clocks, seen

\* Nothing has failed yet.
LEMMA Initialised == Init => RetryInv
  BY OrchestratorAssumption DEF Init, RetryInv, Places

\* The ages that Pass advances stay integers.
LEMMA PassKeepsRetry == ASSUME RetryInv, Pass  PROVE RetryInv'
<1>1. OldRelogin \in Int
  BY OrchestratorAssumption
  DEF OldRelogin, LongestDelay, Greater
<1>2. relogin_age' \in Int
  BY <1>1 DEF RetryInv, Pass, Older, Lesser
<1>3. elapsed' \in [Slots -> Nat]
  BY DEF RetryInv, Pass
<1>4. QED
  BY <1>2, <1>3 DEF RetryInv, Pass

\* The counter of failures stays within its bound.
LEMMA FailureKeepsRetry ==
  ASSUME RetryInv, _record_relogin_failure \/ attempt' = 0
  PROVE  attempt' \in 0 .. MaxAttempt
  BY OrchestratorAssumption DEF RetryInv, _record_relogin_failure, NextAttempt, Lesser

\* A tick that decides takes a new timestamp or none.
LEMMA DecideKeepsRetry ==
  ASSUME NEW s \in Slots, RetryInv, Decide(s)
  PROVE  relogin_age' \in Int /\ pc' \in [Slots -> Places]
  BY DEF RetryInv, Decide, BeginRelogin, Goto, Places

\* RetryInv is inductive.
LEMMA StepKeepsRetry == RetryInv /\ [Next]_vars => RetryInv'
<1> SUFFICES ASSUME RetryInv, [Next]_vars  PROVE RetryInv'
  OBVIOUS
<1>1. CASE Connected \/ Disconnected \/ RunEnds \/ TickDropped
  BY <1>1 DEF RetryInv, Connected, Disconnected, RunEnds, TickDropped, Places
<1>2. CASE Pass
  BY <1>2, PassKeepsRetry
<1>3. ASSUME NEW s \in Slots, Tick(s)  PROVE RetryInv'
  <2>1. elapsed' \in [Slots -> Nat]
    BY <1>3 DEF RetryInv, Tick
  <2>2. relogin_age' \in Int /\ pc' \in [Slots -> Places]
    BY <1>3, DecideKeepsRetry DEF RetryInv, Tick, Goto, Places
  <2>3. QED
    BY <1>3, <2>1, <2>2 DEF RetryInv, Tick
<1>4. ASSUME NEW s \in Slots, RefreshEnds(s)  PROVE RetryInv'
  <2>1. relogin_age' \in Int /\ pc' \in [Slots -> Places]
    BY <1>4, DecideKeepsRetry DEF RetryInv, RefreshEnds, BeginRelogin, Goto, Places
  <2>2. QED
    BY <1>4, <2>1 DEF RetryInv, RefreshEnds
<1>5. ASSUME NEW s \in Slots, SilentReloginEnds(s)  PROVE RetryInv'
  <2>1. relogin_age' \in Int /\ pc' \in [Slots -> Places]
    BY <1>5, DecideKeepsRetry DEF SilentReloginEnds
  <2>2. QED
    BY <1>5, <2>1 DEF RetryInv, SilentReloginEnds
<1>6. ASSUME NEW s \in Slots,
             SessionExpired(s) \/ WebsocketClosed(s) \/ LoggedIn(s)
             \/ WebsocketStarted(s) \/ WebsocketTimesOut(s)
      PROVE  RetryInv'
  BY <1>6 DEF RetryInv, SessionExpired, WebsocketClosed, LoggedIn, WebsocketStarted,
              WebsocketTimesOut, Goto, Places
<1>7. ASSUME NEW s \in Slots, LoginFails(s) \/ RefreshedAfterRelogin(s)  PROVE RetryInv'
  <2>1. attempt' \in 0 .. MaxAttempt
    BY <1>7, FailureKeepsRetry DEF LoginFails, RefreshedAfterRelogin
  <2>2. QED
    BY <1>7, <2>1 DEF RetryInv, LoginFails, RefreshedAfterRelogin, Goto, Places
<1>8. CASE UNCHANGED vars
  BY <1>8 DEF vars, RetryInv
<1>9. QED
  BY <1>1, <1>2, <1>3, <1>4, <1>5, <1>6, <1>7, <1>8 DEF Next

\* Clamping the base, the exponent and the cap never makes the delay shorter
\* than the doubled base, up to the configured maximum (backoff.py:16-35).
LEMMA DelayIsBackedOff ==
  ASSUME RetryInv
  PROVE  /\ _current_retry_delay \in Int
         /\ Lesser(retry_base_interval * 2^attempt, retry_max_interval) <= _current_retry_delay
<1> DEFINE grown == retry_base_interval * 2^attempt
           cap   == Greater(retry_max_interval, retry_base_interval)
<1>1. Lesser(attempt, 64) = attempt /\ Greater(retry_base_interval, 1) = retry_base_interval
  BY OrchestratorAssumption DEF RetryInv, Lesser, Greater
<1>2. _current_retry_delay = Lesser(grown, cap)
  BY <1>1 DEF _current_retry_delay, next_retry_delay
<1>3. grown \in Int
  <2>1. 2^attempt \in Int
    BY DEF RetryInv
  <2>2. QED
    BY <2>1, OrchestratorAssumption
<1>4. cap \in Int /\ retry_max_interval \in Int /\ retry_max_interval <= cap
  BY OrchestratorAssumption DEF Greater
<1> HIDE DEF grown, cap
<1>5. Lesser(grown, cap) \in Int /\ Lesser(grown, retry_max_interval) <= Lesser(grown, cap)
  BY <1>3, <1>4 DEF Lesser
<1>6. QED
  BY <1>2, <1>5 DEF grown

\* A tick that decides for a relogin has found it due; it decides for itself alone.
LEMMA DecisionIsDue ==
  ASSUME NEW u \in Slots, NEW s \in Slots, RetryInv, Decide(u), Relogins(s)
  PROVE  MayRelogin(s)
  BY DEF RetryInv, Decide, BeginRelogin, Goto, Relogins

\* A slot that had found the channel down begins a relogin only by that decision.
LEMMA ReloginIsDue ==
  ASSUME RetryInv, Next, NEW s \in Slots, Relogins(s), ~connected'[s]
  PROVE  MayRelogin(s)
<1>1. ASSUME NEW u \in Slots, Tick(u)  PROVE MayRelogin(s)
  BY <1>1, DecisionIsDue DEF Tick, Goto, Relogins, RetryInv
<1>2. ASSUME NEW u \in Slots, RefreshEnds(u)  PROVE MayRelogin(s)
  BY <1>2, DecisionIsDue DEF RefreshEnds, BeginRelogin, Goto, Relogins, RetryInv
<1>3. ASSUME NEW u \in Slots, SilentReloginEnds(u)  PROVE MayRelogin(s)
  BY <1>3, DecisionIsDue DEF SilentReloginEnds
<1>4. ASSUME NEW u \in Slots,
             \/ SessionExpired(u) \/ WebsocketClosed(u) \/ LoginFails(u) \/ LoggedIn(u)
             \/ WebsocketStarted(u) \/ WebsocketTimesOut(u) \/ RefreshedAfterRelogin(u)
      PROVE  FALSE
  BY <1>4 DEF SessionExpired, WebsocketClosed, LoginFails, LoggedIn, WebsocketStarted,
              WebsocketTimesOut, RefreshedAfterRelogin, Goto, Relogins, RetryInv
<1>5. CASE Connected \/ Disconnected \/ RunEnds \/ TickDropped \/ Pass
  BY <1>5 DEF Connected, Disconnected, RunEnds, TickDropped, Pass, Relogins, RetryInv
<1>6. QED
  BY <1>1, <1>2, <1>3, <1>4, <1>5 DEF Next

\* However many ticks overlap and however slow they are, relogins that the tick
\* schedules while the channel is down keep the backed-off distance, for every
\* base and maximum (__init__.py:284-291, backoff.py:16-35).
THEOREM RetriesAreSpaced == Spec => RetriesBackOff
<1> DEFINE due == Lesser(retry_base_interval * 2^attempt, retry_max_interval)
<1>1. ASSUME RetryInv, RetryInv', Next, NEW s \in Slots, Relogins(s), ~connected'[s]
      PROVE  relogin_age > due
  <2>1. relogin_age - elapsed'[s] > _current_retry_delay
    BY <1>1, ReloginIsDue DEF MayRelogin
  <2>2. relogin_age \in Int /\ elapsed'[s] \in Nat
    BY <1>1 DEF RetryInv
  <2>3. due \in Int /\ due <= _current_retry_delay /\ _current_retry_delay \in Int
    <3>1. 2^attempt \in Int
      BY <1>1 DEF RetryInv
    <3>2. retry_base_interval * 2^attempt \in Int
      BY <3>1, OrchestratorAssumption
    <3>3. QED
      BY <1>1, <3>2, DelayIsBackedOff, OrchestratorAssumption DEF Lesser
  <2> HIDE DEF due
  <2>4. QED
    BY <2>1, <2>2, <2>3
<1>2. RetryInv /\ RetryInv' /\ [Next]_vars =>
        [\A s \in Slots : Relogins(s) /\ ~connected'[s] => relogin_age > due]_vars
  BY <1>1
<1>3. QED
  BY Initialised, StepKeepsRetry, <1>2, PTL DEF Spec, RetriesBackOff

-----------------------------------------------------------------------------
\* The types, with the bounds of the ages.

\* The ages have room: none begins beyond its bound.
LEMMA Bounds ==
  /\ OldRelogin \in Nat /\ Tolerance \in Nat /\ refresh_interval \in Nat
  /\ MaxAttempt \in Nat /\ SlotBound \in Nat
  BY OrchestratorAssumption
  DEF OldRelogin, LongestDelay, Greater, Tolerance

\* An age that is advanced stays within its bound.
LEMMA OlderType ==
  ASSUME NEW oldest \in Nat, NEW age \in 0 .. oldest  PROVE Older(age, oldest) \in 0 .. oldest
  BY DEF Older, Lesser

\* Every age starts at 0.
LEMMA InitialisedType == Init => TypeOK
  BY Bounds DEF Init, TypeOK, Places

\* A decision takes a new timestamp or none, and goes on or ends.
LEMMA DecideType ==
  ASSUME NEW s \in Slots, TypeOK, Decide(s)
  PROVE  relogin_age' \in 0 .. OldRelogin /\ pc' \in [Slots -> Places]
  BY Bounds DEF TypeOK, Decide, BeginRelogin, Goto, Places

\* A tick copies what it reads of the websocket.
LEMMA TickType == ASSUME NEW s \in Slots, TypeOK, Tick(s)  PROVE TypeOK'
<1>1. connected' \in [Slots -> BOOLEAN] /\ websocket_running' \in [Slots -> BOOLEAN]
  BY DEF TypeOK, Tick, Running
<1>2. disconnected_for' \in [Slots -> 0 .. Tolerance] /\ elapsed' \in [Slots -> 0 .. SlotBound]
  BY Bounds DEF TypeOK, Tick
<1>3. refresh_age' \in 0 .. refresh_interval
  BY Bounds DEF TypeOK, Tick
<1>4. relogin_age' \in 0 .. OldRelogin /\ pc' \in [Slots -> Places]
  BY DecideType DEF TypeOK, Tick, Goto, Places
<1> QED
  BY <1>1, <1>2, <1>3, <1>4 DEF TypeOK, Tick

\* Time advances the ages up to their bounds.
LEMMA PassType == ASSUME TypeOK, Pass  PROVE TypeOK'
<1>1. /\ down_age' \in 0 .. Tolerance /\ relogin_age' \in 0 .. OldRelogin
      /\ refresh_age' \in 0 .. refresh_interval
  BY Bounds, OlderType DEF TypeOK, Pass
<1>2. elapsed' \in [Slots -> 0 .. SlotBound]
  BY Bounds DEF TypeOK, Pass
<1> QED
  BY <1>1, <1>2 DEF TypeOK, Pass

\* The websocket on its own, and a tick without a slot.
LEMMA ChannelType ==
  ASSUME TypeOK, Connected \/ Disconnected \/ RunEnds \/ TickDropped  PROVE TypeOK'
<1>1. CASE Connected
  BY <1>1, Bounds DEF TypeOK, Connected, Places
<1>2. CASE Disconnected
  BY <1>2 DEF TypeOK, Disconnected, SinceFirst
<1>3. CASE RunEnds
  BY <1>3 DEF TypeOK, RunEnds
<1>4. CASE TickDropped
  BY <1>4 DEF TypeOK, TickDropped
<1> QED
  BY <1>1, <1>2, <1>3, <1>4

\* The refresh of a tick and the decision after it.
LEMMA RefreshType ==
  ASSUME NEW s \in Slots, TypeOK, RefreshEnds(s) \/ SessionExpired(s) \/ SilentReloginEnds(s)
  PROVE  TypeOK'
<1>1. CASE RefreshEnds(s)
  <2>1. relogin_age' \in 0 .. OldRelogin /\ pc' \in [Slots -> Places]
    BY <1>1, Bounds, DecideType DEF TypeOK, RefreshEnds, BeginRelogin, Goto, Places
  <2> QED
    BY <1>1, <2>1 DEF TypeOK, RefreshEnds
<1>2. CASE SessionExpired(s)
  BY <1>2 DEF TypeOK, SessionExpired, Goto, Places
<1>3. CASE SilentReloginEnds(s)
  <2>1. relogin_age' \in 0 .. OldRelogin /\ pc' \in [Slots -> Places]
    BY <1>3, DecideType DEF SilentReloginEnds
  <2>2. refresh_age' \in 0 .. refresh_interval
    BY <1>3, Bounds DEF TypeOK, SilentReloginEnds
  <2> QED
    BY <1>3, <2>1, <2>2 DEF TypeOK, SilentReloginEnds
<1> QED
  BY <1>1, <1>2, <1>3

\* The steps of a relogin.
LEMMA ReloginType ==
  ASSUME NEW s \in Slots, TypeOK,
         \/ WebsocketClosed(s) \/ LoginFails(s) \/ LoggedIn(s) \/ WebsocketStarted(s)
         \/ WebsocketTimesOut(s) \/ RefreshedAfterRelogin(s)
  PROVE  TypeOK'
<1>1. attempt' \in 0 .. MaxAttempt
  BY Bounds DEF TypeOK, WebsocketClosed, LoginFails, LoggedIn, WebsocketStarted,
     WebsocketTimesOut, RefreshedAfterRelogin, _record_relogin_failure, NextAttempt, Lesser
<1>2. refresh_age' \in 0 .. refresh_interval
  BY Bounds DEF TypeOK, WebsocketClosed, LoginFails, LoggedIn, WebsocketStarted,
     WebsocketTimesOut, RefreshedAfterRelogin
<1>3. pc' \in [Slots -> Places]
  BY DEF TypeOK, WebsocketClosed, LoginFails, LoggedIn, WebsocketStarted,
     WebsocketTimesOut, RefreshedAfterRelogin, Goto, Places
<1>4. websocket_ok' \in [Slots -> BOOLEAN] /\ came_up' \in [Slots -> BOOLEAN]
  BY DEF TypeOK, WebsocketClosed, LoginFails, LoggedIn, WebsocketStarted,
     WebsocketTimesOut, RefreshedAfterRelogin
<1>5. channel' \in {"stopped", "retrying", "up"}
  BY DEF TypeOK, WebsocketClosed, LoginFails, LoggedIn, WebsocketStarted,
     WebsocketTimesOut, RefreshedAfterRelogin, Stopped
<1> QED
  BY <1>1, <1>2, <1>3, <1>4, <1>5 DEF TypeOK, WebsocketClosed, LoginFails, LoggedIn,
     WebsocketStarted, WebsocketTimesOut, RefreshedAfterRelogin, Stopped

\* Every age stays within its bound and the attempt counter below its own,
\* for any number of overlapping ticks (__init__.py:200-235, 410-438).
THEOREM TypeCorrect == Spec => []TypeOK
<1>1. TypeOK /\ [Next]_vars => TypeOK'
  <2> SUFFICES ASSUME TypeOK, [Next]_vars  PROVE TypeOK'
    OBVIOUS
  <2>1. CASE UNCHANGED vars
    BY <2>1 DEF vars, TypeOK
  <2> QED
    BY <2>1, TickType, PassType, ChannelType, RefreshType, ReloginType DEF Next
<1> QED
  BY <1>1, InitialisedType, PTL DEF Spec

-----------------------------------------------------------------------------
\* What the backoff starts afresh on.  Overlapping ticks may run two relogins at
\* once, and then the reset may be unfounded; nothing else makes it so.

Relogging(s) == pc[s] \in {"closing", "logging_in", "starting", "started", "reading"}

\* No relogin begins while another one runs (no lock in the code ensures it).
ReloginsApart == \A s, t \in Slots : Relogging(s) /\ Relogging(t) => s = t

\* A relogin that runs alone finds its channel stopped when it has logged in, so
\* that start() waits for a connection instead of returning for a running task.
BackInv ==
  \A s \in Slots :
    /\ pc[s] = "logging_in" => channel = "stopped"
    /\ pc[s] = "started" => came_up[s]
    /\ pc[s] = "reading" /\ websocket_ok[s] => came_up[s]

\* No relogin runs at first.
LEMMA InitialisedBack == Init => BackInv
  BY DEF Init, BackInv

\* Where a deciding tick can go.
LEMMA DecisionPlaces ==
  ASSUME NEW u \in Slots, TypeOK, Decide(u)
  PROVE  \E place \in {"closing", "idle"} : pc' = [pc EXCEPT ![u] = place]
  BY DEF Decide, BeginRelogin, Goto

\* The channel on its own: it does not start by itself, and whoever waits for it
\* is told.
LEMMA ChannelKeepsBack ==
  ASSUME TypeOK, BackInv, Connected \/ Disconnected \/ RunEnds \/ TickDropped \/ Pass
  PROVE  BackInv'
<1>1. CASE Connected
  BY <1>1 DEF TypeOK, BackInv, Connected
<1>2. CASE Disconnected \/ RunEnds \/ TickDropped \/ Pass
  BY <1>2 DEF TypeOK, BackInv, Disconnected, RunEnds, TickDropped, Pass, Running
<1> QED
  BY <1>1, <1>2

\* The part of a tick that comes before a relogin touches neither the channel
\* nor another slot.
LEMMA TickKeepsBack ==
  ASSUME NEW u \in Slots, TypeOK, BackInv,
         Tick(u) \/ RefreshEnds(u) \/ SessionExpired(u) \/ SilentReloginEnds(u)
  PROVE  BackInv'
<1>1. \E place \in {"closing", "idle", "refreshing", "silent"} :
        pc' = [pc EXCEPT ![u] = place]
  BY DecisionPlaces DEF Tick, RefreshEnds, SessionExpired, SilentReloginEnds,
     BeginRelogin, Goto
<1>2. UNCHANGED <<channel, websocket_ok, came_up>>
  BY DEF Tick, RefreshEnds, SessionExpired, SilentReloginEnds
<1> QED
  BY <1>1, <1>2 DEF TypeOK, BackInv

\* The steps of a relogin.  LoggedIn and the two that stop the channel are where
\* another relogin would interfere.
LEMMA ReloginKeepsBack ==
  ASSUME NEW u \in Slots, TypeOK, BackInv, ReloginsApart,
         \/ WebsocketClosed(u) \/ LoginFails(u) \/ LoggedIn(u) \/ WebsocketStarted(u)
         \/ WebsocketTimesOut(u) \/ RefreshedAfterRelogin(u)
  PROVE  BackInv'
<1>1. \A s \in Slots : Relogging(s) => s = u
  BY DEF ReloginsApart, Relogging, WebsocketClosed, LoginFails, LoggedIn,
     WebsocketStarted, WebsocketTimesOut, RefreshedAfterRelogin
<1>2. CASE WebsocketClosed(u)
  BY <1>1, <1>2 DEF TypeOK, BackInv, Relogging, WebsocketClosed, Stopped, Goto
<1>3. CASE LoggedIn(u)
  <2>1. channel = "stopped" /\ ~Running
    BY <1>3 DEF BackInv, LoggedIn, Running
  <2> QED
    BY <1>1, <1>3, <2>1 DEF TypeOK, BackInv, Relogging, LoggedIn, Goto
<1>4. CASE WebsocketStarted(u)
  BY <1>1, <1>4 DEF TypeOK, BackInv, Relogging, WebsocketStarted, Goto
<1>5. CASE WebsocketTimesOut(u)
  BY <1>1, <1>5 DEF TypeOK, BackInv, Relogging, WebsocketTimesOut, Stopped, Goto
<1>6. CASE LoginFails(u) \/ RefreshedAfterRelogin(u)
  BY <1>1, <1>6 DEF TypeOK, BackInv, Relogging, LoginFails, RefreshedAfterRelogin, Goto
<1> QED
  BY <1>2, <1>3, <1>4, <1>5, <1>6

\* BackInv is inductive as long as relogins keep apart.
LEMMA StepKeepsBack == TypeOK /\ BackInv /\ ReloginsApart /\ [Next]_vars => BackInv'
<1> SUFFICES ASSUME TypeOK, BackInv, ReloginsApart, [Next]_vars  PROVE BackInv'
  OBVIOUS
<1>1. CASE UNCHANGED vars
  BY <1>1 DEF vars, BackInv
<1> QED
  BY <1>1, ChannelKeepsBack, TickKeepsBack, ReloginKeepsBack DEF Next

\* The counter is reset only where start() had returned.
LEMMA ResetIsOk ==
  ASSUME TypeOK, Next, NEW s \in Slots, pc[s] = "reading", pc'[s] = "idle", attempt' = 0
  PROVE  websocket_ok[s]
<1>1. RefreshedAfterRelogin(s)
  <2>1. ASSUME NEW u \in Slots,
               Tick(u) \/ RefreshEnds(u) \/ SessionExpired(u) \/ SilentReloginEnds(u)
        PROVE  FALSE
    <3>1. pc[u] \in {"idle", "refreshing", "silent"}
      BY <2>1 DEF Tick, RefreshEnds, SessionExpired, SilentReloginEnds
    <3>2. \E place \in {"closing", "idle", "refreshing", "silent"} :
            pc' = [pc EXCEPT ![u] = place]
      BY <2>1, DecisionPlaces DEF Tick, RefreshEnds, SessionExpired,
         SilentReloginEnds, BeginRelogin, Goto
    <3> QED
      BY <3>1, <3>2 DEF TypeOK
  <2>2. ASSUME NEW u \in Slots,
               \/ WebsocketClosed(u) \/ LoginFails(u) \/ LoggedIn(u)
               \/ WebsocketStarted(u) \/ WebsocketTimesOut(u)
        PROVE  FALSE
    BY <2>2 DEF TypeOK, WebsocketClosed, LoginFails, LoggedIn, WebsocketStarted,
       WebsocketTimesOut, Goto
  <2>3. ASSUME NEW u \in Slots, RefreshedAfterRelogin(u)  PROVE u = s
    BY <2>3 DEF TypeOK, RefreshedAfterRelogin, Goto
  <2>4. CASE Connected \/ Disconnected \/ RunEnds \/ TickDropped \/ Pass
    BY <2>4 DEF TypeOK, Connected, Disconnected, RunEnds, TickDropped, Pass
  <2> QED
    BY <2>1, <2>2, <2>3, <2>4 DEF Next
<1>2. _record_relogin_failure => attempt' # 0
  BY OrchestratorAssumption DEF TypeOK, _record_relogin_failure, NextAttempt, Lesser
<1> QED
  BY <1>1, <1>2 DEF RefreshedAfterRelogin, ChannelBack

\* For any number of overlapping ticks: if no two relogins run at once, the
\* backoff starts afresh only after the relogin that resets it has seen the
\* realtime channel come up (__init__.py:431-438).
THEOREM ResetsAreFounded == Spec /\ []ReloginsApart => ResetMeansBack
<1> DEFINE founded ==
      \A s \in Slots : pc[s] = "reading" /\ pc'[s] = "idle" /\ attempt' = 0 => came_up[s]
<1>1. TypeOK /\ BackInv /\ [Next]_vars => [founded]_vars
  <2> SUFFICES ASSUME TypeOK, BackInv, Next  PROVE founded
    OBVIOUS
  <2> QED
    BY ResetIsOk DEF BackInv
<1>2. QED
  BY InitialisedBack, StepKeepsBack, TypeCorrect, <1>1, PTL DEF Spec, ResetMeansBack
=============================================================================
