---------------------------- MODULE HttpSession ----------------------------
(***************************************************************************)
(* HttpClientBase: the one aiohttp.ClientSession that every coroutine of   *)
(* the integration shares, and the asyncio.Lock that guards its creation   *)
(* and its teardown.                                                       *)
(*                                                                         *)
(* A task is a coroutine that uses the client: a tick, an entity command,  *)
(* one branch of an asyncio.gather, the shutdown.  What it does to the     *)
(* session is a plan, a sequence of steps:                                 *)
(*   "close"                  close_session()                              *)
(*   "ensure"                 the _ensure_session() of reinitialize_session*)
(*   "csrf", "login", "api",  one request: _ensure_session() and then the  *)
(*   "refresh"                round trip of _request_text()                *)
(* "refresh" is the refresh that follows a login; "api" is any other poll  *)
(* or command, whose failure may lead to a login.                          *)
(* An action is the code between two suspension points of one task.  The   *)
(* point between an answer and the task's next step stands for the loop    *)
(* iteration in which the answer has arrived and the task has not resumed. *)
(***************************************************************************)
EXTENDS Naturals, Sequences

CONSTANTS
  Tasks,      \* coroutines that use the client
  Sessions,   \* identities of ClientSession objects
  NoTask,     \* the lock is free
  NoSession   \* None

ASSUME HttpSessionAssumption ==
  /\ NoTask \notin Tasks
  /\ NoSession \notin Sessions

VARIABLES
  http_session,  \* the published session
  open,          \* sessions created and not yet completely closed
  lock,          \* holder of _session_lock
  plan,          \* remaining steps of each task
  phase,         \* progress inside the first step of the plan
  local          \* the session a task's local variable holds

vars == <<http_session, open, lock, plan, phase, local>>

Requests == {"csrf", "login", "api", "refresh"}
Steps    == {"close", "ensure"} \cup Requests
Phases   == {"start", "waiting", "holding", "sent"}

\* One poll or command request; _silent_http_relogin(): reinitialize_session(),
\* login() and a refresh; WebBoilerClient.relogin(), which closes first, and the
\* refresh after it; the close_session() of WebBoilerClient.close().
Request       == <<"api">>
SilentRelogin == <<"close", "ensure", "csrf", "login", "refresh">>
FullRelogin   == <<"close", "close", "ensure", "csrf", "login", "refresh">>
Close         == <<"close">>
Plans         == {Request, SilentRelogin, FullRelogin, Close}

Init ==
  /\ http_session = NoSession
  /\ open = {}
  /\ lock = NoTask
  /\ plan = [t \in Tasks |-> <<>>]
  /\ phase = [t \in Tasks |-> "start"]
  /\ local = [t \in Tasks |-> NoSession]

At(t, step, ph) == plan[t] # <<>> /\ Head(plan[t]) = step /\ phase[t] = ph

\* The task is in a step that begins with _ensure_session().
Ensuring(t) == plan[t] # <<>> /\ Head(plan[t]) # "close"

\* session is not None and not session.closed: aiohttp reports a session as
\* closed from the moment its close() begins.
Closing == {local[t] : t \in {u \in Tasks : At(u, "close", "holding")}}
Usable  == http_session # NoSession /\ http_session \in open \ Closing

IgnoresTheLock == TRUE      \* faulty variant: no lock at all
LockFree       == lock = NoTask

-----------------------------------------------------------------------------
\* The step is over: the task goes on with the rest of its plan.
Advance(t) ==
  /\ plan' = [plan EXCEPT ![t] = Tail(@)]
  /\ phase' = [phase EXCEPT ![t] = "start"]
  /\ local' = [local EXCEPT ![t] = NoSession]

\* The handlers of a failed step: a poll or command that met the login page goes
\* on with a silent relogin, a poll that failed with a full one; every other
\* failure is logged and ends the coroutine.
AlwaysRecovers(step) == {<<>>, SilentRelogin, FullRelogin}  \* faulty variant
Handlers(step) == {<<>>} \cup IF step = "api" THEN {SilentRelogin, FullRelogin} ELSE {}

Raise(t, handler) ==
  /\ plan' = [plan EXCEPT ![t] = handler]
  /\ phase' = [phase EXCEPT ![t] = "start"]
  /\ local' = [local EXCEPT ![t] = NoSession]

\* _ensure_session() returns s: a request goes out on it, a
\* reinitialize_session() drops it.
Obtain(t, s) ==
  IF Head(plan[t]) \in Requests
  THEN /\ phase' = [phase EXCEPT ![t] = "sent"]
       /\ local' = [local EXCEPT ![t] = s]
       /\ plan' = plan
  ELSE Advance(t)

Begin(t) ==
  /\ plan[t] = <<>>
  /\ \E p \in Plans : plan' = [plan EXCEPT ![t] = p]
  /\ UNCHANGED <<http_session, open, lock, phase, local>>

\* The check without the lock.
FastPath(t) ==
  /\ Ensuring(t) /\ phase[t] = "start"
  /\ Usable
  /\ Obtain(t, http_session)
  /\ UNCHANGED <<http_session, open, lock>>

SlowPath(t) ==
  /\ Ensuring(t) /\ phase[t] = "start"
  /\ ~Usable
  /\ phase' = [phase EXCEPT ![t] = "waiting"]
  /\ UNCHANGED <<http_session, open, lock, plan, local>>

\* The lock is granted; the check is repeated, because another task may have
\* published a session in the meantime.
NoRecheck        == FALSE   \* faulty variant: build one without looking again
RecheckUnderLock == Usable

EnsureLocked(t) ==
  /\ Ensuring(t) /\ phase[t] = "waiting"
  /\ LockFree
  /\ IF RecheckUnderLock
     THEN Obtain(t, http_session) /\ UNCHANGED lock
     ELSE /\ lock' = t
          /\ phase' = [phase EXCEPT ![t] = "holding"]
          /\ UNCHANGED <<plan, local>>
  /\ UNCHANGED <<http_session, open>>

\* The executor returned the SSL context: the session is created, published and
\* the lock released.  A session identity is fresh when nothing refers to it.
CreateSession(t) ==
  /\ Ensuring(t) /\ phase[t] = "holding"
  /\ \E s \in Sessions \ (open \cup {local[u] : u \in Tasks}) :
       /\ http_session' = s
       /\ open' = open \cup {s}
       /\ Obtain(t, s)
  /\ lock' = NoTask

\* Building the SSL context or the connector raised: async with releases the
\* lock on the way out.
ConnectorFails(t) ==
  /\ Ensuring(t) /\ phase[t] = "holding"
  /\ Raise(t, <<>>)
  /\ lock' = NoTask
  /\ UNCHANGED <<http_session, open>>

\* close_session() takes the session out of the client before it awaits
\* session.close(), holding the lock across the await.
LeftInPlace == http_session \* faulty variant: close first, forget afterwards
TakenOut    == NoSession

CloseBegins(t) ==
  /\ At(t, "close", "start")
  /\ LockFree
  /\ http_session' = TakenOut
  /\ IF http_session = NoSession
     THEN Advance(t) /\ UNCHANGED lock
     ELSE /\ lock' = t
          /\ local' = [local EXCEPT ![t] = http_session]
          /\ phase' = [phase EXCEPT ![t] = "holding"]
          /\ plan' = plan
  /\ UNCHANGED open

CloseEnds(t) ==
  /\ At(t, "close", "holding")
  /\ open' = open \ {local[t]}
  /\ Advance(t)
  /\ lock' = NoTask
  /\ UNCHANGED http_session

\* The round trip of a request.  It can only succeed while its session lives;
\* it can always fail: the client timeout bounds it.
Answered(t) ==
  /\ phase[t] = "sent"
  /\ local[t] \in open
  /\ Advance(t)
  /\ UNCHANGED <<http_session, open, lock>>

RequestFails(t) ==
  /\ phase[t] = "sent"
  /\ \E handler \in Handlers(Head(plan[t])) : Raise(t, handler)
  /\ UNCHANGED <<http_session, open, lock>>

-----------------------------------------------------------------------------
Next == \E t \in Tasks :
  \/ Begin(t)
  \/ FastPath(t)     \/ SlowPath(t)
  \/ EnsureLocked(t) \/ CreateSession(t) \/ ConnectorFails(t)
  \/ CloseBegins(t)  \/ CloseEnds(t)
  \/ Answered(t)     \/ RequestFails(t)

Spec == Init /\ [][Next]_vars

\* asyncio runs every ready task; asyncio.Lock is a FIFO queue, so a waiter is
\* granted a lock that is released again and again (strong fairness); the
\* executor answers and the client timeout ends every request.
Fairness == \A t \in Tasks :
  /\ WF_vars(FastPath(t) \/ SlowPath(t))
  /\ SF_vars(EnsureLocked(t))
  /\ SF_vars(CloseBegins(t))
  /\ WF_vars(CreateSession(t) \/ ConnectorFails(t))
  /\ WF_vars(CloseEnds(t))
  /\ WF_vars(Answered(t) \/ RequestFails(t))

FairSpec == Spec /\ Fairness

-----------------------------------------------------------------------------
TypeOK ==
  /\ http_session \in Sessions \cup {NoSession}
  /\ open \subseteq Sessions
  /\ lock \in Tasks \cup {NoTask}
  /\ plan \in [Tasks -> Seq(Steps)]
  /\ phase \in [Tasks -> Phases]
  /\ local \in [Tasks -> Sessions \cup {NoSession}]

\* No ClientSession is leaked: one that is still open is the published one, or
\* the one that the holder of the lock is closing, and there are never two.
\* (HttpClient.py:193-202, "leaking every ClientSession but the last one assigned")
NoSessionLeak ==
  /\ \A s \in open : s = http_session \/ s \in Closing
  /\ \A s1, s2 \in open : s1 = s2

\* What the client offers to every caller is a live session, never one whose
\* close() has begun (HttpClient.py:200-202, "could hand out a session that's
\* simultaneously being closed").
PublishedIsUsable == http_session # NoSession => http_session \in open \ Closing

\* Whatever other tasks do with the session, a caller gets a session, an answer
\* or an exception: nobody waits for the lock forever.
EveryCallerFinishes == \A t \in Tasks : plan[t] # <<>> ~> plan[t] = <<>>

\* The inductive invariant.  While the lock is free the published session is
\* the only open one; while it is held nothing is published, and only a closer
\* still has a session open, its own.
LockInv == \A t \in Tasks : phase[t] = "holding" <=> lock = t

StepInv == \A t \in Tasks :
  /\ phase[t] # "start" => plan[t] # <<>>
  /\ phase[t] = "sent" => Head(plan[t]) \in Requests
  /\ phase[t] = "waiting" => Head(plan[t]) # "close"

OpenInv ==
  /\ lock = NoTask => open = {http_session} \ {NoSession}
  /\ lock # NoTask => /\ http_session = NoSession
                      /\ open = IF Head(plan[lock]) = "close" THEN {local[lock]} ELSE {}

SessionInv == TypeOK /\ LockInv /\ StepInv /\ OpenInv

\* The session a request goes out on is alive when it goes out.
HandedOutIsOpen ==
  [][\A t \in Tasks :
       phase[t] # "sent" /\ phase'[t] = "sent" => local'[t] \in open' \ Closing']_vars
=============================================================================
