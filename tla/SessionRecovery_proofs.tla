----------------------- MODULE SessionRecovery_proofs -----------------------
(***************************************************************************)
(* Proofs for any set of tasks and any set of sessions.  The first part is *)
(* about HttpSession: SessionInv is inductive, and what the runs check     *)
(* follows from it.  The second part is about SessionRecovery: a recovery  *)
(* uses the shared session as HttpSession prescribes, so the first part    *)
(* holds of it too, and disturbs nobody unless two recoveries overlap.     *)
(***************************************************************************)
EXTENDS SessionRecovery, TLAPS

\* The plans a coroutine may follow are sequences of steps.
LEMMA PlansType == Plans \subseteq Seq(Steps)
  BY DEF Plans, Steps, Requests, Request, SilentRelogin, FullRelogin, Close

\* A failing step hands over to another plan or to none.
LEMMA HandlersType == \A step : Handlers(step) \subseteq Seq(Steps)
<1>1. {SilentRelogin, FullRelogin} \subseteq Seq(Steps)
  BY PlansType DEF Plans
<1>2. <<>> \in Seq(Steps)
  OBVIOUS
<1>3. QED
  BY <1>1, <1>2 DEF Handlers

\* A client that has just been constructed satisfies the invariant.
LEMMA Initialised == Init => SessionInv
  BY HttpSessionAssumption
  DEF Init, SessionInv, TypeOK, LockInv, StepInv, OpenInv, Phases

\* What is left of a task's plan after a step, and its first step.
LEMMA PlanFacts ==
  ASSUME TypeOK, NEW t \in Tasks, plan[t] # <<>>
  PROVE  /\ Tail(plan[t]) \in Seq(Steps)
         /\ Head(plan[t]) \in Steps
  BY DEF TypeOK

\* Every action that moves one task keeps the types of the task variables.
LEMMA AdvanceType ==
  ASSUME TypeOK, NEW t \in Tasks, plan[t] # <<>>, Advance(t)
  PROVE  /\ plan' \in [Tasks -> Seq(Steps)]
         /\ phase' \in [Tasks -> Phases]
         /\ local' \in [Tasks -> Sessions \cup {NoSession}]
  BY PlanFacts DEF TypeOK, Advance, Phases

\* A step that raises does too, whatever plan its handler takes up.
LEMMA RaiseType ==
  ASSUME TypeOK, NEW t \in Tasks, NEW handler \in Seq(Steps), Raise(t, handler)
  PROVE  /\ plan' \in [Tasks -> Seq(Steps)]
         /\ phase' \in [Tasks -> Phases]
         /\ local' \in [Tasks -> Sessions \cup {NoSession}]
  BY DEF TypeOK, Raise, Phases

\* So does obtaining a session.
LEMMA ObtainType ==
  ASSUME TypeOK, NEW t \in Tasks, NEW s \in Sessions \cup {NoSession},
         plan[t] # <<>>, Obtain(t, s)
  PROVE  /\ plan' \in [Tasks -> Seq(Steps)]
         /\ phase' \in [Tasks -> Phases]
         /\ local' \in [Tasks -> Sessions \cup {NoSession}]
<1>1. CASE Head(plan[t]) \in Requests
  BY <1>1 DEF TypeOK, Obtain, Phases
<1>2. CASE Head(plan[t]) \notin Requests
  BY <1>2, AdvanceType DEF Obtain
<1>3. QED
  BY <1>1, <1>2

-----------------------------------------------------------------------------
\* One lemma per action: it keeps SessionInv.

\* A coroutine that begins refers to no session yet.
LEMMA BeginInv ==
  ASSUME SessionInv, NEW t \in Tasks, Begin(t)  PROVE SessionInv'
<1> USE DEF SessionInv, Begin
<1>1. PICK p \in Plans : plan' = [plan EXCEPT ![t] = p]
  OBVIOUS
<1>2. phase[t] = "start"
  BY DEF StepInv
<1>3. TypeOK'
  BY <1>1, PlansType DEF TypeOK
<1>4. LockInv'
  BY DEF LockInv
<1>5. StepInv'
  BY <1>1, <1>2 DEF StepInv, TypeOK
<1>6. lock # NoTask => plan'[lock] = plan[lock]
  BY <1>1, <1>2 DEF LockInv, TypeOK
<1>7. OpenInv'
  BY <1>6 DEF OpenInv
<1>8. QED
  BY <1>3, <1>4, <1>5, <1>7

\* A task that is not in the lock's critical section moves on without touching
\* the session or the lock.
LEMMA BystanderInv ==
  ASSUME SessionInv, NEW t \in Tasks,
         phase[t] # "holding", phase'[t] # "holding",
         \A u \in Tasks \ {t} : plan'[u] = plan[u] /\ phase'[u] = phase[u] /\ local'[u] = local[u],
         TypeOK', StepInv',
         UNCHANGED <<http_session, open, lock>>
  PROVE  SessionInv'
<1> USE DEF SessionInv
<1>1. LockInv'
  BY DEF LockInv
<1>2. lock # NoTask => lock \in Tasks \ {t}
  BY DEF LockInv, TypeOK
<1>3. OpenInv'
  BY <1>2 DEF OpenInv
<1>4. QED
  BY <1>1, <1>3

\* The unlocked check hands out the published session and changes nothing else.
LEMMA FastPathInv ==
  ASSUME SessionInv, NEW t \in Tasks, FastPath(t)  PROVE SessionInv'
<1> USE DEF SessionInv, FastPath, Ensuring
<1>1. http_session \in Sessions \cup {NoSession}
  BY DEF TypeOK
<1>2. TypeOK'
  BY <1>1, ObtainType DEF TypeOK
<1>3. StepInv' /\ phase'[t] # "holding"
  BY <1>2 DEF StepInv, TypeOK, Obtain, Advance
<1>4. \A u \in Tasks \ {t} : plan'[u] = plan[u] /\ phase'[u] = phase[u] /\ local'[u] = local[u]
  BY DEF TypeOK, Obtain, Advance
<1>5. QED
  BY <1>2, <1>3, <1>4, BystanderInv

\* A task that queues for the lock touches nothing shared.
LEMMA SlowPathInv ==
  ASSUME SessionInv, NEW t \in Tasks, SlowPath(t)  PROVE SessionInv'
<1> USE DEF SessionInv, SlowPath, Ensuring
<1>1. TypeOK'
  BY DEF TypeOK, Phases
<1>2. StepInv' /\ phase'[t] # "holding"
  BY DEF StepInv, TypeOK
<1>3. QED
  BY <1>1, <1>2, BystanderInv DEF TypeOK

\* Under the lock the published session is handed out, or none is open and the lock is kept.
LEMMA EnsureLockedInv ==
  ASSUME SessionInv, NEW t \in Tasks, EnsureLocked(t)  PROVE SessionInv'
<1> USE DEF SessionInv, EnsureLocked, Ensuring
<1>1. CASE RecheckUnderLock
  <2>1. http_session \in Sessions \cup {NoSession}
    BY DEF TypeOK
  <2>2. TypeOK'
    BY <1>1, <2>1, ObtainType DEF TypeOK
  <2>3. StepInv' /\ phase'[t] # "holding"
    BY <1>1, <2>2 DEF StepInv, TypeOK, Obtain, Advance
  <2>4. \A u \in Tasks \ {t} : plan'[u] = plan[u] /\ phase'[u] = phase[u] /\ local'[u] = local[u]
    BY <1>1 DEF TypeOK, Obtain, Advance
  <2>5. QED
    BY <1>1, <2>2, <2>3, <2>4, BystanderInv
<1>2. CASE ~RecheckUnderLock
  <2>1. TypeOK' /\ StepInv'
    BY <1>2 DEF TypeOK, Phases, StepInv
  <2>2. \A u \in Tasks : phase[u] # "holding"
    BY HttpSessionAssumption DEF LockInv, LockFree
  <2>3. LockInv'
    BY <1>2, <2>2 DEF LockInv, TypeOK
  <2>4. http_session = NoSession
    <3>1. open = {http_session} \ {NoSession}
      BY DEF OpenInv, LockFree
    <3>2. Closing = {}
      BY <2>2 DEF Closing, At
    <3>3. QED
      BY <1>2, <3>1, <3>2 DEF RecheckUnderLock, Usable
  <2>5. OpenInv'
    BY <1>2, <2>4, HttpSessionAssumption DEF OpenInv, LockFree, StepInv, TypeOK
  <2>6. QED
    BY <2>1, <2>3, <2>5
<1>3. QED
  BY <1>1, <1>2

\* The holder publishes the only open session and releases the lock.
LEMMA CreateSessionInv ==
  ASSUME SessionInv, NEW t \in Tasks, CreateSession(t)  PROVE SessionInv'
<1> USE DEF SessionInv, CreateSession, Ensuring
<1>1. PICK s \in Sessions : http_session' = s /\ open' = open \cup {s} /\ Obtain(t, s)
  OBVIOUS
<1>2. lock = t /\ lock # NoTask
  BY HttpSessionAssumption DEF LockInv
<1>3. TypeOK'
  BY <1>1, ObtainType DEF TypeOK
<1>4. StepInv' /\ phase'[t] # "holding"
  BY <1>1, <1>3 DEF StepInv, TypeOK, Obtain, Advance
<1>5. \A u \in Tasks \ {t} : phase'[u] = phase[u]
  BY <1>1 DEF TypeOK, Obtain, Advance
<1>6. LockInv'
  BY <1>2, <1>4, <1>5, HttpSessionAssumption DEF LockInv
<1>7. open = {}
  BY <1>2 DEF OpenInv
<1>8. OpenInv'
  BY <1>1, <1>7, HttpSessionAssumption DEF OpenInv
<1>9. QED
  BY <1>3, <1>4, <1>6, <1>8

\* A failed creation leaves no session and no holder.
LEMMA ConnectorFailsInv ==
  ASSUME SessionInv, NEW t \in Tasks, ConnectorFails(t)  PROVE SessionInv'
<1> USE DEF SessionInv, ConnectorFails, Ensuring
<1>1. lock = t /\ lock # NoTask
  BY HttpSessionAssumption DEF LockInv
<1>2. TypeOK'
  <2>1. <<>> \in Seq(Steps)
    OBVIOUS
  <2>2. QED
    BY <2>1, RaiseType DEF TypeOK
<1>3. StepInv' /\ phase'[t] = "start"
  BY DEF StepInv, TypeOK, Raise
<1>4. LockInv'
  BY <1>1, <1>3, HttpSessionAssumption DEF LockInv, TypeOK, Raise
<1>5. OpenInv'
  BY <1>1 DEF OpenInv
<1>6. QED
  BY <1>2, <1>3, <1>4, <1>5

\* The session leaves the client in the step that takes the lock to close it.
LEMMA CloseBeginsInv ==
  ASSUME SessionInv, NEW t \in Tasks, CloseBegins(t)  PROVE SessionInv'
<1> USE DEF SessionInv, CloseBegins, At, TakenOut, LockFree
<1>1. \A u \in Tasks : phase[u] # "holding"
  BY HttpSessionAssumption DEF LockInv
<1>2. open = {http_session} \ {NoSession}
  BY DEF OpenInv
<1>3. CASE http_session = NoSession
  <2>1. TypeOK'
    BY <1>3, AdvanceType DEF TypeOK
  <2>2. StepInv' /\ phase'[t] # "holding"
    BY <1>3 DEF StepInv, TypeOK, Advance
  <2>3. QED
    BY <1>1, <1>3, <2>1, <2>2, BystanderInv DEF TypeOK, Advance
<1>4. CASE http_session # NoSession
  <2>1. TypeOK' /\ StepInv'
    BY <1>4 DEF TypeOK, StepInv, Phases
  <2>2. LockInv'
    BY <1>1, <1>4 DEF LockInv, TypeOK
  <2>3. OpenInv'
    BY <1>2, <1>4, HttpSessionAssumption DEF OpenInv, TypeOK
  <2>4. QED
    BY <2>1, <2>2, <2>3
<1>5. QED
  BY <1>3, <1>4

\* The closed session was the only open one, and nothing was published meanwhile.
LEMMA CloseEndsInv ==
  ASSUME SessionInv, NEW t \in Tasks, CloseEnds(t)  PROVE SessionInv'
<1> USE DEF SessionInv, CloseEnds, At
<1>1. lock = t /\ lock # NoTask
  BY HttpSessionAssumption DEF LockInv
<1>2. TypeOK'
  BY AdvanceType DEF TypeOK
<1>3. StepInv' /\ phase'[t] = "start"
  BY DEF StepInv, TypeOK, Advance
<1>4. LockInv'
  BY <1>1, <1>3, HttpSessionAssumption DEF LockInv, TypeOK, Advance
<1>5. OpenInv'
  BY <1>1 DEF OpenInv
<1>6. QED
  BY <1>2, <1>3, <1>4, <1>5

\* An answer moves its own task alone.
LEMMA AnsweredInv ==
  ASSUME SessionInv, NEW t \in Tasks, Answered(t)  PROVE SessionInv'
<1> USE DEF SessionInv, Answered
<1>1. plan[t] # <<>>
  BY DEF StepInv
<1>2. TypeOK'
  BY <1>1, AdvanceType DEF TypeOK
<1>3. StepInv' /\ phase'[t] # "holding"
  BY DEF StepInv, TypeOK, Advance
<1>4. QED
  BY <1>2, <1>3, BystanderInv DEF TypeOK, Advance

\* So does a failure.
LEMMA RequestFailsInv ==
  ASSUME SessionInv, NEW t \in Tasks, RequestFails(t)  PROVE SessionInv'
<1> USE DEF SessionInv, RequestFails
<1>1. PICK handler \in Seq(Steps) : Raise(t, handler)
  BY HandlersType
<1>2. TypeOK'
  BY <1>1, RaiseType DEF TypeOK
<1>3. StepInv' /\ phase'[t] # "holding"
  BY <1>1 DEF StepInv, TypeOK, Raise
<1>4. QED
  BY <1>1, <1>2, <1>3, BystanderInv DEF TypeOK, Raise

-----------------------------------------------------------------------------
\* Every step keeps SessionInv.
LEMMA StepKeepsInv == SessionInv /\ [Next]_vars => SessionInv'
<1> SUFFICES ASSUME SessionInv, [Next]_vars  PROVE SessionInv'
  OBVIOUS
<1>1. CASE Next
  BY <1>1, BeginInv, FastPathInv, SlowPathInv, EnsureLockedInv, CreateSessionInv,
     ConnectorFailsInv, CloseBeginsInv, CloseEndsInv, AnsweredInv, RequestFailsInv
  DEF Next
<1>2. CASE UNCHANGED vars
  BY <1>2 DEF vars, SessionInv, TypeOK, LockInv, StepInv, OpenInv
<1>3. QED
  BY <1>1, <1>2

\* SessionInv is inductive: in every reachable state the lock serialises the
\* creation and the teardown of the session (HttpClient.py:193-241).
THEOREM SessionInvariant == Spec => []SessionInv
  BY Initialised, StepKeepsInv, PTL DEF Spec

\* The session being closed is the lock holder's.
LEMMA ClosingFacts ==
  ASSUME SessionInv
  PROVE  /\ lock = NoTask => Closing = {}
         /\ lock # NoTask => Closing = open
<1> USE DEF SessionInv
<1>1. lock = NoTask => Closing = {}
  BY HttpSessionAssumption DEF LockInv, Closing, At
<1>2. ASSUME lock # NoTask  PROVE Closing = open
  <2>1. lock \in Tasks /\ phase[lock] = "holding" /\ plan[lock] # <<>>
    BY <1>2 DEF TypeOK, LockInv, StepInv
  <2>2. \A t \in Tasks : phase[t] = "holding" => t = lock
    BY DEF LockInv
  <2>3. Closing = IF Head(plan[lock]) = "close" THEN {local[lock]} ELSE {}
    BY <2>1, <2>2 DEF Closing, At
  <2>4. QED
    BY <1>2, <2>3 DEF OpenInv
<1>3. QED
  BY <1>1, <1>2

\* The invariant rules a leak out.
LEMMA InvExcludesLeak == SessionInv => NoSessionLeak
<1> SUFFICES ASSUME SessionInv  PROVE NoSessionLeak
  OBVIOUS
<1>1. CASE lock = NoTask
  BY <1>1 DEF SessionInv, OpenInv, NoSessionLeak
<1>2. CASE lock # NoTask
  BY <1>2, ClosingFacts DEF SessionInv, OpenInv, NoSessionLeak
<1>3. QED
  BY <1>1, <1>2

\* No interleaving of any number of tasks leaks a ClientSession
\* (HttpClient.py:193-202).
THEOREM NoLeak == Spec => []NoSessionLeak
  BY SessionInvariant, InvExcludesLeak, PTL

\* A session whose close() has begun is never offered to a caller
\* (HttpClient.py:200-202).
THEOREM Usability == Spec => []PublishedIsUsable
<1>1. SessionInv => PublishedIsUsable
  BY ClosingFacts DEF SessionInv, OpenInv, PublishedIsUsable
<1>2. QED
  BY SessionInvariant, <1>1, PTL

\* A request never goes out on a session that is closed or being closed.
THEOREM HandOver == Spec => HandedOutIsOpen
<1> DEFINE Safe == \A t \in Tasks :
      phase[t] # "sent" /\ phase'[t] = "sent" => local'[t] \in open' \ Closing'
<1>1. SessionInv /\ SessionInv' /\ [Next]_vars => [Safe]_vars
  <2> SUFFICES ASSUME SessionInv, SessionInv', Next,
                      NEW t \in Tasks, phase[t] # "sent", phase'[t] = "sent"
               PROVE  local'[t] \in open' \ Closing'
    BY DEF vars
  <2> USE DEF SessionInv
  <2>1. PICK u \in Tasks : Begin(u) \/ FastPath(u) \/ SlowPath(u) \/ EnsureLocked(u)
          \/ CreateSession(u) \/ ConnectorFails(u) \/ CloseBegins(u) \/ CloseEnds(u)
          \/ Answered(u) \/ RequestFails(u)
    BY DEF Next
  <2>2. u = t /\ (FastPath(t) \/ EnsureLocked(t) \/ CreateSession(t))
    BY <2>1 DEF TypeOK, Begin, FastPath, SlowPath, EnsureLocked, CreateSession, ConnectorFails,
       CloseBegins, CloseEnds, Answered, RequestFails, Obtain, Advance, Raise
  <2>3. local'[t] = http_session'
    BY <2>2 DEF TypeOK, FastPath, EnsureLocked, CreateSession, Obtain, Advance
  <2>4. lock' = NoTask
    BY <2>2, HttpSessionAssumption
    DEF TypeOK, LockInv, OpenInv, FastPath, EnsureLocked, CreateSession, Usable, LockFree
  <2>5. local'[t] # NoSession
    BY <2>2, <2>3, HttpSessionAssumption
    DEF TypeOK, FastPath, EnsureLocked, CreateSession, Usable, RecheckUnderLock
  <2>6. Closing' = {}
    BY <2>4, HttpSessionAssumption DEF LockInv, Closing, At
  <2>7. QED
    BY <2>3, <2>4, <2>5, <2>6 DEF OpenInv
<1>2. QED
  BY SessionInvariant, <1>1, PTL DEF Spec, HandedOutIsOpen

-----------------------------------------------------------------------------
(***************************************************************************)
(* SessionRecovery.                                                        *)
(***************************************************************************)

\* The state that setup leaves behind satisfies the invariant.
LEMMA RecoveryInitialised == RecoveryInit => SessionInv
  BY HttpSessionAssumption
  DEF RecoveryInit, SessionInv, TypeOK, LockInv, StepInv, OpenInv, Phases

\* A task that reacts to a failed request follows one of the handlers.
LEMMA FailureIsAllowed ==
  ASSUME NEW t \in Tasks, phase[t] = "sent",
         NEW handler \in Handlers(Head(plan[t])), Raise(t, handler),
         UNCHANGED <<http_session, open, lock>>
  PROVE  RequestFails(t)
  BY DEF RequestFails

\* Every step of the recovery is a step of the session's life cycle, or does
\* not concern the session.
LEMMA StepIsAllowed == [RecoveryNext]_allVars => [Next]_vars
<1> SUFFICES ASSUME RecoveryNext  PROVE Next \/ UNCHANGED vars
  BY DEF allVars
<1>1. CASE Expire
  BY <1>1 DEF Expire
<1>2. ASSUME NEW t \in Tasks, BeginRequest(t)  PROVE Next
  BY <1>2 DEF BeginRequest, Begin, Plans, Next
<1>3. ASSUME NEW t \in Tasks, UseSession(t)  PROVE Next
  BY <1>3 DEF UseSession, Next
<1>4. ASSUME NEW t \in Tasks, TokenObtained(t) \/ LoggedIn(t) \/ Served(t)  PROVE Next
  BY <1>4 DEF TokenObtained, LoggedIn, Served, Next
<1>5. ASSUME NEW t \in Tasks, LoginRefused(t)  PROVE Next
  BY <1>5, FailureIsAllowed DEF LoginRefused, Sent, At, Handlers, Next
<1>6. ASSUME NEW t \in Tasks, SessionExpired(t)  PROVE Next
  BY <1>6, FailureIsAllowed DEF SessionExpired, OnLoginPage, Sent, At, Handlers, Next
<1>7. ASSUME NEW t \in Tasks, ConnectionLost(t)  PROVE Next
  BY <1>7, FailureIsAllowed DEF ConnectionLost, Sent, At, Handlers, Next
<1>8. QED
  BY <1>1, <1>2, <1>3, <1>4, <1>5, <1>6, <1>7 DEF RecoveryNext

\* The recovery implements the life cycle of the session, from the state that
\* setup leaves behind (__init__.py:295-378, 389-438).
THEOREM RecoveryIsDisciplined == RecoverySpec => SessionDiscipline
  BY StepIsAllowed, PTL DEF RecoverySpec, SessionDiscipline

\* However the recoveries of any number of tasks collide, no ClientSession is
\* leaked (HttpClient.py:193-202).
THEOREM RecoveryLeaksNothing == RecoverySpec => []NoSessionLeak
<1>1. RecoverySpec => []SessionInv
  BY RecoveryInitialised, StepIsAllowed, StepKeepsInv, PTL DEF RecoverySpec
<1>2. QED
  BY <1>1, InvExcludesLeak, PTL

-----------------------------------------------------------------------------
\* One request at a time: the session that a request goes out on stays the
\* published one until the request has ended.

\* What is left of a plan that tasks of the recovery follow.
Remainders ==
  {<<>>, Request, FullRelogin, SilentRelogin, <<"ensure", "csrf", "login", "refresh">>,
   <<"csrf", "login", "refresh">>, <<"login", "refresh">>, <<"refresh">>}

Alone == \A t, u \in Tasks : plan[t] # <<>> /\ plan[u] # <<>> => t = u

InUse(t)   == local[t] = http_session /\ http_session # NoSession
Matched(t) == csrf_token[t] = http_session /\ http_session # NoSession

Undisturbed ==
  /\ Alone /\ ~reauth /\ websocket
  /\ \A t \in Tasks :
       /\ phase[t] = "sent" => InUse(t)
       /\ plan[t] # <<>> /\ Head(plan[t]) = "login" => Matched(t)

QuietInv ==
  /\ SessionInv
  /\ plan \in [Tasks -> Remainders]
  /\ csrf_token \in [Tasks -> Sessions \cup {NoSession}]
  /\ ~overlapped => Undisturbed

\* A step at a time, a task follows its plan; a login is preceded by the request
\* of its token.
LEMMA RemainderFacts ==
  ASSUME NEW p \in Remainders, p # <<>>
  PROVE  /\ Tail(p) \in Remainders
         /\ Tail(p) # <<>> /\ Head(Tail(p)) = "login" => Head(p) = "csrf"
<1>1. CASE p = Request
  BY <1>1 DEF Request, Remainders
<1>2. CASE p = FullRelogin
  <2>1. Tail(p) = SilentRelogin /\ Head(Tail(p)) = "close"
    BY <1>2 DEF FullRelogin, SilentRelogin
  <2>2. QED
    BY <2>1 DEF Remainders
<1>3. CASE p = SilentRelogin
  BY <1>3 DEF SilentRelogin, Remainders
<1>4. CASE p = <<"ensure", "csrf", "login", "refresh">>
  BY <1>4 DEF Remainders
<1>5. CASE p = <<"csrf", "login", "refresh">>
  BY <1>5 DEF Remainders
<1>6. CASE p = <<"login", "refresh">>
  BY <1>6 DEF Remainders
<1>7. CASE p = <<"refresh">>
  BY <1>7 DEF Remainders
<1>8. QED
  BY <1>1, <1>2, <1>3, <1>4, <1>5, <1>6, <1>7 DEF Remainders

\* The plans that a task takes up do not begin with a login.
LEMMA NewPlans ==
  ASSUME NEW p \in {<<>>, Request, SilentRelogin, FullRelogin}
  PROVE  p \in Remainders /\ ~(p # <<>> /\ Head(p) = "login")
  BY DEF Remainders, Request, SilentRelogin, FullRelogin

\* A task whose plan moves as it should keeps every plan so.
LEMMA MoveRemains ==
  ASSUME QuietInv, NEW t \in Tasks, plan[t] # <<>>, Advance(t)
  PROVE  plan' \in [Tasks -> Remainders]
  BY RemainderFacts DEF QuietInv, Advance

\* A task that hands over to a handler takes up a plan from its beginning.
LEMMA RaiseRemains ==
  ASSUME QuietInv, NEW t \in Tasks, NEW p \in {<<>>, SilentRelogin, FullRelogin}, Raise(t, p)
  PROVE  plan' \in [Tasks -> Remainders]
  BY NewPlans DEF QuietInv, Raise

\* While one task is under way and its request is out, nobody holds the lock and
\* its session is alive.
LEMMA RequestIsAlive ==
  ASSUME QuietInv, ~overlapped, NEW t \in Tasks, phase[t] = "sent"
  PROVE  plan[t] # <<>> /\ InUse(t) /\ Alive(t)
<1>1. plan[t] # <<>> /\ InUse(t) /\ Alone
  BY DEF QuietInv, SessionInv, StepInv, Undisturbed
<1>2. \A u \in Tasks : phase[u] # "holding"
  BY <1>1 DEF QuietInv, SessionInv, StepInv, Alone
<1>3. lock = NoTask /\ Closing = {}
  BY <1>2 DEF QuietInv, SessionInv, TypeOK, LockInv, Closing, At
<1>4. http_session \in open
  BY <1>1, <1>3 DEF QuietInv, SessionInv, OpenInv, InUse
<1>5. QED
  BY <1>1, <1>3, <1>4 DEF Alive, InUse

-----------------------------------------------------------------------------
\* What the task that is under way does leaves the others idle.
LEMMA MoveUndisturbed ==
  ASSUME QuietInv, Undisturbed, NEW t \in Tasks, plan[t] # <<>>,
         \A u \in Tasks \ {t} : plan'[u] = plan[u] /\ phase'[u] = phase[u],
         ~reauth', websocket',
         phase'[t] = "sent" => InUse(t)',
         plan'[t] # <<>> /\ Head(plan'[t]) = "login" => Matched(t)'
  PROVE  Undisturbed'
<1>1. \A u \in Tasks \ {t} : plan'[u] = <<>> /\ phase'[u] # "sent"
  BY DEF Undisturbed, Alone, QuietInv, SessionInv, StepInv
<1>2. QED
  BY <1>1 DEF Undisturbed, Alone

\* A step that is over.
LEMMA AdvanceUndisturbed ==
  ASSUME QuietInv, Undisturbed, NEW t \in Tasks, plan[t] # <<>>, Advance(t),
         UNCHANGED <<reauth, websocket>>, Head(plan[t]) = "csrf" => Matched(t)'
  PROVE  Undisturbed'
<1>1. /\ plan'[t] = Tail(plan[t]) /\ phase'[t] = "start"
      /\ \A u \in Tasks \ {t} : plan'[u] = plan[u] /\ phase'[u] = phase[u]
  BY DEF Advance, QuietInv, SessionInv, TypeOK
<1>2. plan[t] \in Remainders
  BY DEF QuietInv
<1>3. plan'[t] # <<>> /\ Head(plan'[t]) = "login" => Matched(t)'
  BY <1>1, <1>2, RemainderFacts
<1>4. QED
  BY <1>1, <1>3, MoveUndisturbed DEF Undisturbed

\* A request that fails, and its handler.
LEMMA RaiseUndisturbed ==
  ASSUME QuietInv, Undisturbed, NEW t \in Tasks, plan[t] # <<>>,
         NEW p \in {<<>>, SilentRelogin, FullRelogin}, Raise(t, p),
         UNCHANGED <<reauth, websocket>>
  PROVE  Undisturbed'
<1>1. /\ plan'[t] = p /\ phase'[t] = "start"
      /\ \A u \in Tasks \ {t} : plan'[u] = plan[u] /\ phase'[u] = phase[u]
  BY DEF Raise, QuietInv, SessionInv, TypeOK
<1>2. QED
  BY <1>1, NewPlans, MoveUndisturbed DEF Undisturbed

\* A session is obtained.
LEMMA ObtainUndisturbed ==
  ASSUME QuietInv, Undisturbed, NEW t \in Tasks, plan[t] # <<>>, Head(plan[t]) # "close",
         Obtain(t, http_session'), http_session' # NoSession,
         Head(plan[t]) = "login" => http_session' = http_session,
         UNCHANGED <<csrf_token, reauth, websocket>>
  PROVE  Undisturbed'
<1>1. CASE Head(plan[t]) \in Requests
  <2>1. /\ phase'[t] = "sent" /\ local'[t] = http_session' /\ plan' = plan
        /\ \A u \in Tasks \ {t} : phase'[u] = phase[u]
    BY <1>1 DEF Obtain, QuietInv, SessionInv, TypeOK
  <2>2. QED
    BY <2>1, MoveUndisturbed DEF Undisturbed, InUse, Matched
<1>2. CASE Head(plan[t]) \notin Requests
  BY <1>2, AdvanceUndisturbed DEF Obtain, Requests
<1>3. QED
  BY <1>1, <1>2

\* A task whose plan does not move.
LEMMA WaitUndisturbed ==
  ASSUME QuietInv, Undisturbed, NEW t \in Tasks, plan[t] # <<>>, UNCHANGED plan,
         NEW place \in Phases \ {"sent"}, phase' = [phase EXCEPT ![t] = place],
         Head(plan[t]) = "login" => http_session' = http_session,
         UNCHANGED <<csrf_token, reauth, websocket>>
  PROVE  Undisturbed'
<1>1. phase'[t] # "sent" /\ \A u \in Tasks \ {t} : phase'[u] = phase[u]
  BY DEF QuietInv, SessionInv, TypeOK, Phases
<1>2. QED
  BY <1>1, MoveUndisturbed DEF Undisturbed, Matched

\* A login goes out on the session that its token came with: while it is under
\* way the session is not replaced.
LEMMA LoginHoldsNothing ==
  ASSUME QuietInv, Undisturbed, NEW t \in Tasks, plan[t] # <<>>, Head(plan[t]) = "login"
  PROVE  phase[t] # "holding"
  BY HttpSessionAssumption
  DEF QuietInv, SessionInv, TypeOK, LockInv, OpenInv, Undisturbed, Matched

\* The session handling disturbs nobody.
LEMMA UseSessionUndisturbed ==
  ASSUME QuietInv, Undisturbed, NEW t \in Tasks, UseSession(t)  PROVE Undisturbed'
<1> USE DEF UseSession, Ensuring
<1>1. CASE FastPath(t)
  BY <1>1, ObtainUndisturbed DEF FastPath, Usable
<1>2. CASE SlowPath(t)
  BY <1>2, WaitUndisturbed DEF SlowPath, Phases
<1>3. CASE EnsureLocked(t) /\ RecheckUnderLock
  BY <1>3, ObtainUndisturbed DEF EnsureLocked, RecheckUnderLock, Usable
<1>4. CASE EnsureLocked(t) /\ ~RecheckUnderLock
  BY <1>4, WaitUndisturbed DEF EnsureLocked, Phases
<1>5. CASE CreateSession(t)
  <2>1. http_session' # NoSession /\ Obtain(t, http_session')
    BY <1>5, HttpSessionAssumption DEF CreateSession
  <2>2. QED
    BY <1>5, <2>1, LoginHoldsNothing, ObtainUndisturbed DEF CreateSession
<1>6. CASE CloseBegins(t) /\ http_session = NoSession
  BY <1>6, AdvanceUndisturbed DEF CloseBegins, At
<1>7. CASE CloseBegins(t) /\ http_session # NoSession
  <2>1. plan[t] # <<>> /\ Head(plan[t]) = "close" /\ plan' = plan
        /\ phase' = [phase EXCEPT ![t] = "holding"]
    BY <1>7 DEF CloseBegins, At
  <2>2. QED
    BY <2>1, WaitUndisturbed DEF Phases
<1>8. CASE CloseEnds(t)
  BY <1>8, AdvanceUndisturbed DEF CloseEnds, At
<1>9. QED
  BY <1>1, <1>2, <1>3, <1>4, <1>5, <1>6, <1>7, <1>8

\* Neither do the answers and the failures of a request.
LEMMA AnswerUndisturbed ==
  ASSUME QuietInv, ~overlapped, NEW t \in Tasks,
         \/ TokenObtained(t) \/ LoggedIn(t) \/ LoginRefused(t)
         \/ Served(t) \/ SessionExpired(t) \/ ConnectionLost(t)
  PROVE  Undisturbed'
<1>1. Undisturbed /\ phase[t] = "sent"
  BY DEF QuietInv, TokenObtained, LoggedIn, LoginRefused, Served, SessionExpired,
         ConnectionLost, Sent, At
<1>2. plan[t] # <<>> /\ InUse(t) /\ Alive(t)
  BY <1>1, RequestIsAlive
<1>3. CASE TokenObtained(t)
  <2>1. csrf_token'[t] = local[t]
    BY <1>3 DEF TokenObtained, NewToken, QuietInv
  <2>2. Matched(t)'
    BY <1>2, <1>3, <2>1 DEF TokenObtained, Answered, InUse, Matched
  <2>3. QED
    BY <1>1, <1>2, <1>3, <2>2, AdvanceUndisturbed DEF TokenObtained, Answered, account
<1>4. CASE LoggedIn(t) \/ Served(t)
  BY <1>1, <1>2, <1>4, AdvanceUndisturbed DEF LoggedIn, Served, Sent, At, Answered, account
<1>5. ~LoginRefused(t)
  BY <1>1, <1>2 DEF LoginRefused, Sent, At, Undisturbed, Matched, InUse
<1>6. CASE SessionExpired(t)
  BY <1>1, <1>2, <1>6, RaiseUndisturbed DEF SessionExpired, LeftAlone, OnLoginPage
<1>7. ~ConnectionLost(t)
  BY <1>2 DEF ConnectionLost
<1>8. QED
  BY <1>3, <1>4, <1>5, <1>6, <1>7

\* A task that begins while the others are idle.
LEMMA BeginUndisturbed ==
  ASSUME QuietInv, Undisturbed, NEW t \in Tasks, BeginRequest(t), ~overlapped'
  PROVE  Undisturbed'
<1>1. \A u \in Tasks \ {t} : plan'[u] = <<>>
  BY DEF BeginRequest, QuietInv
<1>2. plan'[t] = Request /\ phase'[t] # "sent"
  BY DEF BeginRequest, QuietInv, SessionInv, StepInv
<1>3. \A u \in Tasks : ~(plan'[u] # <<>> /\ Head(plan'[u]) = "login")
  BY <1>1, <1>2 DEF Request
<1>4. \A u \in Tasks : phase'[u] # "sent"
  BY <1>1, <1>2 DEF BeginRequest, QuietInv, SessionInv, StepInv
<1>5. QED
  BY <1>1, <1>3, <1>4 DEF Undisturbed, Alone, BeginRequest, account

\* Whatever overlaps, plans are worked off from the front.
LEMMA PlansRemain ==
  ASSUME QuietInv, RecoveryNext
  PROVE  plan' \in [Tasks -> Remainders] /\ csrf_token' \in [Tasks -> Sessions \cup {NoSession}]
<1>1. CASE Expire
  BY <1>1 DEF Expire, vars, QuietInv
<1>2. ASSUME NEW t \in Tasks, BeginRequest(t)
      PROVE  plan' \in [Tasks -> Remainders] /\ UNCHANGED csrf_token
  BY <1>2, NewPlans DEF BeginRequest, QuietInv
<1>3. ASSUME NEW t \in Tasks, UseSession(t)
      PROVE  plan' \in [Tasks -> Remainders] /\ UNCHANGED csrf_token
  <2>1. plan' = plan \/ (plan[t] # <<>> /\ Advance(t))
    BY <1>3 DEF UseSession, FastPath, SlowPath, EnsureLocked, CreateSession, CloseBegins,
                CloseEnds, Obtain, Ensuring, At
  <2>2. QED
    BY <1>3, <2>1, MoveRemains DEF UseSession, QuietInv
<1>4. ASSUME NEW t \in Tasks, TokenObtained(t) \/ LoggedIn(t) \/ Served(t)
      PROVE  plan' \in [Tasks -> Remainders] /\ csrf_token' \in [Tasks -> Sessions \cup {NoSession}]
  <2>1. plan[t] # <<>> /\ Advance(t)
    BY <1>4 DEF TokenObtained, LoggedIn, Served, Sent, At, Answered
  <2>2. csrf_token' \in [Tasks -> Sessions \cup {NoSession}]
    BY <1>4 DEF TokenObtained, NewToken, LoggedIn, Served, QuietInv, SessionInv, TypeOK
  <2>3. QED
    BY <2>1, <2>2, MoveRemains
<1>5. ASSUME NEW t \in Tasks, LoginRefused(t) \/ SessionExpired(t) \/ ConnectionLost(t)
      PROVE  plan' \in [Tasks -> Remainders] /\ UNCHANGED csrf_token
  BY <1>5, RaiseRemains DEF LoginRefused, SessionExpired, OnLoginPage, ConnectionLost
<1>6. QED
  BY <1>1, <1>2, <1>3, <1>4, <1>5 DEF RecoveryNext, QuietInv

\* QuietInv is inductive.
LEMMA StepKeepsQuiet == QuietInv /\ [RecoveryNext]_allVars => QuietInv'
<1> SUFFICES ASSUME QuietInv, [RecoveryNext]_allVars  PROVE QuietInv'
  OBVIOUS
<1>1. SessionInv'
  BY StepIsAllowed, StepKeepsInv DEF QuietInv
<1>2. CASE RecoveryNext
  <2>1. plan' \in [Tasks -> Remainders] /\ csrf_token' \in [Tasks -> Sessions \cup {NoSession}]
    BY <1>2, PlansRemain
  <2>2. ASSUME ~overlapped'  PROVE Undisturbed'
    <3>1. ~overlapped
      BY <1>2, <2>2 DEF RecoveryNext, Expire, BeginRequest, UseSession, TokenObtained, LoggedIn,
                LoginRefused, Served, SessionExpired, ConnectionLost, origin
    <3>2. Undisturbed
      BY <3>1 DEF QuietInv
    <3>3. CASE Expire
      BY <3>2, <3>3 DEF Expire, vars, origin, Undisturbed, Alone, InUse, Matched
    <3>4. QED
      BY <1>2, <2>2, <3>1, <3>2, <3>3, BeginUndisturbed, UseSessionUndisturbed, AnswerUndisturbed
      DEF RecoveryNext
  <2>3. QED
    BY <1>1, <2>1, <2>2 DEF QuietInv
<1>3. CASE UNCHANGED allVars
  BY <1>1, <1>3 DEF allVars, vars, origin, account, QuietInv, Undisturbed, Alone, InUse, Matched
<1>4. QED
  BY <1>2, <1>3

\* Setup leaves one session behind, and nobody under way.
LEMMA QuietInitialised == RecoveryInit => QuietInv
  BY RecoveryInitialised
  DEF RecoveryInit, QuietInv, Undisturbed, Alone, Remainders

\* QuietInv is an invariant.
LEMMA Quiet == RecoverySpec => []QuietInv
  BY QuietInitialised, StepKeepsQuiet, PTL DEF RecoverySpec

\* Credentials that are valid are not asked for again unless two recoveries have
\* collided, whenever and however often the portal forgets the login
\* (__init__.py:335-348).
THEOREM ReauthNeedsCollision == RecoverySpec => []ReauthOnlyByCollision
<1>1. QuietInv => ReauthOnlyByCollision
  BY DEF QuietInv, Undisturbed, ReauthOnlyByCollision
<1>2. QED
  BY Quiet, <1>1, PTL

\* Nor does a recovery cost the realtime channel (__init__.py:335-343).
THEOREM RecoverySparesChannel == RecoverySpec => []ChannelUntouched
<1>1. QuietInv => ChannelUntouched
  BY DEF QuietInv, Undisturbed, ChannelUntouched
<1>2. QED
  BY Quiet, <1>1, PTL
=============================================================================
