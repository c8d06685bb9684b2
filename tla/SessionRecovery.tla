-------------------------- MODULE SessionRecovery --------------------------
(***************************************************************************)
(* Recovery from an expired portal session: the requests of HttpSession    *)
(* with what the portal answers to them, and what the tick and the entity  *)
(* commands do with the answer.                                            *)
(*                                                                         *)
(* The portal is available and the credentials are valid throughout: a     *)
(* request fails only because its session was closed under it, and a login *)
(* is refused only because the CSRF token was issued to another session.   *)
(* The portal may forget a login at any time.                              *)
(***************************************************************************)
EXTENDS HttpSession

VARIABLES
  kind,       \* what each task is: the tick's poll or an entity's command
  authed,     \* sessions that the portal takes for logged in
  csrf_token, \* the session whose token a task is about to send
  reauth,     \* async_start_reauth() has been called
  websocket,  \* the realtime channel has not been torn down
  overlapped  \* history: two tasks have been under way at the same time

account  == <<authed, reauth, websocket>>
origin   == <<kind, overlapped>>
allVars  == <<vars, origin, csrf_token, account>>

\* Setup has logged in.
RecoveryInit ==
  /\ \E s \in Sessions : http_session = s /\ open = {s} /\ authed = {s}
  /\ lock = NoTask
  /\ plan = [t \in Tasks |-> <<>>]
  /\ phase = [t \in Tasks |-> "start"]
  /\ local = [t \in Tasks |-> NoSession]
  /\ kind = [t \in Tasks |-> "poll"]
  /\ csrf_token = [t \in Tasks |-> NoSession]
  /\ reauth = FALSE
  /\ websocket = TRUE
  /\ overlapped = FALSE

-----------------------------------------------------------------------------
\* A tick that refreshes while the websocket is up, or an entity command.
BeginRequest(t) ==
  /\ plan[t] = <<>>
  /\ plan' = [plan EXCEPT ![t] = Request]
  /\ \E k \in {"poll", "command"} : kind' = [kind EXCEPT ![t] = k]
  /\ overlapped' = (overlapped \/ \E u \in Tasks \ {t} : plan[u] # <<>>)
  /\ UNCHANGED <<http_session, open, lock, phase, local, csrf_token, account>>

\* The session handling of HttpSession; a session created anew is not logged in.
UseSession(t) ==
  /\ \/ FastPath(t) \/ SlowPath(t) \/ EnsureLocked(t)
     \/ CreateSession(t) \/ CloseBegins(t) \/ CloseEnds(t)
  /\ authed' = authed \cap open'
  /\ UNCHANGED <<origin, csrf_token, reauth, websocket>>

Sent(t, step) == At(t, step, "sent")
Alive(t)      == local[t] \in open \ Closing

\* __get_csrf_token(): the token belongs to the session of the answer.
KeptToken(t) ==             \* faulty variant: a token is asked for only once
  IF csrf_token[t] = NoSession THEN local[t] ELSE csrf_token[t]
NewToken(t)  == local[t]

TokenObtained(t) ==
  /\ Sent(t, "csrf")
  /\ Answered(t)
  /\ csrf_token' = [csrf_token EXCEPT ![t] = NewToken(t)]
  /\ UNCHANGED <<origin, account>>

\* __login_check() is accepted.
LoggedIn(t) ==
  /\ Sent(t, "login") /\ csrf_token[t] = local[t]
  /\ Answered(t)
  /\ authed' = authed \cup {local[t]}
  /\ UNCHANGED <<origin, csrf_token, reauth, websocket>>

\* The login form comes back: HttpClientAuthError, which both relogins take for
\* rejected credentials.
LoginRefused(t) ==
  /\ Sent(t, "login") /\ Alive(t) /\ csrf_token[t] # local[t]
  /\ Raise(t, <<>>)
  /\ reauth' = TRUE
  /\ UNCHANGED <<http_session, open, lock, origin, authed, csrf_token, websocket>>

\* A poll or command is answered, or the refresh after a login.
Served(t) ==
  /\ Sent(t, "api") \/ Sent(t, "refresh")
  /\ local[t] \in authed
  /\ Answered(t)
  /\ UNCHANGED <<origin, csrf_token, account>>

\* The login page instead of an answer: the session is rebuilt silently, except
\* after a login, when the page is taken for a passing trouble of the server.
GivesUp(t)     == <<>>           \* faulty variant: the session is left broken
TriesAgain(t)  == SilentRelogin  \* faulty variant: also after a login
OnLoginPage(t) == IF Head(plan[t]) = "api" THEN SilentRelogin ELSE <<>>

TornDown(t)  == FALSE            \* faulty variant: it is a full relogin
LeftAlone(t) == websocket

SessionExpired(t) ==
  /\ Sent(t, "api") \/ Sent(t, "refresh")
  /\ Alive(t) /\ local[t] \notin authed
  /\ Raise(t, OnLoginPage(t))
  /\ websocket' = LeftAlone(t)
  /\ UNCHANGED <<http_session, open, lock, origin, authed, csrf_token, reauth>>

\* The session was closed under the request: HttpClientConnectionError.  A poll
\* while the websocket is up goes on with relogin(), which closes the websocket;
\* a command is reported to the user; a relogin gives up.
ConnectionLost(t) ==
  /\ phase[t] = "sent" /\ ~Alive(t)
  /\ \/ /\ Sent(t, "api") /\ kind[t] = "poll"
        /\ Raise(t, FullRelogin)
        /\ websocket' = FALSE
     \/ /\ ~Sent(t, "api") \/ kind[t] = "command"
        /\ Raise(t, <<>>)
        /\ UNCHANGED websocket
  /\ UNCHANGED <<http_session, open, lock, origin, authed, csrf_token, reauth>>

\* The portal forgets the login of a session.
Expire ==
  /\ authed # {}
  /\ authed' = {}
  /\ UNCHANGED <<vars, origin, csrf_token, reauth, websocket>>

RecoveryNext ==
  \/ Expire
  \/ \E t \in Tasks :
       \/ BeginRequest(t)  \/ UseSession(t)
       \/ TokenObtained(t) \/ LoggedIn(t)      \/ LoginRefused(t)
       \/ Served(t)        \/ SessionExpired(t) \/ ConnectionLost(t)

RecoverySpec == RecoveryInit /\ [][RecoveryNext]_allVars

\* Requests are answered or fail, the lock is granted in turn, the executor
\* answers, and the next poll or command comes.
RecoveryFairness == \A t \in Tasks :
  /\ WF_allVars(BeginRequest(t))
  /\ SF_allVars(UseSession(t))
  /\ WF_allVars(TokenObtained(t) \/ LoggedIn(t) \/ LoginRefused(t) \/ Served(t)
                \/ SessionExpired(t) \/ ConnectionLost(t))

RecoveryFairSpec == RecoverySpec /\ RecoveryFairness

-----------------------------------------------------------------------------
\* What recovery promises it keeps as long as the poll and the commands do not
\* overlap: valid credentials are not asked for again (__init__.py:335-338,
\* "Only triggers a full reauth flow if the credentials themselves are
\* rejected"; two recoveries at once break it), ...
ReauthOnlyByCollision == reauth => overlapped

\* ... rebuilding the HTTP session does not cost the realtime channel
\* ("The websocket connection is left untouched"), ...
ChannelUntouched == ~websocket => overlapped

\* ... and a lost login is made good.
LoginRestored ==
  []~overlapped => (http_session \notin authed ~> http_session \in authed)

\* Whatever the portal answers, and however recoveries overlap, the client does
\* nothing to the shared session that HttpSession does not allow: its guarantees
\* hold here as well.
SessionDiscipline == [][Next]_vars
=============================================================================
