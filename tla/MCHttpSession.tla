--------------------------- MODULE MCHttpSession ---------------------------
(* Two coroutines that share the session, and a session identity for each *)
(* of them to hold and one to publish.                                    *)
EXTENDS HttpSession
=============================================================================
