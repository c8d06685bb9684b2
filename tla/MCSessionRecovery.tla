------------------------- MODULE MCSessionRecovery --------------------------
(* Two tasks, each a poll or a command, and three sessions for them to replace. *)
EXTENDS SessionRecovery
=============================================================================
