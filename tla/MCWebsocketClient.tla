------------------------- MODULE MCWebsocketClient -------------------------
\* Two callers and the runs that they start.
EXTENDS WebsocketClient

CONSTANTS setup, tick, r1, r2

MCCallers == {setup, tick}
MCRuns    == {r1, r2}
=============================================================================
