--------------------------- MODULE MCParameterCache ---------------------------
\* Readings on the way between a portal, one poll and one command.
EXTENDS ParameterCache

CONSTANTS setting, tick, command

MCTelemetry == {setting}
\* 20, 21, 20 again, 22: a reading that returns.
MCValueOf(i, n) == IF n = 2 THEN 0 ELSE n
MCMaxVersion == [i \in MCTelemetry \cup {Events, Rows} |-> IF i = setting THEN 2 ELSE IF i = Events THEN 1 ELSE 0]
=============================================================================
