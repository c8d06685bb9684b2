----------------------------- MODULE MCStompFraming -----------------------------
\* Two frames of the broker, one with an empty line and newlines at the end of
\* its body, and one that is longer than the buffer.
EXTENDS StompFraming

MCMessages == {
  [cmd |-> "CONNECTED", headers |-> <<>>, body |-> <<>>],
  [cmd |-> "MESSAGE", headers |-> <<"topic">>, body |-> <<"json", "EOL", "EOL", "json", "EOL">>],
  [cmd |-> "ERROR", headers |-> <<"length">>, body |-> <<"flood", "EOL", "EOL", "flood", "length", "flood", "flood", "flood">>] }
=============================================================================
