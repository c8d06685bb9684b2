----------------------------- MODULE StompFraming -----------------------------
(***************************************************************************)
(* STOMP frames over a websocket.  A frame ends with a NUL, and between    *)
(* frames the broker sends bare newlines as heartbeats; a websocket        *)
(* message may begin and end anywhere in that stream.  What is left of an  *)
(* incomplete frame is carried into the next message.                      *)
(*                                                                         *)
(* The stream is a sequence of symbols: NUL, EOL, and runs of characters.  *)
(* It is kept whole, with how much of it the receiver has taken.           *)
(***************************************************************************)
EXTENDS Sequences, FiniteSetsExt

CONSTANTS
  Messages,                 \* what the broker may send: [cmd, headers, body]
  MAX_FRAME_BUFFER_CHARS,   \* counted in symbols
  MaxMessages,              \* bound: frames of a connection
  MaxBeats                  \* bound: heartbeats of a connection

Commands == {m.cmd : m \in Messages}
Headers  == UNION {Range(m.headers) : m \in Messages}
Bodies   == UNION {Range(m.body) : m \in Messages}
Symbols  == Commands \cup Headers \cup Bodies \cup {"EOL", "NUL"}

ASSUME FramingAssumption ==
  /\ MAX_FRAME_BUFFER_CHARS \in Nat /\ MaxMessages \in Nat /\ MaxBeats \in Nat
  /\ \A m \in Messages : m \in [cmd : Commands, headers : Seq(Headers), body : Seq(Bodies)]
  /\ {"EOL", "NUL"} \cap (Commands \cup Headers) = {} /\ "NUL" \notin Bodies

VARIABLES
  sent,             \* the frames of this connection, as the broker meant them
  frame_ends,       \* where each of them ends in the stream
  beats,            \* its heartbeats
  stream,           \* the symbols the broker has written
  taken,            \* how many of them the receiver has been given
  frame_buffer,     \* the incomplete frame of the receiver
  received          \* the frames it has handed on

framingVars == <<sent, frame_ends, beats, stream, taken, frame_buffer, received>>

\* The k-th of a set of positions, and what a sequence has at such positions.
Nth(P, k) == CHOOSE p \in P : Cardinality({q \in P : q <= p}) = k
Selected(s, P) == [k \in 1 .. Cardinality(P) |-> s[Nth(P, k)]]

Text(s) == {k \in DOMAIN s : s[k] # "EOL"}
Nuls(s) == {k \in DOMAIN s : s[k] = "NUL"}

\* lstrip("\n"), rstrip("\n")
StripLeft(s)  == IF Text(s) = {} THEN <<>> ELSE SubSeq(s, Min(Text(s)), Len(s))
StripRight(s) == IF Text(s) = {} THEN <<>> ELSE SubSeq(s, 1, Max(Text(s)))

\* split("\x00"): the pieces that are terminated, and what is left.
Bounds(s) == {0} \cup Nuls(s)
Pieces(s) == [k \in 1 .. Cardinality(Nuls(s)) |->
                SubSeq(s, Nth(Bounds(s), k) + 1, Nth(Bounds(s), k + 1) - 1)]
Remainder(s) == SubSeq(s, Max(Bounds(s)) + 1, Len(s))

\* What comes before the first of some positions, or all of s.
Before(s, stops) == SubSeq(s, 1, Min(stops \cup {Len(s) + 1}) - 1)

\* The headers end at the first empty line, and are known by their colon.
_parse_single_frame(payload) ==
  LET s     == StripLeft(payload)
      block == Before(s, {k \in 1 .. Len(s) - 1 : s[k] = "EOL" /\ s[k + 1] = "EOL"})
      cmd   == Before(block, {k \in DOMAIN block : block[k] = "EOL"})
  IN  [cmd |-> cmd,
       headers |-> Selected(block, {k \in Len(cmd) + 1 .. Len(block) : block[k] \in Headers}),
       body |-> StripRight(SubSeq(s, Len(block) + 3, Len(s)))]

\* Heartbeats are frames of their own and handed on to nobody.
Frames(pieces) ==
  LET full == Selected(pieces, {k \in DOMAIN pieces : Text(pieces[k]) # {}})
  IN  [k \in DOMAIN full |-> _parse_single_frame(full[k])]

\* A remainder that is too long is dropped, up to its end.
Kept(s) == IF Len(s) > MAX_FRAME_BUFFER_CHARS THEN <<>> ELSE s

-----------------------------------------------------------------------------
FramingInit ==
  /\ sent = <<>> /\ frame_ends = <<>> /\ beats = 0 /\ stream = <<>>
  /\ taken = 0 /\ frame_buffer = <<>> /\ received = <<>>

\* What the broker writes: lines that end with EOL, an empty one, the body, NUL.
Line(m, k) == IF k = 0 THEN m.cmd ELSE m.headers[k]
Heading(m) == [k \in 1 .. 2 * (Len(m.headers) + 1) |->
                 IF k % 2 = 1 THEN Line(m, k \div 2) ELSE "EOL"]
Payload(m) == Heading(m) \o <<"EOL">> \o m.body

Send(m) ==
  /\ Len(sent) < MaxMessages
  /\ sent' = Append(sent, m)
  /\ stream' = stream \o Payload(m) \o <<"NUL">>
  /\ frame_ends' = Append(frame_ends, Len(stream'))
  /\ UNCHANGED <<beats, taken, frame_buffer, received>>

Beat ==
  /\ beats < MaxBeats
  /\ beats' = beats + 1
  /\ stream' = Append(stream, "EOL")
  /\ UNCHANGED <<sent, frame_ends, taken, frame_buffer, received>>

\* extract_complete_frames(), for a websocket message of n symbols.
Receive(n) ==
  LET combined == frame_buffer \o SubSeq(stream, taken + 1, taken + n) IN
  /\ taken' = taken + n
  /\ received' = received \o Frames(Pieces(combined))
  /\ frame_buffer' = IF Text(combined) = {} THEN <<>> ELSE Kept(Remainder(combined))
  /\ UNCHANGED <<sent, frame_ends, beats, stream>>

\* _handle_connection() of the next socket begins with an empty buffer.
Leftover == frame_buffer' = frame_buffer      \* faulty variant
Emptied  == frame_buffer' = <<>>
Reconnect ==
  /\ Emptied
  /\ sent' = <<>> /\ frame_ends' = <<>> /\ beats' = 0 /\ stream' = <<>>
  /\ taken' = 0 /\ received' = <<>>

FramingNext ==
  \/ \E m \in Messages : Send(m)
  \/ Beat
  \/ \E n \in 1 .. Len(stream) - taken : Receive(n)
  \/ Reconnect

FramingSpec == FramingInit /\ [][FramingNext]_framingVars

-----------------------------------------------------------------------------
\* What the framing guarantees.

FramingTypeOK ==
  /\ sent \in Seq(Messages) /\ frame_ends \in [DOMAIN sent -> 1 .. Len(stream)]
  /\ beats \in 0 .. MaxBeats
  /\ stream \in Seq(Symbols) /\ taken \in 0 .. Len(stream)
  /\ frame_buffer \in Seq(Symbols)
  /\ \A k \in DOMAIN received : DOMAIN received[k] = {"cmd", "headers", "body"}

\* A frame as it was meant, but for newlines at the end of its body.
Meaning(m) == [cmd |-> <<m.cmd>>, headers |-> m.headers, body |-> StripRight(m.body)]

\* What is left of a frame whose beginning was dropped.
Rest(m, k) == SubSeq(Payload(m), k, Len(Payload(m)))
Tails(m) == {_parse_single_frame(Rest(m, k)) :
               k \in {k \in 1 .. Len(Payload(m)) : Text(Rest(m, k)) # {}}}

\* A frame that fits in the buffer with the heartbeats before it.
Fits(m) == MaxBeats + Len(Payload(m)) <= MAX_FRAME_BUFFER_CHARS

\* What may be handed on of a frame: all of it, or a part if it does not fit.
Outcomes(m) == {Meaning(m)} \cup (IF Fits(m) THEN {} ELSE Tails(m))

\* The frames whose last symbol has been taken.
Arrived == {k \in DOMAIN sent : frame_ends[k] <= taken}

\* However the stream is cut into messages: every frame that has arrived in
\* full and fits in the buffer is handed on, intact, once and in its order; of
\* one that does not fit at most a part is, never mixed with another one; and
\* the buffer stays within its limit.
FramesArrive ==
  /\ FramingTypeOK
  /\ Len(frame_buffer) <= MAX_FRAME_BUFFER_CHARS
  /\ \E origin \in [DOMAIN received -> Arrived] :
       /\ \A i, j \in DOMAIN received : i < j => origin[i] < origin[j]
       /\ \A k \in Arrived : Fits(sent[k]) => k \in Range(origin)
       /\ \A i \in DOMAIN received : received[i] \in Outcomes(sent[origin[i]])
=============================================================================
