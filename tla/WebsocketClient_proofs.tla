----------------------- MODULE WebsocketClient_proofs -----------------------
(***************************************************************************)
(* The websocket: the frames that come over it, and the client that runs   *)
(* it.                                                                     *)
(*                                                                         *)
(* Every frame that fits in the buffer is handed on whole, once and in its *)
(* order, whatever the messages are that the stream of a connection is cut *)
(* into: FramingInv says where in the stream the buffer begins.            *)
(*                                                                         *)
(* Whatever coroutines call start() and close(), and however they overlap, *)
(* is_running(), websocket_connected and the events tell the truth, and    *)
(* the client is the channel that the tick takes it for, up to one event:  *)
(* a close() forgets a task that was started while it waited for another   *)
(* (overtaken).  That takes two callers.                                   *)
(***************************************************************************)
EXTENDS WebsocketClient, StompFraming, SequenceTheorems, FiniteSetTheorems, TLAPS

-----------------------------------------------------------------------------
\* The frames.

\* Frame k takes the positions Begin(k) + 1 .. frame_ends[k] of the stream.
End(k)   == IF k = 0 THEN 0 ELSE frame_ends[k]
Begin(k) == frame_ends[k] - Len(Payload(sent[k])) - 1

\* The stream is the frames, with nothing but heartbeats between them.
FrameAt(k) ==
  /\ Begin(k) \in End(k - 1) .. End(k - 1) + beats
  /\ \A q \in End(k - 1) + 1 .. Begin(k) : stream[q] = "EOL"
  /\ \A q \in 1 .. Len(Payload(sent[k])) : stream[Begin(k) + q] = Payload(sent[k])[q]
  /\ stream[frame_ends[k]] = "NUL"
StreamInv ==
  /\ \A k \in DOMAIN sent : FrameAt(k)
  /\ \A j, k \in DOMAIN sent : j < k => frame_ends[j] <= Begin(k)
  /\ \A q \in Nuls(stream) : \E k \in DOMAIN sent : q = frame_ends[k]
  /\ Len(stream) - End(Len(sent)) \in 0 .. beats
  /\ \A q \in End(Len(sent)) + 1 .. Len(stream) : stream[q] = "EOL"

\* Frames 1 .. a have arrived.  The buffer is what has been taken since, but
\* for heartbeats and for the beginning of a frame that does not fit.
BufferStart == taken - Len(frame_buffer)
BufferInv(a) ==
  /\ a \in 0 .. Len(sent) /\ \A k \in DOMAIN sent : frame_ends[k] <= taken <=> k <= a
  /\ Len(frame_buffer) <= MAX_FRAME_BUFFER_CHARS /\ End(a) <= BufferStart
  /\ \A q \in 1 .. Len(frame_buffer) : frame_buffer[q] = stream[BufferStart + q]
  /\ \/ \A q \in End(a) + 1 .. BufferStart : stream[q] = "EOL"
     \/ a + 1 \in DOMAIN sent /\ ~Fits(sent[a + 1])

\* Which frame each of those handed on has come from.
OriginInv(a, origin) ==
  /\ origin \in [DOMAIN received -> 1 .. a]
  /\ \A i, j \in DOMAIN received : i < j => origin[i] < origin[j]
  /\ \A k \in 1 .. a : Fits(sent[k]) => \E i \in DOMAIN received : origin[i] = k
  /\ \A i \in DOMAIN received : received[i] \in Outcomes(sent[origin[i]])

\* What may be handed on is a frame, whole or not.
Handed == UNION {Outcomes(m) : m \in Messages}

FramingInv ==
  /\ FramingTypeOK /\ StreamInv /\ received \in Seq(Handed)
  /\ \E a \in 0 .. Len(sent) :
       BufferInv(a) /\ \E origin \in [DOMAIN received -> 1 .. a] : OriginInv(a, origin)

\* A set of naturals that is not empty has a smallest element.
LEMMA SmallestNat ==
  ASSUME NEW T \in SUBSET Nat, T # {}
  PROVE  \E x \in T : \A y \in T : x <= y
<1> DEFINE R == OpToRel(<, Nat)
<1>1. \A x, y \in Nat : x < y => <<x, y>> \in R
  BY DEF OpToRel
<1>2. IsWellFoundedOn(R, Nat)
  BY NatLessThanWellFounded
<1> HIDE DEF R
<1>3. PICK x \in T : \A y \in T : <<y, x>> \notin R
  BY <1>2, WFMin, T # {}
<1>4. x \in Nat /\ \A y \in T : y \in Nat /\ ~(y < x)
  BY <1>1, <1>3
<1>5. \A y \in Nat : ~(y < x) => x <= y
  BY <1>4
<1>6. QED
  BY <1>4, <1>5

\* Positions in increasing order.
Increasing(e, n) == \A i, j \in 1 .. n : i < j => e[i] < e[j]

\* As many positions as an increasing enumeration of them has entries.
LEMMA EnumeratedCardinality ==
  ASSUME NEW n \in Nat, NEW e \in [1 .. n -> Int], Increasing(e, n)
  PROVE  IsFiniteSet({e[i] : i \in 1 .. n}) /\ Cardinality({e[i] : i \in 1 .. n}) = n
<1> DEFINE T == {e[i] : i \in 1 .. n}
<1>1. \A i, j \in 1 .. n : i # j => e[i] # e[j]
  BY DEF Increasing
<1>2. e \in Bijection(1 .. n, T)
  BY <1>1 DEF Bijection, Injection, Surjection, IsInjective
<1>3. ExistsBijection(1 .. n, T)
  BY <1>2 DEF ExistsBijection
<1>4. IsFiniteSet(1 .. n) /\ Cardinality(1 .. n) = n
  BY FS_Interval
<1>5. QED
  BY <1>3, <1>4, FS_Bijection

\* Nth(P, k) is the k-th entry of an increasing enumeration of P.
LEMMA EnumeratedNth ==
  ASSUME NEW n \in Nat, NEW e \in [1 .. n -> Int], Increasing(e, n), NEW k \in 1 .. n
  PROVE  Nth({e[i] : i \in 1 .. n}, k) = e[k]
<1> DEFINE T == {e[i] : i \in 1 .. n}
           Below(p) == {q \in T : q <= p}
<1>1. ASSUME NEW j \in 1 .. n  PROVE Cardinality(Below(e[j])) = j
  <2> DEFINE f == [i \in 1 .. j |-> e[i]]
  <2>1. f \in [1 .. j -> Int] /\ Increasing(f, j)
    BY DEF Increasing
  <2>2. \A i \in 1 .. j : f[i] = e[i]
    OBVIOUS
  <2> HIDE DEF f
  <2>3. Cardinality({f[i] : i \in 1 .. j}) = j
    <3>1. j \in Nat
      OBVIOUS
    <3>2. QED
      BY <2>1, <3>1, EnumeratedCardinality
  <2>4. \A i \in 1 .. n : e[i] <= e[j] <=> i <= j
    BY DEF Increasing
  <2>5. {f[i] : i \in 1 .. j} = Below(e[j])
    BY <2>2, <2>4
  <2>6. QED
    BY <2>3, <2>5
<1>2. \A p \in T : Cardinality(Below(p)) = k => p = e[k]
  BY <1>1
<1>3. e[k] \in T /\ Cardinality(Below(e[k])) = k
  BY <1>1
<1> HIDE DEF T
<1>4. Nth(T, k) = e[k]
  BY <1>2, <1>3 DEF Nth
<1>5. QED
  BY <1>4 DEF T

\* The largest, and the smallest, of positions is what it should be.
LEMMA MaxIs ==
  ASSUME NEW T \in SUBSET Int, NEW x \in T, \A y \in T : y <= x
  PROVE  Max(T) = x
<1>1. \A y \in T : x >= y
  OBVIOUS
<1>2. \A z \in T : (\A y \in T : z >= y) => z = x
  BY <1>1
<1>3. QED
  BY <1>1, <1>2, Zenon DEF Max
LEMMA MinIs ==
  ASSUME NEW T \in SUBSET Int, NEW x \in T, \A y \in T : x <= y
  PROVE  Min(T) = x
<1>1. \A z \in T : (\A y \in T : z <= y) => z = x
  OBVIOUS
<1>2. QED
  BY <1>1, Zenon DEF Min

\* Sequences that are equal position by position are equal.
LEMMA SameSequence ==
  ASSUME NEW S, NEW s \in Seq(S), NEW t \in Seq(S), Len(s) = Len(t),
         \A k \in 1 .. Len(t) : s[k] = t[k]
  PROVE  s = t
BY SeqEqual

\* The two parts of a concatenation.
LEMMA Joined ==
  ASSUME NEW S, NEW s \in Seq(S), NEW t \in Seq(S)
  PROVE  /\ s \o t \in Seq(S) /\ Len(s \o t) = Len(s) + Len(t)
         /\ Len(s) \in Nat /\ Len(t) \in Nat
         /\ \A k \in 1 .. Len(s) : (s \o t)[k] = s[k]
         /\ \A k \in 1 .. Len(t) : (s \o t)[Len(s) + k] = t[k]
<1>1. Len(s) \in Nat /\ Len(t) \in Nat
  BY LenProperties
<1>2. /\ s \o t \in Seq(S) /\ Len(s \o t) = Len(s) + Len(t)
      /\ \A i \in 1 .. Len(s) + Len(t) :
           (s \o t)[i] = IF i <= Len(s) THEN s[i] ELSE t[i - Len(s)]
  BY ConcatProperties
<1> DEFINE a == Len(s)
           b == Len(t)
<1> HIDE DEF a, b
<1>3. \A k \in 1 .. a : k \in 1 .. a + b /\ k <= a
  BY <1>1 DEF a, b
<1>4. \A k \in 1 .. b : a + k \in 1 .. a + b /\ ~(a + k <= a) /\ (a + k) - a = k
  BY <1>1 DEF a, b
<1>5. QED
  BY <1>1, <1>2, <1>3, <1>4 DEF a, b

\* A part of a sequence.
LEMMA PartOf ==
  ASSUME NEW S, NEW s \in Seq(S), NEW i \in 1 .. Len(s) + 1, NEW j \in i - 1 .. Len(s)
  PROVE  /\ SubSeq(s, i, j) \in Seq(S) /\ Len(SubSeq(s, i, j)) = j - i + 1
         /\ DOMAIN SubSeq(s, i, j) = 1 .. j - i + 1
         /\ \A k \in 1 .. j - i + 1 : SubSeq(s, i, j)[k] = s[i + k - 1]
<1>1. \A k \in i .. j : s[k] \in S
  BY ElementOfSeq, LenProperties
<1>2. /\ SubSeq(s, i, j) \in Seq(S)
      /\ Len(SubSeq(s, i, j)) = IF i <= j THEN j - i + 1 ELSE 0
      /\ \A k \in 1 .. j - i + 1 : SubSeq(s, i, j)[k] = s[i + k - 1]
  BY <1>1, SubSeqProperties, LenProperties
<1>3. QED
  BY <1>2, LenProperties

\* What the broker may send, in symbols.
LEMMA MessageSymbols ==
  ASSUME NEW m \in Messages
  PROVE  /\ m.cmd \in Symbols /\ m.cmd # "EOL" /\ m.cmd # "NUL"
         /\ m.headers \in Seq(Headers) /\ Len(m.headers) \in Nat
         /\ \A k \in 1 .. Len(m.headers) :
              m.headers[k] \in Headers \cap Symbols /\ m.headers[k] # "EOL" /\ m.headers[k] # "NUL"
         /\ m.body \in Seq(Symbols) /\ Len(m.body) \in Nat
         /\ \A k \in 1 .. Len(m.body) : m.body[k] \in Symbols /\ m.body[k] # "NUL"
<1>1. m \in [cmd : Commands, headers : Seq(Headers), body : Seq(Bodies)]
  BY FramingAssumption
<1>2. m.cmd \in Symbols /\ m.cmd # "EOL" /\ m.cmd # "NUL"
  BY <1>1, FramingAssumption DEF Symbols
<1>3. Len(m.headers) \in Nat /\ \A k \in 1 .. Len(m.headers) : m.headers[k] \in Headers
  BY <1>1, ElementOfSeq, LenProperties
<1>4. Len(m.body) \in Nat /\ \A k \in 1 .. Len(m.body) : m.body[k] \in Bodies
  BY <1>1, ElementOfSeq, LenProperties
<1>5. m.body \in Seq(Symbols)
  BY <1>1, SeqMonotonic DEF Symbols
<1>6. QED
  BY <1>1, <1>2, <1>3, <1>4, <1>5, FramingAssumption DEF Symbols

\* The lines of a heading.
LEMMA HeadingLines ==
  ASSUME NEW m \in Messages
  PROVE  /\ Heading(m) \in Seq(Symbols) /\ Len(Heading(m)) = 2 * Len(m.headers) + 2
         /\ \A k \in 0 .. Len(m.headers) : Heading(m)[2 * k + 1] = Line(m, k)
         /\ \A k \in 1 .. Len(m.headers) + 1 : Heading(m)[2 * k] = "EOL"
         /\ \A k \in 1 .. Len(Heading(m)) : Heading(m)[k] # "NUL"
<1> DEFINE L == Len(m.headers)
<1>1. L \in Nat
  BY MessageSymbols
<1>2. \A k \in 0 .. L : Line(m, k) \in Symbols /\ Line(m, k) # "NUL"
  BY MessageSymbols DEF Line
<1>3. \A k \in 1 .. 2 * L + 2 : k % 2 = 1 => k \div 2 \in 0 .. L
  BY <1>1
<1>4. \A k \in 1 .. 2 * L + 2 : (IF k % 2 = 1 THEN Line(m, k \div 2) ELSE "EOL") \in Symbols \ {"NUL"}
  BY <1>2, <1>3 DEF Symbols
<1>5. 2 * (L + 1) = 2 * L + 2 /\ 2 * L + 2 \in Nat
  BY <1>1
<1>6. Heading(m) = [k \in 1 .. 2 * L + 2 |-> IF k % 2 = 1 THEN Line(m, k \div 2) ELSE "EOL"]
  BY <1>5 DEF Heading
<1>7. Heading(m) \in [1 .. 2 * L + 2 -> Symbols \ {"NUL"}]
  BY <1>4, <1>6
<1>8. Heading(m) \in Seq(Symbols) /\ Len(Heading(m)) = 2 * L + 2
  BY <1>5, <1>7
<1>9. \A k \in 0 .. L : 2 * k + 1 \in 1 .. 2 * L + 2 /\ (2 * k + 1) % 2 = 1 /\ (2 * k + 1) \div 2 = k
  BY <1>1
<1>10. \A k \in 1 .. L + 1 : 2 * k \in 1 .. 2 * L + 2 /\ (2 * k) % 2 # 1
  BY <1>1
<1>11. QED
  BY <1>6, <1>7, <1>8, <1>9, <1>10

\* The symbols of a frame.
LEMMA PayloadSymbols ==
  ASSUME NEW m \in Messages
  PROVE  /\ Payload(m) \in Seq(Symbols) /\ Len(Payload(m)) \in Nat \ {0}
         /\ Len(Payload(m)) = 2 * Len(m.headers) + 3 + Len(m.body)
         /\ Payload(m)[1] = m.cmd
         /\ \A k \in 0 .. Len(m.headers) : Payload(m)[2 * k + 1] = Line(m, k)
         /\ \A k \in 1 .. Len(m.headers) + 1 : Payload(m)[2 * k] = "EOL"
         /\ Payload(m)[2 * Len(m.headers) + 3] = "EOL"
         /\ \A k \in 1 .. Len(m.body) : Payload(m)[2 * Len(m.headers) + 3 + k] = m.body[k]
         /\ \A k \in 1 .. Len(Payload(m)) : Payload(m)[k] # "NUL"
<1> DEFINE L == Len(m.headers)
           H == 2 * L + 2
           B == Len(m.body)
           h == Heading(m)
           e == <<"EOL">>
           s == Payload(m)
<1>1. L \in Nat /\ B \in Nat /\ m.body \in Seq(Symbols) /\ \A k \in 1 .. B : m.body[k] # "NUL"
  BY MessageSymbols
<1>2. /\ h \in Seq(Symbols) /\ Len(h) = H
      /\ \A k \in 0 .. L : h[2 * k + 1] = Line(m, k)
      /\ \A k \in 1 .. L + 1 : h[2 * k] = "EOL"
      /\ \A k \in 1 .. H : h[k] # "NUL"
  BY HeadingLines
<1>3. e \in Seq(Symbols) /\ Len(e) = 1 /\ e[1] = "EOL"
  BY DEF Symbols
<1>4. H \in Nat /\ 2 * L + 3 = H + 1
  BY <1>1
<1>5. s = (h \o e) \o m.body
  BY DEF Payload
<1> HIDE DEF h, e, s, H, L, B
<1>6. /\ h \o e \in Seq(Symbols) /\ Len(h \o e) = H + 1
      /\ \A k \in 1 .. H : (h \o e)[k] = h[k]
      /\ \A k \in 1 .. 1 : (h \o e)[H + k] = e[k]
  <2>1. /\ h \o e \in Seq(Symbols) /\ Len(h \o e) = Len(h) + Len(e)
        /\ \A k \in 1 .. Len(h) : (h \o e)[k] = h[k]
        /\ \A k \in 1 .. Len(e) : (h \o e)[Len(h) + k] = e[k]
    <3>1. h \in Seq(Symbols)
      BY <1>2
    <3>2. e \in Seq(Symbols)
      BY <1>3
    <3>3. \A k \in 1 .. Len(e) : (h \o e)[Len(h) + k] = e[k]
      BY <3>1, <3>2, Joined, SMT
    <3>4. QED
      BY <3>1, <3>2, <3>3, Joined, Zenon
  <2>2. QED
    BY <2>1, <1>2, <1>3
<1>7. /\ s \in Seq(Symbols) /\ Len(s) = H + 1 + B
      /\ \A k \in 1 .. H + 1 : s[k] = (h \o e)[k]
      /\ \A k \in 1 .. B : s[H + 1 + k] = m.body[k]
  <2>1. /\ s \in Seq(Symbols) /\ Len(s) = Len(h \o e) + Len(m.body)
        /\ \A k \in 1 .. Len(h \o e) : s[k] = (h \o e)[k]
        /\ \A k \in 1 .. Len(m.body) : s[Len(h \o e) + k] = m.body[k]
    <3>1. (h \o e) \in Seq(Symbols)
      BY <1>6
    <3>2. m.body \in Seq(Symbols)
      BY <1>1
    <3>3. \A k \in 1 .. Len(m.body) : ((h \o e) \o m.body)[Len(h \o e) + k] = m.body[k]
      BY <3>1, <3>2, Joined, SMT
    <3>4. QED
      BY <3>1, <3>2, <3>3, <1>5, Joined, Zenon
  <2>2. QED
    BY <2>1, <1>6 DEF B
<1>8. \A k \in 1 .. H : s[k] = h[k]
  <2>1. \A k \in 1 .. H : k \in 1 .. H + 1
    BY <1>4
  <2>2. QED
    BY <2>1, <1>6, <1>7
<1>9. s[H + 1] = "EOL"
  BY <1>3, <1>4, <1>6, <1>7
<1>11. \A k \in 0 .. L : s[2 * k + 1] = Line(m, k)
  <2>1. \A k \in 0 .. L : 2 * k + 1 \in 1 .. H
    BY <1>1 DEF H
  <2>2. QED
    BY <2>1, <1>2, <1>8
<1>12. \A k \in 1 .. L + 1 : s[2 * k] = "EOL"
  <2>1. \A k \in 1 .. L + 1 : 2 * k \in 1 .. H
    BY <1>1 DEF H
  <2>2. QED
    BY <2>1, <1>2, <1>8
<1>13. s[1] = m.cmd
  <2>1. 0 \in 0 .. L /\ 2 * 0 + 1 = 1
    BY <1>1
  <2>2. s[1] = Line(m, 0)
    BY <2>1, <1>11
  <2>3. QED
    BY <2>2 DEF Line
<1>14. ASSUME NEW k \in 1 .. H + 1 + B  PROVE s[k] # "NUL"
  <2>1. CASE k <= H
    BY <2>1, <1>2, <1>4, <1>8
  <2>2. CASE k = H + 1
    BY <2>2, <1>9
  <2>3. CASE k > H + 1
    <3>1. k - (H + 1) \in 1 .. B /\ H + 1 + (k - (H + 1)) = k
      BY <2>3, <1>1, <1>4
    <3>2. QED
      BY <3>1, <1>1, <1>7
  <2>4. QED
    BY <2>1, <2>2, <2>3, <1>1, <1>4
<1>15. Len(s) \in Nat \ {0}
  BY <1>1, <1>4, <1>7
<1>16. /\ s \in Seq(Symbols) /\ Len(s) \in Nat \ {0} /\ Len(s) = 2 * L + 3 + B /\ s[1] = m.cmd
       /\ s[2 * L + 3] = "EOL" /\ \A k \in 1 .. B : s[2 * L + 3 + k] = m.body[k]
       /\ \A k \in 1 .. Len(s) : s[k] # "NUL"
  BY <1>4, <1>7, <1>9, <1>13, <1>14, <1>15
<1>17. QED
  BY <1>11, <1>12, <1>16 DEF s, L, B

\* lstrip("\n") takes the newlines that precede a text and no more.
LEMMA StripLeftOfPadded ==
  ASSUME NEW s \in Seq(Symbols), NEW t \in Seq(Symbols), NEW j \in Nat,
         Len(t) >= 1, t[1] # "EOL", Len(s) = j + Len(t),
         \A q \in 1 .. j : s[q] = "EOL",
         \A q \in 1 .. Len(t) : s[j + q] = t[q]
  PROVE  StripLeft(s) = t /\ Text(s) # {}
<1>1. /\ Len(t) \in Nat /\ Len(s) \in Nat /\ DOMAIN s = 1 .. Len(s)
  BY LenProperties
<1>2. j + 1 \in Text(s)
  BY <1>1 DEF Text
<1>3. \A y \in Text(s) : y \in Int /\ j + 1 <= y
  BY <1>1 DEF Text
<1>4. Min(Text(s)) = j + 1
  BY <1>2, <1>3, MinIs
<1>5. StripLeft(s) = SubSeq(s, j + 1, Len(s))
  BY <1>2, <1>4 DEF StripLeft
<1> DEFINE u == SubSeq(s, j + 1, Len(s))
<1>6. /\ u \in Seq(Symbols) /\ Len(u) = Len(s) - (j + 1) + 1
      /\ \A k \in 1 .. Len(s) - (j + 1) + 1 : u[k] = s[j + 1 + k - 1]
  <2>1. j + 1 \in 1 .. Len(s) + 1 /\ Len(s) \in j + 1 - 1 .. Len(s)
    BY <1>1
  <2>2. QED
    BY <2>1, PartOf
<1> HIDE DEF u
<1>7. Len(u) = Len(t) /\ \A k \in 1 .. Len(t) : u[k] = t[k]
  <2>1. Len(s) - (j + 1) + 1 = Len(t)
    BY <1>1
  <2>2. \A k \in 1 .. Len(t) : j + 1 + k - 1 = j + k
    BY <1>1
  <2>3. QED
    BY <1>6, <2>1, <2>2
<1>8. u = t
  BY <1>6, <1>7, SameSequence
<1>9. QED
  BY <1>2, <1>5, <1>8 DEF u

\* A frame is taken apart into what the broker put into it.
LEMMA ParsedPayload ==
  ASSUME NEW m \in Messages, NEW payload, StripLeft(payload) = Payload(m)
  PROVE  _parse_single_frame(payload) = Meaning(m)
<1> DEFINE L == Len(m.headers)
           B == Len(m.body)
           t == Payload(m)
           empty == {k \in 1 .. Len(t) - 1 : t[k] = "EOL" /\ t[k + 1] = "EOL"}
           block == Before(t, empty)
           cmd == Before(block, {k \in DOMAIN block : block[k] = "EOL"})
           colons == {k \in Len(cmd) + 1 .. Len(block) : block[k] \in Headers}
<1>1. /\ L \in Nat /\ B \in Nat /\ m.headers \in [1 .. L -> Headers] /\ m.body \in Seq(Symbols)
      /\ m.cmd \in Symbols /\ m.cmd # "EOL"
      /\ \A k \in 1 .. L : m.headers[k] # "EOL" /\ m.headers[k] \in Headers
  BY MessageSymbols, LenProperties
<1>2. \A k \in 0 .. L : Line(m, k) # "EOL"
  BY <1>1 DEF Line
<1>3. /\ t \in Seq(Symbols) /\ Len(t) = 2 * L + 3 + B /\ t[1] = m.cmd
      /\ \A k \in 0 .. L : t[2 * k + 1] = Line(m, k)
      /\ \A k \in 1 .. L + 1 : t[2 * k] = "EOL"
      /\ t[2 * L + 3] = "EOL"
      /\ \A k \in 1 .. B : t[2 * L + 3 + k] = m.body[k]
  BY PayloadSymbols
<1> HIDE DEF t, L, B
<1>4. block \in Seq(Symbols) /\ Len(block) = 2 * L + 1 /\ DOMAIN block = 1 .. 2 * L + 1
      /\ \A k \in 1 .. 2 * L + 1 : block[k] = t[k]
  <2>1. 2 * L + 2 \in empty
    <3>1. 2 * L + 2 \in 1 .. Len(t) - 1 /\ 2 * (L + 1) = 2 * L + 2 /\ L + 1 \in 1 .. L + 1
          /\ 2 * L + 2 + 1 = 2 * L + 3
      BY <1>1, <1>3
    <3>2. QED
      BY <3>1, <1>3
  <2>2. ASSUME NEW y \in empty  PROVE y \in Int /\ y >= 2 * L + 2
    <3>1. SUFFICES ASSUME y < 2 * L + 2  PROVE FALSE
      BY <1>1, <1>3
    <3>2. y \in 1 .. 2 * L + 1 /\ t[y] = "EOL" /\ t[y + 1] = "EOL"
      BY <3>1, <1>1, <1>3
    <3>3. CASE y % 2 = 1
      <4>1. y \div 2 \in 0 .. L /\ 2 * (y \div 2) + 1 = y
        BY <3>2, <3>3, <1>1
      <4>2. QED
        BY <4>1, <3>2, <1>2, <1>3
    <3>4. CASE y % 2 # 1
      <4>1. y \div 2 \in 0 .. L /\ 2 * (y \div 2) + 1 = y + 1
        BY <3>2, <3>4, <1>1
      <4>2. QED
        BY <4>1, <3>2, <1>2, <1>3
    <3>5. QED
      BY <3>3, <3>4
  <2> HIDE DEF empty
  <2>3. Min(empty \cup {Len(t) + 1}) = 2 * L + 2
    <3>1. /\ 2 * L + 2 \in empty \cup {Len(t) + 1}
          /\ \A y \in empty \cup {Len(t) + 1} : y \in Int /\ 2 * L + 2 <= y
      BY <2>1, <2>2, <1>1, <1>3
    <3>2. QED
      BY <3>1, MinIs
  <2>4. block = SubSeq(t, 1, 2 * L + 1)
    <3> DEFINE first == Min(empty \cup {Len(t) + 1})
               last == 2 * L + 1
    <3>1. first - 1 = last
      BY <2>3, <1>1
    <3>2. block = SubSeq(t, 1, first - 1)
      BY Zenon DEF Before
    <3> HIDE DEF block, first, last
    <3>3. block = SubSeq(t, 1, last)
      BY <3>1, <3>2, Zenon
    <3>4. QED
      BY <3>3 DEF last
  <2>5. 2 * L + 1 \in 1 - 1 .. Len(t) /\ 1 \in 1 .. Len(t) + 1 /\ 2 * L + 1 - 1 + 1 = 2 * L + 1
        /\ \A k \in 1 .. 2 * L + 1 : 1 + k - 1 = k
    BY <1>1, <1>3
  <2> HIDE DEF block
  <2>6. QED
    BY <2>4, <2>5, <1>3, PartOf
<1> HIDE DEF block, empty
<1>5. cmd = <<m.cmd>> /\ Len(cmd) = 1
  <2> DEFINE stops == {k \in DOMAIN block : block[k] = "EOL"} \cup {Len(block) + 1}
  <2>1. 2 \in stops
    <3>1. CASE L = 0
      BY <3>1, <1>4
    <3>2. CASE L # 0
      <4>1. 2 \in 1 .. 2 * L + 1 /\ 2 * 1 = 2 /\ 1 \in 1 .. L + 1
        BY <3>2, <1>1
      <4>2. QED
        BY <4>1, <1>3, <1>4
    <3>3. QED
      BY <3>1, <3>2
  <2>2. \A y \in stops : y \in Int /\ 2 <= y
    <3>1. block[1] # "EOL"
      BY <1>1, <1>3, <1>4
    <3>2. \A y \in stops : y \in Int /\ y >= 1 /\ y # 1
      BY <3>1, <1>1, <1>4
    <3>3. QED
      BY <3>2
  <2> HIDE DEF stops
  <2>3. Min(stops) = 2
    BY <2>1, <2>2, MinIs
  <2>4. cmd = SubSeq(block, 1, 1)
    <3>1. cmd = SubSeq(block, 1, Min(stops) - 1)
      BY Zenon DEF Before, stops
    <3>2. 2 - 1 = 1
      OBVIOUS
    <3> HIDE DEF cmd
    <3>3. QED
      BY <3>1, <3>2, <2>3, Zenon
  <2>5. 1 \in 1 - 1 .. Len(block) /\ 1 \in 1 .. Len(block) + 1
    BY <1>1, <1>4
  <2> HIDE DEF cmd
  <2>6. /\ cmd \in Seq(Symbols) /\ Len(cmd) = 1 - 1 + 1
        /\ \A k \in 1 .. 1 - 1 + 1 : cmd[k] = block[1 + k - 1]
    BY <2>4, <2>5, <1>4, PartOf
  <2>7. Len(cmd) = 1 /\ cmd[1] = m.cmd
    BY <2>6, <1>1, <1>3, <1>4
  <2>8. QED
    BY <2>6, <2>7
<1> HIDE DEF cmd
<1>6. Selected(block, colons) = m.headers
  <2> DEFINE e == [i \in 1 .. L |-> 2 * i + 1]
  <2>1. \A i \in 1 .. L : 2 * i + 1 \in 2 .. 2 * L + 1 /\ block[2 * i + 1] = m.headers[i]
    <3>1. \A i \in 1 .. L : 2 * i + 1 \in 2 .. 2 * L + 1 /\ i \in 0 .. L /\ i # 0
      BY <1>1
    <3>2. QED
      BY <3>1, <1>1, <1>3, <1>4 DEF Line
  <2>2. ASSUME NEW k \in 2 .. 2 * L + 1, block[k] \in Headers
        PROVE  k \div 2 \in 1 .. L /\ k = 2 * (k \div 2) + 1
    <3>1. CASE k % 2 = 1
      BY <3>1, <1>1
    <3>2. CASE k % 2 # 1
      <4>1. k \div 2 \in 1 .. L + 1 /\ k = 2 * (k \div 2)
        BY <3>2, <1>1
      <4>2. block[k] = "EOL"
        <5>1. k \in 1 .. 2 * L + 1
          BY <1>1
        <5>2. QED
          BY <5>1, <4>1, <1>3, <1>4
      <4>3. QED
        BY <4>2, <2>2, FramingAssumption
    <3>3. QED
      BY <3>1, <3>2
  <2>3. colons = {k \in 2 .. 2 * L + 1 : block[k] \in Headers}
    BY <1>4, <1>5
  <2>4. \A i \in 1 .. L : e[i] = 2 * i + 1
    OBVIOUS
  <2>5. e \in [1 .. L -> Int] /\ Increasing(e, L)
    BY <1>1 DEF Increasing
  <2> HIDE DEF e
  <2>6. colons = {e[i] : i \in 1 .. L}
    <3>1. \A i \in 1 .. L : e[i] \in colons
      BY <2>1, <2>3, <2>4, <1>1
    <3>2. \A k \in colons : k \div 2 \in 1 .. L /\ k = e[k \div 2]
      BY <2>2, <2>3, <2>4
    <3> HIDE DEF colons
    <3>3. QED
      BY <3>1, <3>2
  <2> HIDE DEF colons
  <2>7. Cardinality(colons) = L
    BY <2>5, <2>6, <1>1, EnumeratedCardinality
  <2>8. \A i \in 1 .. L : Nth(colons, i) = e[i]
    BY <2>5, <2>6, <1>1, EnumeratedNth
  <2>9. Selected(block, colons) = [i \in 1 .. L |-> block[e[i]]]
    BY <2>7, <2>8 DEF Selected
  <2>10. [i \in 1 .. L |-> block[e[i]]] = m.headers
    <3>1. \A i \in 1 .. L : block[e[i]] = m.headers[i]
      BY <2>1, <2>4
    <3>2. m.headers = [i \in 1 .. L |-> m.headers[i]]
      BY <1>1
    <3>3. QED
      BY <3>1, <3>2, Zenon
  <2>11. QED
    BY <2>9, <2>10
<1> HIDE DEF colons
<1>7. SubSeq(t, Len(block) + 3, Len(t)) = m.body
  <2> DEFINE b == SubSeq(t, 2 * L + 4, Len(t))
  <2>1. 2 * L + 4 \in 1 .. Len(t) + 1 /\ Len(t) \in 2 * L + 4 - 1 .. Len(t)
        /\ Len(t) - (2 * L + 4) + 1 = B /\ Len(block) + 3 = 2 * L + 4
        /\ \A k \in 1 .. B : 2 * L + 4 + k - 1 = 2 * L + 3 + k
    BY <1>1, <1>3, <1>4
  <2>2. b \in Seq(Symbols) /\ Len(b) = Len(t) - (2 * L + 4) + 1
        /\ \A k \in 1 .. Len(t) - (2 * L + 4) + 1 : b[k] = t[2 * L + 4 + k - 1]
    BY <2>1, <1>3, PartOf
  <2> HIDE DEF b
  <2>3. Len(b) = B /\ \A k \in 1 .. B : b[k] = m.body[k]
    BY <2>1, <2>2, <1>3
  <2>4. b = m.body
    BY <2>2, <2>3, <1>1, SameSequence DEF B
  <2>5. QED
    BY <2>1, <2>4 DEF b
<1>8. _parse_single_frame(payload) =
        [cmd |-> cmd, headers |-> Selected(block, colons),
         body |-> StripRight(SubSeq(t, Len(block) + 3, Len(t)))]
  BY DEF _parse_single_frame, t, block, cmd, colons, empty
<1>9. QED
  BY <1>5, <1>6, <1>7, <1>8 DEF Meaning

\* The types that the proofs below need of every state.
LEMMA Counted ==
  ASSUME FramingTypeOK
  PROVE  /\ DOMAIN sent = 1 .. Len(sent) /\ Len(sent) \in Nat
         /\ \A k \in DOMAIN sent : sent[k] \in Messages
         /\ Len(stream) \in Nat /\ DOMAIN stream = 1 .. Len(stream)
         /\ \A q \in 1 .. Len(stream) : stream[q] \in Symbols
         /\ Len(frame_buffer) \in Nat /\ taken \in Nat /\ taken <= Len(stream) /\ beats \in Nat
         /\ \A k \in DOMAIN sent :
              frame_ends[k] \in Nat /\ 1 <= frame_ends[k] /\ frame_ends[k] <= Len(stream)
         /\ \A k \in 0 .. Len(sent) : End(k) \in Nat /\ End(k) <= Len(stream)
         /\ \A k \in DOMAIN sent :
              Begin(k) \in Int /\ frame_ends[k] = Begin(k) + Len(Payload(sent[k])) + 1
                                /\ Len(Payload(sent[k])) \in Nat \ {0}
         /\ BufferStart \in Int
<1>1. DOMAIN sent = 1 .. Len(sent) /\ Len(sent) \in Nat /\ \A k \in DOMAIN sent : sent[k] \in Messages
  BY LenProperties, ElementOfSeq DEF FramingTypeOK
<1>2. /\ Len(stream) \in Nat /\ DOMAIN stream = 1 .. Len(stream) /\ Len(frame_buffer) \in Nat
      /\ \A q \in 1 .. Len(stream) : stream[q] \in Symbols
  BY LenProperties, ElementOfSeq DEF FramingTypeOK
<1>3. taken \in Nat /\ taken <= Len(stream) /\ beats \in Nat
  BY <1>2, FramingAssumption DEF FramingTypeOK
<1>4. \A k \in DOMAIN sent : frame_ends[k] \in Nat /\ 1 <= frame_ends[k] /\ frame_ends[k] <= Len(stream)
  BY <1>2 DEF FramingTypeOK
<1>5. \A k \in 0 .. Len(sent) : End(k) \in Nat /\ End(k) <= Len(stream)
  BY <1>1, <1>2, <1>4 DEF End
<1>6. \A k \in DOMAIN sent : Len(Payload(sent[k])) \in Nat \ {0}
  BY <1>1, PayloadSymbols
<1>7. \A k \in DOMAIN sent : Begin(k) \in Int /\ frame_ends[k] = Begin(k) + Len(Payload(sent[k])) + 1
  BY <1>4, <1>6 DEF Begin
<1>8. BufferStart \in Int
  BY <1>2, <1>3 DEF BufferStart
<1>9. QED
  BY <1>1, <1>2, <1>3, <1>4, <1>5, <1>6, <1>7, <1>8

\* A new connection has nothing in its stream and nothing in its buffer.
LEMMA FramingInitially == FramingInit => FramingInv
<1> SUFFICES ASSUME FramingInit  PROVE FramingInv
  OBVIOUS
<1> USE DEF FramingInit
<1>1. /\ DOMAIN sent = {} /\ Len(sent) = 0 /\ Len(stream) = 0 /\ DOMAIN stream = {}
      /\ DOMAIN received = {} /\ Len(frame_buffer) = 0
  OBVIOUS
<1>2. FramingTypeOK
  BY <1>1, FramingAssumption DEF FramingTypeOK
<1>3. StreamInv
  <2>1. Nuls(stream) = {}
    BY <1>1 DEF Nuls
  <2>2. End(Len(sent)) = 0
    BY <1>1 DEF End
  <2>3. QED
    BY <1>1, <2>1, <2>2 DEF StreamInv
<1>4. received \in Seq(Handed)
  OBVIOUS
<1>5. BufferInv(0)
  <2>1. End(0) = 0 /\ BufferStart = 0
    <3>1. End(0) = 0
      BY DEF End
    <3>2. taken = 0 /\ Len(frame_buffer) = 0
      BY <1>1
    <3> HIDE DEF FramingInit
    <3>3. BufferStart = 0
      BY <3>2 DEF BufferStart
    <3>4. QED
      BY <3>1, <3>3
  <2>2. QED
    BY <1>1, <2>1, FramingAssumption DEF BufferInv
<1>6. <<>> \in [DOMAIN received -> 1 .. 0] /\ OriginInv(0, <<>>)
  <2>1. <<>> \in [DOMAIN received -> 1 .. 0]
    BY <1>1
  <2>2. \A k \in 1 .. 0 : FALSE
    OBVIOUS
  <2>3. QED
    BY <1>1, <2>1, <2>2 DEF OriginInv
<1>7. 0 \in 0 .. Len(sent)
  BY <1>1
<1>8. QED
  BY <1>2, <1>3, <1>4, <1>5, <1>6, <1>7 DEF FramingInv

\* What is written behind the stream leaves what is before it, and the reader.
LEMMA WrittenBehind ==
  ASSUME FramingInv, FramingTypeOK', StreamInv', UNCHANGED <<taken, frame_buffer, received>>,
         Len(sent) <= Len(sent'), Len(stream) <= Len(stream'),
         \A k \in DOMAIN sent : sent'[k] = sent[k] /\ frame_ends'[k] = frame_ends[k],
         \A k \in DOMAIN sent' : k \notin DOMAIN sent => frame_ends'[k] > Len(stream),
         \A q \in 1 .. Len(stream) : stream'[q] = stream[q]
  PROVE  FramingInv'
<1>1. PICK a \in 0 .. Len(sent) :
         BufferInv(a) /\ \E origin \in [DOMAIN received -> 1 .. a] : OriginInv(a, origin)
  BY DEF FramingInv
<1>2. PICK origin \in [DOMAIN received -> 1 .. a] : OriginInv(a, origin)
  BY <1>1
<1>3. /\ DOMAIN sent = 1 .. Len(sent) /\ Len(sent) \in Nat /\ Len(stream) \in Nat
      /\ Len(frame_buffer) \in Nat /\ taken \in Nat /\ taken <= Len(stream)
      /\ \A k \in 0 .. Len(sent) : End(k) \in Nat
  BY Counted DEF FramingInv
<1>4. DOMAIN sent' = 1 .. Len(sent') /\ Len(sent') \in Nat /\ Len(stream') \in Nat
      /\ \A k \in DOMAIN sent' : frame_ends'[k] \in Nat
  BY LenProperties DEF FramingTypeOK
<1>5. a \in 0 .. Len(sent') /\ DOMAIN sent \subseteq DOMAIN sent'
  BY <1>1, <1>3, <1>4
<1>6. End(a)' = End(a) /\ BufferStart' = BufferStart
  BY <1>1, <1>3 DEF End, BufferStart
<1>7. BufferInv(a)'
  <2>1. \A k \in DOMAIN sent' : frame_ends'[k] <= taken' <=> k <= a
    <3>1. ASSUME NEW k \in DOMAIN sent', k \in DOMAIN sent
          PROVE  frame_ends'[k] <= taken' <=> k <= a
      BY <1>1, <3>1 DEF BufferInv
    <3>2. ASSUME NEW k \in DOMAIN sent', k \notin DOMAIN sent
          PROVE  ~(frame_ends'[k] <= taken') /\ ~(k <= a)
      BY <1>1, <1>3, <1>4, <3>2
    <3>3. QED
      BY <3>1, <3>2
  <2>2. Len(frame_buffer') <= MAX_FRAME_BUFFER_CHARS /\ End(a)' <= BufferStart'
    BY <1>1, <1>6 DEF BufferInv
  <2>3. \A q \in 1 .. Len(frame_buffer') : frame_buffer'[q] = stream'[BufferStart' + q]
    <3>1. ASSUME NEW q \in 1 .. Len(frame_buffer)  PROVE BufferStart + q \in 1 .. Len(stream)
      <4>1. End(a) <= BufferStart /\ End(a) \in Nat
        BY <1>1, <1>3 DEF BufferInv
      <4>2. BufferStart + Len(frame_buffer) = taken /\ BufferStart \in Int
        BY <1>3 DEF BufferStart
      <4>3. QED
        BY <4>1, <4>2, <1>3
    <3>2. QED
      BY <3>1, <1>1, <1>6 DEF BufferInv
  <2>4. \/ \A q \in End(a)' + 1 .. BufferStart' : stream'[q] = "EOL"
        \/ a + 1 \in DOMAIN sent' /\ ~Fits(sent'[a + 1])
    <3>1. CASE \A q \in End(a) + 1 .. BufferStart : stream[q] = "EOL"
      <4>1. \A q \in End(a) + 1 .. BufferStart : q \in 1 .. Len(stream)
        BY <1>1, <1>3 DEF BufferStart
      <4>2. QED
        BY <3>1, <4>1, <1>6
    <3>2. CASE a + 1 \in DOMAIN sent /\ ~Fits(sent[a + 1])
      BY <3>2, <1>5
    <3>3. QED
      BY <3>1, <3>2, <1>1 DEF BufferInv
  <2>5. QED
    BY <2>1, <2>2, <2>3, <2>4, <1>5 DEF BufferInv
<1>8. OriginInv(a, origin)'
  <2>1. \A k \in 1 .. a : k \in DOMAIN sent
    BY <1>1, <1>3
  <2>2. \A i \in DOMAIN received : origin[i] \in 1 .. a
    BY <1>2
  <2>3. QED
    BY <2>1, <2>2, <1>2 DEF OriginInv
<1>9. received' \in Seq(Handed)
  BY DEF FramingInv
<1>10. origin \in [DOMAIN received' -> 1 .. a]
  BY <1>2
<1>11. QED
  BY <1>5, <1>7, <1>8, <1>9, <1>10 DEF FramingInv

\* A heartbeat is a newline behind the last frame.
LEMMA BeatKeepsFraming == FramingInv /\ Beat => FramingInv'
<1> SUFFICES ASSUME FramingInv, Beat  PROVE FramingInv'
  OBVIOUS
<1> DEFINE N == Len(stream)
<1>1. FramingTypeOK /\ StreamInv
  BY DEF FramingInv
<1>2. /\ DOMAIN sent = 1 .. Len(sent) /\ Len(sent) \in Nat /\ N \in Nat /\ beats \in Nat
      /\ \A k \in DOMAIN sent : sent[k] \in Messages
      /\ \A k \in 0 .. Len(sent) : End(k) \in Nat /\ End(k) <= N
      /\ \A k \in DOMAIN sent : frame_ends[k] \in Nat /\ frame_ends[k] <= N /\ 1 <= frame_ends[k]
      /\ \A k \in DOMAIN sent : Begin(k) \in Int /\ frame_ends[k] = Begin(k) + Len(Payload(sent[k])) + 1
                                /\ Len(Payload(sent[k])) \in Nat \ {0}
      /\ taken \in Nat /\ taken <= N /\ DOMAIN stream = 1 .. N
  BY <1>1, Counted
<1>3. /\ sent' = sent /\ frame_ends' = frame_ends /\ beats' = beats + 1 /\ beats < MaxBeats
      /\ UNCHANGED <<taken, frame_buffer, received>>
  BY DEF Beat
<1>4. /\ stream' \in Seq(Symbols) /\ Len(stream') = N + 1 /\ DOMAIN stream' = 1 .. N + 1
      /\ stream'[N + 1] = "EOL" /\ \A q \in 1 .. N : stream'[q] = stream[q]
  <2>1. stream \in Seq(Symbols) /\ "EOL" \in Symbols
    BY <1>1 DEF FramingTypeOK, Symbols
  <2>2. stream' = Append(stream, "EOL")
    BY DEF Beat
  <2>3. QED
    BY <2>1, <2>2, AppendProperties, LenProperties
<1>5. \A k \in 0 .. Len(sent) : End(k)' = End(k)
  BY <1>3 DEF End
<1>6. End(Len(sent))' = End(Len(sent))
  BY <1>3 DEF End
<1>7. \A k \in DOMAIN sent : Begin(k)' = Begin(k)
  BY <1>3 DEF Begin
<1> HIDE DEF N
<1>8. FramingTypeOK'
  <2>1. frame_ends \in [DOMAIN sent -> 1 .. N + 1] /\ taken \in 0 .. N + 1
    BY <1>1, <1>2 DEF FramingTypeOK, N
  <2>2. beats + 1 \in 0 .. MaxBeats
    BY <1>2, <1>3, FramingAssumption
  <2>3. QED
    BY <2>1, <2>2, <1>1, <1>3, <1>4 DEF FramingTypeOK
<1>9. StreamInv'
  <2>1. ASSUME NEW k \in DOMAIN sent  PROVE FrameAt(k)'
    <3>1. FrameAt(k) /\ k - 1 \in 0 .. Len(sent)
      BY <1>1, <1>2 DEF StreamInv
    <3>2. Begin(k) \in End(k - 1) .. End(k - 1) + beats + 1
      BY <3>1, <1>2 DEF FrameAt
    <3>3. \A q \in End(k - 1) + 1 .. Begin(k) : q \in 1 .. N
      <4>1. End(k - 1) \in Nat /\ Begin(k) \in Int /\ Begin(k) <= N
        BY <3>1, <1>2
      <4>2. QED
        BY <4>1, <1>2
    <3>4. \A q \in 1 .. Len(Payload(sent[k])) : Begin(k) + q \in 1 .. N
      <4>1. Begin(k) >= 0
        BY <3>1, <3>2, <1>2
      <4>2. QED
        BY <4>1, <1>2
    <3>5. Begin(k)' \in End(k - 1)' .. End(k - 1)' + beats'
      BY <3>1, <3>2, <1>3, <1>5, <1>7, <1>2
    <3>6. \A q \in End(k - 1)' + 1 .. Begin(k)' : stream'[q] = "EOL"
      BY <3>1, <3>3, <1>4, <1>5, <1>7 DEF FrameAt
    <3>7. \A q \in 1 .. Len(Payload(sent[k])) : stream'[Begin(k)' + q] = Payload(sent[k])[q]
      BY <3>1, <3>4, <1>4, <1>7 DEF FrameAt
    <3>8. stream'[frame_ends[k]] = "NUL"
      BY <3>1, <1>2, <1>4 DEF FrameAt
    <3>9. QED
      BY <3>5, <3>6, <3>7, <3>8, <1>3 DEF FrameAt
  <2>2. \A j, k \in DOMAIN sent' : j < k => frame_ends'[j] <= Begin(k)'
    BY <1>1, <1>3, <1>7 DEF StreamInv
  <2>3. \A q \in Nuls(stream)' : \E k \in DOMAIN sent' : q = frame_ends'[k]
    <3>1. \A q \in Nuls(stream)' : q \in Nuls(stream)
      BY <1>2, <1>4 DEF Nuls
    <3>2. QED
      BY <3>1, <1>1, <1>3 DEF StreamInv
  <2>4. Len(stream') - End(Len(sent))' \in 0 .. beats'
    <3>1. N - End(Len(sent)) \in 0 .. beats
      BY <1>1 DEF StreamInv, N
    <3>2. QED
      BY <3>1, <1>2, <1>3, <1>4, <1>6
  <2>5. \A q \in End(Len(sent))' + 1 .. Len(stream') : stream'[q] = "EOL"
    <3>1. ASSUME NEW q \in End(Len(sent)) + 1 .. N + 1  PROVE stream'[q] = "EOL"
      <4>1. CASE q = N + 1
        BY <4>1, <1>4
      <4>2. CASE q # N + 1
        <5>1. q \in 1 .. N /\ q \in End(Len(sent)) + 1 .. N
          BY <4>2, <1>2
        <5>2. QED
          BY <5>1, <1>1, <1>4 DEF StreamInv, N
      <4>3. QED
        BY <4>1, <4>2
    <3>2. QED
      BY <3>1, <1>4, <1>6
  <2>6. QED
    BY <2>1, <2>2, <2>3, <2>4, <2>5, <1>3 DEF StreamInv
<1>10. QED
  <2>1. Len(sent) <= Len(sent') /\ Len(stream) <= Len(stream')
    BY <1>2, <1>3, <1>4 DEF N
  <2>2. \A k \in DOMAIN sent : sent'[k] = sent[k] /\ frame_ends'[k] = frame_ends[k]
    BY <1>3
  <2>3. \A k \in DOMAIN sent' : k \notin DOMAIN sent => frame_ends'[k] > Len(stream)
    BY <1>3
  <2>4. \A q \in 1 .. Len(stream) : stream'[q] = stream[q]
    BY <1>4 DEF N
  <2>5. QED
    BY <2>1, <2>2, <2>3, <2>4, <1>3, <1>8, <1>9, WrittenBehind

\* What a new frame adds to the stream.
LEMMA SendAppends ==
  ASSUME FramingTypeOK, NEW m \in Messages, Send(m)
  PROVE  LET N == Len(stream)
             P == Len(Payload(m))
             L == Len(sent)
         IN  /\ stream' \in Seq(Symbols) /\ Len(stream') = N + P + 1
             /\ \A q \in 1 .. N : stream'[q] = stream[q]
             /\ \A q \in 1 .. P : stream'[N + q] = Payload(m)[q]
             /\ stream'[N + P + 1] = "NUL"
             /\ sent' \in Seq(Messages) /\ Len(sent') = L + 1 /\ sent'[L + 1] = m
             /\ \A k \in 1 .. L : sent'[k] = sent[k] /\ frame_ends'[k] = frame_ends[k]
             /\ frame_ends'[L + 1] = N + P + 1 /\ DOMAIN frame_ends' = 1 .. L + 1
             /\ frame_ends' \in [1 .. L + 1 -> 1 .. N + P + 1]
<1> DEFINE N == Len(stream)
           P == Len(Payload(m))
           L == Len(sent)
           nul == <<"NUL">>
           more == stream \o Payload(m)
<1>1. /\ L \in Nat /\ DOMAIN sent = 1 .. L /\ N \in Nat
      /\ \A k \in 1 .. L : frame_ends[k] \in 1 .. N
  BY Counted DEF FramingTypeOK
<1>2. Payload(m) \in Seq(Symbols) /\ P \in Nat
  BY PayloadSymbols
<1>3. stream \in Seq(Symbols)
  BY DEF FramingTypeOK
<1>4. nul \in Seq(Symbols) /\ Len(nul) = 1 /\ nul[1] = "NUL"
  BY DEF Symbols
<1>5. stream' = more \o nul
  BY DEF Send
<1> HIDE DEF nul, more
<1>6. /\ more \in Seq(Symbols) /\ Len(more) = N + P
      /\ \A q \in 1 .. N : more[q] = stream[q]
      /\ \A q \in 1 .. P : more[N + q] = Payload(m)[q]
  <2>1. \A q \in 1 .. P : more[N + q] = Payload(m)[q]
    BY <1>2, <1>3, Joined, SMT DEF more
  <2>2. more \in Seq(Symbols) /\ Len(more) = N + P /\ \A q \in 1 .. N : more[q] = stream[q]
    BY <1>2, <1>3, Joined, Zenon DEF more
  <2>3. QED
    BY <2>1, <2>2
<1>7. /\ stream' \in Seq(Symbols) /\ Len(stream') = N + P + 1
      /\ \A q \in 1 .. N + P : stream'[q] = more[q]
      /\ stream'[N + P + 1] = "NUL"
  <2>1. \A q \in 1 .. Len(nul) : (more \o nul)[Len(more) + q] = nul[q]
    <3>1. more \in Seq(Symbols) /\ nul \in Seq(Symbols)
      BY <1>4, <1>6
    <3>2. QED
      BY <3>1, Joined, SMT
  <2>2. /\ more \o nul \in Seq(Symbols) /\ Len(more \o nul) = Len(more) + Len(nul)
        /\ \A q \in 1 .. Len(more) : (more \o nul)[q] = more[q]
    <3>1. more \in Seq(Symbols) /\ nul \in Seq(Symbols)
      BY <1>4, <1>6
    <3>2. QED
      BY <3>1, Joined, Zenon
  <2>3. QED
    BY <2>1, <2>2, <1>4, <1>5, <1>6
<1>8. /\ \A q \in 1 .. N : stream'[q] = stream[q]
      /\ \A q \in 1 .. P : stream'[N + q] = Payload(m)[q]
  <2> HIDE DEF N, P
  <2>1. /\ \A q \in 1 .. N : q \in 1 .. N + P
        /\ \A q \in 1 .. P : N + q \in 1 .. N + P
    BY <1>1, <1>2 DEF N
  <2>2. QED
    BY <2>1, <1>6, <1>7
<1>9. /\ sent' \in Seq(Messages) /\ Len(sent') = L + 1 /\ sent'[L + 1] = m
      /\ \A k \in 1 .. L : sent'[k] = sent[k]
  <2>1. sent \in Seq(Messages) /\ sent' = Append(sent, m)
    BY DEF FramingTypeOK, Send
  <2>2. QED
    BY <2>1, AppendProperties
<1>10. /\ frame_ends'[L + 1] = N + P + 1
       /\ \A k \in 1 .. L : frame_ends'[k] = frame_ends[k]
       /\ DOMAIN frame_ends' = 1 .. L + 1
       /\ frame_ends' \in Seq(Nat)
  <2>1. frame_ends \in [1 .. L -> Nat]
    BY <1>1 DEF FramingTypeOK
  <2>2. frame_ends \in Seq(Nat) /\ Len(frame_ends) = L
    BY <2>1, <1>1
  <2>3. frame_ends' = Append(frame_ends, N + P + 1) /\ N + P + 1 \in Nat
    BY <1>1, <1>2, <1>7 DEF Send
  <2> HIDE DEF L, N, P
  <2>4. QED
    BY <2>2, <2>3, AppendProperties, LenProperties
<1>11. frame_ends' \in [1 .. L + 1 -> 1 .. N + P + 1]
  <2>1. \A k \in 1 .. L + 1 : frame_ends'[k] \in 1 .. N + P + 1
    BY <1>1, <1>2, <1>10
  <2>2. frame_ends' \in [1 .. L + 1 -> Nat]
    BY <1>10, LenProperties
  <2>3. QED
    BY <2>1, <2>2
<1>12. QED
  BY <1>7, <1>8, <1>9, <1>10, <1>11

\* A new frame is written behind the last one and its heartbeats.
LEMMA SendKeepsFraming ==
  ASSUME FramingInv, NEW m \in Messages, Send(m)
  PROVE  FramingInv'
<1> DEFINE N == Len(stream)
           P == Len(Payload(m))
           L == Len(sent)
<1>1. FramingTypeOK /\ StreamInv
  BY DEF FramingInv
<1>2. /\ DOMAIN sent = 1 .. L /\ L \in Nat /\ N \in Nat /\ beats \in Nat
      /\ \A k \in 0 .. L : End(k) \in Nat /\ End(k) <= N
      /\ \A k \in 1 .. L : frame_ends[k] \in Nat /\ frame_ends[k] <= N /\ 1 <= frame_ends[k]
      /\ \A k \in 1 .. L : Begin(k) \in Int /\ frame_ends[k] = Begin(k) + Len(Payload(sent[k])) + 1
                           /\ Len(Payload(sent[k])) \in Nat \ {0}
      /\ taken \in Nat /\ taken <= N /\ DOMAIN stream = 1 .. N
  BY <1>1, Counted
<1>3. P \in Nat \ {0} /\ \A q \in 1 .. P : Payload(m)[q] # "NUL"
  BY PayloadSymbols
<1>4. UNCHANGED <<beats, taken, frame_buffer, received>>
  BY DEF Send
<1>5. /\ stream' \in Seq(Symbols) /\ Len(stream') = N + P + 1
      /\ \A q \in 1 .. N : stream'[q] = stream[q]
      /\ \A q \in 1 .. P : stream'[N + q] = Payload(m)[q]
      /\ stream'[N + P + 1] = "NUL"
      /\ sent' \in Seq(Messages) /\ Len(sent') = L + 1 /\ sent'[L + 1] = m
      /\ \A k \in 1 .. L : sent'[k] = sent[k] /\ frame_ends'[k] = frame_ends[k]
      /\ frame_ends'[L + 1] = N + P + 1 /\ frame_ends' \in [1 .. L + 1 -> 1 .. N + P + 1]
  BY <1>1, SendAppends
<1> HIDE DEF N, P, L
<1>6. L \in Nat /\ N \in Nat /\ P \in Nat \ {0}
  BY <1>2, <1>3
<1>7. DOMAIN sent' = 1 .. L + 1 /\ DOMAIN stream' = 1 .. N + P + 1
  BY <1>5, LenProperties
<1>8. \A k \in 0 .. L : (IF k = 0 THEN 0 ELSE frame_ends'[k]) = End(k)
  BY <1>2, <1>5 DEF End
<1>9. \A k \in 0 .. L : End(k)' = End(k)
  BY <1>8 DEF End
<1>10. \A k \in 1 .. L : Begin(k)' = Begin(k)
  BY <1>5 DEF Begin
<1>11. End(Len(sent))' = N + P + 1
  BY <1>2, <1>5 DEF End
<1>12. ASSUME NEW k, k = L + 1  PROVE Begin(k)' = N /\ End(k - 1)' = End(L)
  <2>1. k \in Int /\ k - 1 = L /\ sent'[k] = m /\ frame_ends'[k] = N + P + 1
    BY <1>2, <1>5, <1>12
  <2>2. Begin(k)' = N
    BY <2>1, <1>2, <1>3 DEF Begin, P
  <2>3. QED
    BY <2>1, <2>2, <1>2, <1>9
<1>13. N - End(L) \in 0 .. beats /\ \A q \in End(L) + 1 .. N : stream[q] = "EOL"
  BY <1>1 DEF StreamInv, N, L
<1>14. FramingTypeOK'
  BY <1>1, <1>2, <1>3, <1>4, <1>5, <1>7 DEF FramingTypeOK
<1>15. StreamInv'
  <2>1. ASSUME NEW k \in 1 .. L  PROVE FrameAt(k)'
    <3>1. FrameAt(k) /\ k - 1 \in 0 .. L /\ k \in 0 .. L
      <4>1. FrameAt(k)
        BY <1>1, <1>2 DEF StreamInv
      <4>2. QED
        BY <4>1, <1>6
    <3>2. /\ End(k - 1) \in Nat /\ frame_ends[k] \in Nat /\ 1 <= frame_ends[k] /\ frame_ends[k] <= N
          /\ Begin(k) \in Int /\ frame_ends[k] = Begin(k) + Len(Payload(sent[k])) + 1
          /\ Len(Payload(sent[k])) \in Nat \ {0}
      BY <3>1, <1>2
    <3>3. Begin(k) >= 0
      BY <3>1, <3>2, <1>2 DEF FrameAt
    <3>4. \A q \in End(k - 1) + 1 .. Begin(k) : q \in 1 .. N
      BY <3>2, <1>2
    <3>5. \A q \in 1 .. Len(Payload(sent[k])) : Begin(k) + q \in 1 .. N
      BY <3>2, <3>3, <1>6
    <3>6. Begin(k)' \in End(k - 1)' .. End(k - 1)' + beats'
      BY <3>1, <1>4, <1>9, <1>10 DEF FrameAt
    <3>7. \A q \in End(k - 1)' + 1 .. Begin(k)' : stream'[q] = "EOL"
      BY <3>1, <3>4, <1>5, <1>9, <1>10 DEF FrameAt
    <3>8. \A q \in 1 .. Len(Payload(sent[k])) : stream'[Begin(k)' + q] = Payload(sent[k])[q]
      <4> SUFFICES ASSUME NEW q \in 1 .. Len(Payload(sent[k]))
                   PROVE  stream'[Begin(k)' + q] = Payload(sent[k])[q]
        OBVIOUS
      <4>1. stream[Begin(k) + q] = Payload(sent[k])[q]
        BY <3>1 DEF FrameAt
      <4>2. stream'[Begin(k) + q] = stream[Begin(k) + q]
        BY <3>5, <1>5
      <4>3. QED
        BY <4>1, <4>2, <1>10
    <3>9. stream'[frame_ends'[k]] = "NUL"
      <4>1. frame_ends'[k] = frame_ends[k] /\ frame_ends[k] \in 1 .. N
        BY <3>2, <1>2, <1>5
      <4>2. QED
        BY <4>1, <3>1, <1>5 DEF FrameAt
    <3>10. QED
      BY <3>6, <3>7, <3>8, <3>9, <1>5 DEF FrameAt
  <2>2. ASSUME NEW k, k = L + 1  PROVE FrameAt(k)'
    <3>1. sent'[k] = m /\ frame_ends'[k] = N + P + 1
      BY <2>2, <1>5
    <3>2. Begin(k)' \in End(k - 1)' .. End(k - 1)' + beats'
      BY <2>2, <1>2, <1>4, <1>12, <1>13
    <3>3. \A q \in End(k - 1)' + 1 .. Begin(k)' : stream'[q] = "EOL"
      <4>1. \A q \in End(L) + 1 .. N : q \in 1 .. N
        BY <1>2
      <4>2. QED
        BY <4>1, <2>2, <1>5, <1>12, <1>13
    <3>4. \A q \in 1 .. P : stream'[Begin(k)' + q] = Payload(m)[q]
      BY <2>2, <1>5, <1>12
    <3>5. stream'[frame_ends'[k]] = "NUL"
      BY <3>1, <1>5
    <3>6. QED
      BY <3>1, <3>2, <3>3, <3>4, <3>5 DEF FrameAt, P
  <2>3. \A k \in DOMAIN sent' : FrameAt(k)'
    <3>1. \A k \in DOMAIN sent' : k \in 1 .. L \/ k = L + 1
      BY <1>6, <1>7
    <3>2. QED
      BY <2>1, <2>2, <3>1
  <2>4. ASSUME NEW j \in DOMAIN sent', NEW k \in DOMAIN sent', j < k  PROVE frame_ends'[j] <= Begin(k)'
    <3>1. j \in 1 .. L /\ frame_ends'[j] = frame_ends[j] /\ frame_ends[j] <= N
      <4>1. j \in Int /\ 1 <= j /\ j <= L
        BY <2>4, <1>2, <1>7
      <4>2. j \in 1 .. L
        BY <4>1, <1>2
      <4>3. QED
        BY <4>2, <1>2, <1>5
    <3>2. CASE k \in 1 .. L
      <4>1. frame_ends[j] <= Begin(k)
        BY <3>1, <3>2, <2>4, <1>1, <1>2 DEF StreamInv
      <4>2. QED
        BY <4>1, <3>1, <3>2, <1>10
    <3>3. CASE k = L + 1
      BY <3>1, <3>3, <1>12
    <3>4. k \in 1 .. L \/ k = L + 1
      BY <1>2, <1>7
    <3>5. QED
      BY <3>2, <3>3, <3>4
  <2>5. ASSUME NEW q \in Nuls(stream)'  PROVE \E k \in DOMAIN sent' : q = frame_ends'[k]
    <3>1. q \in 1 .. N + P + 1 /\ stream'[q] = "NUL"
      BY <1>7 DEF Nuls
    <3>2. CASE q \in 1 .. N
      <4>1. q \in Nuls(stream)
        BY <3>1, <3>2, <1>2, <1>5 DEF Nuls
      <4>2. PICK k \in DOMAIN sent : q = frame_ends[k]
        BY <4>1, <1>1 DEF StreamInv
      <4>3. k \in 1 .. L /\ k \in DOMAIN sent'
        BY <1>2, <1>7
      <4>4. QED
        BY <4>2, <4>3, <1>5
    <3>3. CASE q > N /\ q <= N + P
      <4>1. q - N \in 1 .. P /\ N + (q - N) = q
        BY <3>1, <3>3, <1>2, <1>3
      <4>2. QED
        BY <3>1, <4>1, <1>3, <1>5
    <3>4. CASE q = N + P + 1
      <4>1. L + 1 \in DOMAIN sent'
        BY <1>2, <1>7
      <4>2. QED
        BY <3>4, <4>1, <1>5
    <3>5. q \in 1 .. N \/ (q > N /\ q <= N + P) \/ q = N + P + 1
      BY <3>1, <1>2, <1>3
    <3>6. QED
      BY <3>2, <3>3, <3>4, <3>5
  <2>6. Len(stream') - End(Len(sent))' \in 0 .. beats'
    BY <1>2, <1>3, <1>4, <1>5, <1>11
  <2>7. \A q \in End(Len(sent))' + 1 .. Len(stream') : stream'[q] = "EOL"
    BY <1>2, <1>3, <1>5, <1>11
  <2>8. QED
    BY <2>3, <2>4, <2>5, <2>6, <2>7 DEF StreamInv
<1>16. QED
  <2>1. Len(sent) <= Len(sent') /\ Len(stream) <= Len(stream')
    BY <1>2, <1>3, <1>5 DEF L, N
  <2>2. \A k \in DOMAIN sent : sent'[k] = sent[k] /\ frame_ends'[k] = frame_ends[k]
    BY <1>2, <1>5
  <2>3. \A k \in DOMAIN sent' : k \notin DOMAIN sent => frame_ends'[k] > Len(stream)
    <3>1. \A k \in DOMAIN sent' : k \notin DOMAIN sent => k = L + 1
      BY <1>2, <1>7
    <3>2. N + P + 1 > N
      BY <1>2, <1>3
    <3>3. QED
      BY <3>1, <3>2, <1>5 DEF N
  <2>4. \A q \in 1 .. Len(stream) : stream'[q] = stream[q]
    BY <1>5 DEF N
  <2>5. QED
    BY <2>1, <2>2, <2>3, <2>4, <1>4, <1>14, <1>15, WrittenBehind

\* The frames end one after the other.
LEMMA EndsInOrder ==
  ASSUME FramingTypeOK, StreamInv
  PROVE  \A j, k \in DOMAIN sent : j < k => frame_ends[j] < frame_ends[k]
<1>1. \A k \in DOMAIN sent : /\ Begin(k) \in Int /\ frame_ends[k] = Begin(k) + Len(Payload(sent[k])) + 1
                             /\ Len(Payload(sent[k])) \in Nat \ {0} /\ frame_ends[k] \in Nat
  BY Counted
<1>2. \A k \in DOMAIN sent : Begin(k) < frame_ends[k]
  BY <1>1
<1>3. \A j, k \in DOMAIN sent : j < k => frame_ends[j] <= Begin(k)
  BY DEF StreamInv
<1>4. QED
  BY <1>1, <1>2, <1>3

\* What has been taken up to some position are the first so many frames.
LEMMA ArrivedUpTo ==
  ASSUME FramingTypeOK, StreamInv, NEW t \in Nat
  PROVE  \E z \in 0 .. Len(sent) : \A k \in DOMAIN sent : frame_ends[k] <= t <=> k <= z
<1> DEFINE L == Len(sent)
           T == {k \in 0 .. L : \A j \in 1 .. L : j > k => frame_ends[j] > t}
<1>1. L \in Nat /\ DOMAIN sent = 1 .. L /\ \A k \in 1 .. L : frame_ends[k] \in Nat
  BY Counted
<1>2. \A j, k \in 1 .. L : j < k => frame_ends[j] < frame_ends[k]
  BY <1>1, EndsInOrder
<1> HIDE DEF L
<1>3. T \in SUBSET Nat /\ L \in T
  BY <1>1
<1>4. PICK z \in T : \A y \in T : z <= y
  BY <1>3, SmallestNat
<1>5. z \in 0 .. L /\ \A j \in 1 .. L : j > z => frame_ends[j] > t
  OBVIOUS
<1>6. ASSUME z # 0  PROVE z \in 1 .. L /\ frame_ends[z] <= t
  <2>1. z - 1 \in 0 .. L /\ z - 1 \notin T
    <3>1. z - 1 \in 0 .. L /\ ~(z <= z - 1)
      BY <1>1, <1>5, <1>6
    <3> HIDE DEF T
    <3>2. QED
      BY <3>1, <1>4
  <2>2. PICK j \in 1 .. L : j > z - 1 /\ ~(frame_ends[j] > t)
    BY <2>1
  <2>3. j = z
    BY <2>2, <1>1, <1>5
  <2>4. QED
    BY <2>2, <2>3, <1>1
<1>7. ASSUME NEW k \in 1 .. L  PROVE frame_ends[k] <= t <=> k <= z
  <2>1. CASE k > z
    BY <2>1, <1>1, <1>5
  <2>2. CASE k = z
    BY <2>2, <1>1, <1>5, <1>6
  <2>3. CASE k < z
    BY <2>3, <1>1, <1>2, <1>5, <1>6
  <2>4. QED
    BY <2>1, <2>2, <2>3, <1>1, <1>5
<1>8. QED
  BY <1>1, <1>5, <1>7 DEF L

\* Part of the stream is what it is read as.
Reads(s, b, t) ==
  s \in Seq(Symbols) /\ Len(s) = t - b /\ \A q \in 1 .. t - b : s[q] = stream[b + q]

\* The buffer and a message are the stream from where the buffer begins.
LEMMA CombinedReads ==
  ASSUME FramingTypeOK, NEW a, BufferInv(a), NEW n \in 1 .. Len(stream) - taken
  PROVE  Reads(frame_buffer \o SubSeq(stream, taken + 1, taken + n), BufferStart, taken + n)
<1> DEFINE b == frame_buffer
           c == SubSeq(stream, taken + 1, taken + n)
<1>1. /\ taken \in Nat /\ Len(b) \in Nat /\ Len(stream) \in Nat /\ n \in Nat /\ n >= 1
      /\ taken + n <= Len(stream)
  BY Counted
<1>2. b \in Seq(Symbols) /\ stream \in Seq(Symbols)
  BY DEF FramingTypeOK
<1>3. /\ c \in Seq(Symbols) /\ Len(c) = n /\ \A k \in 1 .. n : c[k] = stream[taken + k]
  <2> DEFINE i == taken + 1
             j == taken + n
  <2>1. i \in 1 .. Len(stream) + 1 /\ j \in i - 1 .. Len(stream) /\ j - i + 1 = n
    BY <1>1
  <2>2. \A k \in 1 .. n : i + k - 1 = taken + k
    BY <1>1
  <2>3. c = SubSeq(stream, i, j)
    OBVIOUS
  <2> HIDE DEF i, j, c
  <2>4. /\ c \in Seq(Symbols) /\ Len(c) = j - i + 1
        /\ \A k \in 1 .. j - i + 1 : c[k] = stream[i + k - 1]
    BY <2>1, <2>3, <1>2, PartOf
  <2>5. QED
    BY <2>1, <2>2, <2>4
<1> HIDE DEF c
<1>4. /\ b \o c \in Seq(Symbols) /\ Len(b \o c) = Len(b) + n
      /\ \A q \in 1 .. Len(b) : (b \o c)[q] = b[q]
      /\ \A q \in 1 .. n : (b \o c)[Len(b) + q] = c[q]
  <2>1. c \in Seq(Symbols) /\ b \in Seq(Symbols)
    BY <1>2, <1>3
  <2>2. \A q \in 1 .. Len(c) : (b \o c)[Len(b) + q] = c[q]
    BY <2>1, Joined, SMT
  <2>3. /\ b \o c \in Seq(Symbols) /\ Len(b \o c) = Len(b) + Len(c)
        /\ \A q \in 1 .. Len(b) : (b \o c)[q] = b[q]
    BY <2>1, Joined, Zenon
  <2>4. QED
    BY <2>2, <2>3, <1>3
<1>5. BufferStart = taken - Len(b)
  BY DEF BufferStart
<1> DEFINE s == b \o c
           l == Len(b)
           t == taken + n
<1>6. \A q \in 1 .. l : b[q] = stream[BufferStart + q]
  BY DEF BufferInv
<1> HIDE DEF s, l, b
<1>7. Len(s) = t - BufferStart /\ t - BufferStart = l + n
  BY <1>1, <1>4, <1>5 DEF l, s
<1>8. ASSUME NEW q \in 1 .. l + n  PROVE s[q] = stream[BufferStart + q]
  <2>1. CASE q <= l
    <3>1. q \in 1 .. l
      BY <2>1, <1>1 DEF l
    <3>2. QED
      BY <3>1, <1>4, <1>6 DEF s, l
  <2>2. CASE q > l
    <3>1. q - l \in 1 .. n /\ l + (q - l) = q /\ taken + (q - l) = BufferStart + q
      BY <2>2, <1>1, <1>5 DEF l
    <3>2. s[l + (q - l)] = c[q - l]
      BY <3>1, <1>4 DEF s, l
    <3>3. QED
      BY <3>1, <3>2, <1>3
  <2>3. QED
    BY <2>1, <2>2, <1>1 DEF l
<1>9. QED
  BY <1>4, <1>7, <1>8 DEF Reads, s, b, c, t

\* A part of what is read as a part of the stream is read likewise.
LEMMA PartReads ==
  ASSUME FramingTypeOK, NEW s, NEW b \in Int, NEW t \in Int, Reads(s, b, t), b <= t,
         NEW u \in b .. t, NEW v \in u .. t
  PROVE  Reads(SubSeq(s, u - b + 1, v - b), u, v)
<1> DEFINE p == SubSeq(s, u - b + 1, v - b)
<1>1. s \in Seq(Symbols) /\ Len(s) = t - b /\ \A q \in 1 .. t - b : s[q] = stream[b + q]
  BY DEF Reads
<1>2. /\ u - b + 1 \in 1 .. Len(s) + 1 /\ v - b \in u - b + 1 - 1 .. Len(s)
      /\ v - b - (u - b + 1) + 1 = v - u
  BY <1>1
<1>3. /\ p \in Seq(Symbols) /\ Len(p) = v - b - (u - b + 1) + 1
      /\ \A q \in 1 .. v - b - (u - b + 1) + 1 : p[q] = s[u - b + 1 + q - 1]
  BY <1>1, <1>2, PartOf
<1> HIDE DEF p
<1>4. \A q \in 1 .. v - u :
        u - b + 1 + q - 1 = u - b + q /\ u - b + q \in 1 .. t - b /\ b + (u - b + q) = u + q
  BY <1>1
<1>5. \A q \in 1 .. v - u : p[q] = stream[u + q]
  BY <1>1, <1>2, <1>3, <1>4
<1>6. QED
  BY <1>2, <1>3, <1>5 DEF Reads, p

\* A position among those of f, after 0.
From(f, k) == IF k = 0 THEN 0 ELSE f[k]

\* split("\x00") cuts at the NULs.
LEMMA SplitAtNuls ==
  ASSUME NEW s \in Seq(Symbols), NEW d \in Nat, NEW f \in [1 .. d -> 1 .. Len(s)],
         Increasing(f, d), Nuls(s) = {f[k] : k \in 1 .. d}
  PROVE  /\ DOMAIN Pieces(s) = 1 .. d
         /\ \A k \in 1 .. d : Pieces(s)[k] = SubSeq(s, From(f, k - 1) + 1, f[k] - 1)
         /\ Remainder(s) = SubSeq(s, From(f, d) + 1, Len(s))
<1> DEFINE g == [k \in 1 .. d + 1 |-> From(f, k - 1)]
<1>1. d + 1 \in Nat /\ 1 \in 1 .. d + 1 /\ d + 1 \in 1 .. d + 1
  OBVIOUS
<1>2. \A k \in 1 .. d : k \in 1 .. d + 1 /\ k + 1 \in 1 .. d + 1 /\ k + 1 - 1 = k /\ k # 0
  OBVIOUS
<1>3. \A k \in 1 .. d + 1 : k = 1 \/ (k # 1 /\ k - 1 \in 1 .. d /\ k - 1 # 0 /\ (k - 1) + 1 = k)
  OBVIOUS
<1>4. Len(s) \in Nat /\ \A k \in 1 .. d : f[k] \in Int /\ 0 < f[k]
  BY LenProperties
<1>5. /\ DOMAIN g = 1 .. d + 1 /\ g = [k \in 1 .. d + 1 |-> g[k]]
      /\ \A k \in 1 .. d + 1 : g[k] = From(f, k - 1)
  OBVIOUS
<1> HIDE DEF g
<1>6. g[1] = 0
  BY <1>1, <1>5 DEF From
<1>7. \A k \in 1 .. d : g[k + 1] = f[k]
  <2> TAKE k \in 1 .. d
  <2>1. g[k + 1] = From(f, k)
    BY <1>2, <1>5
  <2>2. QED
    BY <2>1, <1>2 DEF From
<1>8. \A k \in 1 .. d + 1 : k # 1 => g[k] = f[k - 1]
  BY <1>3, <1>5 DEF From
<1>9. \A k \in 1 .. d + 1 : g[k] \in Int
  BY <1>3, <1>4, <1>6, <1>8
<1>10. g \in [1 .. d + 1 -> Int] /\ Increasing(g, d + 1)
  <2>1. ASSUME NEW i \in 1 .. d + 1, NEW j \in 1 .. d + 1, i < j  PROVE g[i] < g[j]
    <3>1. j # 1 /\ j - 1 \in 1 .. d /\ g[j] = f[j - 1]
      BY <2>1, <1>8
    <3>2. CASE i = 1
      BY <3>1, <3>2, <1>4, <1>6
    <3>3. CASE i # 1
      <4>1. i - 1 \in 1 .. d /\ g[i] = f[i - 1] /\ i - 1 < j - 1
        BY <2>1, <3>3, <1>8
      <4>2. QED
        BY <4>1, <3>1 DEF Increasing
    <3>4. QED
      BY <3>2, <3>3
  <2>2. QED
    BY <2>1, <1>5, <1>9 DEF Increasing
<1>11. Bounds(s) = {g[k] : k \in 1 .. d + 1}
  <2>1. ASSUME NEW k \in 1 .. d + 1  PROVE g[k] \in Bounds(s)
    BY <1>3, <1>6, <1>8 DEF Bounds
  <2>2. ASSUME NEW p \in Bounds(s)  PROVE p \in {g[k] : k \in 1 .. d + 1}
    <3>1. CASE p = 0
      BY <3>1, <1>1, <1>6
    <3>2. CASE p # 0
      <4>1. PICK k \in 1 .. d : p = f[k]
        BY <3>2 DEF Bounds
      <4>2. QED
        BY <4>1, <1>2, <1>7
    <3>3. QED
      BY <3>1, <3>2
  <2>3. QED
    BY <2>1, <2>2
<1>12. Cardinality(Nuls(s)) = d
  <2>1. f \in [1 .. d -> Int]
    BY <1>4
  <2>2. QED
    BY <2>1, EnumeratedCardinality
<1>13. \A k \in 1 .. d + 1 : Nth(Bounds(s), k) = g[k]
  BY <1>1, <1>10, <1>11, EnumeratedNth
<1>14. /\ DOMAIN Pieces(s) = 1 .. d
       /\ \A k \in 1 .. d : Pieces(s)[k] = SubSeq(s, g[k] + 1, g[k + 1] - 1)
  <2>1. Pieces(s) = [k \in 1 .. d |->
          SubSeq(s, Nth(Bounds(s), k) + 1, Nth(Bounds(s), k + 1) - 1)]
    BY <1>12 DEF Pieces
  <2>2. \A k \in 1 .. d : Nth(Bounds(s), k) = g[k] /\ Nth(Bounds(s), k + 1) = g[k + 1]
    BY <1>2, <1>13
  <2>3. QED
    BY <2>1, <2>2
<1>15. \A k \in 1 .. d : Pieces(s)[k] = SubSeq(s, From(f, k - 1) + 1, f[k] - 1)
  BY <1>2, <1>5, <1>7, <1>14
<1>16. Remainder(s) = SubSeq(s, From(f, d) + 1, Len(s))
  <2>1. \A k \in 1 .. d + 1 : k = d + 1 \/ k < d + 1
    OBVIOUS
  <2>2. \A k \in 1 .. d + 1 : g[k] <= g[d + 1]
    <3> TAKE k \in 1 .. d + 1
    <3>1. CASE k = d + 1
      BY <3>1, <1>1, <1>9
    <3>2. CASE k < d + 1
      <4>1. g[k] < g[d + 1]
        BY <3>2, <1>1, <1>10 DEF Increasing
      <4>2. QED
        BY <4>1, <1>1, <1>9
    <3>3. QED
      BY <3>1, <3>2, <2>1
  <2>3. Bounds(s) \in SUBSET Int /\ g[d + 1] \in Bounds(s) /\ \A p \in Bounds(s) : p <= g[d + 1]
    BY <2>2, <1>1, <1>9, <1>11
  <2>4. Max(Bounds(s)) = g[d + 1]
    BY <2>3, MaxIs
  <2>5. d + 1 - 1 = d
    OBVIOUS
  <2>6. g[d + 1] = From(f, d)
    BY <2>5, <1>1, <1>5
  <2>7. QED
    BY <2>4, <2>6 DEF Remainder
<1>17. QED
  BY <1>14, <1>15, <1>16

\* Where a part of the stream from b on, with frame a + 1 the first that ends
\* in it, is cut: at its beginning, and at the end of each frame.
Cut(a, b, k) == IF k = 0 THEN b ELSE frame_ends[a + k]

\* split("\x00") cuts what is read where the frames end.
LEMMA SplitAtEnds ==
  ASSUME FramingTypeOK, StreamInv, NEW a \in Nat, NEW d \in Nat, a + d <= Len(sent),
         NEW b \in Nat, NEW t \in Nat, b <= t, t <= Len(stream), NEW s, Reads(s, b, t),
         \A k \in DOMAIN sent : frame_ends[k] <= b <=> k <= a,
         \A k \in DOMAIN sent : frame_ends[k] <= t <=> k <= a + d
  PROVE  /\ DOMAIN Pieces(s) = 1 .. d
         /\ \A k \in 1 .. d : Reads(Pieces(s)[k], Cut(a, b, k - 1), Cut(a, b, k) - 1)
         /\ \A k \in 0 .. d : Cut(a, b, k) \in b .. t
         /\ Reads(Remainder(s), Cut(a, b, d), t)
<1> DEFINE c == [k \in 0 .. d |-> Cut(a, b, k)]
           f == [k \in 1 .. d |-> c[k] - b]
<1>1. /\ DOMAIN sent = 1 .. Len(sent) /\ Len(sent) \in Nat /\ Len(stream) \in Nat
      /\ DOMAIN stream = 1 .. Len(stream) /\ \A k \in DOMAIN sent : frame_ends[k] \in Nat
  BY Counted
<1>2. \A k \in 1 .. d : a + k \in DOMAIN sent /\ ~(a + k <= a) /\ a + k <= a + d
                        /\ k \in 0 .. d /\ k # 0 /\ k - 1 \in 0 .. d
  BY <1>1
<1>3. \A k \in 0 .. d : c[k] = Cut(a, b, k)
  OBVIOUS
<1>4. 0 \in 0 .. d /\ d \in 0 .. d
  OBVIOUS
<1> HIDE DEF c
<1>5. c[0] = b
  BY <1>3, <1>4 DEF Cut
<1>6. \A k \in 1 .. d : c[k] = frame_ends[a + k]
  BY <1>2, <1>3 DEF Cut
<1>7. \A k \in 1 .. d : c[k] \in Int /\ b < c[k] /\ c[k] <= t
  <2> TAKE k \in 1 .. d
  <2>1. c[k] = frame_ends[a + k] /\ a + k \in DOMAIN sent /\ ~(a + k <= a) /\ a + k <= a + d
    BY <1>2, <1>6
  <2>2. frame_ends[a + k] \in Nat /\ ~(frame_ends[a + k] <= b) /\ frame_ends[a + k] <= t
    BY <2>1, <1>1
  <2>3. QED
    BY <2>1, <2>2
<1>8. \A j, k \in 1 .. d : j < k => c[j] < c[k]
  <2> TAKE j, k \in 1 .. d
  <2>1. j < k => a + j < a + k
    OBVIOUS
  <2>2. QED
    BY <2>1, <1>2, <1>6, EndsInOrder
<1>9. \A k \in 0 .. d : c[k] \in Int /\ b <= c[k] /\ c[k] <= t
  <2> TAKE k \in 0 .. d
  <2>1. k = 0 \/ k \in 1 .. d
    OBVIOUS
  <2>2. QED
    BY <2>1, <1>5, <1>7
<1>10. s \in Seq(Symbols) /\ Len(s) = t - b /\ DOMAIN s = 1 .. t - b
       /\ \A q \in 1 .. t - b : s[q] = stream[b + q]
  BY LenProperties DEF Reads
<1>11. /\ \A k \in 1 .. d : f[k] = c[k] - b
       /\ f = [k \in 1 .. d |-> f[k]]
  OBVIOUS
<1> HIDE DEF f
<1>12. \A k \in 1 .. d : f[k] \in 1 .. t - b /\ b + f[k] = c[k]
  BY <1>7, <1>11
<1>13. f \in [1 .. d -> 1 .. Len(s)] /\ Increasing(f, d)
  <2>1. f \in [1 .. d -> 1 .. Len(s)]
    BY <1>10, <1>11, <1>12
  <2>2. \A j, k \in 1 .. d : j < k => f[j] < f[k]
    <3> TAKE j, k \in 1 .. d
    <3>1. f[j] = c[j] - b /\ f[k] = c[k] - b /\ c[j] \in Int /\ c[k] \in Int
      BY <1>7, <1>11
    <3>2. j < k => c[j] < c[k]
      BY <1>8
    <3>3. QED
      BY <3>1, <3>2
  <2>3. QED
    BY <2>1, <2>2 DEF Increasing
<1>14. Nuls(s) = {f[k] : k \in 1 .. d}
  <2>1. ASSUME NEW q \in Nuls(s)  PROVE \E k \in 1 .. d : q = f[k]
    <3>1. q \in 1 .. t - b /\ stream[b + q] = "NUL"
      BY <1>10 DEF Nuls
    <3>2. b + q \in 1 .. Len(stream) /\ b + q > b /\ b + q <= t
      BY <3>1, <1>1
    <3>3. b + q \in Nuls(stream)
      BY <3>1, <3>2, <1>1 DEF Nuls
    <3>4. PICK i \in DOMAIN sent : b + q = frame_ends[i]
      BY <3>3 DEF StreamInv
    <3>5. ~(frame_ends[i] <= b) /\ frame_ends[i] <= t
      BY <3>1, <3>2, <3>4
    <3>6. ~(i <= a) /\ i <= a + d /\ i \in Nat
      BY <3>5, <1>1
    <3>7. i - a \in 1 .. d /\ a + (i - a) = i
      BY <3>6
    <3>8. c[i - a] = b + q
      BY <3>4, <3>7, <1>6
    <3>9. f[i - a] = q
      BY <3>1, <3>7, <3>8, <1>11
    <3>10. QED
      BY <3>7, <3>9
  <2>2. ASSUME NEW k \in 1 .. d  PROVE f[k] \in Nuls(s)
    <3>1. stream[c[k]] = "NUL"
      BY <1>2, <1>6 DEF StreamInv, FrameAt
    <3>2. QED
      BY <3>1, <1>10, <1>12 DEF Nuls
  <2>3. QED
    BY <2>1, <2>2
<1>15. \A k \in 0 .. d : From(f, k) = c[k] - b
  <2> TAKE k \in 0 .. d
  <2>1. k = 0 \/ (k \in 1 .. d /\ k # 0)
    OBVIOUS
  <2>2. QED
    BY <2>1, <1>5, <1>11 DEF From
<1>16. /\ DOMAIN Pieces(s) = 1 .. d
       /\ \A k \in 1 .. d : Pieces(s)[k] = SubSeq(s, From(f, k - 1) + 1, f[k] - 1)
       /\ Remainder(s) = SubSeq(s, From(f, d) + 1, Len(s))
  BY <1>10, <1>13, <1>14, SplitAtNuls
<1>17. ASSUME NEW k \in 1 .. d  PROVE Reads(Pieces(s)[k], c[k - 1], c[k] - 1)
  <2> DEFINE u == c[k - 1]
             v == c[k] - 1
  <2>1. k - 1 \in 0 .. d /\ (k = 1 \/ (k - 1 \in 1 .. d /\ k - 1 < k))
    OBVIOUS
  <2>2. u < c[k]
    <3>1. CASE k = 1
      BY <3>1, <1>5, <1>7
    <3>2. CASE k # 1
      BY <3>2, <2>1, <1>8
    <3>3. QED
      BY <3>1, <3>2
  <2>3. u \in b .. t /\ v \in u .. t
    BY <2>1, <2>2, <1>7, <1>9
  <2>4. From(f, k - 1) + 1 = u - b + 1 /\ f[k] - 1 = v - b
    <3>1. From(f, k - 1) = c[k - 1] - b /\ f[k] = c[k] - b
      BY <2>1, <1>11, <1>15
    <3>2. c[k - 1] \in Int /\ c[k] \in Int
      BY <2>1, <1>7, <1>9
    <3>3. QED
      BY <3>1, <3>2
  <2> HIDE DEF u, v
  <2>5. Reads(SubSeq(s, u - b + 1, v - b), u, v)
    BY <2>3, PartReads
  <2>6. QED
    BY <2>4, <2>5, <1>16 DEF u, v
<1>18. Reads(Remainder(s), c[d], t)
  <2>1. c[d] \in b .. t /\ t \in c[d] .. t /\ From(f, d) + 1 = c[d] - b + 1
    BY <1>4, <1>9, <1>15
  <2>2. Reads(SubSeq(s, c[d] - b + 1, t - b), c[d], t)
    BY <2>1, PartReads
  <2>3. QED
    BY <2>1, <2>2, <1>10, <1>16
<1>19. \A k \in 0 .. d : Cut(a, b, k) \in b .. t
  BY <1>3, <1>9
<1>20. \A k \in 1 .. d : Reads(Pieces(s)[k], Cut(a, b, k - 1), Cut(a, b, k) - 1)
  BY <1>2, <1>3, <1>17
<1>21. QED
  BY <1>3, <1>4, <1>16, <1>18, <1>19, <1>20

\* A piece that begins before its frame does is that frame.
LEMMA PieceWhole ==
  ASSUME FramingTypeOK, StreamInv, NEW k \in DOMAIN sent, NEW b \in Nat,
         End(k - 1) <= b, b <= Begin(k), NEW p, Reads(p, b, frame_ends[k] - 1)
  PROVE  Text(p) # {} /\ _parse_single_frame(p) = Meaning(sent[k])
<1> DEFINE m == sent[k]
           s == Payload(m)
           j == Begin(k) - b
<1>1. m \in Messages /\ k \in 1 .. Len(sent) /\ Len(sent) \in Nat
  BY Counted
<1>2. /\ Begin(k) \in Int /\ frame_ends[k] = Begin(k) + Len(s) + 1 /\ Len(s) \in Nat \ {0}
  BY Counted
<1>3. End(k - 1) \in Nat
  <2>1. k - 1 \in 0 .. Len(sent)
    BY <1>1
  <2>2. QED
    BY <2>1, Counted
<1>4. s \in Seq(Symbols) /\ s[1] # "EOL"
  BY <1>1, PayloadSymbols, MessageSymbols
<1>5. /\ \A q \in End(k - 1) + 1 .. Begin(k) : stream[q] = "EOL"
      /\ \A q \in 1 .. Len(s) : stream[Begin(k) + q] = s[q]
  BY DEF StreamInv, FrameAt
<1> HIDE DEF s
<1>6. j \in Nat /\ b + j = Begin(k) /\ frame_ends[k] - 1 - b = j + Len(s)
  BY <1>2
<1>7. p \in Seq(Symbols) /\ Len(p) = j + Len(s) /\ \A q \in 1 .. j + Len(s) : p[q] = stream[b + q]
  BY <1>6 DEF Reads
<1> HIDE DEF j
<1>8. \A q \in 1 .. j : p[q] = "EOL"
  <2> TAKE q \in 1 .. j
  <2>1. q \in 1 .. j + Len(s) /\ b + q \in End(k - 1) + 1 .. Begin(k)
    BY <1>2, <1>3, <1>6
  <2>2. QED
    BY <2>1, <1>5, <1>7
<1>9. \A q \in 1 .. Len(s) : p[j + q] = s[q]
  <2> TAKE q \in 1 .. Len(s)
  <2>1. j + q \in 1 .. j + Len(s) /\ b + (j + q) = Begin(k) + q
    BY <1>2, <1>6
  <2>2. QED
    BY <2>1, <1>5, <1>7
<1>10. Len(s) >= 1
  BY <1>2
<1>11. StripLeft(p) = s /\ Text(p) # {}
  BY <1>4, <1>6, <1>7, <1>8, <1>9, <1>10, StripLeftOfPadded
<1>12. QED
  BY <1>1, <1>11, ParsedPayload DEF s

\* A piece that begins after its frame does is the rest of that frame.
LEMMA PieceRest ==
  ASSUME FramingTypeOK, StreamInv, NEW k \in DOMAIN sent, NEW b \in Nat,
         Begin(k) < b, b <= frame_ends[k] - 1, NEW p, Reads(p, b, frame_ends[k] - 1), Text(p) # {}
  PROVE  _parse_single_frame(p) \in Tails(sent[k])
<1> DEFINE m == sent[k]
           s == Payload(m)
           i == b - Begin(k) + 1
           r == SubSeq(s, i, Len(s))
<1>1. m \in Messages
  BY Counted
<1>2. /\ Begin(k) \in Int /\ frame_ends[k] = Begin(k) + Len(s) + 1 /\ Len(s) \in Nat \ {0}
  BY Counted
<1>3. \A q \in 1 .. Len(s) : stream[Begin(k) + q] = s[q]
  BY DEF StreamInv, FrameAt
<1>4. s \in Seq(Symbols)
  BY <1>1, PayloadSymbols
<1>5. Begin(k) \in Nat
  <2>1. k - 1 \in 0 .. Len(sent)
    BY Counted
  <2>2. End(k - 1) \in Nat /\ beats \in Nat
    BY <2>1, Counted
  <2>3. Begin(k) \in End(k - 1) .. End(k - 1) + beats
    BY DEF StreamInv, FrameAt
  <2>4. QED
    BY <2>2, <2>3
<1>6. /\ p \in Seq(Symbols) /\ Len(p) = frame_ends[k] - 1 - b
      /\ \A q \in 1 .. frame_ends[k] - 1 - b : p[q] = stream[b + q]
  BY DEF Reads
<1> HIDE DEF s
<1>7. frame_ends[k] - 1 - b = Len(s) - i + 1 /\ i \in 1 .. Len(s) + 1 /\ Len(s) \in i - 1 .. Len(s)
  BY <1>2, <1>5
<1>8. i \in 1 .. Len(s)
  <2>1. PICK q \in DOMAIN p : TRUE
    BY DEF Text
  <2>2. DOMAIN p = 1 .. Len(p)
    BY <1>6, LenProperties
  <2>3. Len(p) >= 1 /\ Len(p) = Len(s) - i + 1
    BY <2>1, <2>2, <1>2, <1>6, <1>7
  <2>4. i <= Len(s) /\ i \in Int
    BY <2>3, <1>2, <1>7
  <2>5. QED
    BY <2>4, <1>2, <1>7
<1>9. \A q \in 1 .. Len(s) - i + 1 : i + q - 1 \in 1 .. Len(s) /\ b + q = Begin(k) + (i + q - 1)
  BY <1>2, <1>5
<1> HIDE DEF i
<1>10. r \in Seq(Symbols) /\ Len(r) = Len(s) - i + 1 /\ \A q \in 1 .. Len(s) - i + 1 : r[q] = s[i + q - 1]
  BY <1>4, <1>7, PartOf
<1> HIDE DEF r
<1>11. Len(p) = Len(r) /\ \A q \in 1 .. Len(r) : p[q] = r[q]
  <2>1. \A q \in 1 .. Len(s) - i + 1 : p[q] = stream[b + q]
    BY <1>6, <1>7
  <2>2. \A q \in 1 .. Len(s) - i + 1 : stream[b + q] = s[i + q - 1]
    BY <1>3, <1>9
  <2>3. QED
    BY <2>1, <2>2, <1>6, <1>7, <1>10
<1>12. p = r
  BY <1>6, <1>10, <1>11, SameSequence
<1>13. p = Rest(m, i)
  BY <1>12 DEF Rest, r, s
<1>14. QED
  BY <1>8, <1>13 DEF Tails, s

\* Of the frame that is under way when the buffer begins, the first piece
\* hands on all, or a part or nothing if it does not fit.
LEMMA FirstPiece ==
  ASSUME FramingTypeOK, StreamInv, NEW a, BufferInv(a), a + 1 \in DOMAIN sent,
         NEW p, Reads(p, BufferStart, frame_ends[a + 1] - 1)
  PROVE  /\ Text(p) = {} => ~Fits(sent[a + 1])
         /\ Text(p) # {} => _parse_single_frame(p) \in Outcomes(sent[a + 1])
<1> DEFINE k == a + 1
           m == sent[k]
<1>1. a \in Nat /\ a + 1 - 1 = a /\ ~(a + 1 <= a)
  BY Counted DEF BufferInv
<1>2. /\ BufferStart \in Int /\ taken \in Nat /\ Len(frame_buffer) \in Nat
      /\ BufferStart = taken - Len(frame_buffer)
  BY Counted DEF BufferStart
<1>3. End(a) \in Nat /\ End(a) <= BufferStart /\ frame_ends[k] \in Nat
  BY Counted DEF BufferInv
<1>4. ~(frame_ends[k] <= taken)
  BY <1>1 DEF BufferInv
<1>5. BufferStart \in Nat /\ BufferStart <= frame_ends[k] - 1
  BY <1>2, <1>3, <1>4
<1>6. CASE BufferStart <= Begin(k)
  <2>1. End(k - 1) <= BufferStart
    BY <1>1, <1>3
  <2>2. Text(p) # {} /\ _parse_single_frame(p) = Meaning(m)
    BY <2>1, <1>5, <1>6, PieceWhole
  <2>3. QED
    BY <2>2 DEF Outcomes
<1>7. CASE Begin(k) < BufferStart
  <2>1. ~Fits(m)
    <3>1. SUFFICES ASSUME \A q \in End(a) + 1 .. BufferStart : stream[q] = "EOL"  PROVE FALSE
      BY <1>1 DEF BufferInv
    <3>2. Begin(k) \in Int /\ Len(Payload(m)) \in Nat \ {0} /\ m \in Messages /\ beats \in Nat
      BY Counted
    <3>3. FrameAt(k)
      BY DEF StreamInv
    <3>4. /\ Begin(k) \in End(k - 1) .. End(k - 1) + beats
          /\ \A q \in 1 .. Len(Payload(m)) : stream[Begin(k) + q] = Payload(m)[q]
      BY <3>3 DEF FrameAt
    <3>5. 1 \in 1 .. Len(Payload(m)) /\ Payload(m)[1] # "EOL"
      <4>1. Payload(m)[1] = m.cmd /\ m.cmd # "EOL"
        BY <3>2, PayloadSymbols, MessageSymbols
      <4>2. QED
        BY <4>1, <3>2
    <3>6. stream[Begin(k) + 1] # "EOL"
      BY <3>4, <3>5
    <3>7. Begin(k) >= End(a)
      BY <3>2, <3>4, <1>1, <1>3
    <3>8. Begin(k) + 1 \in End(a) + 1 .. BufferStart
      BY <3>2, <3>7, <1>3, <1>5, <1>7
    <3>9. QED
      BY <3>1, <3>6, <3>8
  <2>2. Text(p) # {} => _parse_single_frame(p) \in Tails(m)
    BY <1>5, <1>7, PieceRest
  <2>3. QED
    BY <2>1, <2>2 DEF Outcomes
<1>8. Begin(k) \in Int
  BY Counted
<1>9. QED
  BY <1>5, <1>6, <1>7, <1>8

\* Only a first piece may be blank; the others are handed on in their order.
LEMMA FramesOfPieces ==
  ASSUME NEW d \in Nat, NEW pieces, DOMAIN pieces = 1 .. d,
         \A k \in 1 .. d : k # 1 => Text(pieces[k]) # {}
  PROVE  \E o \in 0 .. d :
           /\ o = 0 \/ (o = 1 /\ Text(pieces[1]) = {})
           /\ DOMAIN Frames(pieces) = 1 .. d - o
           /\ \A k \in 1 .. d - o : /\ Frames(pieces)[k] = _parse_single_frame(pieces[o + k])
                                    /\ Text(pieces[o + k]) # {}
<1> DEFINE P == {k \in DOMAIN pieces : Text(pieces[k]) # {}}
<1>1. \E o \in 0 .. d : (o = 0 \/ (o = 1 /\ Text(pieces[1]) = {})) /\ P = o + 1 .. d
  <2>1. CASE 1 \in 1 .. d /\ Text(pieces[1]) = {}
    <3>1. 1 \in 0 .. d /\ P = 1 + 1 .. d
      BY <2>1
    <3>2. QED
      BY <2>1, <3>1
  <2>2. CASE ~(1 \in 1 .. d /\ Text(pieces[1]) = {})
    <3>1. 0 \in 0 .. d /\ P = 0 + 1 .. d
      BY <2>2
    <3>2. QED
      BY <3>1
  <2>3. QED
    BY <2>1, <2>2
<1>2. PICK o \in 0 .. d : (o = 0 \/ (o = 1 /\ Text(pieces[1]) = {})) /\ P = o + 1 .. d
  BY <1>1
<1>3. d - o \in Nat /\ \A k \in 1 .. d - o : o + k \in o + 1 .. d /\ o + k \in Int
  OBVIOUS
<1> DEFINE e == [k \in 1 .. d - o |-> o + k]
<1>4. \A k \in 1 .. d - o : e[k] = o + k
  OBVIOUS
<1>5. e \in [1 .. d - o -> Int] /\ Increasing(e, d - o)
  BY <1>3 DEF Increasing
<1> HIDE DEF e
<1>6. P = {e[k] : k \in 1 .. d - o}
  <2>1. \A k \in 1 .. d - o : e[k] \in P
    BY <1>2, <1>3, <1>4
  <2>2. \A q \in P : q - o \in 1 .. d - o /\ e[q - o] = q
    BY <1>2, <1>4
  <2> HIDE DEF P
  <2>3. QED
    BY <2>1, <2>2
<1>7. \A k \in 1 .. d - o : Text(pieces[o + k]) # {}
  BY <1>2, <1>3
<1> HIDE DEF P
<1>8. Cardinality(P) = d - o /\ \A k \in 1 .. d - o : Nth(P, k) = o + k
  BY <1>3, <1>4, <1>5, <1>6, EnumeratedCardinality, EnumeratedNth
<1>9. Selected(pieces, P) = [k \in 1 .. d - o |-> pieces[o + k]]
  BY <1>8 DEF Selected
<1> DEFINE full == Selected(pieces, P)
<1>10. DOMAIN full = 1 .. d - o /\ \A k \in 1 .. d - o : full[k] = pieces[o + k]
  BY <1>9
<1>11. Frames(pieces) = [k \in DOMAIN full |-> _parse_single_frame(full[k])]
  BY DEF Frames, P
<1> HIDE DEF full
<1>12. DOMAIN Frames(pieces) = 1 .. d - o
       /\ \A k \in 1 .. d - o : Frames(pieces)[k] = _parse_single_frame(pieces[o + k])
  BY <1>10, <1>11
<1>13. QED
  BY <1>2, <1>7, <1>12

\* Where a message of n symbols leaves the receiver: with the frames up to z.
LEMMA ReceiveUpTo ==
  ASSUME FramingTypeOK, StreamInv, NEW a, BufferInv(a), NEW n \in 1 .. Len(stream) - taken
  PROVE  /\ BufferStart \in Nat /\ BufferStart <= taken /\ taken + n \in Nat /\ taken + n <= Len(stream)
         /\ \A k \in DOMAIN sent : frame_ends[k] <= BufferStart <=> k <= a
         /\ \E z \in a .. Len(sent) : \A k \in DOMAIN sent : frame_ends[k] <= taken + n <=> k <= z
<1>1. /\ DOMAIN sent = 1 .. Len(sent) /\ Len(sent) \in Nat /\ Len(stream) \in Nat /\ taken \in Nat
      /\ Len(frame_buffer) \in Nat /\ BufferStart = taken - Len(frame_buffer)
      /\ \A k \in DOMAIN sent : frame_ends[k] \in Nat
  BY Counted DEF BufferStart
<1>2. /\ a \in 0 .. Len(sent) /\ End(a) <= BufferStart
      /\ \A k \in DOMAIN sent : frame_ends[k] <= taken <=> k <= a
  BY DEF BufferInv
<1>3. End(a) \in Nat
  BY <1>2, Counted
<1>4. /\ BufferStart \in Nat /\ BufferStart <= taken /\ taken + n \in Nat
      /\ taken + n <= Len(stream) /\ taken <= taken + n
  BY <1>1, <1>2, <1>3
<1>5. ASSUME NEW k \in DOMAIN sent  PROVE frame_ends[k] <= BufferStart <=> k <= a
  <2>1. CASE k < a
    <3>1. a \in DOMAIN sent /\ a # 0
      BY <2>1, <1>1, <1>2
    <3>2. frame_ends[k] < frame_ends[a] /\ End(a) = frame_ends[a]
      BY <2>1, <3>1, EndsInOrder DEF End
    <3>3. QED
      BY <2>1, <3>1, <3>2, <1>1, <1>2, <1>4
  <2>2. CASE k = a
    <3>1. End(a) = frame_ends[k]
      BY <2>2, <1>1 DEF End
    <3>2. QED
      BY <2>2, <3>1, <1>1, <1>2
  <2>3. CASE k > a
    <3>1. frame_ends[k] \in Nat /\ ~(frame_ends[k] <= taken)
      BY <2>3, <1>1, <1>2
    <3>2. QED
      BY <2>3, <3>1, <1>1, <1>2, <1>4
  <2>4. QED
    BY <2>1, <2>2, <2>3, <1>1, <1>2
<1>6. PICK z \in 0 .. Len(sent) : \A k \in DOMAIN sent : frame_ends[k] <= taken + n <=> k <= z
  BY <1>4, ArrivedUpTo
<1>7. a <= z
  <2>1. CASE a = 0
    BY <2>1, <1>6
  <2>2. CASE a # 0
    <3>1. a \in DOMAIN sent
      BY <2>2, <1>1, <1>2
    <3>2. frame_ends[a] \in Nat /\ frame_ends[a] <= taken
      BY <3>1, <1>1, <1>2
    <3>3. frame_ends[a] <= taken + n
      BY <3>2, <1>1, <1>4
    <3>4. QED
      BY <3>1, <3>3, <1>6
  <2>3. QED
    BY <2>1, <2>2
<1>8. z \in a .. Len(sent)
  BY <1>2, <1>6, <1>7
<1>9. QED
  BY <1>4, <1>5, <1>6, <1>8

\* Every frame but the first that ends in the message is handed on as it was
\* meant, and the first too, unless it does not fit.
LEMMA ReceiveHandsOn ==
  ASSUME FramingTypeOK, StreamInv, NEW a, BufferInv(a), NEW n \in 1 .. Len(stream) - taken,
         NEW z \in a .. Len(sent), \A k \in DOMAIN sent : frame_ends[k] <= taken + n <=> k <= z,
         NEW s, Reads(s, BufferStart, taken + n)
  PROVE  /\ Cut(a, BufferStart, z - a) \in BufferStart .. taken + n
         /\ Reads(Remainder(s), Cut(a, BufferStart, z - a), taken + n)
         /\ \E o \in 0 .. z - a :
              /\ o = 0 \/ (o = 1 /\ ~Fits(sent[a + 1]))
              /\ DOMAIN Frames(Pieces(s)) = 1 .. z - a - o
              /\ \A k \in 1 .. z - a - o : Frames(Pieces(s))[k] \in Outcomes(sent[a + o + k])
<1> DEFINE d == z - a
           b == BufferStart
           t == taken + n
<1>1. /\ b \in Nat /\ b <= t /\ t \in Nat /\ t <= Len(stream)
      /\ \A k \in DOMAIN sent : frame_ends[k] <= b <=> k <= a
  <2>1. b \in Nat /\ b <= taken /\ t \in Nat /\ t <= Len(stream) /\ taken \in Nat
        /\ \A k \in DOMAIN sent : frame_ends[k] <= b <=> k <= a
    BY ReceiveUpTo, Counted
  <2>2. QED
    BY <2>1
<1>2. /\ a \in Nat /\ d \in Nat /\ a + d = z /\ z <= Len(sent)
      /\ DOMAIN sent = 1 .. Len(sent) /\ Len(sent) \in Nat
  BY Counted DEF BufferInv
<1> HIDE DEF d, b, t
<1>3. /\ DOMAIN Pieces(s) = 1 .. d
      /\ \A k \in 1 .. d : Reads(Pieces(s)[k], Cut(a, b, k - 1), Cut(a, b, k) - 1)
      /\ \A k \in 0 .. d : Cut(a, b, k) \in b .. t
      /\ Reads(Remainder(s), Cut(a, b, d), t)
  <2>1. Reads(s, b, t)
    BY DEF b, t
  <2>2. \A k \in DOMAIN sent : frame_ends[k] <= t <=> k <= a + d
    BY <1>2 DEF t
  <2>3. a + d <= Len(sent)
    BY <1>2
  <2>4. QED
    BY <2>1, <2>2, <2>3, <1>1, <1>2, SplitAtEnds
<1>4. \A k \in 1 .. d : a + k \in DOMAIN sent /\ k # 0 /\ k - 1 \in 0 .. d
  BY <1>2
<1>5. ASSUME NEW k \in 1 .. d, k # 1
      PROVE  Text(Pieces(s)[k]) # {} /\ _parse_single_frame(Pieces(s)[k]) = Meaning(sent[a + k])
  <2> DEFINE i == a + k
             c == Cut(a, b, k - 1)
  <2>1. /\ i \in DOMAIN sent /\ i - 1 \in DOMAIN sent /\ i - 1 < i
        /\ i - 1 # 0 /\ a + (k - 1) = i - 1 /\ k - 1 # 0
    BY <1>2, <1>5
  <2>2. Cut(a, b, k) = frame_ends[i]
    BY <1>4 DEF Cut
  <2>3. c = frame_ends[i - 1] /\ End(i - 1) = frame_ends[i - 1]
    BY <2>1 DEF Cut, End
  <2>4. frame_ends[i - 1] <= Begin(i) /\ frame_ends[i - 1] \in Nat
    BY <2>1, Counted DEF StreamInv
  <2>5. Reads(Pieces(s)[k], c, frame_ends[i] - 1)
    BY <2>2, <1>3
  <2> HIDE DEF i, c
  <2>6. c \in Nat /\ End(i - 1) <= c /\ c <= Begin(i)
    BY <2>3, <2>4
  <2>7. QED
    BY <2>1, <2>5, <2>6, PieceWhole DEF i
<1>6. ASSUME 1 \in 1 .. d
      PROVE  /\ Text(Pieces(s)[1]) = {} => ~Fits(sent[a + 1])
             /\ Text(Pieces(s)[1]) # {} => _parse_single_frame(Pieces(s)[1]) \in Outcomes(sent[a + 1])
  <2>1. Cut(a, b, 0) = b /\ Cut(a, b, 1) = frame_ends[a + 1] /\ 1 - 1 = 0
    BY DEF Cut
  <2>2. Reads(Pieces(s)[1], BufferStart, frame_ends[a + 1] - 1)
    BY <2>1, <1>3, <1>6 DEF b
  <2>3. a + 1 \in DOMAIN sent
    BY <1>4, <1>6
  <2>4. QED
    BY <2>2, <2>3, FirstPiece
<1>7. PICK o \in 0 .. d :
        /\ o = 0 \/ (o = 1 /\ Text(Pieces(s)[1]) = {})
        /\ DOMAIN Frames(Pieces(s)) = 1 .. d - o
        /\ \A k \in 1 .. d - o : /\ Frames(Pieces(s))[k] = _parse_single_frame(Pieces(s)[o + k])
                                 /\ Text(Pieces(s)[o + k]) # {}
  <2> DEFINE pieces == Pieces(s)
  <2>1. d \in Nat /\ DOMAIN pieces = 1 .. d
    BY <1>2, <1>3
  <2>2. \A k \in 1 .. d : k # 1 => Text(pieces[k]) # {}
    BY <1>5
  <2> HIDE DEF pieces
  <2>3. \E o \in 0 .. d :
           /\ o = 0 \/ (o = 1 /\ Text(pieces[1]) = {})
           /\ DOMAIN Frames(pieces) = 1 .. d - o
           /\ \A k \in 1 .. d - o : /\ Frames(pieces)[k] = _parse_single_frame(pieces[o + k])
                                    /\ Text(pieces[o + k]) # {}
    BY <2>1, <2>2, FramesOfPieces
  <2>4. QED
    BY <2>3 DEF pieces
<1>8. o = 0 \/ (o = 1 /\ ~Fits(sent[a + 1]))
  BY <1>6, <1>7
<1>9. ASSUME NEW k \in 1 .. d - o  PROVE Frames(Pieces(s))[k] \in Outcomes(sent[a + o + k])
  <2>1. o + k \in 1 .. d /\ a + (o + k) = a + o + k
    BY <1>2
  <2>2. CASE o + k = 1
    <3>1. 1 \in 1 .. d
      BY <2>1, <2>2
    <3>2. Text(Pieces(s)[1]) # {} /\ Frames(Pieces(s))[k] = _parse_single_frame(Pieces(s)[1])
      BY <2>2, <1>7
    <3>3. a + o + k = a + 1
      BY <2>1, <2>2
    <3>4. QED
      BY <3>1, <3>2, <3>3, <1>6
  <2>3. CASE o + k # 1
    <3>1. _parse_single_frame(Pieces(s)[o + k]) = Meaning(sent[a + o + k])
      BY <2>1, <2>3, <1>5
    <3>2. QED
      BY <3>1, <1>7 DEF Outcomes
  <2>4. QED
    BY <2>2, <2>3
<1>10. Cut(a, b, d) \in b .. t
  <2>1. d \in 0 .. d
    BY <1>2
  <2>2. QED
    BY <2>1, <1>3
<1>11. QED
  BY <1>3, <1>7, <1>8, <1>9, <1>10 DEF d, b, t

\* A frame has a command, headers and a body.
LEMMA OutcomeShape ==
  ASSUME NEW r \in Handed
  PROVE  DOMAIN r = {"cmd", "headers", "body"}
<1>1. PICK m \in Messages : r \in Outcomes(m)
  BY DEF Handed
<1>2. r = Meaning(m) \/ r \in Tails(m)
  BY <1>1 DEF Outcomes
<1>3. CASE r = Meaning(m)
  BY <1>3 DEF Meaning
<1>4. CASE r \in Tails(m)
  <2>1. PICK p : r = _parse_single_frame(p)
    BY <1>4 DEF Tails
  <2>2. QED
    BY <2>1 DEF _parse_single_frame
<1>5. QED
  BY <1>2, <1>3, <1>4

\* Frames handed on in their order, after those up to a, are those up to z.
LEMMA OriginsExtend ==
  ASSUME NEW a \in Nat, NEW z \in Nat, a <= z, received \in Seq(Handed),
         NEW origin, OriginInv(a, origin), NEW o \in 0 .. z - a,
         o = 0 \/ (o = 1 /\ ~Fits(sent[a + 1])), NEW f \in Seq(Handed),
         Len(f) = z - a - o, \A k \in 1 .. z - a - o : f[k] \in Outcomes(sent[a + o + k]),
         received' = received \o f, sent' = sent
  PROVE  \E new \in [DOMAIN received' -> 1 .. z] : OriginInv(z, new)'
<1>0. PICK R : R = Len(received)
  OBVIOUS
<1> DEFINE e == z - a - o
           new == [i \in 1 .. R + e |-> IF i <= R THEN origin[i] ELSE a + o + (i - R)]
<1>1. R \in Nat /\ DOMAIN received = 1 .. R /\ e \in Nat
  BY <1>0, LenProperties
<1>2. /\ received' \in Seq(Handed) /\ Len(received') = R + Len(f)
      /\ \A k \in 1 .. R : received'[k] = received[k]
  BY <1>0, Joined, Zenon
<1>3. \A k \in 1 .. Len(f) : received'[R + k] = f[k]
  BY <1>0, Joined, SMT
<1>4. DOMAIN received' = 1 .. R + e
  BY <1>2, LenProperties
<1>5. /\ DOMAIN origin = 1 .. R /\ \A i \in 1 .. R : origin[i] \in 1 .. a
      /\ \A i, j \in 1 .. R : i < j => origin[i] < origin[j]
      /\ \A k \in 1 .. a : Fits(sent[k]) => \E i \in 1 .. R : origin[i] = k
      /\ \A i \in 1 .. R : received[i] \in Outcomes(sent[origin[i]])
  BY <1>1 DEF OriginInv
<1>6. /\ \A k \in 1 .. e : received'[R + k] = f[k] /\ f[k] \in Outcomes(sent[a + o + k])
      /\ e + a + o = z
  <2>1. e + a + o = z
    OBVIOUS
  <2>2. Len(f) = e /\ \A k \in 1 .. e : f[k] \in Outcomes(sent[a + o + k])
    OBVIOUS
  <2>3. QED
    BY <2>1, <2>2, <1>3
<1>7. /\ \A i \in 1 .. R : i \in 1 .. R + e /\ i <= R
      /\ \A i \in 1 .. R + e : i \in 1 .. R \/ (~(i <= R) /\ i - R \in 1 .. e /\ R + (i - R) = i)
      /\ \A k \in 1 .. e : R + k \in 1 .. R + e /\ ~(R + k <= R) /\ R + k - R = k
  BY <1>1
<1> HIDE DEF e
<1>8. /\ new = [i \in 1 .. R + e |-> new[i]]
      /\ \A i \in 1 .. R : new[i] = origin[i]
      /\ \A i \in 1 .. R + e : ~(i <= R) => new[i] = a + o + (i - R)
      /\ \A k \in 1 .. e : new[R + k] = a + o + k
  <2>1. new = [i \in 1 .. R + e |-> new[i]]
    OBVIOUS
  <2>2. \A i \in 1 .. R + e : new[i] = IF i <= R THEN origin[i] ELSE a + o + (i - R)
    OBVIOUS
  <2> HIDE DEF new
  <2>3. \A i \in 1 .. R : new[i] = origin[i]
    BY <2>2, <1>7
  <2>4. \A i \in 1 .. R + e : ~(i <= R) => new[i] = a + o + (i - R)
    BY <2>2
  <2>5. ASSUME NEW k \in 1 .. e  PROVE new[R + k] = a + o + k
    <3> DEFINE i == R + k
    <3>1. i \in 1 .. R + e /\ ~(i <= R) /\ i - R = k
      BY <1>1
    <3> HIDE DEF i
    <3>2. new[i] = a + o + (i - R)
      BY <3>1, <2>4
    <3>3. QED
      BY <3>1, <3>2 DEF i
  <2>6. QED
    BY <2>1, <2>3, <2>4, <2>5
<1> HIDE DEF new
<1>9. \A i \in 1 .. R + e : new[i] \in 1 .. z
  <2> TAKE i \in 1 .. R + e
  <2>1. CASE i \in 1 .. R
    <3>1. new[i] \in 1 .. a
      BY <2>1, <1>5, <1>8
    <3>2. QED
      BY <3>1
  <2>2. CASE ~(i <= R) /\ i - R \in 1 .. e
    <3>1. new[i] = a + o + (i - R)
      BY <2>2, <1>8
    <3> DEFINE j == i - R
    <3>2. j \in 1 .. e /\ e + a + o = z /\ e \in Nat /\ o \in Nat
      BY <2>2, <1>1, <1>6
    <3> HIDE DEF j
    <3>3. a + o + j \in 1 .. z
      BY <3>2
    <3>4. QED
      BY <3>1, <3>3 DEF j
  <2>3. QED
    BY <2>1, <2>2, <1>7
<1>10. new \in [1 .. R + e -> 1 .. z]
  BY <1>8, <1>9
<1>11. ASSUME NEW i \in 1 .. R + e, NEW j \in 1 .. R + e, i < j  PROVE new[i] < new[j]
  <2>1. CASE j \in 1 .. R
    <3>1. i \in 1 .. R
      BY <2>1, <1>1, <1>11
    <3>2. QED
      BY <2>1, <3>1, <1>5, <1>8, <1>11
  <2>2. CASE ~(j <= R) /\ j - R \in 1 .. e
    <3>1. new[j] = a + o + (j - R)
      BY <2>2, <1>8
    <3>2. CASE i \in 1 .. R
      <4>1. new[i] \in 1 .. a
        BY <3>2, <1>5, <1>8
      <4>2. QED
        BY <4>1, <3>1, <2>2
    <3>3. CASE ~(i <= R) /\ i - R \in 1 .. e
      <4>1. new[i] = a + o + (i - R)
        BY <3>3, <1>8
      <4>2. a + o + (i - R) < a + o + (j - R)
        BY <1>1, <1>11
      <4>3. QED
        BY <4>1, <4>2, <3>1
    <3>4. QED
      BY <3>2, <3>3, <1>7
  <2>3. QED
    BY <2>1, <2>2, <1>7
<1>12. ASSUME NEW k \in 1 .. z, Fits(sent[k])  PROVE \E i \in 1 .. R + e : new[i] = k
  <2>1. CASE k <= a
    <3>1. k \in 1 .. a
      BY <2>1
    <3>2. PICK i \in 1 .. R : origin[i] = k
      BY <3>1, <1>5, <1>12
    <3>3. QED
      BY <3>2, <1>7, <1>8
  <2>2. CASE k > a
    <3>1. k - a > o
      <4>1. SUFFICES ASSUME ~(k - a > o)  PROVE FALSE
        OBVIOUS
      <4>2. o = 1 /\ k = a + 1
        BY <4>1, <2>2
      <4>3. QED
        BY <4>2, <1>12
    <3>2. k - a - o \in 1 .. e /\ a + o + (k - a - o) = k
      BY <3>1, <1>1, <1>6
    <3>3. R + (k - a - o) \in 1 .. R + e /\ new[R + (k - a - o)] = a + o + (k - a - o)
      BY <3>2, <1>7, <1>8
    <3>4. QED
      BY <3>2, <3>3
  <2>3. QED
    BY <2>1, <2>2
<1>13. ASSUME NEW i \in 1 .. R + e  PROVE received'[i] \in Outcomes(sent[new[i]])
  <2>1. CASE i \in 1 .. R
    BY <2>1, <1>2, <1>5, <1>8
  <2>2. CASE ~(i <= R) /\ i - R \in 1 .. e /\ R + (i - R) = i
    <3>1. received'[R + (i - R)] = f[i - R] /\ f[i - R] \in Outcomes(sent[a + o + (i - R)])
      BY <2>2, <1>6
    <3>2. new[i] = a + o + (i - R)
      BY <2>2, <1>8
    <3>3. QED
      BY <2>2, <3>1, <3>2
  <2>3. QED
    BY <2>1, <2>2, <1>7
<1>14. DOMAIN received' = 1 .. R + e
  BY <1>4 DEF e
<1>15. OriginInv(z, new)'
  BY <1>10, <1>11, <1>12, <1>13, <1>14 DEF OriginInv
<1>16. QED
  BY <1>10, <1>14, <1>15

\* After a message the buffer is what follows the frames up to z, or nothing:
\* of heartbeats, and of a frame that does not fit.
LEMMA ReceiveBuffers ==
  ASSUME FramingTypeOK, StreamInv, NEW a, BufferInv(a), NEW n \in 1 .. Len(stream) - taken,
         NEW z \in a .. Len(sent), \A k \in DOMAIN sent : frame_ends[k] <= taken + n <=> k <= z,
         Receive(n)
  PROVE  BufferInv(z)' /\ frame_buffer' \in Seq(Symbols)
<1> DEFINE s == frame_buffer \o SubSeq(stream, taken + 1, taken + n)
           r == Remainder(s)
           b == BufferStart
           t == taken + n
           c == Cut(a, b, z - a)
           M == MAX_FRAME_BUFFER_CHARS
<1>1. /\ taken' = t /\ sent' = sent /\ frame_ends' = frame_ends /\ stream' = stream
      /\ frame_buffer' = IF Text(s) = {} THEN <<>> ELSE Kept(r)
  BY DEF Receive
<1>2. /\ a \in Nat /\ z \in Nat /\ z \in 0 .. Len(sent)
      /\ DOMAIN sent = 1 .. Len(sent) /\ Len(sent) \in Nat
      /\ Len(stream) \in Nat /\ a <= z
  BY Counted DEF BufferInv
<1>3. /\ b \in Nat /\ b <= taken /\ taken <= t /\ taken \in Nat /\ t \in Nat /\ t <= Len(stream)
  <2>1. taken \in Nat
    BY Counted
  <2>2. QED
    BY <2>1, ReceiveUpTo
<1>4. Reads(s, b, t)
  BY CombinedReads
<1>5. c \in b .. t /\ Reads(r, c, t)
  BY <1>4, ReceiveHandsOn
<1>6. End(a) \in Nat /\ End(z) \in Nat /\ End(a) <= b
  BY <1>2, Counted DEF BufferInv
<1>7. c = IF z = a THEN b ELSE frame_ends[z]
  <2>1. z = a <=> z - a = 0
    BY <1>2
  <2>2. a + (z - a) = z
    BY <1>2
  <2>3. QED
    BY <2>1, <2>2 DEF Cut
<1>8. /\ \A k \in DOMAIN sent : frame_ends[k] <= t <=> k <= z
      /\ \/ \A q \in End(a) + 1 .. b : stream[q] = "EOL"
         \/ a + 1 \in DOMAIN sent /\ ~Fits(sent[a + 1])
  BY DEF BufferInv
<1>9. M \in Nat /\ MaxBeats \in Nat
  BY FramingAssumption
<1> HIDE DEF s, r, b, t, c, M
<1>10. c \in Nat /\ End(z) <= c /\ End(z) <= t /\ c <= t
  <2>1. CASE z = a
    BY <2>1, <1>3, <1>5, <1>6, <1>7
  <2>2. CASE z # a
    <3>1. c = frame_ends[z] /\ z # 0
      BY <2>2, <1>2, <1>7
    <3>2. c = End(z)
      BY <3>1 DEF End
    <3>3. QED
      BY <3>2, <1>3, <1>5, <1>6
  <2>3. QED
    BY <2>1, <2>2
<1>11. End(z)' = End(z)
  BY <1>1 DEF End
\* What has been dropped, if the buffer is left empty.
<1>12. ASSUME frame_buffer' = <<>>,
              \/ \A q \in End(z) + 1 .. t : stream[q] = "EOL"
              \/ z + 1 \in DOMAIN sent /\ ~Fits(sent[z + 1])
       PROVE  BufferInv(z)' /\ frame_buffer' \in Seq(Symbols)
  <2>1. Len(frame_buffer') = 0 /\ frame_buffer' \in Seq(Symbols)
    BY <1>12
  <2>2. BufferStart' = t
    BY <2>1, <1>1, <1>3 DEF BufferStart
  <2>3. Len(frame_buffer)' <= MAX_FRAME_BUFFER_CHARS /\ (End(z) <= BufferStart)'
    BY <2>1, <2>2, <1>9, <1>10, <1>11 DEF M
  <2>4. \A q \in 1 .. Len(frame_buffer)' : frame_buffer'[q] = stream'[BufferStart' + q]
    BY <2>1
  <2>5. z \in 0 .. Len(sent') /\ \A k \in DOMAIN sent' : frame_ends'[k] <= taken' <=> k <= z
    BY <1>1, <1>2, <1>8
  <2>6. \/ \A q \in End(z)' + 1 .. BufferStart' : stream'[q] = "EOL"
        \/ z + 1 \in DOMAIN sent' /\ ~Fits(sent'[z + 1])
    BY <2>2, <1>1, <1>11, <1>12
  <2>7. QED
    BY <2>1, <2>3, <2>4, <2>5, <2>6 DEF BufferInv
<1>13. CASE Text(s) = {}
  <2>1. \A q \in b + 1 .. t : stream[q] = "EOL"
    <3> TAKE q \in b + 1 .. t
    <3>1. q - b \in 1 .. t - b /\ b + (q - b) = q
      BY <1>3
    <3>2. DOMAIN s = 1 .. t - b /\ s[q - b] = stream[b + (q - b)]
      BY <3>1, <1>4, LenProperties DEF Reads
    <3>3. s[q - b] = "EOL"
      BY <3>1, <3>2, <1>13 DEF Text
    <3>4. QED
      BY <3>1, <3>2, <3>3
  <2>2. z = a
    <3>1. SUFFICES ASSUME z # a  PROVE FALSE
      OBVIOUS
    <3>2. z \in DOMAIN sent /\ ~(z <= a) /\ z <= z
      BY <3>1, <1>2
    <3>3. frame_ends[z] <= t /\ frame_ends[z] \in Nat
      BY <3>2, <1>8, Counted
    <3>4. ~(frame_ends[z] <= b)
      BY <3>2, ReceiveUpTo DEF b
    <3>5. stream[frame_ends[z]] = "EOL"
      BY <3>3, <3>4, <2>1, <1>3
    <3>6. stream[frame_ends[z]] = "NUL"
      BY <3>2 DEF StreamInv, FrameAt
    <3>7. QED
      BY <3>5, <3>6
  <2>3. \/ \A q \in End(z) + 1 .. t : stream[q] = "EOL"
        \/ z + 1 \in DOMAIN sent /\ ~Fits(sent[z + 1])
    <3>1. SUFFICES ASSUME \A q \in End(a) + 1 .. b : stream[q] = "EOL"
                   PROVE  \A q \in End(a) + 1 .. t : stream[q] = "EOL"
      BY <2>2, <1>8
    <3>2. \A q \in End(a) + 1 .. t : q \in End(a) + 1 .. b \/ q \in b + 1 .. t
      BY <1>3, <1>6
    <3>3. QED
      BY <3>1, <3>2, <2>1
  <2>4. frame_buffer' = <<>>
    BY <1>1, <1>13
  <2>5. QED
    BY <2>3, <2>4, <1>12
<1>14. CASE Text(s) # {} /\ Len(r) > M
  <2>1. frame_buffer' = <<>>
    BY <1>1, <1>14 DEF Kept, M
  <2>2. Len(r) = t - c
    BY <1>5 DEF Reads
  <2>3. CASE z + 1 \in DOMAIN sent
    <3>1. /\ Begin(z + 1) \in Int /\ frame_ends[z + 1] = Begin(z + 1) + Len(Payload(sent[z + 1])) + 1
          /\ Len(Payload(sent[z + 1])) \in Nat \ {0} /\ frame_ends[z + 1] \in Nat
      BY <2>3, Counted
    <3>2. FrameAt(z + 1) /\ z + 1 - 1 = z
      BY <2>3, <1>2 DEF StreamInv
    <3>3. Begin(z + 1) <= End(z) + beats
      BY <3>2, <3>1, <1>6, Counted DEF FrameAt
    <3>4. ~(frame_ends[z + 1] <= t)
      BY <2>3, <1>2, <1>8
    <3>5. beats \in Nat /\ beats <= MaxBeats
      BY <1>9 DEF FramingTypeOK
    <3> DEFINE p == Len(Payload(sent[z + 1]))
               g == Begin(z + 1)
               e == frame_ends[z + 1]
    <3>6. p \in Nat /\ g \in Int /\ e \in Nat /\ e = g + p + 1 /\ g <= End(z) + beats /\ ~(e <= t)
      BY <3>1, <3>3, <3>4
    <3> HIDE DEF p, g, e
    <3>7. ~(MaxBeats + p <= M)
      BY <3>5, <3>6, <2>2, <1>3, <1>6, <1>9, <1>10, <1>14
    <3>8. ~Fits(sent[z + 1])
      BY <3>7 DEF p, M, Fits
    <3>9. QED
      BY <3>8, <2>1, <2>3, <1>12
  <2>4. CASE z + 1 \notin DOMAIN sent
    <3> DEFINE L == Len(sent)
    <3>1. z = L
      <4>1. z + 1 \notin 1 .. L /\ z \in 0 .. L /\ L \in Nat
        BY <2>4, <1>2
      <4> HIDE DEF L
      <4>2. QED
        BY <4>1
    <3>2. \A q \in End(z) + 1 .. Len(stream) : stream[q] = "EOL"
      BY <3>1 DEF StreamInv
    <3>3. \A q \in End(z) + 1 .. t : stream[q] = "EOL"
      BY <3>2, <1>2, <1>3, <1>6
    <3>4. QED
      BY <3>3, <2>1, <1>12
  <2>5. QED
    BY <2>3, <2>4
<1>15. CASE Text(s) # {} /\ ~(Len(r) > M)
  <2>1. frame_buffer' = r
    BY <1>1, <1>15 DEF Kept, M
  <2>2. r \in Seq(Symbols) /\ Len(r) = t - c /\ \A q \in 1 .. t - c : r[q] = stream[c + q]
    BY <1>5 DEF Reads
  <2>3. BufferStart' = c
    BY <2>1, <2>2, <1>1, <1>3, <1>10 DEF BufferStart
  <2>4. Len(frame_buffer)' <= MAX_FRAME_BUFFER_CHARS /\ (End(z) <= BufferStart)'
    <3>1. Len(r) <= M
      BY <2>2, <1>3, <1>9, <1>10, <1>15
    <3>2. QED
      BY <3>1, <2>1, <2>3, <1>10, <1>11 DEF M
  <2>5. \A q \in 1 .. Len(frame_buffer)' : frame_buffer'[q] = stream'[BufferStart' + q]
    BY <2>1, <2>2, <2>3, <1>1
  <2>6. z \in 0 .. Len(sent') /\ \A k \in DOMAIN sent' : frame_ends'[k] <= taken' <=> k <= z
    BY <1>1, <1>2, <1>8
  <2>7. \/ \A q \in End(z)' + 1 .. BufferStart' : stream'[q] = "EOL"
        \/ z + 1 \in DOMAIN sent' /\ ~Fits(sent'[z + 1])
    <3>1. CASE z = a
      BY <3>1, <2>3, <1>1, <1>7, <1>8, <1>11
    <3>2. CASE z # a
      <4>1. c = End(z)
        BY <3>2, <1>2, <1>7 DEF End
      <4>2. End(z) + 1 .. c = {}
        BY <4>1, <1>6
      <4>3. QED
        BY <4>2, <2>3, <1>11
    <3>3. QED
      BY <3>1, <3>2
  <2>8. QED
    BY <2>1, <2>2, <2>4, <2>5, <2>6, <2>7 DEF BufferInv
<1>16. QED
  BY <1>13, <1>14, <1>15

\* A message of any length keeps the framing.
LEMMA ReceiveKeepsFraming ==
  ASSUME FramingInv, NEW n \in 1 .. Len(stream) - taken, Receive(n)
  PROVE  FramingInv'
<1> DEFINE s == frame_buffer \o SubSeq(stream, taken + 1, taken + n)
<1>1. FramingTypeOK /\ StreamInv /\ received \in Seq(Handed)
  BY DEF FramingInv
<1>2. PICK a \in 0 .. Len(sent) :
         BufferInv(a) /\ \E origin \in [DOMAIN received -> 1 .. a] : OriginInv(a, origin)
  BY DEF FramingInv
<1>3. PICK origin : OriginInv(a, origin)
  BY <1>2
<1>4. PICK z \in a .. Len(sent) : \A k \in DOMAIN sent : frame_ends[k] <= taken + n <=> k <= z
  BY <1>1, <1>2, ReceiveUpTo
<1>5. /\ taken' = taken + n /\ sent' = sent /\ frame_ends' = frame_ends
      /\ stream' = stream /\ beats' = beats
      /\ received' = received \o Frames(Pieces(s))
  BY DEF Receive
<1>6. /\ a \in Nat /\ z \in Nat /\ a <= z /\ z \in 0 .. Len(sent) /\ DOMAIN sent = 1 .. Len(sent)
      /\ Len(sent) \in Nat /\ Len(stream) \in Nat /\ taken \in Nat
  BY <1>1, Counted
<1>7. BufferInv(z)' /\ frame_buffer' \in Seq(Symbols)
  BY <1>1, <1>2, <1>4, ReceiveBuffers
<1>8. Reads(s, BufferStart, taken + n)
  BY <1>1, <1>2, CombinedReads
<1> DEFINE f == Frames(Pieces(s))
<1> HIDE DEF s
<1>9. PICK o \in 0 .. z - a :
        /\ o = 0 \/ (o = 1 /\ ~Fits(sent[a + 1]))
        /\ DOMAIN f = 1 .. z - a - o
        /\ \A k \in 1 .. z - a - o : f[k] \in Outcomes(sent[a + o + k])
  BY <1>1, <1>2, <1>4, <1>8, ReceiveHandsOn
<1>10. f = [k \in DOMAIN f |-> f[k]]
  BY DEF Frames
<1> HIDE DEF f
<1>11. f \in Seq(Handed) /\ Len(f) = z - a - o
  <2> DEFINE l == z - a - o
  <2>1. l \in Nat
    BY <1>6
  <2>2. \A k \in 1 .. l : a + o + k \in DOMAIN sent
    BY <1>6
  <2>3. \A k \in 1 .. l : f[k] \in Handed
    BY <2>2, <1>1, <1>9, Counted DEF Handed
  <2>4. DOMAIN f = 1 .. l
    BY <1>9
  <2> HIDE DEF l
  <2>5. f \in [1 .. l -> Handed]
    BY <2>3, <2>4, <1>10
  <2>6. f \in Seq(Handed)
    BY <2>1, <2>5, SeqDef
  <2>7. Len(f) \in Nat /\ DOMAIN f = 1 .. Len(f)
    BY <2>6, LenProperties
  <2>8. Len(f) = l
    BY <2>1, <2>4, <2>7
  <2>9. QED
    BY <2>6, <2>8 DEF l
<1>12. received' = received \o f
  BY <1>5 DEF f
<1>13. \E new \in [DOMAIN received' -> 1 .. z] : OriginInv(z, new)'
  BY <1>1, <1>3, <1>5, <1>6, <1>9, <1>11, <1>12, OriginsExtend
<1>14. received' \in Seq(Handed)
  BY <1>1, <1>11, <1>12, Joined, Zenon
<1>15. FramingTypeOK'
  <2>1. \A k \in DOMAIN received' : received'[k] \in Handed
    BY <1>14, ElementOfSeq, LenProperties
  <2>2. \A k \in DOMAIN received' : DOMAIN (received'[k]) = {"cmd", "headers", "body"}
    BY <2>1, OutcomeShape
  <2>3. taken' \in 0 .. Len(stream')
    BY <1>5, <1>6
  <2>4. /\ sent' \in Seq(Messages) /\ frame_ends' \in [DOMAIN sent' -> 1 .. Len(stream')]
        /\ beats' \in 0 .. MaxBeats /\ stream' \in Seq(Symbols)
    BY <1>1, <1>5 DEF FramingTypeOK
  <2>5. QED
    BY <2>2, <2>3, <2>4, <1>7 DEF FramingTypeOK
<1>16. StreamInv'
  BY <1>1, <1>5 DEF StreamInv, FrameAt, Begin, End, Nuls
<1>17. z \in 0 .. Len(sent')
  BY <1>5, <1>6
<1>18. QED
  BY <1>7, <1>13, <1>14, <1>15, <1>16, <1>17 DEF FramingInv

\* The framing is kept by whatever happens, for ever.
LEMMA NextKeepsFraming == FramingInv /\ [FramingNext]_framingVars => FramingInv'
<1> SUFFICES ASSUME FramingInv, [FramingNext]_framingVars  PROVE FramingInv'
  OBVIOUS
<1>1. ASSUME NEW m \in Messages, Send(m)  PROVE FramingInv'
  BY <1>1, SendKeepsFraming
<1>2. CASE Beat
  BY <1>2, BeatKeepsFraming
<1>3. ASSUME NEW n \in 1 .. Len(stream) - taken, Receive(n)  PROVE FramingInv'
  BY <1>3, ReceiveKeepsFraming
<1>4. CASE Reconnect
  <2>1. FramingInit'
    BY <1>4 DEF Reconnect, Emptied, FramingInit
  <2>2. FramingInit' => FramingInv'
    BY FramingInitially, PTL
  <2>3. QED
    BY <2>1, <2>2
<1>5. CASE UNCHANGED framingVars
  <2>1. /\ sent' = sent /\ frame_ends' = frame_ends
        /\ beats' = beats /\ stream' = stream /\ taken' = taken
        /\ frame_buffer' = frame_buffer /\ received' = received
    BY <1>5 DEF framingVars
  <2>2. FramingTypeOK' /\ StreamInv'
    BY <2>1 DEF FramingInv, FramingTypeOK, StreamInv, FrameAt, Begin, End, Nuls
  <2>3. \A a : BufferInv(a) => BufferInv(a)'
    BY <2>1 DEF BufferInv, BufferStart, End
  <2>4. \A a, origin : OriginInv(a, origin) => OriginInv(a, origin)'
    BY <2>1 DEF OriginInv
  <2>5. QED
    BY <2>1, <2>2, <2>3, <2>4 DEF FramingInv
<1>6. QED
  BY <1>1, <1>2, <1>3, <1>4, <1>5 DEF FramingNext

\* What the invariant says of the frames that have been handed on.
LEMMA FramingArrival == FramingInv => FramesArrive
<1> SUFFICES ASSUME FramingInv  PROVE FramesArrive
  OBVIOUS
<1>1. FramingTypeOK
  BY DEF FramingInv
<1>2. PICK a \in 0 .. Len(sent) :
         BufferInv(a) /\ \E origin \in [DOMAIN received -> 1 .. a] : OriginInv(a, origin)
  BY DEF FramingInv
<1>3. PICK origin \in [DOMAIN received -> 1 .. a] : OriginInv(a, origin)
  BY <1>2
<1>4. Arrived = 1 .. a
  <2>1. DOMAIN sent = 1 .. Len(sent) /\ Len(sent) \in Nat
    BY <1>1, Counted
  <2>2. \A k \in DOMAIN sent : frame_ends[k] <= taken <=> k <= a
    BY <1>2 DEF BufferInv
  <2>3. Arrived = {k \in 1 .. Len(sent) : k <= a}
    BY <2>1, <2>2 DEF Arrived
  <2>4. QED
    BY <2>1, <2>3
<1>5. \A k \in Arrived : Fits(sent[k]) => k \in Range(origin)
  BY <1>3, <1>4 DEF OriginInv, Range
<1>6. Len(frame_buffer) <= MAX_FRAME_BUFFER_CHARS
  BY <1>2 DEF BufferInv
<1>7. QED
  BY <1>1, <1>3, <1>4, <1>5, <1>6 DEF FramesArrive, OriginInv

\* FramesArrive holds for every set of messages, every limit of the buffer and
\* every way to cut the stream into messages.
THEOREM FramesArriveWhole == FramingSpec => []FramesArrive
<1>1. FramingSpec => []FramingInv
  BY FramingInitially, NextKeepsFraming, PTL DEF FramingSpec
<1>2. QED
  BY <1>1, FramingArrival, PTL

-----------------------------------------------------------------------------
\* The client.

\* The types of what the end of a connection writes.
SessionTypes ==
  /\ ws \in Runs \cup {NoRun} /\ hb \in Runs \cup {NoRun}
  /\ connected_event \in BOOLEAN /\ websocket_connected \in BOOLEAN
  /\ stage \in [Runs -> Stages] /\ sockets \subseteq Runs
  /\ heart \in [Runs -> {"still", "beating", "cancelled"}]
  /\ awaits \in [Callers \cup Runs -> Runs \cup {NoRun}]

\* However the connection ends, what it writes keeps its type.
LEMMA LeaveConnectionType ==
  ASSUME TypeOK, NEW r \in Runs, NEW ends \in BOOLEAN, LeaveConnection(r, ends)
  PROVE  SessionTypes' /\ UNCHANGED <<task, stop, pc, overtaken>>
<1> USE DEF TypeOK, SessionTypes, LeaveConnection, Settle, Goto, Down, Beating,
      Stages, Over, InSession, Unwinding
<1>1. ws' \in Runs \cup {NoRun} /\ hb' \in Runs \cup {NoRun}
  OBVIOUS
<1>2. connected_event' \in BOOLEAN /\ websocket_connected' \in BOOLEAN
  OBVIOUS
<1>3. stage' \in [Runs -> Stages] /\ sockets' \subseteq Runs
  OBVIOUS
<1>4. heart' \in [Runs -> {"still", "beating", "cancelled"}]
  OBVIOUS
<1>5. awaits' \in [Callers \cup Runs -> Runs \cup {NoRun}]
  OBVIOUS
<1>6. QED
  BY <1>1, <1>2, <1>3, <1>4, <1>5

\* The types of what the end of close() writes.
JoinTypes ==
  /\ task \in Runs \cup {NoRun} /\ ws \in Runs \cup {NoRun}
  /\ connected_event \in BOOLEAN /\ cancelled \subseteq Runs
  /\ pc \in [Callers -> {"idle"} \cup Waiting \cup Closing]
  /\ awaits \in [Callers \cup Runs -> Runs \cup {NoRun}]

\* The last part of close() keeps the types, whichever way it goes.
LEMMA JoinRunType ==
  ASSUME TypeOK, NEW c \in Callers, JoinRun(c)
  PROVE  JoinTypes'
<1> USE DEF TypeOK, JoinTypes, JoinRun, JoinEnds, Forget, CloseRaises, Proceed, is_running, Closing
<1>1. task' \in Runs \cup {NoRun} /\ ws' \in Runs \cup {NoRun}
  OBVIOUS
<1>2. connected_event' \in BOOLEAN /\ cancelled' \subseteq Runs
  OBVIOUS
<1>3. pc' \in [Callers -> {"idle"} \cup Waiting \cup Closing]
  OBVIOUS
<1>4. awaits' \in [Callers \cup Runs -> Runs \cup {NoRun}]
  OBVIOUS
<1>5. QED
  BY <1>1, <1>2, <1>3, <1>4

\* So does the part before it, which may have to wait for the heartbeat.
LEMMA JoinHeartbeatType ==
  ASSUME TypeOK, NEW c \in Callers, JoinHeartbeat(c)
  PROVE  /\ JoinTypes'
         /\ hb' \in Runs \cup {NoRun}
         /\ heart' \in [Runs -> {"still", "beating", "cancelled"}]
<1>1. CASE Beating /\ Proceed(c, "joining_heartbeat", hb)
           /\ heart' = [heart EXCEPT ![hb] = "cancelled"]
           /\ UNCHANGED <<task, ws, hb, connected_event, cancelled>>
  BY <1>1 DEF TypeOK, JoinTypes, Proceed, Beating, Closing
<1>2. CASE hb' = NoRun /\ JoinRun(c) /\ UNCHANGED heart
  BY <1>2, JoinRunType DEF TypeOK
<1>3. QED
  BY <1>1, <1>2 DEF JoinHeartbeat

-----------------------------------------------------------------------------
\* TypeOK is inductive, whatever the callers do.

USE WebsocketAssumption
    DEF pointers, events, running, calling, Stages, Over, InSession, Unwinding, Waiting, Closing

\* A step of a run keeps the types.
LEMMA RunKeepsType ==
  ASSUME TypeOK, NEW r \in Runs,
         \/ Secured(r) \/ Established(r) \/ ConnectRaises(r) \/ Connected(r)
         \/ SocketLost(r) \/ Noticed(r) \/ Unwound(r) \/ CancelMet(r) \/ HeartbeatEnds(r)
  PROVE  TypeOK'
<1>1. CASE Secured(r) \/ ConnectRaises(r) \/ SocketLost(r) \/ HeartbeatEnds(r)
  BY <1>1 DEF TypeOK, Secured, ConnectRaises, SocketLost, HeartbeatEnds, Goto
<1>2. CASE Established(r)
  BY <1>2 DEF TypeOK, Established, Goto
<1>3. CASE Connected(r)
  BY <1>3 DEF TypeOK, Connected, Goto
<1>4. CASE Noticed(r)
  BY <1>4, LeaveConnectionType DEF TypeOK, Noticed, SessionTypes
<1>5. CASE Unwound(r)
  BY <1>5 DEF TypeOK, Unwound, Settle, Down, Goto
<1>6. CASE CancelMet(r)
  BY <1>6, LeaveConnectionType DEF TypeOK, CancelMet, Goto, SessionTypes
<1> QED
  BY <1>1, <1>2, <1>3, <1>4, <1>5, <1>6

\* So does a step of a caller.
LEMMA CallerKeepsType ==
  ASSUME TypeOK, NEW c \in Callers,
         \/ Start(c) \/ StartReturns(c) \/ StartTimesOut(c) \/ Close(c)
         \/ SocketClosed(c) \/ HeartbeatJoined(c) \/ RunJoined(c)
  PROVE  TypeOK'
<1>1. CASE Start(c)
  BY <1>1 DEF TypeOK, Start, Proceed, Goto
<1>2. CASE StartReturns(c)
  BY <1>2 DEF TypeOK, StartReturns, Proceed
<1>3. CASE StartTimesOut(c) \/ Close(c)
  <2>1. CloseBegins(c)
    BY <1>3 DEF StartTimesOut, Close
  <2>2. CASE Proceed(c, "closing", ws) /\ UNCHANGED <<pointers, connected_event, cancelled, heart>>
    BY <2>1, <2>2 DEF TypeOK, CloseBegins, Proceed
  <2>3. CASE JoinHeartbeat(c)
    BY <2>1, <2>3, JoinHeartbeatType DEF TypeOK, CloseBegins, JoinTypes
  <2> QED
    BY <2>1, <2>2, <2>3 DEF CloseBegins
<1>4. CASE SocketClosed(c)
  BY <1>4, JoinHeartbeatType DEF TypeOK, SocketClosed, JoinTypes
<1>5. CASE HeartbeatJoined(c)
  BY <1>5, JoinRunType DEF TypeOK, HeartbeatJoined, JoinTypes
<1>6. CASE RunJoined(c)
  BY <1>6 DEF TypeOK, RunJoined, IsOver, JoinEnds, Forget, CloseRaises, Proceed
<1> QED
  BY <1>1, <1>2, <1>3, <1>4, <1>5, <1>6

\* TypeOK is inductive.
LEMMA StepKeepsType == TypeOK /\ [Next]_vars => TypeOK'
<1>1. CASE UNCHANGED vars
  BY <1>1 DEF vars, TypeOK
<1> QED
  BY <1>1, RunKeepsType, CallerKeepsType DEF Next

-----------------------------------------------------------------------------
\* One lemma per action: as long as no close() is overtaken, it keeps the
\* invariant.

Sound == TypeOK /\ ~overtaken /\ RunInv /\ FlagInv /\ CloserInv

\* Except for close()'s last step, none overtakes anybody; so each lemma is
\* about RunInv, FlagInv and CloserInv.
\* A run that has its SSL context goes on to connect, or fails.
LEMMA SecuredInv ==
  ASSUME Sound, NEW r \in Runs, Secured(r)
  PROVE  RunInv' /\ FlagInv' /\ CloserInv'
<1> USE DEF Sound, TypeOK, NoUnseenRun, Secured, Goto
<1>1. RunInv'
  BY DEF RunInv
<1>2. FlagInv'
  BY DEF RunInv, FlagInv
<1>3. CloserInv'
  BY DEF RunInv, CloserInv
<1> QED
  BY <1>1, <1>2, <1>3

\* A run that gets a socket is the only one to have one.
LEMMA EstablishedInv ==
  ASSUME Sound, NEW r \in Runs, Established(r)
  PROVE  RunInv' /\ FlagInv' /\ CloserInv'
<1> USE DEF Sound, TypeOK, NoUnseenRun, Established, Goto, StopSeen
<1>1. RunInv'
  BY DEF RunInv
<1>2. FlagInv'
  BY DEF RunInv, FlagInv
<1>3. CloserInv'
  BY DEF RunInv, CloserInv
<1> QED
  BY <1>1, <1>2, <1>3

\* A run that gives up has nothing open.
LEMMA ConnectRaisesInv ==
  ASSUME Sound, NEW r \in Runs, ConnectRaises(r)
  PROVE  RunInv' /\ FlagInv' /\ CloserInv'
<1> USE DEF Sound, TypeOK, NoUnseenRun, ConnectRaises, Goto
<1>1. RunInv'
  BY DEF RunInv
<1>2. FlagInv'
  BY DEF RunInv, FlagInv
<1>3. CloserInv'
  BY DEF RunInv, CloserInv
<1> QED
  BY <1>1, <1>2, <1>3

\* The flags go up together, for the run that has the socket.
LEMMA ConnectedInv ==
  ASSUME Sound, NEW r \in Runs, Connected(r)
  PROVE  RunInv' /\ FlagInv' /\ CloserInv'
<1> USE DEF Sound, TypeOK, NoUnseenRun, Connected, Goto
<1>1. RunInv'
  BY DEF RunInv
<1>2. FlagInv'
  BY DEF RunInv, FlagInv
<1>3. CloserInv'
  BY DEF RunInv, CloserInv
<1> QED
  BY <1>1, <1>2, <1>3

\* A lost socket changes nothing else yet.
LEMMA SocketLostInv ==
  ASSUME Sound, NEW r \in Runs, SocketLost(r)
  PROVE  RunInv' /\ FlagInv' /\ CloserInv'
<1> USE DEF Sound, TypeOK, NoUnseenRun, SocketLost
<1>1. RunInv'
  BY DEF RunInv
<1>2. FlagInv'
  BY DEF RunInv, FlagInv
<1>3. CloserInv'
  BY DEF RunInv, CloserInv
<1> QED
  BY <1>1, <1>2, <1>3

\* The flags go down before the run connects again.
LEMMA NoticedInv ==
  ASSUME Sound, NEW r \in Runs, Noticed(r)
  PROVE  RunInv' /\ FlagInv' /\ CloserInv'
<1> USE DEF Sound, TypeOK, NoUnseenRun,
      Noticed, LeaveConnection, Settle, Down, Beating, Goto
<1>1. RunInv'
  BY DEF RunInv
<1>2. FlagInv'
  BY DEF RunInv, FlagInv
<1>3. CloserInv'
  BY DEF RunInv, CloserInv
<1> QED
  BY <1>1, <1>2, <1>3

\* The same, once the heartbeat has ended.
LEMMA UnwoundInv ==
  ASSUME Sound, NEW r \in Runs, Unwound(r)
  PROVE  RunInv' /\ FlagInv' /\ CloserInv'
<1> USE DEF Sound, TypeOK, NoUnseenRun, Unwound, Settle, Down, Goto
<1>1. RunInv'
  BY DEF RunInv
<1>2. FlagInv'
  BY DEF RunInv, FlagInv
<1>3. CloserInv'
  BY DEF RunInv, CloserInv
<1> QED
  BY <1>1, <1>2, <1>3

\* A cancelled run leaves nothing behind, and is told to leave only if it is awaited.
LEMMA CancelMetInv ==
  ASSUME Sound, NEW r \in Runs, CancelMet(r)
  PROVE  RunInv' /\ FlagInv' /\ CloserInv'
<1> USE DEF Sound, TypeOK, NoUnseenRun,
      CancelMet, LeaveConnection, Settle, Down, Beating, Goto
<1>1. RunInv'
  BY DEF RunInv
<1>2. FlagInv'
  BY DEF RunInv, FlagInv
<1>3. CloserInv'
  BY DEF RunInv, CloserInv
<1> QED
  BY <1>1, <1>2, <1>3

\* A heartbeat that has ended is nobody's.
LEMMA HeartbeatEndsInv ==
  ASSUME Sound, NEW r \in Runs, HeartbeatEnds(r)
  PROVE  RunInv' /\ FlagInv' /\ CloserInv'
<1> USE DEF Sound, TypeOK, NoUnseenRun, HeartbeatEnds
<1>1. RunInv'
  BY DEF RunInv
<1>2. FlagInv'
  BY DEF RunInv, FlagInv
<1>3. CloserInv'
  BY DEF RunInv, CloserInv
<1> QED
  BY <1>1, <1>2, <1>3

\* A new run starts only when every other is over, whoever else is closing.
LEMMA StartInv ==
  ASSUME Sound, NEW c \in Callers, Start(c)
  PROVE  RunInv' /\ FlagInv' /\ CloserInv'
<1> USE DEF Sound, TypeOK, NoUnseenRun, Start, Unused, is_running, Proceed, Goto
<1>1. RunInv'
  BY DEF RunInv
<1>2. FlagInv'
  BY DEF RunInv, FlagInv
<1>3. CloserInv'
  BY DEF RunInv, CloserInv
<1> QED
  BY <1>1, <1>2, <1>3

\* Returning from start() changes nothing.
LEMMA StartReturnsInv ==
  ASSUME Sound, NEW c \in Callers, StartReturns(c)
  PROVE  RunInv' /\ FlagInv' /\ CloserInv'
<1> USE DEF Sound, TypeOK, NoUnseenRun, StartReturns, Proceed
<1>1. RunInv'
  BY DEF RunInv
<1>2. FlagInv'
  BY DEF RunInv, FlagInv
<1>3. CloserInv'
  BY DEF RunInv, CloserInv
<1> QED
  BY <1>1, <1>2, <1>3

\* close() on behalf of start().
LEMMA StartTimesOutInv ==
  ASSUME Sound, NEW c \in Callers, StartTimesOut(c)
  PROVE  RunInv' /\ FlagInv' /\ CloserInv'
<1> USE DEF Sound, TypeOK, NoUnseenRun,
      StartTimesOut, CloseBegins, JoinHeartbeat, Beating, JoinRun, JoinEnds, Forget, CloseRaises, Proceed, is_running
<1>1. RunInv'
  BY DEF RunInv
<1>2. FlagInv'
  BY DEF RunInv, FlagInv
<1>3. CloserInv'
  BY DEF RunInv, CloserInv
<1> QED
  BY <1>1, <1>2, <1>3

\* close() up to its first suspension.
LEMMA CloseInv ==
  ASSUME Sound, NEW c \in Callers, Close(c)
  PROVE  RunInv' /\ FlagInv' /\ CloserInv'
<1> USE DEF Sound, TypeOK, NoUnseenRun,
      Close, CloseBegins, JoinHeartbeat, Beating, JoinRun, JoinEnds, Forget, CloseRaises, Proceed, is_running
<1>1. RunInv'
  BY DEF RunInv
<1>2. FlagInv'
  BY DEF RunInv, FlagInv
<1>3. CloserInv'
  BY DEF RunInv, CloserInv
<1> QED
  BY <1>1, <1>2, <1>3

\* close() after the closing handshake.
LEMMA SocketClosedInv ==
  ASSUME Sound, NEW c \in Callers, SocketClosed(c)
  PROVE  RunInv' /\ FlagInv' /\ CloserInv'
<1> USE DEF Sound, TypeOK, NoUnseenRun,
      SocketClosed, JoinHeartbeat, Beating, JoinRun, JoinEnds, Forget, CloseRaises, Proceed, is_running
<1>1. RunInv'
  BY DEF RunInv
<1>2. FlagInv'
  BY DEF RunInv, FlagInv
<1>3. CloserInv'
  BY DEF RunInv, CloserInv
<1> QED
  BY <1>1, <1>2, <1>3

\* close() after the heartbeat has ended.
LEMMA HeartbeatJoinedInv ==
  ASSUME Sound, NEW c \in Callers, HeartbeatJoined(c)
  PROVE  RunInv' /\ FlagInv' /\ CloserInv'
<1> USE DEF Sound, TypeOK, NoUnseenRun,
      HeartbeatJoined, JoinRun, JoinEnds, Forget, CloseRaises, Proceed, is_running
<1>1. RunInv'
  BY DEF RunInv
<1>2. FlagInv'
  BY DEF RunInv, FlagInv
<1>3. CloserInv'
  BY DEF RunInv, CloserInv
<1> QED
  BY <1>1, <1>2, <1>3

\* close() forgets a run that is over.  Unless it is overtaken, no other runs.
LEMMA RunJoinedInv ==
  ASSUME Sound, NEW c \in Callers, RunJoined(c), ~overtaken'
  PROVE  RunInv' /\ FlagInv' /\ CloserInv'
<1>1. ~is_running /\ stage[awaits[c]] \in Over
  BY DEF Sound, TypeOK, RunJoined, IsOver, is_running
<1>2. \A r \in Runs : stage[r] \in Over
  BY <1>1 DEF Sound, RunInv, NoUnseenRun, is_running
<1>3. ws = NoRun /\ ~websocket_connected /\ ~connected_event
  BY <1>2 DEF Sound, TypeOK, RunInv, FlagInv
<1>4. ws' = NoRun /\ ~websocket_connected' /\ ~connected_event'
      /\ UNCHANGED <<stage, cancelled>>
  BY <1>3 DEF RunJoined, JoinEnds, Forget, CloseRaises
<1>5. RunInv' /\ FlagInv'
  BY <1>2, <1>4 DEF Sound, RunInv, NoUnseenRun, FlagInv
<1>6. CloserInv'
  BY <1>2, <1>4 DEF Sound, RunInv, CloserInv
<1> QED
  BY <1>5, <1>6

-----------------------------------------------------------------------------
\* ClientInv is inductive.

\* What has happened stays so.
LEMMA OvertakenStays == overtaken /\ [Next]_vars => overtaken'
  BY DEF Next, vars, Secured, Established, ConnectRaises, Connected, SocketLost, Noticed, Unwound,
         CancelMet, LeaveConnection, HeartbeatEnds, Start, StartReturns, StartTimesOut, Close,
         CloseBegins, SocketClosed, HeartbeatJoined, RunJoined

\* Every step in which no close() is overtaken keeps what is sound.
LEMMA StepKeepsSound ==
  ASSUME Sound, [Next]_vars, ~overtaken'  PROVE RunInv' /\ FlagInv' /\ CloserInv'
<1>1. ASSUME NEW r \in Runs,
             \/ Secured(r) \/ Established(r) \/ ConnectRaises(r) \/ Connected(r)
             \/ SocketLost(r) \/ Noticed(r) \/ Unwound(r) \/ CancelMet(r) \/ HeartbeatEnds(r)
      PROVE  RunInv' /\ FlagInv' /\ CloserInv'
  BY <1>1, SecuredInv, EstablishedInv, ConnectRaisesInv, ConnectedInv, SocketLostInv,
     NoticedInv, UnwoundInv, CancelMetInv, HeartbeatEndsInv
<1>2. ASSUME NEW c \in Callers,
             \/ Start(c) \/ StartReturns(c) \/ StartTimesOut(c) \/ Close(c)
             \/ SocketClosed(c) \/ HeartbeatJoined(c) \/ RunJoined(c)
      PROVE  RunInv' /\ FlagInv' /\ CloserInv'
  BY <1>2, StartInv, StartReturnsInv, StartTimesOutInv, CloseInv, SocketClosedInv,
     HeartbeatJoinedInv, RunJoinedInv
<1>3. CASE UNCHANGED vars
  BY <1>3 DEF vars, Sound, RunInv, NoUnseenRun, FlagInv, CloserInv
<1> QED
  BY <1>1, <1>2, <1>3 DEF Next

\* The client has nothing running when it is constructed.
LEMMA Initialised == Init => ClientInv
<1> SUFFICES ASSUME Init  PROVE ClientInv
  OBVIOUS
<1>1. TypeOK
  BY DEF Init, TypeOK
<1>2. RunInv
  BY DEF Init, RunInv, NoUnseenRun
<1>3. FlagInv /\ CloserInv
  BY DEF Init, FlagInv, CloserInv
<1> QED
  BY <1>1, <1>2, <1>3 DEF ClientInv

\* ClientInv says more only as long as no close() has been overtaken.
LEMMA SoundOrOvertaken == ClientInv /\ ~overtaken => Sound
  BY DEF ClientInv, Sound

\* ClientInv is inductive.
LEMMA StepKeepsClient == ClientInv /\ [Next]_vars => ClientInv'
<1> SUFFICES ASSUME ClientInv, [Next]_vars  PROVE ClientInv'
  OBVIOUS
<1>1. TypeOK'
  BY StepKeepsType DEF ClientInv
<1>2. CASE overtaken'
  BY <1>1, <1>2 DEF ClientInv
<1>3. CASE ~overtaken'
  <2>1. Sound
    BY <1>3, OvertakenStays, SoundOrOvertaken
  <2> QED
    BY <1>1, <1>3, <2>1, StepKeepsSound DEF ClientInv
<1> QED
  BY <1>2, <1>3

\* The types are kept and, until a close() is overtaken, the pointers, the flags and
\* the cancellations are about the one run that is active, for any number of
\* overlapping callers (WebBoilerWsClient.py:129-236).
THEOREM ClientInvariant == Spec => []ClientInv
  BY Initialised, StepKeepsClient, PTL DEF Spec

\* However start() and close() overlap, a background task that is_running() does not
\* report comes of one thing only: a close() writes _task = None for the task it
\* waited for when another one runs (WebBoilerWsClient.py:189-236).
THEOREM NothingUnseen == Spec => []NoUnseenRun
<1>1. ClientInv => NoUnseenRun
  BY DEF ClientInv, RunInv, NoUnseenRun
<1> QED
  BY ClientInvariant, <1>1, PTL

\* However start() and close() overlap, websocket_connected and the event tell the
\* truth until such a task runs (WebBoilerClient.py:259-275,
\* WebBoilerWsClient.py:129-138).
THEOREM FlagTellsTheTruth == Spec => []HonestFlag
<1>1. ClientInv => HonestFlag
  BY DEF ClientInv, TypeOK, FlagInv, HonestFlag
<1> QED
  BY ClientInvariant, <1>1, PTL

-----------------------------------------------------------------------------
\* A caller alone is never overtaken.

\* A close() that waits for a run waits for the one that _task names.
WaitsForTask == \A c \in Callers : pc[c] = "joining_run" => awaits[c] = task

\* Nobody else can put another run there.
LEMMA StepKeepsWaiting ==
  ASSUME \A c, d \in Callers : c = d
  PROVE  TypeOK /\ ~overtaken /\ WaitsForTask /\ [Next]_vars => ~overtaken' /\ WaitsForTask'
<1> SUFFICES ASSUME TypeOK, ~overtaken, WaitsForTask, [Next]_vars
             PROVE  ~overtaken' /\ WaitsForTask'
  OBVIOUS
<1> USE DEF TypeOK, WaitsForTask, Proceed
<1>1. ASSUME NEW r \in Runs,
             \/ Secured(r) \/ Established(r) \/ ConnectRaises(r) \/ Connected(r)
             \/ SocketLost(r) \/ HeartbeatEnds(r)
      PROVE  ~overtaken' /\ WaitsForTask'
  BY <1>1 DEF Secured, Established, ConnectRaises, Connected, SocketLost, HeartbeatEnds
<1>2. ASSUME NEW r \in Runs, Noticed(r) \/ Unwound(r) \/ CancelMet(r)
      PROVE  ~overtaken' /\ WaitsForTask'
  BY <1>2 DEF Noticed, Unwound, CancelMet, LeaveConnection, Settle
<1>3. ASSUME NEW c \in Callers, Start(c) \/ StartReturns(c)
      PROVE  ~overtaken' /\ WaitsForTask'
  BY <1>3 DEF Start, StartReturns
<1>4. ASSUME NEW c \in Callers,
             StartTimesOut(c) \/ Close(c) \/ SocketClosed(c) \/ HeartbeatJoined(c)
      PROVE  ~overtaken' /\ WaitsForTask'
  BY <1>4 DEF StartTimesOut, Close, CloseBegins, SocketClosed, HeartbeatJoined, JoinHeartbeat,
     JoinRun, JoinEnds, Forget, CloseRaises
<1>5. ASSUME NEW c \in Callers, RunJoined(c)
      PROVE  ~overtaken' /\ WaitsForTask'
  BY <1>5 DEF RunJoined, JoinEnds, Forget, CloseRaises
<1>6. CASE UNCHANGED vars
  BY <1>6 DEF vars
<1> QED
  BY <1>1, <1>2, <1>3, <1>4, <1>5, <1>6 DEF Next

\* A close() is overtaken only where two coroutines use the client: for a single one
\* nothing above is excused (WebBoilerWsClient.py:189-236).
THEOREM OvertakenByAnother == Spec => [](overtaken => \E c, d \in Callers : c # d)
<1>1. CASE \E c, d \in Callers : c # d
  BY <1>1, PTL
<1>2. CASE \A c, d \in Callers : c = d
  <2>1. Init => ~overtaken /\ WaitsForTask
    BY DEF Init, WaitsForTask
  <2>2. ClientInv => TypeOK
    BY DEF ClientInv
  <2>3. TypeOK /\ ~overtaken /\ WaitsForTask /\ [Next]_vars => ~overtaken' /\ WaitsForTask'
    BY <1>2, StepKeepsWaiting
  <2> QED
    BY ClientInvariant, <2>1, <2>2, <2>3, PTL DEF Spec
<1> QED
  BY <1>1, <1>2

-----------------------------------------------------------------------------
\* The client implements RealtimeChannel.

\* What runs is what is_running() reports, and what is up runs.
SeenByFlags ==
  /\ ChannelSeen \in {"stopped", "retrying", "up"}
  /\ ChannelSeen = "stopped" <=> ~is_running
  /\ ChannelSeen = "up" <=> websocket_connected

\* In every state of the client the channel can be read off its flags.
LEMMA SeenChannel == Sound => SeenByFlags
  BY DEF SeenByFlags, ChannelSeen, Active, is_running, Sound, TypeOK, RunInv,
     NoUnseenRun, FlagInv

\* So it can after a step.
LEMMA SeenChannelNext == Sound' => SeenByFlags'
  BY SeenChannel, PTL

\* Nobody sees a step that starts or ends no run, and leaves flag and callers alone.
LEMMA Unseen ==
  ASSUME Sound, Sound', UNCHANGED <<websocket_connected, pc>>,
         is_running' <=> is_running
  PROVE  UNCHANGED Channel!channelVars
<1>1. PlaceSeen' = PlaceSeen
  BY DEF PlaceSeen
<1>2. ChannelSeen' = ChannelSeen
  BY SeenChannel, SeenChannelNext DEF SeenByFlags
<1> QED
  BY <1>1, <1>2 DEF Channel!channelVars

\* A run ends by itself before it is connected, or for somebody who waits for it.
LEMMA EndIsSeen ==
  ASSUME Sound, Sound', UNCHANGED pc, is_running, ~is_running',
         ~websocket_connected \/ \E c \in Callers : pc[c] = "joining_run"
  PROVE  Channel!Ends
<1>1. PlaceSeen' = PlaceSeen
  BY DEF PlaceSeen
<1>2. ChannelSeen' = "stopped" /\ ChannelSeen # "stopped"
  BY SeenChannel, SeenChannelNext DEF SeenByFlags
<1>3. ChannelSeen = "retrying" \/ \E c \in Callers : PlaceSeen[c] = "closing"
  BY SeenChannel, <1>2 DEF SeenByFlags, PlaceSeen
<1> QED
  BY <1>1, <1>2, <1>3 DEF Channel!Ends

\* A session that ends takes the flag with it.
LEMMA LossIsSeen ==
  ASSUME Sound, Sound', UNCHANGED pc, is_running, is_running',
         ~websocket_connected'
  PROVE  [Channel!Next]_(Channel!channelVars)
<1>1. PlaceSeen' = PlaceSeen
  BY DEF PlaceSeen
<1>2. ChannelSeen' = "retrying" /\ ChannelSeen \in {"retrying", "up"}
  BY SeenChannel, SeenChannelNext DEF SeenByFlags
<1> QED
  BY <1>1, <1>2 DEF Channel!Next, Channel!Disconnected, Channel!channelVars

\* The active run is the one that acts.
LEMMA OneRunActs ==
  ASSUME Sound, NEW r \in Runs, stage[r] \notin Over
  PROVE  /\ task = r /\ is_running
         /\ stage[r] \in {"tls", "connecting", "handshake"} => ~websocket_connected
  BY DEF Sound, TypeOK, RunInv, NoUnseenRun, FlagInv, is_running

\* Each step of a run is a step of the channel, or is not seen.
LEMMA RunImplements ==
  ASSUME Sound, Sound', NEW r \in Runs,
         \/ Secured(r) \/ Established(r) \/ ConnectRaises(r) \/ Connected(r)
         \/ SocketLost(r) \/ Noticed(r) \/ Unwound(r) \/ CancelMet(r) \/ HeartbeatEnds(r)
  PROVE  [Channel!Next]_(Channel!channelVars)
<1>1. CASE SocketLost(r) \/ HeartbeatEnds(r)
  BY <1>1, Unseen DEF SocketLost, HeartbeatEnds, is_running
<1>2. CASE Secured(r) \/ Established(r) \/ ConnectRaises(r)
  <2>1. task = r /\ is_running /\ ~websocket_connected /\ UNCHANGED <<websocket_connected, pc>>
    BY <1>2, OneRunActs DEF Secured, Established, ConnectRaises
  <2> QED
    BY <2>1, Unseen, EndIsSeen DEF Channel!Next
<1>3. CASE Connected(r)
  <2>1. task = r /\ is_running /\ ~websocket_connected
    BY <1>3, OneRunActs DEF Connected
  <2>2. websocket_connected' /\ PlaceSeen' =
          [c \in Callers |-> IF PlaceSeen[c] = "starting" THEN "started" ELSE PlaceSeen[c]]
    BY <1>3 DEF Connected, PlaceSeen, Sound, TypeOK
  <2>3. ChannelSeen = "retrying" /\ ChannelSeen' = "up"
    BY <2>1, <2>2, SeenChannel, SeenChannelNext DEF SeenByFlags
  <2> QED
    BY <2>2, <2>3 DEF Channel!Next, Channel!Connected
<1>4. ASSUME NEW ends \in BOOLEAN, Settle(r, ends), UNCHANGED <<task, pc>>, stage[r] \notin Over,
             ends => \E c \in Callers : pc[c] = "joining_run"
      PROVE  [Channel!Next]_(Channel!channelVars)
  <2>1. task = r /\ is_running
    BY <1>4, OneRunActs
  <2>2. ~websocket_connected' /\ is_running' = ~ends
    BY <1>4, <2>1 DEF Settle, Down, Goto, is_running, Sound, TypeOK
  <2>3. CASE ends
    BY <1>4, <2>1, <2>2, <2>3, EndIsSeen DEF Channel!Next
  <2>4. CASE ~ends
    BY <1>4, <2>1, <2>2, <2>4, LossIsSeen
  <2> QED
    BY <2>3, <2>4
<1>5. ASSUME NEW ends \in BOOLEAN, LeaveConnection(r, ends), stage[r] \in InSession,
             ends => \E c \in Callers : pc[c] = "joining_run"
      PROVE  [Channel!Next]_(Channel!channelVars)
  <2>1. CASE Settle(r, ends)
    BY <1>4, <1>5, <2>1 DEF LeaveConnection
  <2>2. CASE /\ Goto(r, IF ends THEN "leaving" ELSE "unwinding")
             /\ UNCHANGED websocket_connected
    <3>1. task = r /\ is_running
      BY <1>5, OneRunActs
    <3>2. is_running'
      BY <1>5, <2>2, <3>1 DEF LeaveConnection, Goto, is_running, Sound, TypeOK
    <3> QED
      BY <1>5, <2>2, <3>1, <3>2, Unseen DEF LeaveConnection
  <2> QED
    BY <1>5, <2>1, <2>2 DEF LeaveConnection
<1>6. CASE Noticed(r)
  BY <1>5, <1>6 DEF Noticed
<1>7. CASE Unwound(r)
  BY <1>4, <1>7 DEF Unwound, Sound, CloserInv
<1>8. CASE CancelMet(r)
  <2>1. \E c \in Callers : pc[c] = "joining_run"
    BY <1>8 DEF CancelMet, Sound, CloserInv
  <2>2. CASE stage[r] \in InSession /\ LeaveConnection(r, TRUE)
    BY <1>5, <1>8, <2>1, <2>2 DEF CancelMet
  <2>3. CASE stage[r] \in {"tls", "connecting"} /\ Goto(r, "done")
             /\ UNCHANGED <<pointers, events, sockets, heart, calling, overtaken>>
    BY <2>1, <2>3, OneRunActs, EndIsSeen
    DEF Channel!Next, Goto, is_running, Sound, TypeOK
  <2> QED
    BY <1>8, <2>2, <2>3 DEF CancelMet
<1> QED
  BY <1>1, <1>2, <1>3, <1>6, <1>7, <1>8

\* A caller that has nothing left to wait for leaves the channel stopped.
LEMMA LeavingIsSeen ==
  ASSUME Sound, Sound', NEW c \in Callers, pc' = [pc EXCEPT ![c] = "idle"],
         ~is_running, ~is_running'
  PROVE  [Channel!Next]_(Channel!channelVars)
<1>1. PlaceSeen' = [PlaceSeen EXCEPT ![c] = "idle"]
  BY DEF PlaceSeen, Sound, TypeOK
<1>2. ChannelSeen = "stopped" /\ ChannelSeen' = "stopped"
  BY SeenChannel, SeenChannelNext DEF SeenByFlags
<1>3. CASE PlaceSeen[c] = "idle"
  BY <1>1, <1>2, <1>3 DEF Channel!channelVars, PlaceSeen
<1>4. CASE PlaceSeen[c] # "idle"
  BY <1>1, <1>2, <1>4 DEF Channel!Next, Channel!Closed, Channel!Goto
<1> QED
  BY <1>3, <1>4

\* One that has to wait in close() is seen to close, and changes nothing else.
LEMMA ClosingIsSeen ==
  ASSUME Sound, Sound', NEW c \in Callers, NEW to \in Closing,
         pc' = [pc EXCEPT ![c] = to], UNCHANGED websocket_connected, is_running' <=> is_running
  PROVE  [Channel!Next]_(Channel!channelVars)
<1>1. PlaceSeen' = [PlaceSeen EXCEPT ![c] = "closing"]
  BY DEF PlaceSeen, Sound, TypeOK
<1>2. ChannelSeen' = ChannelSeen
  BY SeenChannel, SeenChannelNext DEF SeenByFlags
<1>3. CASE PlaceSeen[c] = "closing"
  BY <1>1, <1>2, <1>3 DEF Channel!channelVars, PlaceSeen
<1>4. CASE PlaceSeen[c] # "closing"
  BY <1>1, <1>2, <1>4 DEF Channel!Next, Channel!Close, Channel!Goto
<1> QED
  BY <1>3, <1>4

\* Each step of start() and close() is a step of the channel, or is not seen.
LEMMA CallerImplements ==
  ASSUME Sound, Sound', NEW c \in Callers,
         \/ Start(c) \/ StartReturns(c) \/ StartTimesOut(c) \/ Close(c)
         \/ SocketClosed(c) \/ HeartbeatJoined(c) \/ RunJoined(c)
  PROVE  [Channel!Next]_(Channel!channelVars)
<1>1. CASE Start(c)
  <2>1. PlaceSeen[c] = "idle" /\ PlaceSeen' = [PlaceSeen EXCEPT ![c] = "starting"]
    BY <1>1 DEF Start, Proceed, PlaceSeen, Sound, TypeOK
  <2>2. ~is_running /\ is_running' /\ UNCHANGED websocket_connected
    BY <1>1 DEF Start, Goto, is_running, Sound, TypeOK
  <2>3. ChannelSeen = "stopped" /\ ChannelSeen' = "retrying"
    BY <2>2, SeenChannel, SeenChannelNext DEF SeenByFlags
  <2> QED
    BY <2>1, <2>3 DEF Channel!Next, Channel!Start, Channel!Goto
<1>2. CASE StartReturns(c)
  <2>1. PlaceSeen[c] = "started" /\ PlaceSeen' = [PlaceSeen EXCEPT ![c] = "idle"]
    BY <1>2 DEF StartReturns, Proceed, PlaceSeen, Sound, TypeOK
  <2>2. ChannelSeen' = ChannelSeen
    BY <1>2 DEF StartReturns, ChannelSeen, Active
  <2> QED
    BY <2>1, <2>2 DEF Channel!Next, Channel!StartReturns, Channel!Goto
<1>3. ASSUME JoinRun(c), UNCHANGED <<stage, websocket_connected>>
      PROVE  [Channel!Next]_(Channel!channelVars)
  <2>1. CASE is_running /\ Proceed(c, "joining_run", task) /\ UNCHANGED task
    BY <1>3, <2>1, ClosingIsSeen DEF Proceed, is_running
  <2>2. CASE ~is_running /\ (Forget(c) \/ CloseRaises(c))
    BY <1>3, <2>2, LeavingIsSeen DEF Forget, CloseRaises, Proceed, is_running
  <2> QED
    BY <1>3, <2>1, <2>2 DEF JoinRun, JoinEnds, is_running
<1>4. ASSUME JoinHeartbeat(c), UNCHANGED <<stage, websocket_connected>>
      PROVE  [Channel!Next]_(Channel!channelVars)
  BY <1>3, <1>4, ClosingIsSeen DEF JoinHeartbeat, Proceed, is_running
<1>5. CASE StartTimesOut(c) \/ Close(c)
  BY <1>4, <1>5, ClosingIsSeen DEF StartTimesOut, Close, CloseBegins, Proceed, is_running
<1>6. CASE SocketClosed(c) \/ HeartbeatJoined(c)
  BY <1>3, <1>4, <1>6 DEF SocketClosed, HeartbeatJoined
<1>7. CASE RunJoined(c)
  <2>1. ~is_running
    BY <1>7 DEF RunJoined, IsOver, Sound, is_running
  <2> QED
    BY <1>7, <2>1, LeavingIsSeen
    DEF RunJoined, JoinEnds, Forget, CloseRaises, Proceed, is_running
<1> QED
  BY <1>1, <1>2, <1>5, <1>6, <1>7

\* However its callers overlap, and up to the step in which a close() is overtaken, the
\* client is the channel that the tick and the relogin take it for, for any number of
\* callers and runs (WebBoilerWsClient.py:140-236).
THEOREM ClientIsAChannel == Spec => ImplementsChannel
<1>1. Init => Channel!Init
  BY DEF Init, Channel!Init, ChannelSeen, Active, PlaceSeen
<1>2. ClientInv /\ ClientInv' /\ [Next]_vars => [Channel!Next \/ overtaken']_(Channel!channelVars)
  <2> SUFFICES ASSUME ClientInv, ClientInv', [Next]_vars, ~overtaken'
               PROVE  [Channel!Next]_(Channel!channelVars)
    OBVIOUS
  <2>1. Sound /\ Sound'
    BY OvertakenStays, SoundOrOvertaken DEF ClientInv, Sound
  <2>2. CASE UNCHANGED vars
    BY <2>2 DEF vars, Channel!channelVars, ChannelSeen, Active, PlaceSeen
  <2> QED
    BY <2>1, <2>2, RunImplements, CallerImplements DEF Next
<1> QED
  BY ClientInvariant, <1>1, <1>2, PTL DEF Spec, ImplementsChannel
=============================================================================
