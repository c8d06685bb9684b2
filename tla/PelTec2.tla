------------------------------- MODULE PelTec2 -------------------------------
(***************************************************************************)
(* How the readings of a PelTec II are decoded, and what its 45 hydraulic  *)
(* configurations contain.  A reading is a raw value of the portal:        *)
(*   int, text      the number n, or a text of its digits                  *)
(*   decimal        the text "n.5"                                         *)
(*   hex            a text of hexadecimal digits, not all decimal, worth n *)
(*   nan, inf       texts that float() takes for numbers                   *)
(*   word           the n-th of the other texts                            *)
(*   null, absent   no value; no such parameter                            *)
(* A decoded value is one of the results below; numbers count halves.      *)
(***************************************************************************)
EXTENDS Integers, Sequences

Reading(kind, n) == [kind |-> kind, n |-> n]
Null    == Reading("null", 0)
Absent  == Reading("absent", 0)
Standby == Reading("word", 0)        \* the stage "S7-3"

Result(as, of) == [as |-> as, of |-> of]
Nothing    == Result("nothing", 0)   \* None: the state is "unknown"
Number(h)  == Result("number", h)
Label(n)   == Result("label", n)
Unknown(n) == Result("unknown", n)   \* "Unknown (n)"
Text(v)    == Result("text", v.n)

IsInt(v)    == v.kind \in {"int", "text"}
IsNumber(v) == v.kind \in {"int", "text", "decimal"}
Halves(v)   == 2 * v.n + (IF v.kind = "decimal" THEN 1 ELSE 0)

\* int(text, 16): the digits of a number are read as hexadecimal ones.
HexDigits[n \in Nat] == IF n < 10 THEN n ELSE 16 * HexDigits[n \div 10] + (n % 10)

IsHex(v) == v.kind = "hex" \/ IsInt(v)
parse_portal_hex(v) ==
  IF v.kind = "hex" THEN v.n ELSE IF v.n < 0 THEN -HexDigits[-v.n] ELSE HexDigits[v.n]
portal_hex_bit_is_set(v, bit) == IsHex(v) /\ (parse_portal_hex(v) \div 2^bit) % 2 = 1

\* Tables of labels: what is not a number is shown as it is.
Lookup(table, v) ==
  IF ~IsInt(v) THEN Text(v) ELSE IF v.n \in table THEN Label(v.n) ELSE Unknown(v.n)

decode_internet_access(v) == Lookup(1 .. 2, v)
decode_status_mark(v)     == Lookup(0 .. 5, v)
decode_tank_level(v)      == Lookup(0 .. 2, v)

\* Whether a status mark stands for a temporary shutdown.
TemporaryShutdown(v) ==
  IF IsInt(v) /\ v.n \in 0 .. 5 THEN Label(IF v.n = 0 THEN 0 ELSE 1) ELSE Nothing

Paused == Label(-1)
Commanded(v, stage) == Lookup(0 .. 3, v)     \* faulty variant: the stage is not looked at
decode_start_transition(v, stage) == IF stage = Standby THEN Paused ELSE Lookup(0 .. 3, v)

If(ok, v) == IF ok THEN Number(Halves(v)) ELSE Nothing

valid_temperature(parameter, v) ==
  LET upper == IF parameter = "B_Tdpl1" THEN 300 ELSE 145
  IN  If(/\ IsNumber(v) /\ 2 * (-45) < Halves(v) /\ Halves(v) < 2 * upper
         /\ ~(parameter \in {"B_Tdpl1", "B_Tpov1"} /\ Halves(v) = 0), v)
valid_lambda(v)    == If(IsNumber(v), v)
valid_signal_db(v) == If(IsNumber(v) /\ Halves(v) # 0, v)
valid_nonnegative_measurement(v, maximum) ==
  If(IsNumber(v) /\ 0 <= Halves(v) /\ Halves(v) <= 2 * maximum, v)
InRange(v) ==      \* faulty variant: NaN is not out of range
  IF v.kind = "nan" THEN Result("nan", 0) ELSE If(IsNumber(v) /\ ~(Halves(v) < 0 \/ Halves(v) > 200), v)
valid_percentage(v) == If(IsNumber(v) /\ ~(Halves(v) < 0 \/ Halves(v) > 200), v)

-----------------------------------------------------------------------------
\* The hydraulic configurations: the buffer ("CAS-B" has a DHW tank in it), how
\* a separate DHW tank is loaded, whether DHW recirculates, and what each of
\* the relays P1.. drives.
Scheme(buffer, dhw, recirculation, relays) ==
  [buffer |-> buffer, dhw |-> dhw, recirculation |-> recirculation, relays |-> relays]

DhwPumps == {"DHW K1", "DHW K2"}
Recirculations == {"Recirculation", "Recirculation K1", "Recirculation K2"}

\* Schemes 1 to 10.
Unbuffered == <<
  Scheme("none", "none",     FALSE, <<"K1">>),
  Scheme("none", "pump",     TRUE,  <<"K1", "DHW K2", "Recirculation K2">>),
  Scheme("none", "none",     FALSE, <<"K1", "K2">>),
  Scheme("none", "none",     FALSE, <<"K1">>),
  Scheme("none", "diverter", TRUE,  <<"K1 or DHW", "Diverter", "Recirculation K2">>),
  Scheme("none", "pump",     TRUE,  <<"K1", "DHW K2", "Recirculation K2">>),
  Scheme("none", "none",     FALSE, <<"K1", "K2">>),
  Scheme("none", "boiler",   TRUE,  <<"Recirculation K1">>),
  Scheme("none", "pump",     TRUE,  <<"DHW K1", "Recirculation K1">>),
  Scheme("none", "pump",     TRUE,  <<"DHW K1", "DHW K2", "Recirculation K1", "Recirculation K2">>) >>

CAS(relays)    == Scheme("CAS", "none", FALSE, relays)
Drained(relays) == Scheme("CAS-B", "none", TRUE, relays)      \* faulty variant: a pump forgotten
CAS_B(relays)  == Scheme("CAS-B", "none", TRUE, Append(relays, "Recirculation"))
Loaded(dhw, relays) == Scheme("CAS", dhw, TRUE, relays)

\* Schemes 11 to 44.
Buffered == <<
  CAS(<<>>),
  CAS_B(<<>>),
  Loaded("diverter", <<"Diverter", "Recirculation K1">>),
  Loaded("diverter", <<"Diverter", "K1", "Recirculation K2">>),
  Loaded("diverter", <<"Diverter", "K1", "Recirculation K2">>),
  Loaded("diverter", <<"Diverter", "DHW K2", "Recirculation K1", "Recirculation K2">>),
  Loaded("pump", <<"Buffer", "DHW K1", "Recirculation K1">>),
  Loaded("pump", <<"Buffer", "DHW K2", "K1", "Recirculation K2">>),
  Loaded("pump", <<"Buffer", "DHW K2", "K1", "Recirculation K2">>),
  Loaded("pump", <<"Buffer", "DHW K1", "DHW K2", "Recirculation K1">>),
  CAS(<<"K1", "Buffer">>),
  CAS_B(<<"K1", "Buffer">>),
  CAS(<<"K1", "Buffer", "K2">>),
  CAS_B(<<"K1", "Buffer", "K2">>),
  Loaded("pump", <<"K1", "Buffer", "DHW K2", "Recirculation K2">>),
  CAS(<<"K1", "Buffer">>),
  CAS_B(<<"K1", "Buffer">>),
  CAS(<<"K2", "Buffer", "K1">>),
  CAS_B(<<"K2", "Buffer", "K1">>),
  CAS(<<"K1", "Buffer", "K2">>),
  CAS_B(<<"K1", "Buffer", "K2">>),
  Loaded("pump", <<"K1", "Buffer", "DHW K2", "Recirculation K2">>),
  CAS(<<"K1">>),
  CAS_B(<<"K1">>),
  Loaded("pump", <<"K1", "DHW K2", "Recirculation K2">>),
  CAS(<<"K1", "K2">>),
  CAS_B(<<"K1", "K2">>),
  CAS(<<"K1">>),
  CAS_B(<<"K1">>),
  Loaded("pump", <<"K1", "DHW K2", "Recirculation K2">>),
  CAS(<<"K1", "K2">>),
  CAS_B(<<"K1", "K2">>),
  Loaded("pump", <<"DHW K1", "Recirculation K1">>),
  Loaded("pump", <<"DHW K1", "DHW K2", "Recirculation K1", "Recirculation K2">>) >>

\* Scheme 45 has CM2K circuits only.
PELTEC2_SCHEMES == Unbuffered \o Buffered \o <<Scheme("none", "none", FALSE, <<>>)>>

\* B_KONF is zero-based.
IsScheme(v) == IsInt(v) /\ v.n + 1 \in 1 .. Len(PELTEC2_SCHEMES)
peltec2_scheme(v) == PELTEC2_SCHEMES[v.n + 1]

configuration_has_buffer(v) == IsScheme(v) /\ peltec2_scheme(v).buffer # "none"
configuration_has_dhw_priority(v) == IsScheme(v) /\ peltec2_scheme(v).dhw \in {"pump", "diverter"}
configuration_has_dhw_recirculation(v) == IsScheme(v) /\ peltec2_scheme(v).recirculation
relay_function(v, relay) ==
  IF IsScheme(v) /\ relay \in 1 .. Len(peltec2_scheme(v).relays)
  THEN peltec2_scheme(v).relays[relay] ELSE "none"
=============================================================================
