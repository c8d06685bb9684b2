---------------------------- MODULE SensorReadings ----------------------------
(***************************************************************************)
(* What the sensors of a PelTec II show of the cached readings.  An entity *)
(* renders itself from its own parameter and from others that qualify it,  *)
(* whenever the callback of one that it listens to is called.  A parameter *)
(* may be reported for the first time at any moment, also after the        *)
(* entities were created and added.                                        *)
(*                                                                         *)
(* Data is taken as fresh: entities that go unavailable with the           *)
(* connection are modelled in Availability.                                *)
(***************************************************************************)
EXTENDS PelTec2

CONSTANTS
  Boilers,          \* sets of parameters that one boiler may report
  Values(_)         \* the readings that a parameter may have

VARIABLES
  cache,            \* the reading of each parameter
  at,               \* "down" or "up": the sensor platform has been set up
  entities,         \* the sensors that were created, by their parameter
  listening,        \* the parameters on which a sensor has a callback
  shown,            \* what each sensor that is added last wrote
  removed,          \* the sensors that were removed again
  met               \* history: those that qualify a sensor and were known at its addition

vars == <<cache, at, entities, listening, shown, removed, met>>

Params == UNION Boilers
Known  == {p \in DOMAIN cache : cache[p] # Absent}   \* has_parameter

-----------------------------------------------------------------------------
\* The kinds of sensors.

Temperatures == {"B_Tk1", "B_Tdpl1", "B_Tpov1", "B_Tkm1", "B_Tak1_1", "B_Tva1", "K1B_Tpol1", "K1B_kor"}
Counters     == {"CNT_0", "CNT_1", "CNT_7"}
Measurements == [B_FotV |-> 1001, B_sng |-> 1000, PVAL_582_0 |-> 10000]
Percentages  == {"B_razP", "B_misP"}
Relays       == [B_P1 |-> 1, B_P2 |-> 2, B_P3 |-> 3, B_P4 |-> 4]
Configured   == {"B_bup", "B_PTV_PRI", "B_REC", "B_REO"}
OnOff        == {"B_fireS", "B_gri", "B_zahPpwm", "B_VAC_TUR", "B_tur", "B_doz", "B_pres", "B_puz"}
                  \cup Configured \cup DOMAIN Relays
CircuitOnOff == {"K1B_P", "K1B_onOff", "K1B_zahP"}
Binary       == {"B_Ppwm", "B_fan01"}
Helpers      == {"B_addConf", "B_resDir", "B_resMax"}  \* read by others, no sensors

\* Sensors with a display precision: Home Assistant raises on a text there.
Numeric == Temperatures \cup Counters \cup Percentages \cup DOMAIN Measurements
             \cup {"B_Oxy1", "B_signal"}

\* A parameter that was reported once is never absent again.  Counters come as
\* numbers, and a grate is never at a negative position: nothing in the code
\* checks these two.
Kinds == {"int", "text", "decimal", "hex", "nan", "inf", "word", "null"}
ASSUME ReadingsAssumption ==
  /\ \A p \in Params : Values(p) \subseteq [kind : Kinds, n : Int]
  /\ \A p \in Params \cap Counters : \A v \in Values(p) : v = Null \/ IsNumber(v)
  /\ "B_resInd" \in Params => \A v \in Values("B_resInd") : v.n >= 0

-----------------------------------------------------------------------------
\* What a sensor shows, for the readings c.

Value(c, p) == IF p \in DOMAIN c /\ c[p] # Absent THEN c[p] ELSE Null

Raw(v)   == IF v = Null THEN Nothing ELSE IF IsNumber(v) THEN Number(Halves(v)) ELSE Text(v)
NonZero(v, other) == IF IsInt(v) THEN Label(IF v.n # 0 THEN 1 ELSE 0) ELSE other
Flame(c) == NonZero(Value(c, "B_fireS"), Nothing)

\* The grate's position, in percent; none if one of the three is no number.
Grate(c) == {c[p] : p \in {"B_resInd", "B_resDir", "B_resMax"}}
GrateKnown(c)  == \A v \in Grate(c) : IsInt(v)
Position(c) ==
  IF GrateKnown(c) /\ c["B_resMax"].n > 0
  THEN (c["B_resInd"].n * 100) \div c["B_resMax"].n ELSE 0
Opening(c) == c["B_resDir"].n > 0

NativeValue(s, c) ==
  LET v == c[s] IN
  CASE s \in Temperatures -> valid_temperature(s, v)
    [] s = "B_Oxy1"   -> valid_lambda(v)
    [] s = "B_signal" -> valid_signal_db(v)
    [] s \in Percentages -> valid_percentage(v)
    [] s \in DOMAIN Measurements -> valid_nonnegative_measurement(v, Measurements[s])
    [] s = "B_specG"  -> decode_status_mark(v)
    [] s = "B_start"  -> decode_start_transition(v, Value(c, "B_STATE"))
    [] s \in OnOff    -> NonZero(v, Raw(v))
    [] s \in CircuitOnOff -> NonZero(v, Text(v))
    [] s \in Binary   -> IF IsInt(v) /\ v.n \in 0 .. 1 THEN Label(v.n) ELSE Text(v)
    [] s = "K1B_dayNight" -> IF IsInt(v) /\ v.n \in 0 .. 2 THEN Label(v.n) ELSE Text(v)
    [] s = "B_razina" -> decode_tank_level(v)
    [] s = "B_SUP_TYPE" -> decode_internet_access(v)
    [] s = "B_Inp1"   -> IF IsHex(v) THEN Label(IF portal_hex_bit_is_set(v, 6) THEN 1 ELSE 0) ELSE Nothing
    [] s = "B_STATE"  -> IF v.kind = "word" THEN Label(v.n) ELSE IF v = Null THEN Unknown(0) ELSE Text(v)
    [] s = "B_KONF"   -> IF IsScheme(v) THEN Label(v.n + 1)
                         ELSE IF IsInt(v) /\ v.n >= 0 THEN Text([v EXCEPT !.n = @ + 1]) ELSE Raw(v)
    [] s = "B_resInd" -> IF Position(c) = 0 THEN Label(0)
                         ELSE Label(IF Opening(c) THEN Position(c) ELSE -Position(c))
    [] OTHER -> Raw(v)

\* The pellet level is shown only where the accessory is enabled.
LevelEnabled(c) == portal_hex_bit_is_set(Value(c, "B_addConf"), 3)

Available(s, c) ==
  CASE s \in Temperatures \cup {"B_Oxy1", "B_signal", "B_misP", "B_FotV", "B_sng", "B_Inp1"} ->
         NativeValue(s, c) # Nothing
    [] s = "B_razP" -> NativeValue(s, c) # Nothing /\ LevelEnabled(c)
    [] OTHER -> TRUE

\* Attributes that are more than the raw reading.
Attributes(s, c) ==
  CASE s = "B_start" -> <<Value(c, "B_STATE")>>
    [] s = "B_specG" -> <<TemporaryShutdown(c[s])>>
    [] s = "B_Oxy1"  -> <<valid_lambda(c[s]) # Nothing /\ Flame(c) = Label(1), Value(c, "B_STATE"), Flame(c)>>
    [] s = "B_signal" -> <<valid_signal_db(c[s]) # Nothing>>
    [] s = "B_FotV"  -> <<valid_nonnegative_measurement(c[s], 1001) = Number(2 * 1001)>>
    [] s = "B_misP" /\ valid_percentage(c[s]) # Nothing ->
         <<IF Halves(c[s]) = 0 THEN "closed" ELSE IF Halves(c[s]) = 200 THEN "open" ELSE "partially">>
    [] s \in DOMAIN Relays /\ IsScheme(Value(c, "B_KONF")) ->
         <<relay_function(Value(c, "B_KONF"), Relays[s])>>
    [] s = "B_resInd" ->
         <<IF ~GrateKnown(c) THEN "unknown" ELSE IF Position(c) <= 0 THEN "closed"
           ELSE IF Position(c) >= 100 THEN "open" ELSE IF Opening(c) THEN "opening" ELSE "closing">>
    [] OTHER -> <<>>

Render(s, c) ==
  [available |-> Available(s, c), state |-> NativeValue(s, c), attributes |-> Attributes(s, c)]

-----------------------------------------------------------------------------
\* Which sensors are created, for the readings c of the parameters known.

OwnPump == {"K1", "DHW K1"}    \* P1 is then the pump that K1B_P reports

Creatable(s, c, known) ==
  LET konf == Value(c, "B_KONF") IN
  /\ s \in known \ Helpers
  /\ s = "B_P1" /\ "K1B_P" \in known => IsScheme(konf) /\ relay_function(konf, 1) \notin OwnPump
  /\ s = "B_razP" => LevelEnabled(c)
  /\ s = "B_bup" => configuration_has_buffer(konf)
  /\ s = "B_PTV_PRI" => configuration_has_dhw_priority(konf)
  /\ s \in {"B_REC", "B_REO"} => configuration_has_dhw_recirculation(konf)
  /\ s = "B_resInd" => {"B_resDir", "B_resMax"} \subseteq known

\* What a sensor reads besides its own parameter, and what it listens to.
Sources(s) ==
  CASE s = "B_start"  -> {"B_STATE"}
    [] s = "B_Oxy1"   -> {"B_STATE", "B_fireS"}
    [] s = "B_razP"   -> {"B_addConf"}
    [] s = "B_resInd" -> {"B_resDir", "B_resMax"}
    [] s \in DOMAIN Relays -> {"B_KONF"}
    [] OTHER -> {}
Deafened(s)  == Sources(s) \ {"B_KONF", "B_addConf"}   \* faulty variant: a dependency forgotten
Subscribed(s) == Sources(s) \ {"B_KONF"}
Left(s)     == Sources(s) \ {"B_KONF", "B_fireS"}      \* faulty variant: forgotten at removal
Released(s) == Sources(s) \ {"B_KONF"}

-----------------------------------------------------------------------------
Init ==
  /\ \E boiler \in Boilers : cache = [p \in boiler |-> Absent]
  /\ at = "down" /\ entities = {} /\ removed = {}
  /\ listening = [s \in Params |-> {}]
  /\ shown = [s \in {} |-> Render(s, cache)]
  /\ met = [s \in Params |-> {}]

\* A snapshot or a frame brings a new reading; it may be the first.
Update(p, v) ==
  /\ v # cache[p]
  /\ cache' = [cache EXCEPT ![p] = v]
  /\ shown' = [s \in DOMAIN shown |-> IF p \in listening[s] THEN Render(s, cache') ELSE shown[s]]
  /\ UNCHANGED <<at, entities, listening, removed, met>>

\* The platform's setup: the lambda sensor is made even without a reading.
Setup ==
  /\ at = "down" /\ at' = "up"
  /\ cache' = [p \in DOMAIN cache |-> IF p = "B_Oxy1" THEN Value(cache, p) ELSE cache[p]]
  /\ entities' = {s \in DOMAIN cache :
                    Creatable(s, cache, Known \cup ({"B_Oxy1"} \cap DOMAIN cache))}
  /\ UNCHANGED <<listening, shown, removed, met>>

\* async_added_to_hass(): a dependency that is not known yet is not listened to.
Add(s) ==
  /\ s \in entities \ (DOMAIN shown \cup removed)
  /\ listening' = [listening EXCEPT ![s] = {s} \cup (Subscribed(s) \cap Known)]
  /\ shown' = [t \in DOMAIN shown \cup {s} |-> IF t = s THEN Render(s, cache) ELSE shown[t]]
  /\ met' = [met EXCEPT ![s] = Known \cap Sources(s)]
  /\ UNCHANGED <<cache, at, entities, removed>>

\* async_will_remove_from_hass(), at an unload.
Remove(s) ==
  /\ s \in DOMAIN shown
  /\ listening' = [listening EXCEPT ![s] = @ \ ({s} \cup (Released(s) \cap Known))]
  /\ shown' = [t \in DOMAIN shown \ {s} |-> shown[t]]
  /\ removed' = removed \cup {s}
  /\ UNCHANGED <<cache, at, entities, met>>

\* notify_all_updated()
NotifyAll ==
  /\ shown' = [s \in DOMAIN shown |-> Render(s, cache)]
  /\ UNCHANGED <<cache, at, entities, listening, removed, met>>

Next ==
  \/ Setup \/ NotifyAll
  \/ \E s \in entities : Add(s) \/ Remove(s)
  \/ \E p \in DOMAIN cache : \E v \in Values(p) : Update(p, v)

Spec == Init /\ [][Next]_vars

-----------------------------------------------------------------------------
\* What the entities can be relied on for.

TypeOK ==
  /\ DOMAIN cache \in Boilers
  /\ \A p \in DOMAIN cache : cache[p] \in Values(p) \cup {Absent, Null}
  /\ at \in {"down", "up"}
  /\ entities \subseteq DOMAIN cache
  /\ DOMAIN shown \subseteq entities \ removed /\ removed \subseteq entities
  /\ listening \in [Params -> SUBSET Params] /\ met \in [Params -> SUBSET Params]

\* An entity shows what the readings that it is made of say now, if those that
\* qualify its own were known when it was added; a relay's function is as of
\* the last change of the relay.  The lambda sensor shows its reading in any
\* case ("becomes available immediately when a valid reading returns").
ShownIsCurrent ==
  /\ TypeOK
  /\ \A s \in DOMAIN shown :
       LET now == Render(s, cache) IN
       /\ Subscribed(s) \subseteq met[s] \/ s = "B_Oxy1" =>
            shown[s].state = now.state /\ shown[s].available = now.available
       /\ Sources(s) \subseteq met[s] /\ s \notin DOMAIN Relays => shown[s] = now

\* An entity that was removed is not called any more.
RemovedIsDeaf == \A s \in removed : listening[s] = {}

\* State, availability and attributes of an entity tell one story: a numeric
\* sensor never shows a text or a number out of range, it is available only
\* with a number, and the attributes describe the state that is shown.
StateIsSound ==
  \A s \in DOMAIN shown :
    LET state == shown[s].state
        attributes == shown[s].attributes
    IN
    /\ s \in Numeric => state.as \in {"number", "nothing"}
    /\ s \in Numeric \ (Counters \cup {"PVAL_582_0"}) /\ shown[s].available => state.as = "number"
    /\ s \in Percentages /\ state.as = "number" => state.of \in 0 .. 200
    /\ s = "B_Oxy1" /\ attributes[1] => shown[s].available
    /\ s = "B_signal" => (attributes[1] <=> shown[s].available)
    /\ s = "B_FotV" /\ attributes[1] => state = Number(2002)
    /\ s = "B_misP" => (attributes # <<>> <=> shown[s].available)
    /\ s = "B_specG" => (state.as = "label" <=> attributes[1] # Nothing)
    /\ s = "B_resInd" =>
         /\ state.of = 0 <=> attributes[1] \in {"unknown", "closed"}
         /\ state.of \in 1 .. 99 <=> attributes[1] = "opening"
         /\ state.of \in -99 .. -1 <=> attributes[1] = "closing"

\* Two entities of one boiler agree that the burner pauses.
StandbyAgrees ==
  {"B_start", "B_STATE"} \subseteq DOMAIN shown =>
    (shown["B_start"].state = Paused <=> shown["B_STATE"].state = Label(Standby.n))

\* Whatever configuration the controller of this boiler reports, the sensors
\* that a setup would then create are those of the manual's lists, and they
\* agree with what the relays' sensors say the relays drive.
SchemesAgree ==
  "B_KONF" \in DOMAIN cache => \A n \in 1 .. 45 :
    LET konf     == Reading("int", n - 1)
        then     == [cache EXCEPT !["B_KONF"] = konf]
        Made(s)  == Creatable(s, then, Known \cup {s})
        scheme   == peltec2_scheme(konf)
        relays   == 1 .. Len(scheme.relays)
        driven   == {relay_function(konf, k) : k \in relays}
    IN
    /\ Made("B_bup") <=> n \in 11 .. 44
    /\ Made("B_PTV_PRI") <=> n \in {2, 5, 6, 9, 10, 25, 32, 35, 40, 43, 44} \cup 13 .. 20
    /\ \A s \in {"B_REC", "B_REO"} : Made(s) <=> driven \cap Recirculations # {}
    /\ "Buffer" \in driven => Made("B_bup")
    /\ "Diverter" \in driven \/ driven \cap DhwPumps # {} <=> Made("B_PTV_PRI")
    /\ scheme.dhw = "diverter" <=> "Diverter" \in driven
    /\ \A j, k \in relays : scheme.relays[j] = scheme.relays[k] => j = k
=============================================================================
