------------------------ MODULE SensorReadings_proofs ------------------------
(***************************************************************************)
(* Proofs about the sensors, for any boilers and any readings that their   *)
(* parameters may have, in every order of first reports, additions and     *)
(* removals; and about the table of the 45 configurations, which agrees    *)
(* with the sensors that a setup creates whatever else is reported.        *)
(***************************************************************************)
EXTENDS SensorReadings, SequenceTheorems, TLAPS

\* Sensors are there for parameters that were known at the setup.
Created ==
  /\ at = "down" => entities = {}
  /\ entities \subseteq Known
  /\ "B_resInd" \in entities => {"B_resDir", "B_resMax"} \subseteq DOMAIN cache

\* A sensor that is added listens to itself and to what it found on its
\* addition, which includes whatever has a sensor of its own.
Hooked ==
  \A s \in DOMAIN shown :
    /\ met[s] \subseteq Known
    /\ Sources(s) \cap entities \subseteq met[s]
    /\ listening[s] = {s} \cup (Subscribed(s) \cap met[s])

\* What a sensor shows is consistent, whichever readings it is made of.
Sound(s, r) ==
  LET state == r.state
      attributes == r.attributes
  IN
  /\ s \in Numeric => state.as \in {"number", "nothing"}
  /\ s \in Numeric \ (Counters \cup {"PVAL_582_0"}) /\ r.available => state.as = "number"
  /\ s \in Percentages /\ state.as = "number" => state.of \in 0 .. 200
  /\ s = "B_Oxy1" /\ attributes[1] => r.available
  /\ s = "B_signal" => (attributes[1] <=> r.available)
  /\ s = "B_FotV" /\ attributes[1] => state = Number(2002)
  /\ s = "B_misP" => (attributes # <<>> <=> r.available)
  /\ s = "B_specG" => (state.as = "label" <=> attributes[1] # Nothing)
  /\ s = "B_resInd" =>
       /\ state.of = 0 <=> attributes[1] \in {"unknown", "closed"}
       /\ state.of \in 1 .. 99 <=> attributes[1] = "opening"
       /\ state.of \in -99 .. -1 <=> attributes[1] = "closing"

ReadingsInv ==
  /\ ShownIsCurrent /\ RemovedIsDeaf
  /\ Created /\ Hooked
  /\ \A s \in DOMAIN shown : Sound(s, shown[s])

-----------------------------------------------------------------------------
\* What a sensor renders of any readings.

\* Where a sensor says what it shows: the arms of NativeValue, one kind each.
LEMMA NativeValues ==
  ASSUME NEW s, NEW c
  PROVE  /\ s \in Temperatures => NativeValue(s, c) = valid_temperature(s, c[s])
         /\ s = "B_Oxy1" => NativeValue(s, c) = valid_lambda(c[s])
         /\ s = "B_signal" => NativeValue(s, c) = valid_signal_db(c[s])
         /\ s \in Percentages => NativeValue(s, c) = valid_percentage(c[s])
         /\ s \in DOMAIN Measurements =>
              NativeValue(s, c) = valid_nonnegative_measurement(c[s], Measurements[s])
         /\ s = "B_specG" => NativeValue(s, c) = decode_status_mark(c[s])
         /\ s = "B_start" => NativeValue(s, c) = decode_start_transition(c[s], Value(c, "B_STATE"))
         /\ s \in Counters => NativeValue(s, c) = Raw(c[s])
  BY DEF NativeValue, Temperatures, Percentages, Measurements, OnOff, CircuitOnOff, Binary,
         Configured, Relays, Counters

\* A validation answers with a number or with nothing.
LEMMA Validations ==
  ASSUME NEW v, NEW s, NEW maximum
  PROVE  \A r \in {valid_temperature(s, v), valid_lambda(v), valid_signal_db(v),
                   valid_percentage(v), valid_nonnegative_measurement(v, maximum)} :
           r = Nothing \/ r = Number(Halves(v))
  BY DEF valid_temperature, valid_lambda, valid_signal_db, valid_percentage,
         valid_nonnegative_measurement, If

\* A number is told from nothing.
LEMMA NumberOrNothing ==
  ASSUME NEW h
  PROVE  /\ Number(h).as = "number" /\ Number(h).of = h
         /\ Nothing.as = "nothing" /\ Nothing # Number(h)
  BY DEF Number, Nothing, Result

\* Readings as the portal reports them, and of a parameter that is not there.
Readings == [kind : Kinds \cup {"absent"}, n : Int]

\* Where the grate stands: what is shown is its position, signed by its direction.
LEMMA GrateIsSound ==
  ASSUME NEW c, {c["B_resInd"], c["B_resDir"], c["B_resMax"]} \subseteq Readings,
         c["B_resInd"].n >= 0
  PROVE  Sound("B_resInd", Render("B_resInd", c))
<1> DEFINE state == Render("B_resInd", c).state
           text  == Render("B_resInd", c).attributes[1]
<1>1. state = IF Position(c) = 0 THEN Label(0)
              ELSE Label(IF Opening(c) THEN Position(c) ELSE -Position(c))
  BY DEF Render, NativeValue, Temperatures, Percentages, Measurements, OnOff, CircuitOnOff, Binary,
         Configured, Relays
<1>2. text = IF ~GrateKnown(c) THEN "unknown" ELSE IF Position(c) <= 0 THEN "closed"
             ELSE IF Position(c) >= 100 THEN "open" ELSE IF Opening(c) THEN "opening" ELSE "closing"
  BY DEF Render, Attributes, Relays
<1>3. Position(c) \in Nat
  <2>1. ASSUME NEW i \in Int, NEW m \in Int, i >= 0, m > 0  PROVE (i * 100) \div m \in Nat
    BY <2>1
  <2>2. QED
    BY <2>1 DEF Position, Readings
<1>4. ~GrateKnown(c) => Position(c) = 0
  BY DEF Position
<1>5. state.of = IF Opening(c) THEN Position(c) ELSE -Position(c)
  BY <1>1, <1>3 DEF Label, Result
<1>6. /\ state.of = 0 <=> text \in {"unknown", "closed"}
      /\ state.of \in 1 .. 99 <=> text = "opening"
      /\ state.of \in -99 .. -1 <=> text = "closing"
  BY <1>2, <1>3, <1>4, <1>5
<1>7. QED
  BY <1>6 DEF Sound, Numeric, Temperatures, Counters, Percentages, Measurements

\* A sensor with a display precision never renders a text.
LEMMA NumericIsSound ==
  ASSUME NEW s \in Numeric, NEW c, c[s] \in Readings,
         s \in Counters => c[s] = Null \/ IsNumber(c[s])
  PROVE  LET r == Render(s, c) IN
         /\ r.state = Nothing \/ r.state = Number(Halves(c[s]))
         /\ s \in Percentages /\ r.state # Nothing => r.state.of \in 0 .. 200
         /\ s \notin Counters \cup {"PVAL_582_0"} /\ r.available => r.state # Nothing
<1>1. Render(s, c).state = NativeValue(s, c) /\ Render(s, c).available = Available(s, c)
  BY DEF Render
<1>2. CASE s \in Temperatures \/ s = "B_Oxy1" \/ s = "B_signal"
  BY <1>1, <1>2, NativeValues, Validations
  DEF Available, Temperatures, Percentages, Counters
<1>3. CASE s \in Percentages
  <2>1. NativeValue(s, c) = valid_percentage(c[s])
    BY <1>3, NativeValues
  <2>2. ASSUME NativeValue(s, c) # Nothing
        PROVE  NativeValue(s, c) = Number(Halves(c[s])) /\ Halves(c[s]) \in 0 .. 200
    BY <2>1, <2>2 DEF valid_percentage, If, Halves, Readings
  <2>3. Available(s, c) => NativeValue(s, c) # Nothing
    BY <1>3 DEF Available, Percentages, Temperatures
  <2>4. QED
    BY <1>1, <2>2, <2>3, NumberOrNothing
<1>4. CASE s \in DOMAIN Measurements
  <2>1. NativeValue(s, c) \in {Nothing, Number(Halves(c[s]))}
    BY <1>4, NativeValues, Validations
  <2>2. s # "PVAL_582_0" /\ Available(s, c) => NativeValue(s, c) # Nothing
    BY <1>4 DEF Available, Measurements, Temperatures, Percentages
  <2>3. s \notin Percentages
    BY <1>4 DEF Measurements, Percentages
  <2>4. QED
    BY <1>1, <2>1, <2>2, <2>3
<1>5. CASE s \in Counters
  <2>1. NativeValue(s, c) = Raw(c[s]) /\ s \notin Percentages
    BY <1>5, NativeValues DEF Counters, Percentages
  <2>2. Raw(c[s]) \in {Nothing, Number(Halves(c[s]))}
    BY <1>5 DEF Raw
  <2>3. QED
    BY <1>1, <1>5, <2>1, <2>2
<1>6. QED
  BY <1>2, <1>3, <1>4, <1>5 DEF Numeric

\* The attributes of those that the invariant speaks of.
LEMMA AttributeArms ==
  ASSUME NEW c
  PROVE  /\ Attributes("B_Oxy1", c) =
              <<valid_lambda(c["B_Oxy1"]) # Nothing /\ Flame(c) = Label(1), Value(c, "B_STATE"), Flame(c)>>
         /\ Attributes("B_signal", c) = <<valid_signal_db(c["B_signal"]) # Nothing>>
         /\ Attributes("B_FotV", c) =
              <<valid_nonnegative_measurement(c["B_FotV"], 1001) = Number(2 * 1001)>>
         /\ Attributes("B_specG", c) = <<TemporaryShutdown(c["B_specG"])>>
<1>1. Attributes("B_specG", c) = <<TemporaryShutdown(c["B_specG"])>>
  BY DEF Attributes, Relays
<1>2. Attributes("B_Oxy1", c) =
        <<valid_lambda(c["B_Oxy1"]) # Nothing /\ Flame(c) = Label(1), Value(c, "B_STATE"), Flame(c)>>
  BY DEF Attributes, Relays
<1>3. Attributes("B_signal", c) = <<valid_signal_db(c["B_signal"]) # Nothing>>
  BY DEF Attributes, Relays
<1>4. Attributes("B_FotV", c) =
        <<valid_nonnegative_measurement(c["B_FotV"], 1001) = Number(2 * 1001)>>
  BY DEF Attributes, Relays
<1>5. QED
  BY <1>1, <1>2, <1>3, <1>4

\* Whatever the readings, what a sensor renders of them is sound.
LEMMA RenderIsSound ==
  ASSUME NEW s, NEW c, c[s] \in Readings,
         s \in Counters => c[s] = Null \/ IsNumber(c[s]),
         s = "B_resInd" => {c["B_resDir"], c["B_resMax"]} \subseteq Readings /\ c[s].n >= 0
  PROVE  Sound(s, Render(s, c))
<1> DEFINE r == Render(s, c)
<1>1. CASE s \in Numeric
  <2>1. /\ r.state.as \in {"number", "nothing"}
        /\ s \in Numeric \ (Counters \cup {"PVAL_582_0"}) /\ r.available => r.state.as = "number"
        /\ s \in Percentages /\ r.state.as = "number" => r.state.of \in 0 .. 200
    BY <1>1, NumericIsSound, NumberOrNothing
  <2>2. s = "B_Oxy1" /\ r.attributes[1] => r.available
    <3>1. ASSUME s = "B_Oxy1"  PROVE r.available = (NativeValue(s, c) # Nothing)
      BY <3>1 DEF Render, Available, Temperatures
    <3>2. ASSUME s = "B_Oxy1"  PROVE r.attributes[1] = (valid_lambda(c[s]) # Nothing /\ Flame(c) = Label(1))
      BY <3>2, AttributeArms DEF Render
    <3>3. QED
      BY <3>1, <3>2, NativeValues
  <2>3. s = "B_signal" => (r.attributes[1] <=> r.available)
    <3>1. ASSUME s = "B_signal"  PROVE r.available = (NativeValue(s, c) # Nothing)
      BY <3>1 DEF Render, Available, Temperatures
    <3>2. ASSUME s = "B_signal"  PROVE r.attributes[1] = (valid_signal_db(c[s]) # Nothing)
      BY <3>2, AttributeArms DEF Render
    <3>3. QED
      BY <3>1, <3>2, NativeValues
  <2>4. s = "B_FotV" /\ r.attributes[1] => r.state = Number(2002)
    <3>1. ASSUME s = "B_FotV", r.attributes[1]
          PROVE  valid_nonnegative_measurement(c[s], 1001) = Number(2 * 1001)
      <4>1. r.attributes[1] = (valid_nonnegative_measurement(c[s], 1001) = Number(2 * 1001))
        BY <3>1, AttributeArms DEF Render
      <4>2. QED
        BY <3>1, <4>1, Zenon
    <3>2. ASSUME s = "B_FotV"  PROVE r.state = valid_nonnegative_measurement(c[s], 1001)
      BY <3>2, NativeValues DEF Render, Measurements
    <3>3. Number(2 * 1001) = Number(2002)
      OBVIOUS
    <3>4. QED
      BY <3>1, <3>2, <3>3
  <2>5. s = "B_misP" => (r.attributes # <<>> <=> r.available)
    BY NativeValues DEF Render, Attributes, Available, Temperatures, Percentages, Relays
  <2>6. s \notin {"B_specG", "B_resInd"}
    BY <1>1 DEF Numeric, Temperatures, Counters, Percentages, Measurements
  <2>7. QED
    BY <2>1, <2>2, <2>3, <2>4, <2>5, <2>6 DEF Sound
<1>2. CASE s = "B_specG"
  <2>1. r.state = decode_status_mark(c[s]) /\ r.attributes = <<TemporaryShutdown(c[s])>>
    BY <1>2, NativeValues, AttributeArms DEF Render
  <2>2. r.state.as = "label" <=> TemporaryShutdown(c[s]) # Nothing
    BY <2>1 DEF decode_status_mark, Lookup, TemporaryShutdown, Label, Unknown, Text, Nothing, Result
  <2>3. QED
    BY <1>2, <2>1, <2>2 DEF Sound, Numeric, Temperatures, Counters, Percentages, Measurements
<1>3. CASE s = "B_resInd"
  BY <1>3, GrateIsSound
<1>4. CASE s \notin Numeric \cup {"B_specG", "B_resInd"}
  BY <1>4 DEF Sound, Numeric, Percentages, Measurements
<1>5. QED
  BY <1>1, <1>2, <1>3, <1>4

-----------------------------------------------------------------------------
\* What a sensor renders depends on no reading but those it subscribes to, and
\* the state of a lambda sensor or a relay on none but its own.

\* The readings c and d agree on all that the sensor s listens to.
Agree(s, c, d) ==
  /\ c[s] = d[s]
  /\ \A p \in Subscribed(s) : Value(c, p) = Value(d, p)
  /\ s = "B_resInd" => c["B_resDir"] = d["B_resDir"] /\ c["B_resMax"] = d["B_resMax"]

\* What each sensor listens to beside its own parameter.
LEMMA SourcesOf ==
  /\ Subscribed("B_start") = {"B_STATE"}
  /\ Subscribed("B_Oxy1") = {"B_STATE", "B_fireS"}
  /\ Subscribed("B_razP") = {"B_addConf"}
  /\ Subscribed("B_resInd") = {"B_resDir", "B_resMax"}
  /\ \A s \in DOMAIN Relays : Subscribed(s) = {}
  /\ \A s : s \notin DOMAIN Relays => "B_KONF" \notin Sources(s)
  BY DEF Subscribed, Sources, Relays

\* The state of a sensor depends on what it listens to only.
LEMMA StateDepends ==
  ASSUME NEW s, NEW c, NEW d, Agree(s, c, d) \/ (s = "B_Oxy1" /\ c[s] = d[s])
  PROVE  NativeValue(s, c) = NativeValue(s, d)
<1>1. CASE s = "B_start"
  BY <1>1, NativeValues, SourcesOf DEF Agree
<1>2. CASE s = "B_resInd"
  <2>1. Grate(c) = Grate(d) /\ Position(c) = Position(d) /\ Opening(c) = Opening(d)
    BY <1>2 DEF Agree, Grate, GrateKnown, Position, Opening
  <2>2. QED
    BY <1>2, <2>1 DEF NativeValue, Temperatures, Percentages, Measurements, OnOff, CircuitOnOff,
                      Binary, Configured, Relays
<1>3. CASE s \notin {"B_start", "B_resInd"}
  BY <1>3 DEF NativeValue, Agree
<1>4. QED
  BY <1>1, <1>2, <1>3

\* So does its availability,
LEMMA AvailabilityDepends ==
  ASSUME NEW s, NEW c, NEW d, Agree(s, c, d) \/ (s = "B_Oxy1" /\ c[s] = d[s])
  PROVE  Available(s, c) = Available(s, d)
<1>1. NativeValue(s, c) = NativeValue(s, d)
  BY StateDepends
<1>2. s = "B_razP" => LevelEnabled(c) = LevelEnabled(d)
  BY SourcesOf DEF Agree, LevelEnabled
<1>3. QED
  BY <1>1, <1>2 DEF Available

\* and so do its attributes, but for the relays.
LEMMA AttributesDepend ==
  ASSUME NEW s, NEW c, NEW d, Agree(s, c, d), s \notin DOMAIN Relays
  PROVE  Attributes(s, c) = Attributes(s, d)
<1>1. s = "B_start" => Value(c, "B_STATE") = Value(d, "B_STATE")
  BY SourcesOf DEF Agree
<1>2. s = "B_Oxy1" => Value(c, "B_STATE") = Value(d, "B_STATE") /\ Flame(c) = Flame(d)
  BY SourcesOf DEF Agree, Flame
<1>3. s = "B_resInd" => /\ GrateKnown(c) = GrateKnown(d)
                        /\ Position(c) = Position(d) /\ Opening(c) = Opening(d)
  BY DEF Agree, Grate, GrateKnown, Position, Opening
<1>4. c[s] = d[s]
  BY DEF Agree
<1>5. QED
  BY <1>1, <1>2, <1>3, <1>4 DEF Attributes

-----------------------------------------------------------------------------
\* The cache.

WellFormed(c) ==
  /\ DOMAIN c \in Boilers
  /\ \A p \in DOMAIN c : c[p] \in Values(p) \cup {Absent, Null}

\* What is rendered of a cache as the portal fills it is sound.
LEMMA SoundlyRendered ==
  ASSUME NEW c, WellFormed(c), NEW s \in DOMAIN c, c[s] # Absent,
         s = "B_resInd" => {"B_resDir", "B_resMax"} \subseteq DOMAIN c
  PROVE  Sound(s, Render(s, c))
<1>1. DOMAIN c \subseteq Params
  BY DEF WellFormed, Params
<1>2. Absent \in Readings /\ Null \in Readings /\ Null.n = 0
  BY DEF Absent, Null, Reading, Readings, Kinds
<1>3. \A p \in DOMAIN c : c[p] \in Readings
  <2>1. \A p \in DOMAIN c : Values(p) \subseteq Readings
    BY <1>1, ReadingsAssumption DEF Readings
  <2>2. QED
    BY <1>2, <2>1 DEF WellFormed
<1>4. s \in Counters => c[s] = Null \/ IsNumber(c[s])
  BY <1>1, ReadingsAssumption DEF WellFormed
<1>5. s = "B_resInd" => c[s].n >= 0
  BY <1>1, <1>2, ReadingsAssumption DEF WellFormed
<1>6. QED
  BY <1>3, <1>4, <1>5, RenderIsSound

\* What was reported once stays known.
LEMMA ReportedIsThere ==
  ASSUME TypeOK, NEW p \in DOMAIN cache, NEW v \in Values(p), Update(p, v)
  PROVE  Known \subseteq Known' /\ DOMAIN cache' = DOMAIN cache
<1>1. v # Absent
  BY ReadingsAssumption DEF TypeOK, Params, Kinds, Absent, Reading
<1>2. cache' = [cache EXCEPT ![p] = v]
  BY DEF Update
<1>3. QED
  BY <1>1, <1>2 DEF Known

-----------------------------------------------------------------------------
\* The steps.

\* Every step keeps the types.
LEMMA StepTypes ==
  ASSUME ReadingsInv, Next
  PROVE  TypeOK'
<1> USE DEF ReadingsInv, ShownIsCurrent, TypeOK
<1>1. CASE Setup
  <2>1. DOMAIN cache' = DOMAIN cache /\ \A p \in DOMAIN cache : cache'[p] \in {cache[p], Null}
    BY <1>1 DEF Setup, Value
  <2>2. entities' \subseteq DOMAIN cache /\ entities = {} /\ at' = "up"
    BY <1>1 DEF Setup, Created
  <2>3. UNCHANGED <<listening, shown, removed, met>>
    BY <1>1 DEF Setup
  <2>4. QED
    BY <2>1, <2>2, <2>3
<1>2. CASE NotifyAll
  BY <1>2 DEF NotifyAll
<1>3. ASSUME NEW s \in entities, Add(s)  PROVE TypeOK'
  <2>1. s \in Params /\ Known \subseteq Params
    BY DEF Params, Known
  <2>2. listening' \in [Params -> SUBSET Params] /\ met' \in [Params -> SUBSET Params]
    BY <1>3, <2>1 DEF Add
  <2>3. DOMAIN shown' = DOMAIN shown \cup {s} /\ s \notin removed
    BY <1>3 DEF Add
  <2>4. QED
    BY <1>3, <2>2, <2>3 DEF Add
<1>4. ASSUME NEW s \in entities, Remove(s)  PROVE TypeOK'
  <2>1. listening' \in [Params -> SUBSET Params]
    BY <1>4 DEF Remove
  <2>2. DOMAIN shown' = DOMAIN shown \ {s} /\ removed' = removed \cup {s}
    BY <1>4 DEF Remove
  <2>3. QED
    BY <1>4, <2>1, <2>2 DEF Remove
<1>5. ASSUME NEW p \in DOMAIN cache, NEW v \in Values(p), Update(p, v)  PROVE TypeOK'
  <2>1. DOMAIN cache' = DOMAIN cache /\ \A q \in DOMAIN cache : cache'[q] \in {cache[q]} \cup Values(q)
    BY <1>5 DEF Update
  <2>2. DOMAIN shown' = DOMAIN shown
    BY <1>5 DEF Update
  <2>3. QED
    BY <1>5, <2>1, <2>2 DEF Update
<1>6. QED
  BY <1>1, <1>2, <1>3, <1>4, <1>5 DEF Next

\* The invariant, sensor by sensor.
UpToDate(s) ==
  LET now == Render(s, cache) IN
  /\ Subscribed(s) \subseteq met[s] \/ s = "B_Oxy1" =>
       shown[s].state = now.state /\ shown[s].available = now.available
  /\ Sources(s) \subseteq met[s] /\ s \notin DOMAIN Relays => shown[s] = now

\* Nothing is shown before the setup.
LEMMA SetupKeepsReadings == ReadingsInv /\ Setup => ReadingsInv'
<1> SUFFICES ASSUME ReadingsInv, Setup  PROVE ReadingsInv'
  OBVIOUS
<1>1. TypeOK'
  BY StepTypes DEF Next
<1>2. DOMAIN shown = {} /\ removed = {} /\ shown' = shown /\ removed' = removed
  BY DEF ReadingsInv, ShownIsCurrent, TypeOK, Created, Setup
<1>3. DOMAIN cache' = DOMAIN cache
  BY DEF Setup
<1>4. Known \cup ({"B_Oxy1"} \cap DOMAIN cache) \subseteq Known'
  <2>1. Null # Absent
    BY DEF Null, Absent, Reading
  <2>2. ASSUME NEW p \in DOMAIN cache, cache[p] # Absent \/ p = "B_Oxy1"  PROVE cache'[p] # Absent
    BY <2>1, <2>2 DEF Setup, Value
  <2>3. QED
    BY <1>3, <2>2 DEF Known
<1>5. \A s \in entities' : /\ s \in Known'
                           /\ s = "B_resInd" => {"B_resDir", "B_resMax"} \subseteq DOMAIN cache
  <2>1. ASSUME NEW s \in DOMAIN cache, Creatable(s, cache, Known \cup ({"B_Oxy1"} \cap DOMAIN cache))
        PROVE  /\ s \in Known \cup ({"B_Oxy1"} \cap DOMAIN cache)
               /\ s = "B_resInd" =>
                    {"B_resDir", "B_resMax"} \subseteq Known \cup ({"B_Oxy1"} \cap DOMAIN cache)
    BY <2>1 DEF Creatable
  <2>2. QED
    BY <1>4, <2>1 DEF Setup, Known
<1>6. Created'
  BY <1>3, <1>5 DEF Created, Setup
<1>7. QED
  BY <1>1, <1>2, <1>6 DEF ReadingsInv, RemovedIsDeaf, Hooked, ShownIsCurrent

\* Whatever is notified, everybody renders the readings of now.
LEMMA NotifyAllKeepsReadings == ReadingsInv /\ NotifyAll => ReadingsInv'
<1> SUFFICES ASSUME ReadingsInv, NotifyAll  PROVE ReadingsInv'
  OBVIOUS
<1>1. TypeOK'
  BY StepTypes DEF Next
<1>2. /\ DOMAIN shown' = DOMAIN shown
      /\ \A s \in DOMAIN shown : shown'[s] = Render(s, cache)
      /\ UNCHANGED <<cache, at, entities, listening, removed, met>>
  BY DEF NotifyAll
<1>3. Created' /\ Hooked' /\ RemovedIsDeaf'
  BY <1>2 DEF ReadingsInv, Created, Hooked, RemovedIsDeaf, Known
<1>4. ASSUME NEW s \in DOMAIN shown'  PROVE UpToDate(s)' /\ Sound(s, shown'[s])
  <2>1. TypeOK /\ Created /\ s \in entities
    BY <1>2, <1>4 DEF ReadingsInv, ShownIsCurrent, TypeOK
  <2>2. cache[s] # Absent /\ s \in DOMAIN cache /\ WellFormed(cache)
    BY <2>1 DEF Created, Known, TypeOK, WellFormed
  <2>3. Sound(s, Render(s, cache))
    BY <2>1, <2>2, SoundlyRendered DEF Created
  <2>4. QED
    BY <1>2, <2>3 DEF UpToDate
<1>5. QED
  BY <1>1, <1>3, <1>4 DEF ReadingsInv, ShownIsCurrent, UpToDate

\* A new reading reaches whoever listens to it, and for all others it makes no
\* difference to what they are shown to be made of.
LEMMA UpdateKeepsReadings ==
  ASSUME ReadingsInv, NEW p \in DOMAIN cache, NEW v \in Values(p), Update(p, v)
  PROVE  ReadingsInv'
<1>1. TypeOK'
  BY StepTypes DEF Next
<1>2. /\ DOMAIN shown' = DOMAIN shown
      /\ \A s \in DOMAIN shown :
           shown'[s] = IF p \in listening[s] THEN Render(s, cache') ELSE shown[s]
      /\ cache' = [cache EXCEPT ![p] = v]
      /\ UNCHANGED <<at, entities, listening, removed, met>>
  BY DEF Update
<1>3. Known \subseteq Known' /\ DOMAIN cache' = DOMAIN cache
  BY ReportedIsThere DEF ReadingsInv, ShownIsCurrent
<1>4. Created' /\ Hooked' /\ RemovedIsDeaf'
  BY <1>2, <1>3 DEF ReadingsInv, Created, Hooked, RemovedIsDeaf
<1>5. ASSUME NEW s \in DOMAIN shown  PROVE UpToDate(s)' /\ Sound(s, shown'[s])
  <2>1. s \in DOMAIN cache /\ cache'[s] # Absent
    BY <1>3 DEF ReadingsInv, ShownIsCurrent, TypeOK, Created, Known
  <2>2. s = "B_resInd" => {"B_resDir", "B_resMax"} \subseteq DOMAIN cache
    BY DEF ReadingsInv, ShownIsCurrent, TypeOK, Created
  <2>3. CASE p \in listening[s]
    <3>1. Sound(s, Render(s, cache'))
      BY <1>1, <1>3, <2>1, <2>2, SoundlyRendered DEF TypeOK, WellFormed
    <3>2. QED
      BY <1>2, <2>3, <3>1 DEF UpToDate
  <2>4. CASE p \notin listening[s]
    <3>1. p # s /\ p \notin Subscribed(s) \cap met[s]
      BY <2>4 DEF ReadingsInv, Hooked
    <3>2. cache[s] = cache'[s] /\ \A q : q # p => Value(cache, q) = Value(cache', q)
      BY <1>2, <2>1, <3>1 DEF Value
    <3>3. Subscribed(s) \subseteq met[s] => Agree(s, cache, cache')
      BY <1>2, <2>2, <3>1, <3>2, SourcesOf DEF Agree
    <3>4. UpToDate(s) /\ Sound(s, shown[s]) /\ shown'[s] = shown[s]
      BY <1>2, <2>4 DEF ReadingsInv, ShownIsCurrent, UpToDate
    <3>5. Subscribed(s) \subseteq met[s] \/ s = "B_Oxy1" =>
            Render(s, cache).state = Render(s, cache').state
              /\ Render(s, cache).available = Render(s, cache').available
      BY <3>2, <3>3, StateDepends, AvailabilityDepends DEF Render
    <3>6. Sources(s) \subseteq met[s] /\ s \notin DOMAIN Relays =>
            Render(s, cache) = Render(s, cache')
      BY <3>3, StateDepends, AvailabilityDepends, AttributesDepend DEF Render, Subscribed
    <3>7. QED
      BY <1>2, <3>4, <3>5, <3>6 DEF UpToDate
  <2>5. QED
    BY <2>3, <2>4
<1>6. QED
  BY <1>1, <1>2, <1>4, <1>5 DEF ReadingsInv, ShownIsCurrent, UpToDate

\* A sensor that is added renders itself and listens to what is known by then.
LEMMA AddKeepsReadings ==
  ASSUME ReadingsInv, NEW s \in entities, Add(s)
  PROVE  ReadingsInv'
<1>1. TypeOK'
  BY StepTypes DEF Next
<1>2. s \in Params /\ s \in Known /\ s \notin DOMAIN shown \cup removed
  BY DEF ReadingsInv, ShownIsCurrent, TypeOK, Created, Params, Add
<1>3. /\ DOMAIN shown' = DOMAIN shown \cup {s}
      /\ shown'[s] = Render(s, cache) /\ \A t \in DOMAIN shown : shown'[t] = shown[t]
      /\ UNCHANGED <<cache, at, entities, removed>>
  BY <1>2 DEF Add
<1>4. /\ met'[s] = Known \cap Sources(s)
      /\ listening'[s] = {s} \cup (Subscribed(s) \cap Known)
      /\ \A t \in Params \ {s} : met'[t] = met[t] /\ listening'[t] = listening[t]
  BY <1>2 DEF Add, ReadingsInv, ShownIsCurrent, TypeOK
<1>5. \A t \in DOMAIN shown \cup removed : t \in Params \ {s}
  BY <1>2 DEF ReadingsInv, ShownIsCurrent, TypeOK, Params
<1>6. Created' /\ RemovedIsDeaf'
  BY <1>3, <1>4, <1>5 DEF ReadingsInv, Created, RemovedIsDeaf, Known
<1>7. Hooked'
  <2>1. Subscribed(s) \cap Known = Subscribed(s) \cap (Known \cap Sources(s))
    BY DEF Subscribed
  <2>2. Known' = Known
    BY <1>3 DEF Known
  <2>3. ASSUME NEW t \in DOMAIN shown'
        PROVE  /\ met'[t] \subseteq Known'
               /\ Sources(t) \cap entities' \subseteq met'[t]
               /\ listening'[t] = {t} \cup (Subscribed(t) \cap met'[t])
    <3>1. CASE t = s
      BY <1>3, <1>4, <2>1, <2>2, <3>1 DEF ReadingsInv, Created
    <3>2. CASE t \in DOMAIN shown
      BY <1>3, <1>4, <1>5, <2>2, <3>2 DEF ReadingsInv, Hooked
    <3>3. QED
      BY <1>3, <3>1, <3>2
  <2>4. QED
    BY <2>3 DEF Hooked
<1>8. ASSUME NEW t \in DOMAIN shown'  PROVE UpToDate(t)' /\ Sound(t, shown'[t])
  <2>1. CASE t = s
    <3>1. s \in DOMAIN cache /\ cache[s] # Absent
      BY <1>2 DEF Known
    <3>2. Sound(s, Render(s, cache))
      BY <3>1, SoundlyRendered DEF ReadingsInv, ShownIsCurrent, TypeOK, WellFormed, Created
    <3>3. QED
      BY <1>3, <2>1, <3>2 DEF UpToDate
  <2>2. CASE t \in DOMAIN shown
    BY <1>3, <1>4, <1>5, <2>2 DEF ReadingsInv, ShownIsCurrent, UpToDate
  <2>3. QED
    BY <1>3, <2>1, <2>2
<1>9. QED
  BY <1>1, <1>6, <1>7, <1>8 DEF ReadingsInv, ShownIsCurrent, UpToDate

\* A sensor that is removed takes back every callback that it has.
LEMMA RemoveKeepsReadings ==
  ASSUME ReadingsInv, NEW s \in entities, Remove(s)
  PROVE  ReadingsInv'
<1>1. TypeOK'
  BY StepTypes DEF Next
<1>2. s \in Params /\ s \in DOMAIN shown
  BY DEF ReadingsInv, ShownIsCurrent, TypeOK, Params, Remove
<1>3. /\ DOMAIN shown' = DOMAIN shown \ {s} /\ \A t \in DOMAIN shown' : shown'[t] = shown[t]
      /\ removed' = removed \cup {s}
      /\ UNCHANGED <<cache, at, entities, met>>
  BY DEF Remove
<1>4. /\ listening'[s] = listening[s] \ ({s} \cup (Released(s) \cap Known))
      /\ \A t \in Params \ {s} : listening'[t] = listening[t]
  BY <1>2 DEF Remove, ReadingsInv, ShownIsCurrent, TypeOK
<1>5. listening'[s] = {}
  BY <1>2, <1>4 DEF ReadingsInv, Hooked, Released, Subscribed
<1>6. \A t \in DOMAIN shown \cup removed : t \in Params
  BY DEF ReadingsInv, ShownIsCurrent, TypeOK, Params
<1>7. Created' /\ Hooked' /\ RemovedIsDeaf'
  BY <1>3, <1>4, <1>5, <1>6 DEF ReadingsInv, Created, Hooked, RemovedIsDeaf, Known
<1>8. \A t \in DOMAIN shown' : UpToDate(t)' /\ Sound(t, shown'[t])
  BY <1>3 DEF ReadingsInv, ShownIsCurrent, UpToDate
<1>9. QED
  BY <1>1, <1>7, <1>8 DEF ReadingsInv, ShownIsCurrent, UpToDate

\* ReadingsInv is inductive.
LEMMA StepKeepsReadings == ReadingsInv /\ [Next]_vars => ReadingsInv'
<1> SUFFICES ASSUME ReadingsInv, [Next]_vars  PROVE ReadingsInv'
  OBVIOUS
<1>1. CASE Next
  BY <1>1, SetupKeepsReadings, NotifyAllKeepsReadings, UpdateKeepsReadings, AddKeepsReadings,
     RemoveKeepsReadings DEF Next
<1>2. CASE UNCHANGED vars
  <2> USE <1>2 DEF vars, ReadingsInv
  <2>1. ShownIsCurrent'
    BY DEF ShownIsCurrent, TypeOK
  <2>2. RemovedIsDeaf' /\ Created' /\ Hooked' /\ \A s \in DOMAIN shown' : Sound(s, shown'[s])
    BY DEF RemovedIsDeaf, Created, Hooked, Known
  <2>3. QED
    BY <2>1, <2>2
<1>3. QED
  BY <1>1, <1>2

\* Before the setup there are no sensors.
LEMMA ReadingsInitialised == Init => ReadingsInv
  BY DEF Init, ReadingsInv, ShownIsCurrent, TypeOK, RemovedIsDeaf, Created, Hooked

\* ReadingsInv is an invariant.
LEMMA ReadingsInvariant == Spec => []ReadingsInv
  BY ReadingsInitialised, StepKeepsReadings, PTL DEF Spec

\* What a sensor shows is what its readings say now, whenever they were first
\* reported (sensors/WebBoilerGenericSensor.py:112-157).
THEOREM SensorsAreCurrent == Spec => []ShownIsCurrent
  BY ReadingsInvariant, PTL DEF ReadingsInv

\* A removed sensor has no callback left (sensors/WebBoilerGenericSensor.py:93-110).
THEOREM RemovedSensorsAreDeaf == Spec => []RemovedIsDeaf
  BY ReadingsInvariant, PTL DEF ReadingsInv

\* Whatever the portal reports, a numeric sensor shows a number in its range or
\* none, and availability and attributes agree with it (peltec2.py:572-637).
THEOREM SensorsAreSound == Spec => []StateIsSound
<1>1. ReadingsInv => StateIsSound
  BY DEF ReadingsInv, StateIsSound, Sound
<1>2. QED
  BY ReadingsInvariant, <1>1, PTL

\* The start sensor shows the pause exactly while the stage sensor shows
\* standby: the stage was known when the start sensor was added.
THEOREM SensorsAgreeOnStandby == Spec => []StandbyAgrees
<1>1. ASSUME ReadingsInv, {"B_start", "B_STATE"} \subseteq DOMAIN shown
      PROVE  shown["B_start"].state = Paused <=> shown["B_STATE"].state = Label(Standby.n)
  <2>1. {"B_start", "B_STATE"} \subseteq entities /\ entities \subseteq DOMAIN cache
    BY <1>1 DEF ReadingsInv, ShownIsCurrent, TypeOK
  <2>2. "B_STATE" \in met["B_start"]
    BY <1>1, <2>1, SourcesOf DEF ReadingsInv, Hooked, Subscribed
  <2>3. shown["B_start"].state = NativeValue("B_start", cache)
    BY <1>1, <2>2, SourcesOf DEF ReadingsInv, ShownIsCurrent, Render
  <2>4. shown["B_STATE"].state = NativeValue("B_STATE", cache)
    BY <1>1 DEF ReadingsInv, ShownIsCurrent, Render, Subscribed, Sources, Relays
  <2>5. Value(cache, "B_STATE") = cache["B_STATE"]
    BY <1>1, <2>1 DEF ReadingsInv, Created, Known, Value
  <2>6. NativeValue("B_start", cache) = Paused <=> cache["B_STATE"] = Standby
    BY <2>5, NativeValues DEF decode_start_transition, Lookup, Paused, Label, Unknown, Text, Result
  <2>7. NativeValue("B_STATE", cache) = Label(Standby.n) <=> cache["B_STATE"] = Standby
    <3>1. cache["B_STATE"] \in [kind : Kinds, n : Int] \cup {Absent, Null}
      BY <1>1, <2>1, ReadingsAssumption DEF ReadingsInv, ShownIsCurrent, TypeOK, Params
    <3>2. QED
      BY <3>1 DEF NativeValue, Temperatures, Percentages, Measurements, OnOff, CircuitOnOff, Binary,
                  Configured, Relays, Label, Unknown, Text, Result, Standby, Reading, Null, Absent
  <2>8. QED
    BY <2>3, <2>4, <2>6, <2>7
<1>2. ReadingsInv => StandbyAgrees
  BY <1>1 DEF StandbyAgrees
<1>3. QED
  BY ReadingsInvariant, <1>2, PTL

-----------------------------------------------------------------------------
\* The schemes, one by one.

\* What the relays of a scheme drive, and that each drives something else.
Driven(relays)   == {relays[k] : k \in 1 .. Len(relays)}
Distinct(relays) == \A j, k \in 1 .. Len(relays) : relays[j] = relays[k] => j = k

\* Scheme n is as the manual's lists have it, and as its relays say.
Matches(n, buffer, dhw, recirculation, driven) ==
  /\ buffer # "none" <=> n \in 11 .. 44
  /\ dhw \in {"pump", "diverter"} <=>
       n \in {2, 5, 6, 9, 10, 25, 32, 35, 40, 43, 44} \cup 13 .. 20
  /\ recirculation <=> driven \cap Recirculations # {}
  /\ "Buffer" \in driven => buffer # "none"
  /\ "Diverter" \in driven \/ driven \cap DhwPumps # {} <=> dhw \in {"pump", "diverter"}
  /\ dhw = "diverter" <=> "Diverter" \in driven

Coherent(n, scheme) ==
  /\ Matches(n, scheme.buffer, scheme.dhw, scheme.recirculation, Driven(scheme.relays))
  /\ Distinct(scheme.relays)

\* A scheme of no relays.
LEMMA Relays0 ==
  ASSUME NEW n, NEW buffer, NEW dhw, NEW recirculation,
         Matches(n, buffer, dhw, recirculation, {})
  PROVE  Coherent(n, Scheme(buffer, dhw, recirculation, <<>>))
<1>1. Driven(<<>>) = {} /\ Distinct(<<>>)
  BY DEF Driven, Distinct
<1>2. QED
  BY <1>1 DEF Coherent, Scheme

\* A scheme of one relay.
LEMMA Relays1 ==
  ASSUME NEW n, NEW buffer, NEW dhw, NEW recirculation, NEW a,
         Matches(n, buffer, dhw, recirculation, {a})
  PROVE  Coherent(n, Scheme(buffer, dhw, recirculation, <<a>>))
<1>1. Driven(<<a>>) = {a} /\ Distinct(<<a>>)
  BY DEF Driven, Distinct
<1>2. QED
  BY <1>1 DEF Coherent, Scheme

\* A scheme of two relays.
LEMMA Relays2 ==
  ASSUME NEW n, NEW buffer, NEW dhw, NEW recirculation, NEW a, NEW b,
         a # b, Matches(n, buffer, dhw, recirculation, {a, b})
  PROVE  Coherent(n, Scheme(buffer, dhw, recirculation, <<a, b>>))
<1>1. Driven(<<a, b>>) = {a, b} /\ Distinct(<<a, b>>)
  BY DEF Driven, Distinct
<1>2. QED
  BY <1>1 DEF Coherent, Scheme

\* A scheme of three relays.
LEMMA Relays3 ==
  ASSUME NEW n, NEW buffer, NEW dhw, NEW recirculation, NEW a, NEW b, NEW c,
         a # b, a # c, b # c, Matches(n, buffer, dhw, recirculation, {a, b, c})
  PROVE  Coherent(n, Scheme(buffer, dhw, recirculation, <<a, b, c>>))
<1>1. Driven(<<a, b, c>>) = {a, b, c} /\ Distinct(<<a, b, c>>)
  BY DEF Driven, Distinct
<1>2. QED
  BY <1>1 DEF Coherent, Scheme

\* A scheme of four relays.
LEMMA Relays4 ==
  ASSUME NEW n, NEW buffer, NEW dhw, NEW recirculation, NEW a, NEW b, NEW c, NEW d,
         a # b, a # c, a # d, b # c, b # d, c # d, Matches(n, buffer, dhw, recirculation, {a, b, c, d})
  PROVE  Coherent(n, Scheme(buffer, dhw, recirculation, <<a, b, c, d>>))
<1>1. Driven(<<a, b, c, d>>) = {a, b, c, d} /\ Distinct(<<a, b, c, d>>)
  BY DEF Driven, Distinct
<1>2. QED
  BY <1>1 DEF Coherent, Scheme
\* A tank in the buffer adds a pump to no relay.
LEMMA Tank0 ==
  ASSUME NEW n,
         Matches(n, "CAS-B", "none", TRUE, {"Recirculation"})
  PROVE  Coherent(n, CAS_B(<<>>))
<1> DEFINE t == Append(<<>>, "Recirculation")
<1>1. Driven(t) = {"Recirculation"} /\ Distinct(t)
  BY DEF Driven, Distinct
<1>2. QED
  BY <1>1 DEF Coherent, Scheme, CAS_B

\* A tank in the buffer adds a pump to one relay.
LEMMA Tank1 ==
  ASSUME NEW n, NEW a, a # "Recirculation",
         Matches(n, "CAS-B", "none", TRUE, {a, "Recirculation"})
  PROVE  Coherent(n, CAS_B(<<a>>))
<1> DEFINE t == Append(<<a>>, "Recirculation")
<1>1. Driven(t) = {a, "Recirculation"} /\ Distinct(t)
  BY DEF Driven, Distinct
<1>2. QED
  BY <1>1 DEF Coherent, Scheme, CAS_B

\* A tank in the buffer adds a pump to two relays.
LEMMA Tank2 ==
  ASSUME NEW n, NEW a, NEW b, a # b, a # "Recirculation", b # "Recirculation",
         Matches(n, "CAS-B", "none", TRUE, {a, b, "Recirculation"})
  PROVE  Coherent(n, CAS_B(<<a, b>>))
<1> DEFINE t == Append(<<a, b>>, "Recirculation")
<1>1. Driven(t) = {a, b, "Recirculation"} /\ Distinct(t)
  BY DEF Driven, Distinct
<1>2. QED
  BY <1>1 DEF Coherent, Scheme, CAS_B

\* A tank in the buffer adds a pump to three relays.
LEMMA Tank3 ==
  ASSUME NEW n, NEW a, NEW b, NEW c, a # b, a # c, b # c,
         a # "Recirculation", b # "Recirculation", c # "Recirculation",
         Matches(n, "CAS-B", "none", TRUE, {a, b, c, "Recirculation"})
  PROVE  Coherent(n, CAS_B(<<a, b, c>>))
<1> DEFINE t == Append(<<a, b, c>>, "Recirculation")
<1>1. Driven(t) = {a, b, c, "Recirculation"} /\ Distinct(t)
  BY DEF Driven, Distinct
<1>2. QED
  BY <1>1 DEF Coherent, Scheme, CAS_B

\* The schemes without a buffer.
LEMMA UnbufferedCoherent == \A n \in 1 .. 10 : Coherent(n, Unbuffered[n])
<1>1. ASSUME NEW n \in {1, 4}  PROVE Coherent(n, Unbuffered[n])
  <2>1. Matches(n, "none", "none", FALSE, {"K1"})
    BY DEF Matches, Recirculations, DhwPumps
  <2>2. /\ Unbuffered[1] = Scheme("none", "none", FALSE, <<"K1">>)
        /\ Unbuffered[4] = Unbuffered[1]
    BY DEF Unbuffered
  <2>3. QED
    BY <2>1, <2>2, Relays1
<1>2. ASSUME NEW n \in {2, 6}  PROVE Coherent(n, Unbuffered[n])
  <2>1. Matches(n, "none", "pump", TRUE, {"K1", "DHW K2", "Recirculation K2"})
    BY DEF Matches, Recirculations, DhwPumps
  <2>2. /\ Unbuffered[2] = Scheme("none", "pump", TRUE, <<"K1", "DHW K2", "Recirculation K2">>)
        /\ Unbuffered[6] = Unbuffered[2]
    BY DEF Unbuffered
  <2>3. QED
    BY <2>1, <2>2, Relays3
<1>3. ASSUME NEW n \in {3, 7}  PROVE Coherent(n, Unbuffered[n])
  <2>1. Matches(n, "none", "none", FALSE, {"K1", "K2"})
    BY DEF Matches, Recirculations, DhwPumps
  <2>2. /\ Unbuffered[3] = Scheme("none", "none", FALSE, <<"K1", "K2">>)
        /\ Unbuffered[7] = Unbuffered[3]
    BY DEF Unbuffered
  <2>3. QED
    BY <2>1, <2>2, Relays2
<1>4. Coherent(5, Unbuffered[5])
  <2>1. Matches(5, "none", "diverter", TRUE, {"K1 or DHW", "Diverter", "Recirculation K2"})
    BY DEF Matches, Recirculations, DhwPumps
  <2>2. Unbuffered[5] = Scheme("none", "diverter", TRUE, <<"K1 or DHW", "Diverter", "Recirculation K2">>)
    BY DEF Unbuffered
  <2>3. QED
    BY <2>1, <2>2, Relays3
<1>5. Coherent(8, Unbuffered[8])
  <2>1. Matches(8, "none", "boiler", TRUE, {"Recirculation K1"})
    BY DEF Matches, Recirculations, DhwPumps
  <2>2. Unbuffered[8] = Scheme("none", "boiler", TRUE, <<"Recirculation K1">>)
    BY DEF Unbuffered
  <2>3. QED
    BY <2>1, <2>2, Relays1
<1>6. Coherent(9, Unbuffered[9])
  <2>1. Matches(9, "none", "pump", TRUE, {"DHW K1", "Recirculation K1"})
    BY DEF Matches, Recirculations, DhwPumps
  <2>2. Unbuffered[9] = Scheme("none", "pump", TRUE, <<"DHW K1", "Recirculation K1">>)
    BY DEF Unbuffered
  <2>3. QED
    BY <2>1, <2>2, Relays2
<1>7. Coherent(10, Unbuffered[10])
  <2>1. Matches(10, "none", "pump", TRUE, {"DHW K1", "DHW K2", "Recirculation K1", "Recirculation K2"})
    BY DEF Matches, Recirculations, DhwPumps
  <2>2. Unbuffered[10] =
        Scheme("none", "pump", TRUE, <<"DHW K1", "DHW K2", "Recirculation K1", "Recirculation K2">>)
    BY DEF Unbuffered
  <2>3. QED
    BY <2>1, <2>2, Relays4
<1>8. QED
  BY <1>1, <1>2, <1>3, <1>4, <1>5, <1>6, <1>7

\* The schemes with one.
LEMMA BufferedCoherent == \A n \in 1 .. 34 : Coherent(10 + n, Buffered[n])
<1>1. Coherent(11, Buffered[1])
  <2>1. Matches(11, "CAS", "none", FALSE, {})
    BY DEF Matches, Recirculations, DhwPumps
  <2>2. Buffered[1] = Scheme("CAS", "none", FALSE, <<>>)
    BY DEF Buffered, CAS, Loaded
  <2>3. QED
    BY <2>1, <2>2, Relays0
<1>2. Coherent(12, Buffered[2])
  <2>1. Matches(12, "CAS-B", "none", TRUE, {"Recirculation"})
    BY DEF Matches, Recirculations, DhwPumps
  <2>2. Buffered[2] = CAS_B(<<>>)
    BY DEF Buffered
  <2>3. QED
    BY <2>1, <2>2, Tank0
<1>3. Coherent(13, Buffered[3])
  <2>1. Matches(13, "CAS", "diverter", TRUE, {"Diverter", "Recirculation K1"})
    BY DEF Matches, Recirculations, DhwPumps
  <2>2. Buffered[3] = Scheme("CAS", "diverter", TRUE, <<"Diverter", "Recirculation K1">>)
    BY DEF Buffered, CAS, Loaded
  <2>3. QED
    BY <2>1, <2>2, Relays2
<1>4. ASSUME NEW n \in {4, 5}  PROVE Coherent(10 + n, Buffered[n])
  <2>1. Matches(10 + n, "CAS", "diverter", TRUE, {"Diverter", "K1", "Recirculation K2"})
    BY DEF Matches, Recirculations, DhwPumps
  <2>2. /\ Buffered[4] = Scheme("CAS", "diverter", TRUE, <<"Diverter", "K1", "Recirculation K2">>)
        /\ Buffered[5] = Buffered[4]
    BY DEF Buffered, CAS, Loaded
  <2>3. QED
    BY <2>1, <2>2, Relays3
<1>5. Coherent(16, Buffered[6])
  <2>1. Matches(16, "CAS", "diverter", TRUE, {"Diverter", "DHW K2", "Recirculation K1", "Recirculation K2"})
    BY DEF Matches, Recirculations, DhwPumps
  <2>2. Buffered[6] =
        Scheme("CAS", "diverter", TRUE, <<"Diverter", "DHW K2", "Recirculation K1", "Recirculation K2">>)
    BY DEF Buffered, CAS, Loaded
  <2>3. QED
    BY <2>1, <2>2, Relays4
<1>6. Coherent(17, Buffered[7])
  <2>1. Matches(17, "CAS", "pump", TRUE, {"Buffer", "DHW K1", "Recirculation K1"})
    BY DEF Matches, Recirculations, DhwPumps
  <2>2. Buffered[7] = Scheme("CAS", "pump", TRUE, <<"Buffer", "DHW K1", "Recirculation K1">>)
    BY DEF Buffered, CAS, Loaded
  <2>3. QED
    BY <2>1, <2>2, Relays3
<1>7. ASSUME NEW n \in {8, 9}  PROVE Coherent(10 + n, Buffered[n])
  <2>1. Matches(10 + n, "CAS", "pump", TRUE, {"Buffer", "DHW K2", "K1", "Recirculation K2"})
    BY DEF Matches, Recirculations, DhwPumps
  <2>2. /\ Buffered[8] = Scheme("CAS", "pump", TRUE, <<"Buffer", "DHW K2", "K1", "Recirculation K2">>)
        /\ Buffered[9] = Buffered[8]
    BY DEF Buffered, CAS, Loaded
  <2>3. QED
    BY <2>1, <2>2, Relays4
<1>8. Coherent(20, Buffered[10])
  <2>1. Matches(20, "CAS", "pump", TRUE, {"Buffer", "DHW K1", "DHW K2", "Recirculation K1"})
    BY DEF Matches, Recirculations, DhwPumps
  <2>2. Buffered[10] = Scheme("CAS", "pump", TRUE, <<"Buffer", "DHW K1", "DHW K2", "Recirculation K1">>)
    BY DEF Buffered, CAS, Loaded
  <2>3. QED
    BY <2>1, <2>2, Relays4
<1>9. ASSUME NEW n \in {11, 16}  PROVE Coherent(10 + n, Buffered[n])
  <2>1. Matches(10 + n, "CAS", "none", FALSE, {"K1", "Buffer"})
    BY DEF Matches, Recirculations, DhwPumps
  <2>2. /\ Buffered[11] = Scheme("CAS", "none", FALSE, <<"K1", "Buffer">>)
        /\ Buffered[16] = Buffered[11]
    BY DEF Buffered, CAS, Loaded
  <2>3. QED
    BY <2>1, <2>2, Relays2
<1>10. ASSUME NEW n \in {12, 17}  PROVE Coherent(10 + n, Buffered[n])
  <2>1. Matches(10 + n, "CAS-B", "none", TRUE, {"K1", "Buffer", "Recirculation"})
    BY DEF Matches, Recirculations, DhwPumps
  <2>2. /\ Buffered[12] = CAS_B(<<"K1", "Buffer">>)
        /\ Buffered[17] = Buffered[12]
    BY DEF Buffered
  <2>3. QED
    BY <2>1, <2>2, Tank2
<1>11. ASSUME NEW n \in {13, 20}  PROVE Coherent(10 + n, Buffered[n])
  <2>1. Matches(10 + n, "CAS", "none", FALSE, {"K1", "Buffer", "K2"})
    BY DEF Matches, Recirculations, DhwPumps
  <2>2. /\ Buffered[13] = Scheme("CAS", "none", FALSE, <<"K1", "Buffer", "K2">>)
        /\ Buffered[20] = Buffered[13]
    BY DEF Buffered, CAS, Loaded
  <2>3. QED
    BY <2>1, <2>2, Relays3
<1>12. ASSUME NEW n \in {14, 21}  PROVE Coherent(10 + n, Buffered[n])
  <2>1. Matches(10 + n, "CAS-B", "none", TRUE, {"K1", "Buffer", "K2", "Recirculation"})
    BY DEF Matches, Recirculations, DhwPumps
  <2>2. /\ Buffered[14] = CAS_B(<<"K1", "Buffer", "K2">>)
        /\ Buffered[21] = Buffered[14]
    BY DEF Buffered
  <2>3. QED
    BY <2>1, <2>2, Tank3
<1>13. ASSUME NEW n \in {15, 22}  PROVE Coherent(10 + n, Buffered[n])
  <2>1. Matches(10 + n, "CAS", "pump", TRUE, {"K1", "Buffer", "DHW K2", "Recirculation K2"})
    BY DEF Matches, Recirculations, DhwPumps
  <2>2. /\ Buffered[15] = Scheme("CAS", "pump", TRUE, <<"K1", "Buffer", "DHW K2", "Recirculation K2">>)
        /\ Buffered[22] = Buffered[15]
    BY DEF Buffered, CAS, Loaded
  <2>3. QED
    BY <2>1, <2>2, Relays4
<1>14. Coherent(28, Buffered[18])
  <2>1. Matches(28, "CAS", "none", FALSE, {"K2", "Buffer", "K1"})
    BY DEF Matches, Recirculations, DhwPumps
  <2>2. Buffered[18] = Scheme("CAS", "none", FALSE, <<"K2", "Buffer", "K1">>)
    BY DEF Buffered, CAS, Loaded
  <2>3. QED
    BY <2>1, <2>2, Relays3
<1>15. Coherent(29, Buffered[19])
  <2>1. Matches(29, "CAS-B", "none", TRUE, {"K2", "Buffer", "K1", "Recirculation"})
    BY DEF Matches, Recirculations, DhwPumps
  <2>2. Buffered[19] = CAS_B(<<"K2", "Buffer", "K1">>)
    BY DEF Buffered
  <2>3. QED
    BY <2>1, <2>2, Tank3
<1>16. ASSUME NEW n \in {23, 28}  PROVE Coherent(10 + n, Buffered[n])
  <2>1. Matches(10 + n, "CAS", "none", FALSE, {"K1"})
    BY DEF Matches, Recirculations, DhwPumps
  <2>2. /\ Buffered[23] = Scheme("CAS", "none", FALSE, <<"K1">>)
        /\ Buffered[28] = Buffered[23]
    BY DEF Buffered, CAS, Loaded
  <2>3. QED
    BY <2>1, <2>2, Relays1
<1>17. ASSUME NEW n \in {24, 29}  PROVE Coherent(10 + n, Buffered[n])
  <2>1. Matches(10 + n, "CAS-B", "none", TRUE, {"K1", "Recirculation"})
    BY DEF Matches, Recirculations, DhwPumps
  <2>2. /\ Buffered[24] = CAS_B(<<"K1">>)
        /\ Buffered[29] = Buffered[24]
    BY DEF Buffered
  <2>3. QED
    BY <2>1, <2>2, Tank1
<1>18. ASSUME NEW n \in {25, 30}  PROVE Coherent(10 + n, Buffered[n])
  <2>1. Matches(10 + n, "CAS", "pump", TRUE, {"K1", "DHW K2", "Recirculation K2"})
    BY DEF Matches, Recirculations, DhwPumps
  <2>2. /\ Buffered[25] = Scheme("CAS", "pump", TRUE, <<"K1", "DHW K2", "Recirculation K2">>)
        /\ Buffered[30] = Buffered[25]
    BY DEF Buffered, CAS, Loaded
  <2>3. QED
    BY <2>1, <2>2, Relays3
<1>19. ASSUME NEW n \in {26, 31}  PROVE Coherent(10 + n, Buffered[n])
  <2>1. Matches(10 + n, "CAS", "none", FALSE, {"K1", "K2"})
    BY DEF Matches, Recirculations, DhwPumps
  <2>2. /\ Buffered[26] = Scheme("CAS", "none", FALSE, <<"K1", "K2">>)
        /\ Buffered[31] = Buffered[26]
    BY DEF Buffered, CAS, Loaded
  <2>3. QED
    BY <2>1, <2>2, Relays2
<1>20. ASSUME NEW n \in {27, 32}  PROVE Coherent(10 + n, Buffered[n])
  <2>1. Matches(10 + n, "CAS-B", "none", TRUE, {"K1", "K2", "Recirculation"})
    BY DEF Matches, Recirculations, DhwPumps
  <2>2. /\ Buffered[27] = CAS_B(<<"K1", "K2">>)
        /\ Buffered[32] = Buffered[27]
    BY DEF Buffered
  <2>3. QED
    BY <2>1, <2>2, Tank2
<1>21. Coherent(43, Buffered[33])
  <2>1. Matches(43, "CAS", "pump", TRUE, {"DHW K1", "Recirculation K1"})
    BY DEF Matches, Recirculations, DhwPumps
  <2>2. Buffered[33] = Scheme("CAS", "pump", TRUE, <<"DHW K1", "Recirculation K1">>)
    BY DEF Buffered, CAS, Loaded
  <2>3. QED
    BY <2>1, <2>2, Relays2
<1>22. Coherent(44, Buffered[34])
  <2>1. Matches(44, "CAS", "pump", TRUE, {"DHW K1", "DHW K2", "Recirculation K1", "Recirculation K2"})
    BY DEF Matches, Recirculations, DhwPumps
  <2>2. Buffered[34] =
        Scheme("CAS", "pump", TRUE, <<"DHW K1", "DHW K2", "Recirculation K1", "Recirculation K2">>)
    BY DEF Buffered, CAS, Loaded
  <2>3. QED
    BY <2>1, <2>2, Relays4
<1>23. QED
  BY <1>1, <1>2, <1>3, <1>4, <1>5, <1>6, <1>7, <1>8, <1>9, <1>10, <1>11, <1>12, <1>13,
     <1>14, <1>15, <1>16, <1>17, <1>18, <1>19, <1>20, <1>21, <1>22

\* The two parts of a concatenation.
LEMMA Joined ==
  ASSUME NEW S, NEW s \in Seq(S), NEW t \in Seq(S)
  PROVE  /\ s \o t \in Seq(S) /\ Len(s \o t) = Len(s) + Len(t)
         /\ Len(s) \in Nat /\ Len(t) \in Nat
         /\ \A k \in 1 .. Len(s) : (s \o t)[k] = s[k]
         /\ \A k \in 1 .. Len(t) : (s \o t)[Len(s) + k] = t[k]
<1>1. Len(s) \in Nat /\ Len(t) \in Nat
  BY LenProperties
<1>2. /\ s \o t \in Seq(S) /\ Len(s \o t) = Len(s) + Len(t)
      /\ \A i \in 1 .. Len(s) + Len(t) :
           (s \o t)[i] = IF i <= Len(s) THEN s[i] ELSE t[i - Len(s)]
  BY ConcatProperties
<1> DEFINE a == Len(s)
           b == Len(t)
<1> HIDE DEF a, b
<1>3. \A k \in 1 .. a : k \in 1 .. a + b /\ k <= a
  BY <1>1 DEF a, b
<1>4. \A k \in 1 .. b : a + k \in 1 .. a + b /\ ~(a + k <= a) /\ (a + k) - a = k
  BY <1>1 DEF a, b
<1>5. QED
  BY <1>1, <1>2, <1>3, <1>4 DEF a, b

\* The schemes are the two lists, and the last one.
LEMMA SchemesListed ==
  /\ Len(PELTEC2_SCHEMES) = 45
  /\ \A n \in 1 .. 10 : PELTEC2_SCHEMES[n] = Unbuffered[n]
  /\ \A n \in 1 .. 34 : PELTEC2_SCHEMES[10 + n] = Buffered[n]
  /\ PELTEC2_SCHEMES[45] = Scheme("none", "none", FALSE, <<>>)
<1> DEFINE u == Unbuffered
           b == Buffered
           l == <<Scheme("none", "none", FALSE, <<>>)>>
           S == {u[k] : k \in 1 .. 10} \cup {b[k] : k \in 1 .. 34} \cup {l[1]}
<1>1. u \in Seq(S) /\ Len(u) = 10
  <2>1. u \in [1 .. 10 -> {u[k] : k \in 1 .. 10}]
    BY DEF Unbuffered
  <2>2. u \in [1 .. 10 -> S]
    BY <2>1
  <2> HIDE DEF u, S
  <2>3. u \in Seq(S)
    BY <2>2, SeqDef
  <2>4. QED
    BY <2>2, <2>3, LenProperties
<1>2. b \in Seq(S) /\ Len(b) = 34
  <2>1. b \in [1 .. 34 -> {b[k] : k \in 1 .. 34}]
    BY DEF Buffered
  <2>2. b \in [1 .. 34 -> S]
    BY <2>1
  <2> HIDE DEF b, S
  <2>3. b \in Seq(S)
    BY <2>2, SeqDef
  <2>4. QED
    BY <2>2, <2>3, LenProperties
<1>3. l \in Seq(S) /\ Len(l) = 1
  OBVIOUS
<1>4. PELTEC2_SCHEMES = (u \o b) \o l /\ l[1] = Scheme("none", "none", FALSE, <<>>)
  BY DEF PELTEC2_SCHEMES
<1> HIDE DEF u, b, l, S
<1> DEFINE ub == u \o b
<1>5. /\ ub \in Seq(S) /\ Len(ub) = 44
      /\ \A k \in 1 .. 10 : ub[k] = u[k]
      /\ \A k \in 1 .. 34 : ub[10 + k] = b[k]
  <2>1. u \in Seq(S) /\ b \in Seq(S)
    BY <1>1, <1>2
  <2>2. ub \in Seq(S) /\ Len(ub) = Len(u) + Len(b) /\ \A k \in 1 .. Len(u) : ub[k] = u[k]
    BY <2>1, Joined, Zenon
  <2>3. \A k \in 1 .. Len(b) : ub[Len(u) + k] = b[k]
    BY <2>1, Joined, SMT
  <2> HIDE DEF ub
  <2>4. QED
    BY <2>2, <2>3, <1>1, <1>2
<1> DEFINE ubl == ub \o l
<1> HIDE DEF ub
<1>6. Len(ubl) = 45 /\ (\A k \in 1 .. 44 : ubl[k] = ub[k]) /\ ubl[45] = l[1]
  <2>1. ub \in Seq(S) /\ l \in Seq(S)
    BY <1>3, <1>5
  <2>2. Len(ubl) = Len(ub) + Len(l) /\ \A k \in 1 .. Len(ub) : ubl[k] = ub[k]
    BY <2>1, Joined, Zenon
  <2>3. \A k \in 1 .. Len(l) : ubl[Len(ub) + k] = l[k]
    BY <2>1, Joined, SMT
  <2> HIDE DEF ubl
  <2>4. ubl[Len(ub) + 1] = l[1]
    BY <2>3, <1>3
  <2>5. Len(ub) + 1 = 45
    BY <1>5
  <2>6. QED
    BY <2>2, <2>4, <2>5, <1>3, <1>5
<1> HIDE DEF ubl
<1>7. \A k \in 1 .. 10 : k \in 1 .. 44
  OBVIOUS
<1>8. \A k \in 1 .. 34 : 10 + k \in 1 .. 44
  OBVIOUS
<1>9. PELTEC2_SCHEMES = ubl
  BY <1>4 DEF ub, ubl
<1>10. \A k \in 1 .. 10 : ubl[k] = u[k]
  BY <1>5, <1>6, <1>7
<1>11. \A k \in 1 .. 34 : ubl[10 + k] = b[k]
  BY <1>5, <1>6, <1>8
<1>12. QED
  BY <1>4, <1>6, <1>9, <1>10, <1>11 DEF u, b

\* Every scheme is coherent.
LEMMA SchemesCoherent == \A n \in 1 .. 45 : Coherent(n, PELTEC2_SCHEMES[n])
<1>1. ASSUME NEW n \in 1 .. 10  PROVE Coherent(n, PELTEC2_SCHEMES[n])
  BY SchemesListed, UnbufferedCoherent
<1>2. ASSUME NEW n \in 11 .. 44  PROVE Coherent(n, PELTEC2_SCHEMES[n])
  <2> DEFINE k == n - 10
  <2>1. k \in 1 .. 34 /\ 10 + k = n
    OBVIOUS
  <2> HIDE DEF k
  <2>2. PELTEC2_SCHEMES[10 + k] = Buffered[k] /\ Coherent(10 + k, Buffered[k])
    BY <2>1, SchemesListed, BufferedCoherent
  <2>3. QED
    BY <2>1, <2>2
<1>3. Coherent(45, PELTEC2_SCHEMES[45])
  <2>1. Matches(45, "none", "none", FALSE, {})
    BY DEF Matches, Recirculations, DhwPumps
  <2>2. Coherent(45, Scheme("none", "none", FALSE, <<>>))
    BY <2>1, Relays0
  <2>3. QED
    BY <2>2, SchemesListed
<1>4. QED
  BY <1>1, <1>2, <1>3

\* SchemesAgree holds whatever the boilers report, for all 45 configurations.
THEOREM SchemesAlwaysAgree == Spec => []SchemesAgree
<1>1. ASSUME NEW n \in 1 .. 45, "B_KONF" \in DOMAIN cache
      PROVE  LET konf   == Reading("int", n - 1)
                 then   == [cache EXCEPT !["B_KONF"] = konf]
                 Made(s) == Creatable(s, then, Known \cup {s})
                 scheme == PELTEC2_SCHEMES[n]
             IN  /\ IsScheme(konf) /\ peltec2_scheme(konf) = scheme
                 /\ Made("B_bup") <=> scheme.buffer # "none"
                 /\ Made("B_PTV_PRI") <=> scheme.dhw \in {"pump", "diverter"}
                 /\ \A s \in {"B_REC", "B_REO"} : Made(s) <=> scheme.recirculation
                 /\ \A k \in 1 .. Len(scheme.relays) : relay_function(konf, k) = scheme.relays[k]
  <2> DEFINE konf   == Reading("int", n - 1)
             then   == [cache EXCEPT !["B_KONF"] = konf]
             Made(s) == Creatable(s, then, Known \cup {s})
             scheme == PELTEC2_SCHEMES[n]
  <2>1. konf.kind = "int" /\ konf.n = n - 1 /\ konf.n + 1 = n
    BY DEF Reading
  <2>2. IsScheme(konf) /\ peltec2_scheme(konf) = scheme
    BY <2>1, SchemesListed DEF IsScheme, IsInt, peltec2_scheme
  <2>3. Value(then, "B_KONF") = konf
    <3>1. "B_KONF" \in DOMAIN then /\ then["B_KONF"] = konf
      BY <1>1
    <3>2. konf # Absent
      BY DEF Reading, Absent
    <3>3. QED
      BY <3>1, <3>2 DEF Value
  <2> HIDE DEF konf, then
  <2>4. Made("B_bup") <=> scheme.buffer # "none"
    BY <2>2, <2>3 DEF Creatable, configuration_has_buffer, Helpers
  <2>5. Made("B_PTV_PRI") <=> scheme.dhw \in {"pump", "diverter"}
    BY <2>2, <2>3 DEF Creatable, configuration_has_dhw_priority, Helpers
  <2>6. \A s \in {"B_REC", "B_REO"} : Made(s) <=> scheme.recirculation
    BY <2>2, <2>3 DEF Creatable, configuration_has_dhw_recirculation, Helpers
  <2>7. \A k \in 1 .. Len(scheme.relays) : relay_function(konf, k) = scheme.relays[k]
    BY <2>2 DEF relay_function
  <2>8. QED
    BY <2>2, <2>4, <2>5, <2>6, <2>7 DEF konf, then
<1>2. SchemesAgree
  <2> SUFFICES ASSUME "B_KONF" \in DOMAIN cache, NEW n \in 1 .. 45
               PROVE  LET konf     == Reading("int", n - 1)
                          then     == [cache EXCEPT !["B_KONF"] = konf]
                          Made(s)  == Creatable(s, then, Known \cup {s})
                          scheme   == peltec2_scheme(konf)
                          relays   == 1 .. Len(scheme.relays)
                          driven   == {relay_function(konf, k) : k \in relays}
                      IN
                      /\ Made("B_bup") <=> n \in 11 .. 44
                      /\ Made("B_PTV_PRI") <=> n \in {2, 5, 6, 9, 10, 25, 32, 35, 40, 43, 44} \cup 13 .. 20
                      /\ \A s \in {"B_REC", "B_REO"} : Made(s) <=> driven \cap Recirculations # {}
                      /\ "Buffer" \in driven => Made("B_bup")
                      /\ "Diverter" \in driven \/ driven \cap DhwPumps # {} <=> Made("B_PTV_PRI")
                      /\ scheme.dhw = "diverter" <=> "Diverter" \in driven
                      /\ \A j, k \in relays : scheme.relays[j] = scheme.relays[k] => j = k
    BY DEF SchemesAgree
  <2> DEFINE konf   == Reading("int", n - 1)
             then   == [cache EXCEPT !["B_KONF"] = konf]
             Made(s) == Creatable(s, then, Known \cup {s})
             scheme == PELTEC2_SCHEMES[n]
             driven == {relay_function(konf, k) : k \in 1 .. Len(scheme.relays)}
  <2>1. /\ peltec2_scheme(konf) = scheme
        /\ Made("B_bup") <=> scheme.buffer # "none"
        /\ Made("B_PTV_PRI") <=> scheme.dhw \in {"pump", "diverter"}
        /\ \A s \in {"B_REC", "B_REO"} : Made(s) <=> scheme.recirculation
        /\ \A k \in 1 .. Len(scheme.relays) : relay_function(konf, k) = scheme.relays[k]
    BY <1>1
  <2> HIDE DEF konf, Made, scheme
  <2>2. driven = Driven(scheme.relays)
    BY <2>1 DEF Driven
  <2> HIDE DEF driven
  <2>3. Coherent(n, scheme)
    BY SchemesCoherent DEF scheme
  <2>4. /\ scheme.buffer # "none" <=> n \in 11 .. 44
        /\ scheme.dhw \in {"pump", "diverter"} <=>
             n \in {2, 5, 6, 9, 10, 25, 32, 35, 40, 43, 44} \cup 13 .. 20
        /\ scheme.recirculation <=> driven \cap Recirculations # {}
        /\ "Buffer" \in driven => scheme.buffer # "none"
        /\ "Diverter" \in driven \/ driven \cap DhwPumps # {} <=> scheme.dhw \in {"pump", "diverter"}
        /\ scheme.dhw = "diverter" <=> "Diverter" \in driven
        /\ \A j, k \in 1 .. Len(scheme.relays) : scheme.relays[j] = scheme.relays[k] => j = k
    BY <2>2, <2>3 DEF Coherent, Matches, Distinct
  <2>5. /\ Made("B_bup") <=> n \in 11 .. 44
        /\ Made("B_PTV_PRI") <=> n \in {2, 5, 6, 9, 10, 25, 32, 35, 40, 43, 44} \cup 13 .. 20
        /\ \A s \in {"B_REC", "B_REO"} : Made(s) <=> driven \cap Recirculations # {}
        /\ "Buffer" \in driven => Made("B_bup")
        /\ "Diverter" \in driven \/ driven \cap DhwPumps # {} <=> Made("B_PTV_PRI")
    BY <2>1, <2>4
  <2>6. QED
    BY <2>1, <2>4, <2>5 DEF driven, Made, konf
<1>3. QED
  BY <1>2, PTL
=============================================================================
