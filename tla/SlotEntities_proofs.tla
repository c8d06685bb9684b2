------------------------ MODULE SlotEntities_proofs ------------------------
(***************************************************************************)
(* Whatever the portal reports, when it reports it, and however often Home *)
(* Assistant restarts, the number of a setting and the switch of a circuit *)
(* show what they should.                                                  *)
(***************************************************************************)
EXTENDS SlotEntities, TLAPS

USE DEF collection, setting, circuit

\* What a cache and what an entity's state may hold.
Caches == [Names -> Nat \cup {Absent, Unusable}]
States == [Setting -> Nat \cup {None}]

\* The numbers of a setting are numbers or None.
LEMMA NumberStateType ==
  ASSUME NEW c \in Caches, NEW r \in States  PROVE NumberState(c, r) \in States
  BY DEF NumberState, Caches, States, Names

\* Nothing is a state.
LEMMA NothingType == Nothing \in States
  BY DEF Nothing, States

\* A switch is on, off or unknown.
LEMMA IsOnType == ASSUME NEW c PROVE is_on(c) \in BOOLEAN \cup {None}
<1>1. \A v, lo, hi : state_from_slot(v, lo, hi) \in BOOLEAN \cup {None}
  BY DEF state_from_slot
<1>2. \A v : state_from_circuit_parameter(v) \in BOOLEAN \cup {None}
  BY DEF state_from_circuit_parameter
<1>3. QED
  BY <1>1, <1>2 DEF is_on

\* What the switch shows depends on its own parameters only.
LEMMA IsOnLocal ==
  ASSUME NEW c, NEW d, c["fallback"] = d["fallback"],
         \A name \in Circuit : c[name] = d[name]
  PROVE  is_on(c) = is_on(d)
<1>1. c["PVAL"] = d["PVAL"] /\ c["PMIN"] = d["PMIN"] /\ c["PMAX"] = d["PMAX"]
  BY DEF Circuit
<1>2. QED
  BY <1>1 DEF is_on

\* The number depends on its own parameters only.
LEMMA NumberStateLocal ==
  ASSUME NEW c, NEW d, NEW r, \A role \in Setting : c[role] = d[role]
  PROVE  NumberState(c, r) = NumberState(d, r)
  BY DEF NumberState

\* Before anything is reported.
LEMMA Initialised == Init => SlotInv
<1> SUFFICES ASSUME Init  PROVE SlotInv
  OBVIOUS
<1>1. TypeOK
  BY NothingType DEF Init, TypeOK, Empty, States
<1>2. SettingInv /\ CircuitInv
  BY DEF Init, SettingInv, CircuitInv
<1>3. QED
  BY <1>1, <1>2 DEF SlotInv

\* The number takes over what was stored.
LEMMA AddNumberStep == ASSUME SlotInv, AddNumber  PROVE SlotInv'
<1>1. cache \in Caches /\ {stored, seen, Nothing} \subseteq States
  BY NothingType DEF SlotInv, TypeOK, Caches, States
<1>2. TypeOK'
  BY <1>1, NumberStateType DEF SlotInv, TypeOK, AddNumber, States
<1>3. SettingInv'
  <2>1. Writable(seen) => stored = seen
    BY DEF SlotInv, SettingInv, AddNumber
  <2>2. ASSUME NEW role \in Setting
        PROVE  IF cache[role] \in Nat THEN seen'[role] = cache[role]
               ELSE seen'[role] # None => restored'[role] = seen'[role]
    BY <2>1 DEF AddNumber, NumberState, Nothing
  <2>3. QED
    BY <2>2 DEF SettingInv, AddNumber
<1>4. CircuitInv'
  BY DEF SlotInv, CircuitInv, AddNumber
<1>5. QED
  BY <1>2, <1>3, <1>4 DEF SlotInv

\* Placeholders do not touch the setting.
LEMMA BuildSwitchStep == ASSUME SlotInv, BuildSwitch  PROVE SlotInv'
<1>1. TypeOK'
  BY DEF SlotInv, TypeOK, BuildSwitch
<1>2. \A role \in Setting : cache'[role] = cache[role]
  BY DEF BuildSwitch, Setting, Circuit, Names
<1>3. SettingInv'
  BY <1>2, NumberStateLocal DEF SlotInv, SettingInv, BuildSwitch
<1>4. CircuitInv'
  BY SlotAssumption DEF CircuitInv, BuildSwitch, Names
<1>5. QED
  BY <1>1, <1>3, <1>4 DEF SlotInv

\* The switch listens and writes.
LEMMA AddSwitchStep == ASSUME SlotInv, AddSwitch  PROVE SlotInv'
<1>1. TypeOK'
  BY IsOnType DEF SlotInv, TypeOK, AddSwitch
<1>2. SettingInv' /\ CircuitInv'
  BY DEF SlotInv, SettingInv, CircuitInv, AddSwitch
<1>3. QED
  BY <1>1, <1>2 DEF SlotInv

\* Whatever changes, the number hears of it.
LEMMA NumberHearsStep ==
  ASSUME SlotInv, NEW name \in Names, NEW value \in Nat \cup {Unusable},
         cache' = [cache EXCEPT ![name] = value], NumberHears(name), stored' = stored
  PROVE  /\ SettingInv'
         /\ number' \in {"none", "added"} /\ hooked' \subseteq Setting
         /\ {restored', number_shown', seen'} \subseteq States
<1>1. /\ cache \in Caches /\ cache' \in Caches
      /\ {restored, number_shown, seen, stored} \subseteq States
  BY DEF SlotInv, TypeOK, Caches, States
<1>2. CASE number = "added" /\ name \in Setting
  <2>1. hooked = {role \in Setting : cache[role] # Absent}
    BY <1>2 DEF SlotInv, SettingInv
  <2>2. name \in hooked \/ Hookable(cache') # hooked
    BY <1>1, <1>2, <2>1, SlotAssumption DEF Hookable, Caches
  <2>3. /\ number' = "added" /\ restored' = restored
        /\ hooked' = {role \in Setting : cache'[role] # Absent}
        /\ number_shown' = NumberState(cache', restored)
        /\ seen' = NumberState(cache', [seen EXCEPT ![name] = None])
    BY <1>2, <2>2 DEF NumberHears, NumberWrites, Hookable
  <2>4. seen' \in States
    <3>1. [seen EXCEPT ![name] = None] \in States
      BY <1>1, <1>2 DEF States
    <3>2. QED
      BY <1>1, <2>3, <3>1, NumberStateType
  <2>5. number_shown' \in States
    BY <1>1, <2>3, NumberStateType
  <2>6. ASSUME NEW role \in Setting
        PROVE  IF cache'[role] \in Nat THEN seen'[role] = cache'[role]
               ELSE seen'[role] # None => restored'[role] = seen'[role]
    <3>1. CASE cache'[role] \in Nat
      BY <2>3, <3>1 DEF NumberState
    <3>2. CASE cache'[role] \notin Nat /\ role = name
      BY <1>1, <2>3, <3>2 DEF NumberState, States
    <3>3. CASE cache'[role] \notin Nat /\ role # name
      <4>1. cache[role] \notin Nat /\ seen'[role] = seen[role]
        BY <1>1, <2>3, <3>3 DEF NumberState, States, Caches, Names
      <4>2. QED
        BY <1>2, <2>3, <3>3, <4>1 DEF SlotInv, SettingInv
    <3>4. QED
      BY <3>1, <3>2, <3>3
  <2>7. QED
    BY <1>1, <2>3, <2>4, <2>5, <2>6 DEF SettingInv
<1>3. CASE ~(number = "added" /\ name \in Setting)
  <2>1. UNCHANGED setting
    BY <1>3 DEF NumberHears
  <2>2. number = "added" => \A role \in Setting : cache'[role] = cache[role]
    BY <1>1, <1>3 DEF Caches, Names
  <2>3. number = "added" => NumberState(cache', restored) = NumberState(cache, restored)
    BY <2>2, NumberStateLocal
  <2>4. SettingInv'
    BY <2>1, <2>2, <2>3 DEF SlotInv, SettingInv
  <2>5. QED
    BY <1>1, <2>1, <2>4 DEF SlotInv, TypeOK
<1>4. QED
  BY <1>2, <1>3

\* And the switch hears of it, unless it is the fallback, arriving late.
LEMMA SwitchHearsStep ==
  ASSUME SlotInv, NEW name \in Names, NEW value \in Nat \cup {Unusable},
         cache' = [cache EXCEPT ![name] = value], SwitchHears(name)
  PROVE  /\ CircuitInv'
         /\ switch' = switch
         /\ fallback_hooked' \in BOOLEAN /\ unnoticed' \in BOOLEAN
         /\ switch_shown' \in BOOLEAN \cup {None}
<1>1. cache \in Caches /\ switch' = switch
  BY DEF SlotInv, TypeOK, Caches, SwitchHears, SwitchWrites
<1>2. switch' # "none" => \A n \in Circuit : cache'[n] # Absent
  BY <1>1, SlotAssumption DEF SlotInv, CircuitInv, Caches, Names
<1>3. CASE switch = "added" /\ (name \in Circuit \/ (name = "fallback" /\ fallback_hooked))
  <2>1. SwitchWrites
    BY <1>3 DEF SwitchHears
  <2>2. QED
    BY <1>1, <1>2, <2>1, IsOnType DEF SwitchWrites, FallbackFound, CircuitInv
<1>4. CASE ~(switch = "added" /\ (name \in Circuit \/ (name = "fallback" /\ fallback_hooked)))
  <2>1. /\ unnoticed' = (unnoticed \/ (switch = "added" /\ name = "fallback"
                                       /\ cache[name] = Absent))
        /\ UNCHANGED <<fallback_hooked, switch_shown>>
    BY <1>4 DEF SwitchHears
  <2>2. ASSUME switch = "added", ~unnoticed'
        PROVE  name \notin Circuit \cup {"fallback"}
    BY <1>4, <2>1, <2>2 DEF SlotInv, TypeOK, CircuitInv
  <2>3. ASSUME switch = "added", ~unnoticed'
        PROVE  cache'["fallback"] = cache["fallback"] /\ is_on(cache') = is_on(cache)
    <3>1. \A n \in Circuit \cup {"fallback"} : cache'[n] = cache[n]
      BY <1>1, <2>2, <2>3 DEF Caches, Names
    <3>2. QED
      BY <3>1, IsOnLocal
  <2>4. CircuitInv'
    BY <1>1, <1>2, <2>1, <2>3 DEF SlotInv, TypeOK, CircuitInv
  <2>5. QED
    BY <1>1, <2>1, <2>4 DEF SlotInv, TypeOK
<1>5. QED
  BY <1>3, <1>4

\* A value arrives.
LEMMA UpdateStep ==
  ASSUME SlotInv, NEW name \in Names, NEW value \in Readings[name] \cup {Unusable},
         Update(name, value)
  PROVE  SlotInv'
<1>1. value \in Nat \cup {Unusable}
  BY SlotAssumption
<1>2. SettingInv' /\ CircuitInv'
  BY <1>1, NumberHearsStep, SwitchHearsStep DEF Update
<1>3. cache' \in Caches
  BY <1>1 DEF SlotInv, TypeOK, Caches, Update
<1>4. TypeOK'
  BY <1>1, <1>3, NumberHearsStep, SwitchHearsStep
  DEF SlotInv, TypeOK, Update, Caches, States
<1>5. QED
  BY <1>2, <1>4 DEF SlotInv

\* Everybody is notified.
LEMMA NotifyAllStep ==
  ASSUME SlotInv, NotifyAll, default_hooked' \in BOOLEAN  PROVE SlotInv'
<1>1. cache \in Caches /\ restored \in States
  BY DEF SlotInv, TypeOK, Caches, States
<1>2. /\ UNCHANGED <<rows, running, cache, number, restored, seen, stored, switch>>
      /\ hooked' = hooked \/ hooked' = {role \in Setting : cache[role] # Absent}
      /\ number_shown' = number_shown \/ number_shown' = NumberState(cache, restored)
  BY DEF NotifyAll, NumberWrites, SwitchWrites, Hookable
<1>3. number_shown' \in States /\ hooked' \subseteq Setting
  BY <1>1, <1>2, NumberStateType DEF SlotInv, TypeOK, States
<1>4. /\ fallback_hooked' \in BOOLEAN /\ unnoticed' \in BOOLEAN
      /\ switch_shown' \in BOOLEAN \cup {None}
  BY <1>2, IsOnType DEF SlotInv, TypeOK, NotifyAll, SwitchWrites, FallbackFound
<1>5. TypeOK'
  BY <1>2, <1>3, <1>4 DEF SlotInv, TypeOK, States
<1>6. SettingInv'
  BY <1>2 DEF SlotInv, SettingInv, NotifyAll
<1>7. CircuitInv'
  BY <1>2 DEF SlotInv, CircuitInv, NotifyAll, SwitchWrites, FallbackFound
<1>8. QED
  BY <1>5, <1>6, <1>7 DEF SlotInv

\* What is saved of a number is what it shows, hence what was last seen.
LEMMA StoredIsSeen ==
  ASSUME SlotInv, number = "added", Writable(seen)
  PROVE  number_shown = seen /\ extra_restore_state_data(cache, restored) = seen
<1>1. seen \in States
  BY DEF SlotInv, TypeOK, States
<1>2. ASSUME NEW role \in Setting  PROVE NumberState(cache, restored)[role] = seen[role]
  BY DEF SlotInv, SettingInv, Writable, NumberState
<1>3. NumberState(cache, restored) = seen
  BY <1>1, <1>2 DEF NumberState, States
<1>4. QED
  BY <1>3 DEF SlotInv, SettingInv, extra_restore_state_data

\* The entry stops, keeping what is stored.
LEMMA StopStep ==
  ASSUME SlotInv, Unload \/ Crash  PROVE SlotInv'
<1>1. cache \in Caches /\ {restored, stored, seen, Nothing} \subseteq States
  BY NothingType DEF SlotInv, TypeOK, Caches, States
<1>2. stored' \in States /\ seen' \in States
  BY <1>1, NumberStateType DEF Unload, Crash, extra_restore_state_data
<1>3. TypeOK'
  BY <1>1, <1>2 DEF SlotInv, TypeOK, Unload, Crash, Stops, Empty, States
<1>4. CASE Unload
  <2>1. Writable(seen) => stored' = seen
    BY <1>4, StoredIsSeen DEF SlotInv, SettingInv, TypeOK, Unload
  <2>2. SettingInv' /\ CircuitInv'
    BY <1>4, <2>1 DEF SettingInv, CircuitInv, Unload, Stops
  <2>3. QED
    BY <1>3, <2>2 DEF SlotInv
<1>5. CASE Crash
  BY <1>3, <1>5 DEF SlotInv, SettingInv, CircuitInv, Crash, Stops
<1>6. QED
  BY <1>4, <1>5

\* Saving and starting change nothing that is shown.
LEMMA DumpOrSetupStep == ASSUME SlotInv, Dump \/ Setup  PROVE SlotInv'
<1>1. cache \in Caches /\ {restored, stored} \subseteq States
  BY DEF SlotInv, TypeOK, Caches, States
<1>2. stored' \in States
  BY <1>1, NumberStateType DEF Dump, Setup, extra_restore_state_data
<1>3. TypeOK'
  BY <1>2 DEF SlotInv, TypeOK, Dump, Setup, States
<1>4. SettingInv' /\ CircuitInv'
  BY DEF SlotInv, SettingInv, CircuitInv, Dump, Setup
<1>5. QED
  BY <1>3, <1>4 DEF SlotInv

\* SlotInv is inductive.
LEMMA StepKeepsInv == SlotInv /\ [Next]_vars => SlotInv'
<1> SUFFICES ASSUME SlotInv, [Next]_vars  PROVE SlotInv'
  OBVIOUS
<1>1. CASE Connected \/ Notified
  BY <1>1, NotifyAllStep DEF Connected, Notified, SlotInv, TypeOK
<1>2. CASE UNCHANGED vars
  BY <1>2 DEF vars, SlotInv, TypeOK, SettingInv, CircuitInv
<1>3. QED
  BY <1>1, <1>2, AddNumberStep, BuildSwitchStep, AddSwitchStep, UpdateStep, DumpOrSetupStep,
     StopStep
  DEF Next

\* The invariant holds for every set of readings (number.py:207-242,
\* WebBoilerCircuitSwitch.py:55-92).
THEOREM SlotInvariant == Spec => []SlotInv
  BY Initialised, StepKeepsInv, PTL DEF Spec

\* A number never shows an outdated reading of its slots (number.py:158-163, 238-245).
THEOREM NumbersAreCurrent == Spec => []NumberIsCurrent
<1>1. SlotInv => NumberIsCurrent
  BY DEF SlotInv, SettingInv, NumberIsCurrent
<1>2. QED
  BY <1>1, SlotInvariant, PTL

\* A circuit switch shows an outdated state only until the first update of its
\* slots after the fallback arrived (WebBoilerCircuitSwitch.py:63-92).
THEOREM SwitchesAreCurrent == Spec => []SwitchIsCurrent
<1>1. SlotInv => SwitchIsCurrent
  BY DEF SlotInv, CircuitInv, SwitchIsCurrent
<1>2. QED
  BY <1>1, SlotInvariant, PTL

\* Over any number of restarts a setting that was writable shows what was last
\* seen of it (number.py:164-169, 313-323).
THEOREM SettingsAreKept == Spec => []LastSeenIsKept
<1>1. SlotInv => LastSeenIsKept
  BY StoredIsSeen DEF LastSeenIsKept
<1>2. QED
  BY <1>1, SlotInvariant, PTL
=============================================================================
