---------------------------- MODULE SlotEntities ----------------------------
(***************************************************************************)
(* The entities that stand for a row of the portal's parameter list: the   *)
(* number of an editable setting and the switch of a heating circuit.  The *)
(* portal reports the slots of a row when it likes, before the entity      *)
(* exists, late, or never; an entity shows what it wrote last, and writes  *)
(* when a parameter that it listens to is updated.                         *)
(*                                                                         *)
(* A parameter is Absent while the device has no object for it, and        *)
(* Unusable while it holds the placeholder "?" or anything that is no      *)
(* number.  Callbacks run within the update that calls them.               *)
(***************************************************************************)
EXTENDS Naturals

CONSTANTS
  Readings,     \* the numbers the portal may report for each parameter
  RowSets,      \* the rows that the parameter list may hold
  Absent, Unusable,
  None          \* Python's None

Setting == {"value", "minimum", "maximum"}   \* PVAL, PMIN, PMAX of the number's row
Circuit == {"PVAL", "PMIN", "PMAX"}          \* and of the circuit's row
Names   == Setting \cup Circuit \cup {"fallback"}

ASSUME SlotAssumption ==
  /\ \A name \in Names : Readings[name] \subseteq Nat
  /\ {Absent, Unusable, None} \cap (Nat \cup BOOLEAN) = {}
  /\ Absent # Unusable
  /\ RowSets \subseteq SUBSET {"setting", "circuit"}

VARIABLES
  rows,             \* the rows of this installation
  running,          \* the config entry is set up
  cache,            \* device["parameters"]
  default_hooked,   \* the websocket has connected: on_update_callbacks["default"]
  number,           \* "none" or "added"
  hooked,           \* _hooked of the number
  restored,         \* _restored, None for each role if there is nothing
  number_shown,     \* value and bounds in the state it last wrote
  stored,           \* what Home Assistant keeps of it across restarts
  switch,           \* "none", "built" or "added"
  fallback_hooked,  \* _fallback_callback_registered
  switch_shown,     \* is_on in the state it last wrote
  seen,             \* history: last report of each role of the setting, if a number
  unnoticed         \* history: the fallback is new since the switch last heard anything

collection == <<rows, running, cache, default_hooked>>
setting    == <<number, hooked, restored, number_shown, seen>>
circuit    == <<switch, fallback_hooked, switch_shown, unnoticed>>
vars       == <<collection, setting, stored, circuit>>

Nothing == [role \in Setting |-> None]

-----------------------------------------------------------------------------
\* What the entities compute from the cache c.

\* _number(): the live reading, or else the restored one.
NumberState(c, r) == [role \in Setting |-> IF c[role] \in Nat THEN c[role] ELSE r[role]]

\* A stored setting is taken over only if it was writable: a value with bounds.
Writable(s) == \A role \in Setting : s[role] # None

\* state_from_slot(): 0 and 1 speak for themselves; any other number is on
\* unless it is the row's minimum or, without one, other than its maximum.
state_from_slot(value, minimum, maximum) ==
  IF value \notin Nat THEN None
  ELSE \/ value = 1
       \/ /\ value # 0
          /\ IF minimum \in Nat THEN value # minimum
             ELSE maximum \in Nat => value = maximum

state_from_circuit_parameter(value) == IF value \in Nat THEN value # 0 ELSE None

\* is_on: the row's own slot first, then the circuit's on/off parameter.
is_on(c) ==
  LET slot == state_from_slot(c["PVAL"], c["PMIN"], c["PMAX"])
  IN  IF slot # None THEN slot ELSE state_from_circuit_parameter(c["fallback"])

\* _hook_slot_parameters(): every slot parameter that the device has.
HooksNothing(c) == hooked            \* faulty variant: a late slot is not hooked
Hookable(c) == {role \in Setting : c[role] # Absent}

\* _register_fallback_callback(), from every update_callback.
OnlyAtSetup(c) == fallback_hooked    \* faulty variant: a late fallback is missed
FallbackFound(c) == c["fallback"] # Absent

\* extra_restore_state_data: what is shown, restored values included.
LiveOnly(c, r) == NumberState(c, Nothing)    \* faulty variant
extra_restore_state_data(c, r) == NumberState(c, r)

-----------------------------------------------------------------------------
Empty == [name \in Names |-> Absent]

Init ==
  /\ rows \in RowSets
  /\ running = TRUE /\ cache = Empty /\ default_hooked = FALSE
  /\ number = "none" /\ hooked = {} /\ restored = Nothing /\ number_shown = Nothing
  /\ stored = Nothing /\ seen = Nothing
  /\ switch = "none" /\ fallback_hooked = FALSE /\ switch_shown = None
  /\ unnoticed = FALSE

\* The number enters Home Assistant: it takes over what was stored, listens, and
\* its state is written.
AddNumber ==
  /\ running /\ "setting" \in rows /\ number = "none"
  /\ number' = "added"
  /\ restored' = IF Writable(stored) THEN stored ELSE Nothing
  /\ hooked' = {role \in Setting : cache[role] # Absent}
  /\ number_shown' = NumberState(cache, restored')
  /\ seen' = NumberState(cache, IF Writable(seen) THEN seen ELSE Nothing)
  /\ UNCHANGED <<collection, stored, circuit>>

\* The switch is built: get_parameter() makes a placeholder of what is missing.
BuildSwitch ==
  /\ running /\ "circuit" \in rows /\ switch = "none"
  /\ switch' = "built"
  /\ cache' = [name \in Names |-> IF name \in Circuit /\ cache[name] = Absent
                                  THEN Unusable ELSE cache[name]]
  /\ UNCHANGED <<rows, running, default_hooked, setting, stored,
                 fallback_hooked, switch_shown, unnoticed>>

AddSwitch ==
  /\ running /\ switch = "built"
  /\ switch' = "added"
  /\ fallback_hooked' = (cache["fallback"] # Absent)
  /\ switch_shown' = is_on(cache)
  /\ UNCHANGED <<collection, setting, stored, unnoticed>>

-----------------------------------------------------------------------------
\* The number writes its state: it has been notified of one of its parameters.
NumberWrites ==
  /\ hooked' = Hookable(cache')
  /\ number_shown' = NumberState(cache', restored)

\* The parameter tells those who listen to it, then the collection tells the
\* number, which writes only if it finds something new to listen to.
NumberHears(name) ==
  IF number = "added" /\ name \in Setting
  THEN /\ IF name \in hooked \/ Hookable(cache') # hooked
          THEN NumberWrites
          ELSE UNCHANGED <<hooked, number_shown>>
       /\ seen' = NumberState(cache', [seen EXCEPT ![name] = None])
       /\ UNCHANGED <<number, restored>>
  ELSE UNCHANGED setting

\* The switch writes its state, looking for the fallback first.
SwitchWrites ==
  /\ fallback_hooked' = FallbackFound(cache')
  /\ switch_shown' = is_on(cache')
  /\ unnoticed' = FALSE
  /\ UNCHANGED switch

SwitchHears(name) ==
  IF switch = "added" /\ (name \in Circuit \/ (name = "fallback" /\ fallback_hooked))
  THEN SwitchWrites
  ELSE /\ unnoticed' = (unnoticed \/ (switch = "added" /\ name = "fallback"
                                       /\ cache[name] = Absent))
       /\ UNCHANGED <<switch, fallback_hooked, switch_shown>>

\* A snapshot or a realtime frame brings a value that differs from the cached one.
Update(name, value) ==
  /\ running /\ cache[name] # value
  /\ cache' = [cache EXCEPT ![name] = value]
  /\ NumberHears(name) /\ SwitchHears(name)
  /\ UNCHANGED <<rows, running, default_hooked, stored>>

\* notify_all_updated(), which needs a callback of the collection to begin with.
NotifyAll ==
  /\ running /\ (number = "added" \/ default_hooked')
  /\ cache' = cache
  /\ IF number = "added" /\ \E role \in Setting : cache[role] # Absent
     THEN NumberWrites /\ UNCHANGED <<number, restored, seen>>
     ELSE UNCHANGED setting
  /\ IF switch = "added" THEN SwitchWrites ELSE UNCHANGED circuit
  /\ UNCHANGED <<rows, running, stored>>

\* ws_connected_callback.
Connected == default_hooked' = TRUE /\ NotifyAll

\* ws_disconnected_callback, or a refresh that began stale.
Notified == default_hooked' = default_hooked /\ NotifyAll

-----------------------------------------------------------------------------
\* Home Assistant saves the extra data of the entities from time to time.
Dump ==
  /\ number = "added"
  /\ stored' = extra_restore_state_data(cache, restored)
  /\ UNCHANGED <<collection, setting, circuit>>

\* Neither entities nor cached parameters are left.
Stops ==
  /\ running /\ running' = FALSE
  /\ cache' = Empty /\ default_hooked' = FALSE
  /\ number' = "none" /\ hooked' = {} /\ restored' = Nothing /\ number_shown' = Nothing
  /\ switch' = "none" /\ fallback_hooked' = FALSE /\ switch_shown' = None
  /\ unnoticed' = FALSE
  /\ UNCHANGED rows

\* The entry is unloaded, for a reload or a shutdown: the entities leave.
Unload ==
  /\ Stops
  /\ stored' = IF number = "added" THEN extra_restore_state_data(cache, restored) ELSE stored
  /\ UNCHANGED seen

\* Home Assistant is killed: what was saved last is what is left.
Crash ==
  /\ Stops
  /\ seen' = stored
  /\ UNCHANGED stored

Setup ==
  /\ ~running /\ running' = TRUE
  /\ UNCHANGED <<rows, cache, default_hooked, setting, stored, circuit>>

Next ==
  \/ AddNumber \/ BuildSwitch \/ AddSwitch
  \/ \E name \in Names : \E value \in Readings[name] \cup {Unusable} : Update(name, value)
  \/ Connected \/ Notified
  \/ Dump \/ Unload \/ Crash \/ Setup

Spec == Init /\ [][Next]_vars

-----------------------------------------------------------------------------
TypeOK ==
  /\ rows \in RowSets
  /\ running \in BOOLEAN /\ default_hooked \in BOOLEAN
  /\ cache \in [Names -> Nat \cup {Absent, Unusable}]
  /\ number \in {"none", "added"} /\ hooked \subseteq Setting
  /\ {restored, number_shown, stored, seen} \subseteq [Setting -> Nat \cup {None}]
  /\ switch \in {"none", "built", "added"}
  /\ fallback_hooked \in BOOLEAN /\ unnoticed \in BOOLEAN
  /\ switch_shown \in BOOLEAN \cup {None}

\* The number listens to every slot parameter that exists; what it no longer
\* hears of was restored.
SettingInv ==
  IF number = "added"
  THEN /\ hooked = {role \in Setting : cache[role] # Absent}
       /\ number_shown = NumberState(cache, restored)
       /\ \A role \in Setting :
            IF cache[role] \in Nat THEN seen[role] = cache[role]
            ELSE seen[role] # None => restored[role] = seen[role]
  ELSE Writable(seen) => stored = seen

\* The switch listens to its slots, and to the fallback that it has noticed.
CircuitInv ==
  /\ switch # "none" => \A name \in Circuit : cache[name] # Absent
  /\ switch = "added" /\ ~unnoticed =>
       /\ fallback_hooked = (cache["fallback"] # Absent)
       /\ switch_shown = is_on(cache)

\* The inductive invariant (number.py:207-242, WebBoilerCircuitSwitch.py:55-92).
SlotInv == TypeOK /\ SettingInv /\ CircuitInv

\* A number shows the latest reading of each of its slots, whenever the slot is
\* first reported (number.py:158-163, 225-228, CHANGELOG.md:3-12).
NumberIsCurrent == number = "added" => number_shown = NumberState(cache, restored)

\* A circuit switch shows what its slots and the fallback say, except that a
\* fallback reported after the switch was added waits for the next update of a
\* slot to be noticed (WebBoilerCircuitSwitch.py:63-92).
SwitchIsCurrent == switch = "added" /\ ~unnoticed => switch_shown = is_on(cache)

\* A setting whose value and bounds have been reported does not lose them: over any
\* number of reloads, also when the next comes before the portal reports the slot
\* again, it shows what was last seen, and after a kill what Home Assistant had
\* stored of it by then (number.py:164-169, 313-323).
LastSeenIsKept == number = "added" /\ Writable(seen) => number_shown = seen
=============================================================================
