--------------------------- MODULE RegistryCleanup ---------------------------
(***************************************************************************)
(* What every setup of the sensor platform does to Home Assistant's entity *)
(* registry.  The platform creates a sensor for the parameters that the    *)
(* portal happens to report, and then removes the registry entries that    *)
(* this build deliberately no longer creates.  A removal cannot be undone: *)
(* the entity id, its name, its area and its history go with the entry.    *)
(*                                                                         *)
(* One boiler; the unique id "<serial>-<PARAM>" of a sensor is modelled by *)
(* its parameter's name.  What is reported is any part of what the portal  *)
(* knows of the boiler: the code expects partial answers, settings without *)
(* their rows, and an event history that could not be fetched.             *)
(***************************************************************************)
CONSTANTS
  Families,   \* device["type"]
  Identity,   \* SNAPSHOT_IDENTITY_PARAMETERS
  Mapped,     \* by family: the parameter table
  Circuits,   \* CIRCUIT_PARAMETER_NAMES
  Direct,     \* by family: exposed by a method with a list of its own
  Strict,     \* the families without sensors for unclaimed parameters
  Noise,      \* _SKIP_UNKNOWN: never exposed
  Synthetic,  \* by family: exposed whatever is reported
  Late,       \* by family: placeholders made by create_conf_entities
  Commanded,  \* by family: placeholders made by the power switch
  Needs,      \* by family, of a mapped name: what its sensor needs besides it
  Twins,      \* by family, of a mapped name: the parameters it would duplicate
  Editable,   \* the settings that this account may edit
  ReadOnly,   \* and those that it may only see
  Reportable, \* all the names that the portal may report
  Earlier,    \* the entries that an earlier build left, none in a new installation
  Foreign     \* entries without the shape "<serial>-<PARAM>"

Tables(f) == Mapped[f] \cup Circuits
Slots    == Editable \cup ReadOnly      \* SETTINGS_SLOT_PREFIXES
Events   == {"Errors_History"}          \* stands in params if the events were read

\* Everything else that a family reports is exposed as it is.
Raw(f) == IF f \in Strict THEN {} ELSE Reportable \ (Slots \cup Noise)

Exposed(f) == UNION {Tables(f), Direct[f], Events, Raw(f), Synthetic[f], ReadOnly}
Retired(f) == (Earlier \cup Reportable) \ (Exposed(f) \cup Slots \cup Foreign)

ASSUME CleanupAssumption ==
  /\ Editable \cap ReadOnly = {}
  /\ Foreign \cap (Slots \cup Reportable) = {}
  /\ \A f \in Families :
       /\ Late[f] \subseteq Mapped[f] \ Identity
       /\ Exposed(f) \cap (Editable \cup Foreign) = {}
       /\ Tables(f) \cap Slots = {}

VARIABLES
  family,
  at,         \* "down", the platform that is set up next, or "up"
  listed,     \* the boiler is in the account's data
  reported,   \* history: the parameters that the portal itself reported
  parameters, \* device["parameters"], placeholders included
  rows,       \* device["temperatures"]: the settings whose rows were answered
  entities,   \* unique ids of the sensors that are running
  registry,   \* unique ids of the sensors in the entity registry
  removed,    \* history: the entries that were ever removed
  cleaned     \* history: a setup went over a complete snapshot

data == <<listed, reported, parameters, rows>>
vars == <<family, at, data, entities, registry, removed, cleaned>>

\* PLATFORMS: Home Assistant starts the setups in the order of this list, and
\* neither of the two awaits anything before it is done.
Reordered == [setup |-> "switch", switch |-> "sensor", sensor |-> "up"]  \* faulty variant
PLATFORMS == [setup |-> "sensor", sensor |-> "switch", switch |-> "up"]

-----------------------------------------------------------------------------
\* The rules of sensor.py, for the parameters params and the rows rs of family f.

\* create_conf_entities(): some readings make sense in some configurations only,
\* and a pump that is a circuit's own is shown by the circuit.
ConfSensors(f, params) ==
  {name \in params \cap Mapped[f] :
     Needs[f][name] \subseteq params /\ Twins[f][name] \cap params = {}}

\* create_heating_circuits_entities(): what is reported of a circuit is exposed.
CircuitSensors(params) == params \cap Circuits

\* create_temperatures_entities(): a setting whose row was answered, unless it is
\* the number platform's.
SettingSensors(params, rs) == params \cap rs \cap ReadOnly

\* The common ones, the configuration, the stage and other lists of their own.
DirectSensors(f, params) == params \cap Direct[f]

EventSensors(params) == params \cap Events

UnknownSensors(f, params) == params \cap Raw(f)

Created(f, params, rs) ==
  UNION {Synthetic[f], ConfSensors(f, params), CircuitSensors(params),
         SettingSensors(params, rs), DirectSensors(f, params), EventSensors(params),
         UnknownSensors(f, params)}

NotEmpty(params) == params # {}     \* faulty variant: any answer is complete
device_snapshot_is_complete(params) == params \cap Identity # {}

OfRowsOnly(f, rs) == rs             \* faulty variant: the tables are forgotten
creatable_parameter_names(f, rs) == Tables(f) \cup rs

\* A setting goes only if it has moved to the number platform.  Of the others
\* one that the build maps is kept as long as it is not reported.
SlotIsSafe(name, rs) == name \in Slots /\ name \notin rs \cap Editable

KeepsAll(f, name, params, rs) == name \notin Slots   \* faulty variant: also what is retired
GapIsSafe(f, name, params, rs) ==
  /\ name \notin Slots
  /\ name \in creatable_parameter_names(f, rs) \ params

registry_entry_is_obsolete(f, name, current, params, rs) ==
  /\ name \notin current
  /\ name \notin Foreign
  /\ device_snapshot_is_complete(params)
  /\ ~SlotIsSafe(name, rs)
  /\ ~GapIsSafe(f, name, params, rs)

-----------------------------------------------------------------------------
Init ==
  /\ family \in Families
  /\ at = "down"
  /\ listed = FALSE
  /\ reported = {} /\ parameters = {} /\ rows = {}
  /\ entities = {}
  /\ registry = Earlier \cup Foreign
  /\ removed = {}
  /\ cleaned = FALSE

\* async_setup_entry(): system.start() has read the account's devices, what is
\* known of their state, the settings' rows, and the events if it could.
\* A device that is not listed has no parameters.
Setup(present, answer, settings) ==
  /\ at = "down"
  /\ at' = PLATFORMS["setup"]
  /\ listed' = present
  /\ reported' = answer /\ parameters' = answer
  /\ rows' = settings
  /\ UNCHANGED <<family, entities, registry, removed, cleaned>>

\* sensor.py async_setup_entry(): the sensors, the cleanup, the new entries.
SensorPlatform ==
  LET params   == IF listed THEN parameters \cup Late[family] ELSE parameters
      current  == IF listed THEN Created(family, params, rows) ELSE {}
      obsolete == {name \in registry :
                     listed /\ registry_entry_is_obsolete(family, name, current, params, rows)}
  IN  /\ at = "sensor"
      /\ at' = PLATFORMS["sensor"]
      /\ parameters' = params
      /\ entities' = current
      /\ registry' = (registry \ obsolete) \cup current
      /\ removed' = removed \cup obsolete
      /\ cleaned' = (cleaned \/ (listed /\ device_snapshot_is_complete(params)))
      /\ UNCHANGED <<family, listed, reported, rows>>

\* The power switch asks for its parameters with get_parameter(), which makes
\* what is missing.
WithCommands(f, params) == params \cup Commanded[f]

\* switch.py async_setup_entry().
SwitchPlatform ==
  /\ at = "switch"
  /\ at' = PLATFORMS["switch"]
  /\ parameters' = IF listed THEN WithCommands(family, parameters) ELSE parameters
  /\ UNCHANGED <<family, listed, reported, rows, entities, registry, removed, cleaned>>

\* async_unload_entry(), or a restart of Home Assistant.
Unload ==
  /\ at = "up"
  /\ at' = "down"
  /\ listed' = FALSE
  /\ reported' = {} /\ parameters' = {} /\ rows' = {}
  /\ entities' = {}
  /\ UNCHANGED <<family, registry, removed, cleaned>>

\* parse_parameter_lists(): the settings' rows come in one group, which an answer
\* holds or omits.
RowAnswers == {{}, Slots}

Next ==
  \/ Setup(FALSE, {}, {})
  \/ \E answer \in SUBSET Reportable, settings \in RowAnswers : Setup(TRUE, answer, settings)
  \/ SensorPlatform
  \/ SwitchPlatform
  \/ Unload

Spec == Init /\ [][Next]_vars

-----------------------------------------------------------------------------
\* The parameters of a table that are exposed whenever they are reported.
Unconditional(f) ==
  Circuits \cup {name \in Mapped[f] : Needs[f][name] = {} /\ Twins[f][name] = {}}

\* Types and the strengthening of the theorems: what the sensor platform goes
\* by is what the portal reported, and every running sensor has its entry.
CleanupInv ==
  /\ family \in Families
  /\ at \in {"down", "sensor", "switch", "up"}
  /\ listed \in BOOLEAN /\ cleaned \in BOOLEAN
  /\ reported \subseteq Reportable
  /\ parameters \subseteq Reportable \cup Late[family] \cup Commanded[family]
  /\ rows \subseteq Slots
  /\ at \in {"down", "sensor"} => parameters = reported /\ entities = {}
  /\ entities \subseteq registry \cap Exposed(family)
  /\ registry \cup removed \subseteq Earlier \cup Foreign \cup Exposed(family)

\* A gap in an answer never costs an entry: whatever has been reported and
\* omitted, over any number of setups, no parameter of a table, no read-only
\* setting and nothing of a foreign shape has been removed (sensor.py:146-160).
MappedIsKept == removed \cap (Unconditional(family) \cup ReadOnly \cup Foreign) = {}

\* As long as the portal has not reported one of the controller's identity
\* parameters nothing is removed, whatever placeholders the integration has
\* made for itself in the meantime (sensor.py:114-124, README.md:76).
IncompleteKeepsAll == [][reported \cap Identity = {} => registry \subseteq registry']_vars

\* One setup over a complete answer removes what earlier builds left, and no
\* later setup brings any of it back (sensor.py:77).
RetiredIsGone == cleaned => registry \cap Retired(family) = {}

\* What is removed is what this build "deliberately no longer creates"
\* (sensor.py:77): no later setup creates a sensor for an entry once removed.
\* The code does not keep this for what it exposes without a table, nor for
\* what it leaves out because another parameter was missing or present.
RemovedForGood == removed \cap entities = {}
=============================================================================
