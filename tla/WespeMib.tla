------------------------------ MODULE WespeMib ------------------------------
(***************************************************************************)
(* The data behind the MIB: the static variables of mib_ii.c, mib_wespe.c  *)
(* and mib_sensor_table.c, the device state the getters read, and what the *)
(* getters and setters do.  A value is a number; an octet string is        *)
(* represented by its length, which is all the setters look at.            *)
(***************************************************************************)
EXTENDS MibView

CONSTANTS
  SensorMax,    \* SENSOR_MAX_COUNT: size of the label and counter arrays
  RowPattern,   \* what sensor_count() returns over time, cyclically
  HasCache,     \* TRUE for sensor_ds18b20.c: no reading before the first poll
  BootValue     \* the initial values of the writable scalars

LabelMax == 32        \* WESPE_SENSOR_LABEL_MAX
StringMax == 64       \* WESPE_STR_MAX
EmptyString == 0
DefaultLabel == 7     \* the length of "sensor<N>"

\* The writable scalars: the strings of the system group and the relay.
Fields == {o \in DOMAIN Objects : Objects[o].writable}

Sensors == 1 .. SensorMax

ASSUME DeviceAssumption ==
  /\ SensorMax \in Nat \ {0}
  /\ RowPattern \in Seq(Sensors) /\ RowPattern # <<>>
  /\ HasCache \in BOOLEAN
  /\ BootValue \in [Fields -> Nat]

VARIABLES
  phase,        \* position in RowPattern
  associated,   \* the WiFi station is associated with an access point
  sensorOk,     \* a temperature reading is available
  field,        \* the writable scalars
  label,        \* s_labels: raw slots, empty until set or materialised
  readCount     \* s_read_count

deviceVars == <<phase, associated, sensorOk>>
storeVars == <<field, label, readCount>>
mibVars == <<phase, associated, sensorOk, field, label, readCount>>

Rows == RowPattern[phase]

MibTypeOK ==
  /\ phase \in DOMAIN RowPattern
  /\ associated \in BOOLEAN
  /\ sensorOk \in BOOLEAN
  /\ field \in [Fields -> Nat]
  /\ label \in [Sensors -> Nat]
  /\ readCount \in [Sensors -> Nat]

MibInit ==
  /\ phase = 1
  /\ associated = TRUE
  /\ sensorOk = ~HasCache
  /\ field = BootValue
  /\ label = [s \in Sensors |-> EmptyString]
  /\ readCount = [s \in Sensors |-> 0]

-----------------------------------------------------------------------------
\* The device, which no request controls.

\* sensor_count() moves on to its next value.
NextPhase == IF phase = Len(RowPattern) THEN 1 ELSE phase + 1

SensorsChange ==
  /\ Len(RowPattern) > 1
  /\ phase' = NextPhase
  /\ UNCHANGED <<associated, sensorOk, field, label, readCount>>

\* The poll task of the DS18B20 driver caches its first good reading.
FirstReading ==
  /\ ~sensorOk
  /\ sensorOk' = TRUE
  /\ UNCHANGED <<phase, associated, field, label, readCount>>

\* The station loses or regains its association.
WifiChanges ==
  /\ associated' = ~associated
  /\ UNCHANGED <<phase, sensorOk, field, label, readCount>>

-----------------------------------------------------------------------------
\* Getters.  r is what the registry resolved.

\* row_exists() is asked again by get_cell and set_cell.
RowGone(r) == r.accessor \in SensorAccessors /\ r.row > Rows

LabelOf(slot) == IF slot = EmptyString THEN DefaultLabel ELSE slot

GetResult(r) ==
  IF RowGone(r) THEN "noSuchInstance"
  ELSE IF r.accessor \in {"temperature", "sensorTemp"} /\ ~sensorOk THEN "genErr"
  ELSE IF r.accessor = "rssi" /\ ~associated THEN "genErr"
  ELSE "ok"

GetValue(r) ==
  CASE r.accessor \in {"string", "relay"} -> field[r.oid]
    [] r.accessor = "sensorIndex" -> r.row
    [] r.accessor = "sensorLabel" -> LabelOf(label[r.row])
    [] r.accessor = "sensorReadCount" -> readCount[r.row]
    [] r.accessor = "sensorStatus" -> IF sensorOk THEN 1 ELSE 2
    [] OTHER -> 0

\* A successful read of the label writes the default into an empty slot
\* (label_for); a successful read of the temperature is counted.
LabelAfterGet(r) ==
  IF r.accessor = "sensorLabel" /\ ~RowGone(r)
  THEN [label EXCEPT ![r.row] = LabelOf(label[r.row])] ELSE label

\* Mutant: the read is counted before it has succeeded.
ReadCountAlways(r) ==
  IF r.accessor = "sensorTemp" THEN [readCount EXCEPT ![r.row] = @ + 1] ELSE readCount

ReadCountAfterGet(r) ==
  IF r.accessor = "sensorTemp" /\ GetResult(r) = "ok"
  THEN [readCount EXCEPT ![r.row] = @ + 1] ELSE readCount

CallGetter(r) ==
  /\ label' = LabelAfterGet(r)
  /\ readCount' = ReadCountAfterGet(r)
  /\ UNCHANGED <<phase, associated, sensorOk, field>>

-----------------------------------------------------------------------------
\* Setters.

StringResult(vb, capacity) ==
  IF vb.tag # "octets" THEN "wrongType"
  ELSE IF vb.val >= capacity THEN "wrongValue"
  ELSE "ok"

RelayResult(vb) ==
  IF vb.tag # "integer" THEN "wrongType"
  ELSE IF vb.val \notin {0, 1} THEN "wrongValue"
  ELSE "ok"

SetResult(r, vb) ==
  IF RowGone(r) THEN "noSuchInstance"
  ELSE CASE r.accessor = "sensorLabel" -> StringResult(vb, LabelMax)
         [] r.accessor = "string" -> StringResult(vb, StringMax)
         [] r.accessor = "relay" -> RelayResult(vb)
         [] OTHER -> "notWritable"

\* The stores are C strings, which get_* and label_for read back with strlen:
\* the strings set here have no NUL octet, and read back whole.
FieldAfterSet(r, vb) ==
  IF r.accessor \in {"string", "relay"} /\ SetResult(r, vb) = "ok"
  THEN [field EXCEPT ![r.oid] = vb.val] ELSE field

LabelAfterSet(r, vb) ==
  IF r.accessor = "sensorLabel" /\ SetResult(r, vb) = "ok"
  THEN [label EXCEPT ![r.row] = vb.val] ELSE label

CallSetter(r, vb) ==
  /\ field' = FieldAfterSet(r, vb)
  /\ label' = LabelAfterSet(r, vb)
  /\ UNCHANGED <<phase, associated, sensorOk, readCount>>

-----------------------------------------------------------------------------
\* For the properties of the handlers: the varbind carries a temperature of
\* sensor s; how many of the first n of a list do.
Delivers(vb, s) ==
  /\ vb.tag \in ValueTags
  /\ LET r == Resolve(vb.oid, SensorMax) IN r.accessor = "sensorTemp" /\ r.row = s

Deliveries(vbs, n, s) == Cardinality({k \in 1 .. n : Delivers(vbs[k], s)})
=============================================================================
