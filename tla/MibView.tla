------------------------------ MODULE MibView -------------------------------
(***************************************************************************)
(* What the MIB registry promises the PDU handlers: the set of object      *)
(* instances that exist when the temperature sensors number `rows', the    *)
(* exact-match lookup over that set and the lookup of the next instance.   *)
(* MibRegistry shows that the searches of mib_registry.c compute these.    *)
(***************************************************************************)
EXTENDS MibOid, FiniteSets

CONSTANTS
  Objects,  \* the scalars: a function from OID to a definition
  Tables    \* the conceptual tables: entry OID, columns, kind of row set

Results == {"ok", "noSuchObject", "noSuchInstance", "endOfView",
            "notWritable", "wrongType", "wrongValue", "genErr"}

ValueTags == {"integer", "octets", "oid", "gauge", "ticks", "counter32",
              "counter64"}

\* Which C functions serve the object: the getter and setter of a scalar, or
\* the column a case of get_cell and set_cell handles.
ScalarAccessors == {"fixed", "string", "relay", "temperature", "rssi"}
SensorAccessors == {"sensorIndex", "sensorLabel", "sensorTemp",
                    "sensorReadCount", "sensorStatus"}
Accessors == ScalarAccessors \cup SensorAccessors

\* mib_object_t and mib_column_t: the declared type, whether the object may
\* be written, and its accessor.
Definitions == [tag : ValueTags, writable : BOOLEAN, accessor : Accessors]

\* What the registered arrays declare: only the string and relay scalars and
\* the label column are writable, only wespeSensorTable has sensor rows, and
\* every table has an entry OID of its own.
ASSUME MibAssumption ==
  /\ DOMAIN Objects \subseteq Oid
  /\ \A o \in DOMAIN Objects :
       /\ Objects[o] \in Definitions
       /\ Objects[o].accessor \in ScalarAccessors
       /\ Objects[o].writable <=> Objects[o].accessor \in {"string", "relay"}
  /\ \A t \in Tables :
       /\ t.entry \in Oid
       /\ DOMAIN t.columns \subseteq Nat
       /\ \A c \in DOMAIN t.columns :
            /\ t.columns[c] \in Definitions
            /\ IF t.rows = "sensors" THEN t.columns[c].accessor \in SensorAccessors
               ELSE t.columns[c].accessor = "fixed"
            /\ t.columns[c].writable <=> t.columns[c].accessor = "sensorLabel"
  /\ \A t, u \in Tables : t.entry = u.entry => t = u

\* They are C arrays, and the registry has MIB_MAX_TABLES slots for the tables.
ASSUME MibIsFinite ==
  /\ IsFiniteSet(DOMAIN Objects)
  /\ IsFiniteSet(Tables)
  /\ \A t \in Tables : IsFiniteSet(DOMAIN t.columns)

-----------------------------------------------------------------------------
\* The indices that first_index and next_index enumerate: dense, from 1.
RowSet(t, rows) == 1 .. (IF t.rows = "sensors" THEN rows ELSE 1)

Cell(t, c, i) == t.entry \o <<c, i>>

\* The OID has the shape of a cell of t and names one of its columns.
InTable(t, o) ==
  /\ Len(o) = Len(t.entry) + 2
  /\ Agree(o, t.entry, Len(t.entry))
  /\ o[Len(t.entry) + 1] \in DOMAIN t.columns

ColumnArc(t, o) == o[Len(t.entry) + 1]
RowArc(t, o) == o[Len(t.entry) + 2]

\* mib_resolved_t, with the result code and the row index (0 for a scalar).
Resolved == [res : Results, oid : Oid, tag : ValueTags, writable : BOOLEAN,
             accessor : Accessors, row : Nat]

Hit(o, definition, row) ==
  [res |-> "ok", oid |-> o, tag |-> definition.tag,
   writable |-> definition.writable, accessor |-> definition.accessor,
   row |-> row]

Miss(result) ==
  [res |-> result, oid |-> <<>>, tag |-> "integer", writable |-> FALSE,
   accessor |-> "fixed", row |-> 0]

\* table_find_exact, once InTable(t, o) holds.
FindCell(t, o, rows) ==
  IF RowArc(t, o) \in RowSet(t, rows)
  THEN Hit(o, t.columns[ColumnArc(t, o)], RowArc(t, o))
  ELSE Miss("noSuchInstance")

\* mib_registry_resolve: a scalar, a cell, or why there is none.
Resolve(o, rows) ==
  IF o \in DOMAIN Objects THEN Hit(o, Objects[o], 0)
  ELSE IF \E t \in Tables : InTable(t, o)
  THEN FindCell(CHOOSE t \in Tables : InTable(t, o), o, rows)
  ELSE Miss("noSuchObject")

-----------------------------------------------------------------------------
CellsOf(t, rows) ==
  {Cell(t, c, i) : c \in DOMAIN t.columns, i \in RowSet(t, rows)}

Instances(rows) == DOMAIN Objects \cup UNION {CellsOf(t, rows) : t \in Tables}

\* The least instance after o, as a set: empty at the end of the view.  Like
\* `next' below, `after' is bound by a set and not by LET, for TLC to compute
\* it once also where it asks whether an action is enabled.
Successors(o, rows) ==
  UNION {{x \in after : \A y \in after : ~OidLess(y, x)} :
           after \in {{x \in Instances(rows) : OidLess(o, x)}}}

\* mib_registry_resolve_next.
ResolveNext(o, rows) ==
  CHOOSE r \in {IF next = {} THEN Miss("endOfView")
                ELSE Resolve(CHOOSE x \in next : TRUE, rows) :
                  next \in {Successors(o, rows)}} : TRUE
=============================================================================
