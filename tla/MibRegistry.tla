---------------------------- MODULE MibRegistry -----------------------------
(***************************************************************************)
(* The searches of mib_registry.c: a binary search in every registered     *)
(* array of scalars, then a scan of the registered tables whose rows are   *)
(* enumerated by first_index and next_index, one loop iteration per step.  *)
(* Rows may come and go between two of those callbacks.  MibView says what *)
(* a lookup promises its caller.                                           *)
(***************************************************************************)
EXTENDS MibView

CONSTANTS
  Modules,      \* s_modules: the OIDs of each array of scalars, in order
  TableArray,   \* s_tables
  ColumnArray,  \* the column numbers of each table, in order
  RowCounts,    \* what sensor_count() may return
  Targets       \* the OIDs looked up

Elements(s) == {s[i] : i \in DOMAIN s}

\* mib_object.h and mib_table.h: the arrays are sorted at build time.  Only
\* mib_sensor_table.c, registered once, has rows that come and go; both
\* sensor drivers count at least one.
ASSUME RegistryAssumption ==
  /\ Modules \in Seq(Seq(Oid))
  /\ \A k \in DOMAIN Modules : \A i, j \in DOMAIN Modules[k] :
       i < j => OidLess(Modules[k][i], Modules[k][j])
  /\ DOMAIN Objects = UNION {Elements(Modules[k]) : k \in DOMAIN Modules}
  /\ TableArray \in Seq(Tables)
  /\ Tables = Elements(TableArray)
  /\ \A i, j \in DOMAIN TableArray :
       TableArray[i].rows = "sensors" /\ TableArray[j].rows = "sensors" => i = j
  /\ \A tab \in Tables :
       /\ ColumnArray[tab] \in Seq(Nat)
       /\ \A i, j \in DOMAIN ColumnArray[tab] :
            i < j => ColumnArray[tab][i] < ColumnArray[tab][j]
       /\ DOMAIN tab.columns = Elements(ColumnArray[tab])
  /\ RowCounts \subseteq Nat \ {0}
  /\ Targets \subseteq Oid

VARIABLES
  at,           \* which loop is running
  op,           \* the lookup: exact or next
  target,       \* the OID it was called with
  m, lo, hi,    \* the module searched, and the half-open range left of it
  t, col, row,  \* the table scanned, the column, the row last enumerated
  best,         \* resolve_next: the least candidate so far
  answer,       \* what the lookup returned
  rows,         \* the number of sensors
  rowsSeen      \* history: the numbers there were since the call

vars == <<at, op, target, m, lo, hi, t, col, row, best, answer, rows, rowsSeen>>

Ops == {"resolve", "resolveNext"}

TypeOK ==
  /\ at \in {"idle", "scalars", "tables", "done"}
  /\ op \in Ops
  /\ target \in Oid
  /\ m \in 1 .. Len(Modules) + 1
  /\ lo \in Nat /\ hi \in Nat
  /\ t \in 1 .. Len(TableArray) + 1
  /\ col \in Nat \ {0}
  /\ row \in Nat
  /\ best \in Resolved
  /\ answer \in Resolved
  /\ rows \in RowCounts
  /\ rowsSeen \subseteq RowCounts

ModuleSize(k) == IF k \in DOMAIN Modules THEN Len(Modules[k]) ELSE 0

Init ==
  /\ at = "idle"
  /\ op = "resolve"
  /\ target = <<>>
  /\ m = 1 /\ lo = 0 /\ hi = 0
  /\ t = 1 /\ col = 1 /\ row = 0
  /\ best = Miss("endOfView")
  /\ answer = Miss("endOfView")
  /\ rows \in RowCounts
  /\ rowsSeen = {rows}

OpenModule(k) == m' = k /\ lo' = 0 /\ hi' = ModuleSize(k)

\* Mutant: the first column counts as column 0.
OpenTableZero(k) == t' = k /\ col' = 0 /\ row' = 0

OpenTable(k) == t' = k /\ col' = 1 /\ row' = 0

Call(operation, oid) ==
  /\ at = "idle"
  /\ at' = "scalars"
  /\ op' = operation
  /\ target' = oid
  /\ OpenModule(1)
  /\ best' = Miss("endOfView")
  /\ rowsSeen' = {rows}
  /\ UNCHANGED <<t, col, row, answer, rows>>

Return(result) == at' = "done" /\ answer' = result

\* The caller has the answer.
Leave ==
  /\ at = "done"
  /\ at' = "idle"
  /\ UNCHANGED <<op, target, m, lo, hi, t, col, row, best, answer, rows, rowsSeen>>

-----------------------------------------------------------------------------
\* mib_registry_find and mib_registry_find_next.
InModule == at = "scalars" /\ m \in DOMAIN Modules

Mid == lo + (hi - lo) \div 2
Middle == Modules[m][Mid + 1]
Scalar(o) == Hit(o, Objects[o], 0)

\* Mutant: the middle stays in the range.
NarrowExactStuck ==
  /\ InModule
  /\ op = "resolve"
  /\ lo < hi
  /\ \/ /\ OidCompare(Middle, target) = 0
        /\ Return(Scalar(Middle))
        /\ UNCHANGED <<lo, hi>>
     \/ /\ OidCompare(Middle, target) < 0
        /\ lo' = Mid
        /\ UNCHANGED <<at, answer, hi>>
     \/ /\ OidCompare(Middle, target) > 0
        /\ hi' = Mid
        /\ UNCHANGED <<at, answer, lo>>
  /\ UNCHANGED <<op, target, m, t, col, row, best, rows, rowsSeen>>

NarrowExact ==
  /\ InModule
  /\ op = "resolve"
  /\ lo < hi
  /\ \/ /\ OidCompare(Middle, target) = 0
        /\ Return(Scalar(Middle))
        /\ UNCHANGED <<lo, hi>>
     \/ /\ OidCompare(Middle, target) < 0
        /\ lo' = Mid + 1
        /\ UNCHANGED <<at, answer, hi>>
     \/ /\ OidCompare(Middle, target) > 0
        /\ hi' = Mid
        /\ UNCHANGED <<at, answer, lo>>
  /\ UNCHANGED <<op, target, m, t, col, row, best, rows, rowsSeen>>

NarrowNext ==
  /\ InModule
  /\ op = "resolveNext"
  /\ lo < hi
  /\ \/ OidCompare(Middle, target) > 0 /\ hi' = Mid /\ UNCHANGED lo
     \/ OidCompare(Middle, target) <= 0 /\ lo' = Mid + 1 /\ UNCHANGED hi
  /\ UNCHANGED <<at, op, target, m, t, col, row, best, answer, rows, rowsSeen>>

\* The better of the best candidate so far and this one.
Better(candidate) ==
  IF best.res # "ok" \/ OidLess(candidate.oid, best.oid) THEN candidate ELSE best

\* The range is empty: the next module, with this one's candidate noted.
NextModule ==
  /\ InModule
  /\ lo >= hi
  /\ OpenModule(m + 1)
  /\ best' = IF op = "resolveNext" /\ lo < Len(Modules[m])
             THEN Better(Scalar(Modules[m][lo + 1])) ELSE best
  /\ UNCHANGED <<at, op, target, t, col, row, answer, rows, rowsSeen>>

ScalarsEnd ==
  /\ at = "scalars"
  /\ m \notin DOMAIN Modules
  /\ at' = "tables"
  /\ OpenTable(1)
  /\ UNCHANGED <<op, target, m, lo, hi, best, answer, rows, rowsSeen>>

-----------------------------------------------------------------------------
\* table_find_exact and table_find_next.
InTables == at = "tables" /\ t \in DOMAIN TableArray

Table == TableArray[t]
Columns == ColumnArray[Table]

\* first_index (row is 0) or next_index: the row after the last one, if it
\* exists right now.
NextRow == row + 1
HasNextRow == NextRow \in RowSet(Table, rows)

SkipTable ==
  /\ InTables
  /\ op = "resolve"
  /\ ~InTable(Table, target)
  /\ OpenTable(t + 1)
  /\ UNCHANGED <<at, op, target, m, lo, hi, best, answer, rows, rowsSeen>>

\* Mutant: the scan stops one row early.
FindRowEarly ==
  /\ InTables
  /\ op = "resolve"
  /\ InTable(Table, target)
  /\ LET wanted == RowArc(Table, target) IN
     \/ /\ ~HasNextRow \/ NextRow >= wanted
        /\ Return(Miss("noSuchInstance"))
        /\ UNCHANGED row
     \/ /\ HasNextRow /\ NextRow < wanted
        /\ row' = NextRow
        /\ UNCHANGED <<at, answer>>
  /\ UNCHANGED <<op, target, m, lo, hi, t, col, best, rows, rowsSeen>>

FindRow ==
  /\ InTables
  /\ op = "resolve"
  /\ InTable(Table, target)
  /\ LET wanted == RowArc(Table, target) IN
     \/ /\ ~HasNextRow \/ NextRow > wanted
        /\ Return(Miss("noSuchInstance"))
        /\ UNCHANGED row
     \/ /\ HasNextRow /\ NextRow = wanted
        /\ Return(Hit(target, Table.columns[ColumnArc(Table, target)], wanted))
        /\ UNCHANGED row
     \/ /\ HasNextRow /\ NextRow < wanted
        /\ row' = NextRow
        /\ UNCHANGED <<at, answer>>
  /\ UNCHANGED <<op, target, m, lo, hi, t, col, best, rows, rowsSeen>>

\* Mutant: at the end of a column the scan of the table ends.
ScanColumnOnce ==
  /\ InTables
  /\ op = "resolveNext"
  /\ col \in DOMAIN Columns
  /\ LET cell == Cell(Table, Columns[col], NextRow) IN
     \/ /\ ~HasNextRow
        /\ OpenTable(t + 1)
        /\ UNCHANGED best
     \/ /\ HasNextRow /\ OidCompare(cell, target) > 0
        /\ best' = Better(Hit(cell, Table.columns[Columns[col]], NextRow))
        /\ OpenTable(t + 1)
     \/ /\ HasNextRow /\ OidCompare(cell, target) <= 0
        /\ row' = NextRow
        /\ UNCHANGED <<t, col, best>>
  /\ UNCHANGED <<at, op, target, m, lo, hi, answer, rows, rowsSeen>>

\* The first cell of a column after the target is the table's candidate.
ScanColumn ==
  /\ InTables
  /\ op = "resolveNext"
  /\ col \in DOMAIN Columns
  /\ LET cell == Cell(Table, Columns[col], NextRow) IN
     \/ /\ ~HasNextRow
        /\ col' = col + 1
        /\ row' = 0
        /\ UNCHANGED <<t, best>>
     \/ /\ HasNextRow /\ OidCompare(cell, target) > 0
        /\ best' = Better(Hit(cell, Table.columns[Columns[col]], NextRow))
        /\ OpenTable(t + 1)
     \/ /\ HasNextRow /\ OidCompare(cell, target) <= 0
        /\ row' = NextRow
        /\ UNCHANGED <<t, col, best>>
  /\ UNCHANGED <<at, op, target, m, lo, hi, answer, rows, rowsSeen>>

\* No cell of the table comes after the target.
NextTable ==
  /\ InTables
  /\ op = "resolveNext"
  /\ col \notin DOMAIN Columns
  /\ OpenTable(t + 1)
  /\ UNCHANGED <<at, op, target, m, lo, hi, best, answer, rows, rowsSeen>>

TablesEnd ==
  /\ at = "tables"
  /\ t \notin DOMAIN TableArray
  /\ Return(IF op = "resolve" THEN Miss("noSuchObject") ELSE best)
  /\ UNCHANGED <<op, target, m, lo, hi, t, col, row, best, rows, rowsSeen>>

-----------------------------------------------------------------------------
Search ==
  \/ NarrowExact \/ NarrowNext \/ NextModule \/ ScalarsEnd
  \/ SkipTable \/ FindRow \/ ScanColumn \/ NextTable \/ TablesEnd \/ Leave

RowsChange ==
  /\ rows' \in RowCounts \ {rows}
  /\ rowsSeen' = rowsSeen \cup {rows'}
  /\ UNCHANGED <<at, op, target, m, lo, hi, t, col, row, best, answer>>

Next ==
  \/ \E operation \in Ops, oid \in Targets : Call(operation, oid)
  \/ Search
  \/ RowsChange

\* A lookup runs in the UDP task without blocking.
Spec == Init /\ [][Next]_vars /\ WF_vars(Search)

-----------------------------------------------------------------------------
(***************************************************************************)
(* Properties.                                                             *)
(***************************************************************************)

\* What an exact lookup returns was true at one instant of the call, whatever
\* rows come and go between two callbacks (table_find_exact, mib_table.h).
ExactAnswerWasTrue ==
  at = "done" /\ op = "resolve" => \E n \in rowsSeen : answer = Resolve(target, n)

\* So was the successor resolve_next returns: no state of the table that
\* never was is reported, no instance skipped or repeated (table_find_next).
NextAnswerWasTrue ==
  at = "done" /\ op = "resolveNext" =>
    \E n \in rowsSeen : answer = ResolveNext(target, n)

\* The loops end, however often the rows change while a table is scanned.
LookupEnds == at = "scalars" ~> at = "done"
=============================================================================
