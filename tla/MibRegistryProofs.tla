------------------------- MODULE MibRegistryProofs --------------------------
(***************************************************************************)
(* The searches of mib_registry.c are correct for every MIB: any number of *)
(* sorted arrays and tables of any size, and rows that come and go.        *)
(***************************************************************************)
EXTENDS MibRegistry, MibProofs

\* An object at a position of a registered array is a scalar of the MIB.
LEMMA ModuleObject ==
  ASSUME NEW k \in DOMAIN Modules, NEW i \in DOMAIN Modules[k]
  PROVE  /\ Modules[k][i] \in DOMAIN Objects
         /\ Modules[k][i] \in Oid
         /\ Scalar(Modules[k][i]) \in Resolved
         /\ Scalar(Modules[k][i]).res = "ok"
         /\ Scalar(Modules[k][i]).oid = Modules[k][i]
<1>1. Modules[k][i] \in DOMAIN Objects
  BY RegistryAssumption DEF Elements
<1>2. Modules[k][i] \in Oid /\ Objects[Modules[k][i]] \in Definitions
  BY <1>1, MibAssumption
<1> QED
  BY <1>1, <1>2 DEF Scalar, Hit, Resolved, Definitions, Results

\* Both ends of the range stay within the array searched.
RangeInv == at = "scalars" => lo <= hi /\ hi <= ModuleSize(m)

TypeInv == TypeOK /\ RangeInv

LEMMA ModuleSizeType ==
  ASSUME NEW k
  PROVE  /\ ModuleSize(k) \in Nat
         /\ k \in DOMAIN Modules => ModuleSize(k) = Len(Modules[k])
  BY RegistryAssumption DEF ModuleSize

\* The arrays are sequences.
LEMMA ArrayFacts ==
  /\ Len(Modules) \in Nat /\ DOMAIN Modules = 1 .. Len(Modules)
  /\ Len(TableArray) \in Nat /\ DOMAIN TableArray = 1 .. Len(TableArray)
  /\ \A k \in DOMAIN Modules :
       Modules[k] \in Seq(Oid) /\ Len(Modules[k]) \in Nat /\ DOMAIN Modules[k] = 1 .. Len(Modules[k])
<1>1. Modules \in Seq(Seq(Oid)) /\ TableArray \in Seq(Tables)
  BY RegistryAssumption
<1>2. \A k \in DOMAIN Modules : Modules[k] \in Seq(Oid)
  BY <1>1
<1> QED BY <1>1, <1>2

LEMMA LastIsNat ==
  ASSUME NEW s \in Seq(Nat), NEW n \in Nat, Len(s) = n + 2
  PROVE  s[Len(s)] \in Nat
  OBVIOUS

LEMMA Half ==
  ASSUME NEW n \in Nat, n > 0
  PROVE  n \div 2 \in Nat /\ n \div 2 < n
  BY SMT

\* The middle of a range that is not empty lies in it.
LEMMA MiddleInRange ==
  ASSUME TypeInv, InModule, lo < hi
  PROVE  /\ Mid \in Nat /\ lo <= Mid /\ Mid < hi
         /\ m \in DOMAIN Modules /\ Mid + 1 \in DOMAIN Modules[m]
<1>1. lo \in Nat /\ hi \in Nat /\ hi <= Len(Modules[m]) /\ Modules[m] \in Seq(Oid)
  BY ModuleSizeType, ArrayFacts DEF TypeInv, TypeOK, RangeInv, InModule
<1> DEFINE half == (hi - lo) \div 2
<1>2. hi - lo \in Nat /\ hi - lo > 0
  BY <1>1
<1>3. half \in Nat /\ half < hi - lo
  BY <1>2, Half
<1>4. Mid = lo + half
  BY DEF Mid
<1> HIDE DEF half
<1>5. Mid \in Nat /\ lo <= Mid /\ Mid < hi /\ Mid + 1 \in 1 .. Len(Modules[m])
  BY <1>1, <1>3, <1>4
<1> QED
  BY <1>1, <1>5 DEF InModule

LEMMA MissType == \A result \in Results : Miss(result) \in Resolved
  BY DEF Miss, Resolved, Oid, ValueTags, Accessors, ScalarAccessors

\* Every cell the scan offers is an instance of the table.
LEMMA CellType ==
  ASSUME TypeInv, InTables, col \in DOMAIN Columns
  PROVE  Hit(Cell(Table, Columns[col], NextRow), Table.columns[Columns[col]], NextRow)
           \in Resolved
<1>1. Table \in Tables
  BY RegistryAssumption DEF InTables, Table
<1>2. Columns[col] \in DOMAIN Table.columns
  <2>1. DOMAIN Table.columns = Elements(ColumnArray[Table])
    BY <1>1, RegistryAssumption
  <2> QED
    BY <2>1 DEF Columns, Elements
<1>3. NextRow \in Nat
  BY DEF TypeInv, TypeOK, NextRow
<1>4. Cell(Table, Columns[col], NextRow) \in Oid
  BY <1>1, <1>2, <1>3, CellIsOid
<1>5. Table.columns[Columns[col]] \in Definitions
  BY <1>1, <1>2, MibAssumption
<1> QED
  BY <1>3, <1>4, <1>5 DEF Hit, Resolved, Definitions, Results

LEMMA InitType == Init => TypeInv
<1>1. "endOfView" \in Results
  BY DEF Results
<1> QED
  BY <1>1, MissType, RegistryAssumption
  DEF Init, TypeInv, TypeOK, RangeInv, Ops, Oid

LEMMA StepType == TypeInv /\ [Next]_vars => TypeInv'
<1> SUFFICES ASSUME TypeInv, [Next]_vars PROVE TypeInv'
  OBVIOUS
<1> USE DEF TypeInv, TypeOK, RangeInv
<1>1. \A result \in {"endOfView", "noSuchObject", "noSuchInstance"} : Miss(result) \in Resolved
  BY MissType DEF Results
<1>2. Len(Modules) \in Nat /\ DOMAIN Modules = 1 .. Len(Modules)
      /\ Len(TableArray) \in Nat /\ DOMAIN TableArray = 1 .. Len(TableArray)
  BY RegistryAssumption
<1>3. \A k : ModuleSize(k) \in Nat
  BY ModuleSizeType
<1>4. ASSUME NEW candidate \in Resolved PROVE Better(candidate) \in Resolved
  BY <1>4 DEF Better
<1>5. ASSUME NEW operation \in Ops, NEW oid \in Targets, Call(operation, oid)
      PROVE  TypeInv'
  BY <1>1, <1>2, <1>3, <1>5, RegistryAssumption DEF Call, OpenModule
<1>6. CASE NarrowExact
  <2>1. Scalar(Middle) \in Resolved /\ Mid \in Nat /\ lo <= Mid /\ Mid < hi
    BY <1>6, MiddleInRange, ModuleObject DEF NarrowExact, Middle
  <2>2. /\ lo' \in Nat /\ hi' \in Nat
        /\ at' = "scalars" => lo' <= hi' /\ hi' <= ModuleSize(m')
    BY <1>3, <1>6, <2>1 DEF NarrowExact, InModule, Return
  <2>3. at' \in {"scalars", "done"} /\ answer' \in Resolved
    BY <1>6, <2>1 DEF NarrowExact, InModule, Return
  <2> QED
    BY <1>6, <2>2, <2>3 DEF NarrowExact
<1>7. CASE NarrowNext
  <2>1. Mid \in Nat /\ lo <= Mid /\ Mid < hi
    BY <1>7, MiddleInRange DEF NarrowNext
  <2>2. /\ lo' \in Nat /\ hi' \in Nat
        /\ at' = "scalars" => lo' <= hi' /\ hi' <= ModuleSize(m')
    BY <1>3, <1>7, <2>1 DEF NarrowNext, InModule
  <2> QED
    BY <1>7, <2>2 DEF NarrowNext
<1>8. CASE NextModule
  <2>1. ASSUME lo < Len(Modules[m]) PROVE Scalar(Modules[m][lo + 1]) \in Resolved
    <3>1. m \in DOMAIN Modules /\ lo + 1 \in DOMAIN Modules[m]
      BY <1>8, <2>1, RegistryAssumption DEF NextModule, InModule
    <3> QED
      BY <3>1, ModuleObject
  <2>2. best' \in Resolved
    BY <1>4, <1>8, <2>1 DEF NextModule
  <2>3. m' \in 1 .. Len(Modules) + 1
    BY <1>2, <1>8 DEF NextModule, InModule, OpenModule
  <2> QED
    BY <1>3, <1>8, <2>2, <2>3 DEF NextModule, OpenModule
<1>9. CASE ScalarsEnd
  BY <1>2, <1>9 DEF ScalarsEnd, OpenTable
<1>10. ASSUME OpenTable(t + 1), t \in DOMAIN TableArray
       PROVE  /\ t' \in 1 .. Len(TableArray) + 1
              /\ col' \in Nat \ {0} /\ row' \in Nat
  BY <1>2, <1>10 DEF OpenTable
<1>11. CASE SkipTable \/ NextTable
  BY <1>10, <1>11 DEF SkipTable, NextTable, InTables
<1>12. CASE FindRow
  <2>1. Table \in Tables /\ InTable(Table, target)
    BY <1>12, RegistryAssumption DEF FindRow, InTables, Table
  <2>2. /\ ColumnArc(Table, target) \in DOMAIN Table.columns
        /\ RowArc(Table, target) \in Nat
    <3>1. /\ target \in Seq(Nat) /\ Table.entry \in Seq(Nat)
          /\ Len(target) = Len(Table.entry) + 2
      BY <2>1, MibAssumption DEF InTable, Oid
    <3>2. RowArc(Table, target) = target[Len(target)] /\ Len(target) \in 1 .. Len(target)
      BY <3>1 DEF RowArc
    <3>3. target[Len(target)] \in Nat
      BY <3>1, LastIsNat
    <3>4. ColumnArc(Table, target) \in DOMAIN Table.columns
      BY <2>1, Zenon DEF InTable, ColumnArc
    <3> QED
      BY <3>2, <3>3, <3>4
  <2>3. Table.columns[ColumnArc(Table, target)] \in Definitions
    BY <2>1, <2>2, MibAssumption
  <2>4. Hit(target, Table.columns[ColumnArc(Table, target)], RowArc(Table, target))
          \in Resolved
    BY <2>2, <2>3 DEF Hit, Resolved, Definitions, Results
  <2>5. answer' \in Resolved /\ row' \in Nat
    BY <1>1, <1>12, <2>4 DEF FindRow, Return, NextRow
  <2> QED
    BY <1>12, <2>5 DEF FindRow, InTables, Return
<1>13. CASE ScanColumn
  <2>1. Hit(Cell(Table, Columns[col], NextRow), Table.columns[Columns[col]], NextRow)
          \in Resolved
    BY <1>13, CellType DEF ScanColumn
  <2>2. best' \in Resolved
    BY <1>4, <1>13, <2>1 DEF ScanColumn
  <2>3. /\ t' \in 1 .. Len(TableArray) + 1
        /\ col' \in Nat \ {0} /\ row' \in Nat
    BY <1>10, <1>13 DEF ScanColumn, InTables, NextRow
  <2> QED
    BY <1>13, <2>2, <2>3 DEF ScanColumn, InTables
<1>14. CASE TablesEnd
  BY <1>1, <1>14 DEF TablesEnd, Return
<1>15. CASE Leave
  BY <1>15 DEF Leave
<1>16. CASE RowsChange
  BY <1>16 DEF RowsChange
<1>17. CASE UNCHANGED vars
  BY <1>17 DEF vars
<1> QED
  BY <1>5, <1>6, <1>7, <1>8, <1>9, <1>11, <1>12, <1>13, <1>14, <1>15, <1>16, <1>17
  DEF Next, Search

\* Every index into the arrays of modules, tables and columns is in range.
THEOREM TypeCorrect == Spec => []TypeOK
<1>1. TypeInv => TypeOK
  BY DEF TypeInv
<1> QED
  BY <1>1, InitType, StepType, PTL DEF Spec

-----------------------------------------------------------------------------
(***************************************************************************)
(* The searches.  A binary search keeps what lies outside its range on the *)
(* right side of the target; the scan of a table for an exact match keeps  *)
(* the row wanted ahead of the row it is at.                               *)
(***************************************************************************)
\* The candidate is the least OID of S after the target, or there is none.
LeastAfterTarget(candidate, S) ==
  /\ \A o \in S : OidLess(target, o) => candidate.res = "ok" /\ ~OidLess(o, candidate.oid)
  /\ candidate.res = "ok" => candidate.oid \in S /\ OidLess(target, candidate.oid)

\* The binary searches over all arrays together are exact: a scalar that is
\* not found does not exist, and the candidate of find_next is the least
\* scalar after the target (mib_registry_find, mib_registry_find_next).
ScalarSearchIsExact ==
  /\ at = "tables" /\ op = "resolve" => target \notin DOMAIN Objects
  /\ at = "tables" /\ op = "resolveNext" /\ t = 1 => LeastAfterTarget(best, DOMAIN Objects)

ScalarsBefore(k) == UNION {Elements(Modules[j]) : j \in {i \in DOMAIN Modules : i < k}}

ScalarsInv ==
  at = "scalars" =>
    /\ op = "resolve" => target \notin ScalarsBefore(m)
    /\ op = "resolveNext" => LeastAfterTarget(best, ScalarsBefore(m))
    /\ m \in DOMAIN Modules => \A i \in DOMAIN Modules[m] :
         /\ i <= lo => ~OidLess(target, Modules[m][i])
         /\ i <= lo /\ op = "resolve" => target # Modules[m][i]
         /\ i > hi => OidLess(target, Modules[m][i])

TablesInv ==
  at = "tables" /\ op = "resolve" =>
    /\ \A k \in DOMAIN TableArray : k < t => ~InTable(TableArray[k], target)
    /\ row = 0 \/ (t \in DOMAIN TableArray /\ row < RowArc(Table, target))

RowsAreSeen == at # "idle" => rows \in rowsSeen

SearchInv ==
  /\ ScalarsInv
  /\ ScalarSearchIsExact
  /\ TablesInv
  /\ RowsAreSeen
  /\ ExactAnswerWasTrue

\* All the modules together hold all the scalars.
LEMMA AllScalars ==
  ASSUME NEW k, k \in Nat, k > Len(Modules)
  PROVE  ScalarsBefore(k) = DOMAIN Objects
<1>1. \A i \in DOMAIN Modules : i < k
  BY RegistryAssumption
<1> QED
  BY <1>1, RegistryAssumption DEF ScalarsBefore

LEMMA OneMoreModule ==
  ASSUME NEW k \in DOMAIN Modules
  PROVE  ScalarsBefore(k + 1) = ScalarsBefore(k) \cup Elements(Modules[k])
<1>1. \A i \in DOMAIN Modules : i < k + 1 <=> i < k \/ i = k
  BY RegistryAssumption
<1> QED
  BY <1>1 DEF ScalarsBefore

\* With the array sorted, one comparison decides for all positions beyond.
LEMMA ArraySorted ==
  ASSUME NEW k \in DOMAIN Modules, NEW i \in DOMAIN Modules[k], NEW j \in DOMAIN Modules[k],
         i <= j, NEW o \in Oid
  PROVE  /\ OidLess(o, Modules[k][i]) => OidLess(o, Modules[k][j])
         /\ OidLess(Modules[k][j], o) => OidLess(Modules[k][i], o)
         /\ ~OidLess(o, Modules[k][j]) => ~OidLess(o, Modules[k][i])
<1>1. /\ Modules[k][i] \in Oid /\ Modules[k][j] \in Oid
      /\ i = j \/ OidLess(Modules[k][i], Modules[k][j])
  <2>1. i \in Nat /\ j \in Nat
    BY RegistryAssumption
  <2> QED
    BY <2>1, ModuleObject, RegistryAssumption
<1> QED
  BY <1>1, LessTransitive

\* A better candidate is the least of both sets.
LEMMA BetterIsLeast ==
  ASSUME TypeInv, NEW S \in SUBSET Oid, NEW T \in SUBSET Oid, NEW candidate \in Resolved,
         candidate.res = "ok",
         LeastAfterTarget(best, S), LeastAfterTarget(candidate, T)
  PROVE  LeastAfterTarget(Better(candidate), S \cup T)
<1>1. candidate.oid \in Oid /\ best.oid \in Oid /\ target \in Oid
  BY DEF TypeInv, TypeOK, Resolved
<1>2. CASE best.res # "ok" \/ OidLess(candidate.oid, best.oid)
  <2>1. Better(candidate) = candidate
    BY <1>2 DEF Better
  <2>2. ASSUME NEW o \in S, OidLess(target, o) PROVE ~OidLess(o, candidate.oid)
    <3>1. best.res = "ok" /\ ~OidLess(o, best.oid)
      BY <2>2 DEF LeastAfterTarget
    <3> QED
      BY <1>1, <1>2, <2>2, <3>1, LessTransitive
  <2> QED
    BY <2>1, <2>2 DEF LeastAfterTarget
<1>3. CASE best.res = "ok" /\ ~OidLess(candidate.oid, best.oid)
  <2>1. Better(candidate) = best
    BY <1>3 DEF Better
  <2>2. ASSUME NEW o \in T, OidLess(target, o) PROVE ~OidLess(o, best.oid)
    <3>1. ~OidLess(o, candidate.oid)
      BY <2>2 DEF LeastAfterTarget
    <3> QED
      BY <1>1, <1>3, <2>2, <3>1, LessTransitive, LessTotal
  <2> QED
    BY <1>3, <2>1, <2>2 DEF LeastAfterTarget
<1> QED
  BY <1>2, <1>3

\* FindRow decides about the wanted row as the table stands: rows are dense.
LEMMA RowDecision ==
  ASSUME TypeInv, FindRow, target \notin DOMAIN Objects,
         row = 0 \/ row < RowArc(Table, target)
  PROVE  \/ at' = "done" /\ answer' = Resolve(target, rows)
         \/ at' = "tables" /\ row' < RowArc(Table, target)
<1> DEFINE wanted == RowArc(Table, target)
<1>1. Table \in Tables /\ InTable(Table, target)
  BY RegistryAssumption DEF FindRow, InTables, Table
<1>2. \A tab \in Tables : InTable(tab, target) => tab = Table
  <2>1. target \in Oid
    BY DEF TypeInv, TypeOK
  <2> QED
    BY <1>1, <2>1, OneTable
<1>3. Resolve(target, rows) = FindCell(Table, target, rows)
  <2>1. (CHOOSE tab \in Tables : InTable(tab, target)) = Table
    BY <1>1, <1>2
  <2> QED
    BY <1>1, <2>1 DEF Resolve
<1>4. wanted \in Nat
  <2>1. /\ target \in Seq(Nat) /\ Table.entry \in Seq(Nat)
        /\ Len(target) = Len(Table.entry) + 2
    BY <1>1, MibAssumption DEF InTable, TypeInv, TypeOK, Oid
  <2>2. Len(Table.entry) + 2 \in 1 .. Len(target)
    BY <2>1
  <2> QED
    BY <2>1, <2>2 DEF RowArc
<1>5. PICK last \in Nat : last > 0 /\ RowSet(Table, rows) = 1 .. last
  <2>1. rows \in Nat /\ rows > 0
    BY RegistryAssumption DEF TypeInv, TypeOK
  <2>2. CASE Table.rows = "sensors"
    BY <2>1, <2>2 DEF RowSet
  <2>3. CASE Table.rows # "sensors"
    BY <2>3 DEF RowSet
  <2> QED BY <2>2, <2>3
<1>6. row \in Nat /\ NextRow = row + 1
  BY DEF TypeInv, TypeOK, NextRow
<1>7. HasNextRow <=> row + 1 <= last
  BY <1>5, <1>6 DEF HasNextRow
<1>8. FindCell(Table, target, rows) =
        IF wanted \in 1 .. last
        THEN Hit(target, Table.columns[ColumnArc(Table, target)], wanted)
        ELSE Miss("noSuchInstance")
  BY <1>5 DEF FindCell
<1> HIDE DEF wanted
<1>9. CASE (~HasNextRow \/ NextRow > wanted) /\ Return(Miss("noSuchInstance"))
  <2>1. wanted \notin 1 .. last
    BY <1>4, <1>5, <1>6, <1>7, <1>9 DEF wanted
  <2> QED
    BY <1>3, <1>8, <1>9, <2>1 DEF Return
<1>10. CASE /\ HasNextRow /\ NextRow = wanted
            /\ Return(Hit(target, Table.columns[ColumnArc(Table, target)], wanted))
  <2>1. wanted \in 1 .. last
    BY <1>4, <1>5, <1>6, <1>7, <1>10
  <2> QED
    BY <1>3, <1>8, <1>10, <2>1 DEF Return
<1>11. CASE NextRow < wanted /\ row' = NextRow /\ at' = at
  BY <1>11 DEF FindRow, InTables, wanted
<1> QED
  BY <1>9, <1>10, <1>11 DEF FindRow, wanted

LEMMA InitSearch == Init => SearchInv
  BY DEF Init, SearchInv, ScalarsInv, ScalarSearchIsExact, TablesInv, RowsAreSeen,
         ExactAnswerWasTrue

LEMMA StepSearch == TypeInv /\ SearchInv /\ [Next]_vars => SearchInv'
<1> SUFFICES ASSUME TypeInv, SearchInv, [Next]_vars PROVE SearchInv'
  OBVIOUS
<1> USE DEF SearchInv, ScalarsInv, ScalarSearchIsExact, TablesInv, RowsAreSeen,
            ExactAnswerWasTrue
<1>1. /\ target \in Oid /\ m \in 1 .. Len(Modules) + 1 /\ lo \in Nat /\ hi \in Nat
      /\ t \in 1 .. Len(TableArray) + 1 /\ row \in Nat /\ op \in Ops
      /\ Len(Modules) \in Nat /\ DOMAIN Modules = 1 .. Len(Modules)
      /\ Len(TableArray) \in Nat /\ DOMAIN TableArray = 1 .. Len(TableArray)
  BY ArrayFacts DEF TypeInv, TypeOK
<1>2. \A k \in DOMAIN Modules :
        ModuleSize(k) = Len(Modules[k]) /\ Len(Modules[k]) \in Nat
        /\ DOMAIN Modules[k] = 1 .. Len(Modules[k])
  BY ModuleSizeType, RegistryAssumption
<1>3. ASSUME NEW operation \in Ops, NEW oid \in Targets, Call(operation, oid)
      PROVE  SearchInv'
  <2>1. ScalarsBefore(1) = {}
    BY <1>1 DEF ScalarsBefore
  <2>2. best'.res # "ok"
    BY <1>3 DEF Call, Miss
  <2>3. /\ at' = "scalars" /\ m' = 1 /\ lo' = 0 /\ rows' \in rowsSeen'
        /\ m' \in DOMAIN Modules => hi' = Len(Modules[m'])
    BY <1>2, <1>3 DEF Call, OpenModule
  <2>4. LeastAfterTarget(best, ScalarsBefore(m))'
    BY <2>1, <2>2, <2>3 DEF LeastAfterTarget
  <2> QED
    BY <1>2, <2>1, <2>3, <2>4
<1>4. CASE NarrowExact
  <2>1. /\ Mid \in Nat /\ lo <= Mid /\ Mid < hi /\ m \in DOMAIN Modules
        /\ Mid + 1 \in DOMAIN Modules[m] /\ Middle = Modules[m][Mid + 1]
        /\ at = "scalars" /\ op = "resolve"
    BY <1>4, MiddleInRange DEF NarrowExact, Middle, InModule
  <2>2. Middle \in Oid /\ Middle \in DOMAIN Objects
    BY <2>1, ModuleObject
  <2>3. CASE OidCompare(Middle, target) = 0 /\ Return(Scalar(Middle))
    <3>1. Middle = target
      BY <1>1, <2>2, <2>3, CompareIsTotal
    <3>2. Scalar(Middle) = Resolve(target, rows)
      BY <2>2, <3>1 DEF Scalar, Resolve
    <3> QED
      BY <1>4, <2>1, <2>3, <3>2 DEF NarrowExact, Return
  <2>4. CASE OidCompare(Middle, target) < 0 /\ lo' = Mid + 1 /\ UNCHANGED <<at, answer, hi>>
    <3>1. OidLess(Middle, target)
      BY <2>4 DEF OidLess
    <3>2. ASSUME NEW i \in DOMAIN Modules[m], i <= Mid + 1
          PROVE  ~OidLess(target, Modules[m][i]) /\ target # Modules[m][i]
      <4>1. OidLess(Modules[m][i], target) /\ Modules[m][i] \in Oid
        BY <1>1, <2>1, <3>1, <3>2, ArraySorted, ModuleObject
      <4> QED
        BY <1>1, <4>1, LessTotal, LessIrreflexive
    <3> QED
      BY <1>4, <2>1, <2>4, <3>2 DEF NarrowExact, LeastAfterTarget
  <2>5. CASE OidCompare(Middle, target) > 0 /\ hi' = Mid /\ UNCHANGED <<at, answer, lo>>
    <3>1. OidLess(target, Middle)
      BY <1>1, <2>2, <2>5, LessTotal
    <3>2. ASSUME NEW i \in DOMAIN Modules[m], i > Mid PROVE OidLess(target, Modules[m][i])
      <4>1. Mid + 1 <= i
        BY <1>2, <2>1, <3>2
      <4> QED
        BY <1>1, <2>1, <3>1, <4>1, ArraySorted
    <3> QED
      BY <1>4, <2>1, <2>5, <3>2 DEF NarrowExact, LeastAfterTarget
  <2> QED
    BY <1>4, <2>3, <2>4, <2>5 DEF NarrowExact
<1>5. CASE NarrowNext
  <2>1. /\ Mid \in Nat /\ lo <= Mid /\ Mid < hi /\ m \in DOMAIN Modules
        /\ Mid + 1 \in DOMAIN Modules[m] /\ Middle = Modules[m][Mid + 1]
        /\ at = "scalars" /\ op = "resolveNext"
    BY <1>5, MiddleInRange DEF NarrowNext, Middle, InModule
  <2>2. Middle \in Oid
    BY <2>1, ModuleObject
  <2>3. CASE OidCompare(Middle, target) > 0 /\ hi' = Mid /\ UNCHANGED lo
    <3>1. OidLess(target, Middle)
      BY <1>1, <2>2, <2>3, LessTotal
    <3>2. ASSUME NEW i \in DOMAIN Modules[m], i > Mid PROVE OidLess(target, Modules[m][i])
      <4>1. Mid + 1 <= i
        BY <1>2, <2>1, <3>2
      <4> QED
        BY <1>1, <2>1, <3>1, <4>1, ArraySorted
    <3> QED
      BY <1>5, <2>1, <2>3, <3>2 DEF NarrowNext, LeastAfterTarget
  <2>4. CASE OidCompare(Middle, target) <= 0 /\ lo' = Mid + 1 /\ UNCHANGED hi
    <3>1. ~OidLess(target, Middle)
      BY <1>1, <2>2, <2>4, LessTotal, CompareIsTotal
    <3>2. ASSUME NEW i \in DOMAIN Modules[m], i <= Mid + 1
          PROVE  ~OidLess(target, Modules[m][i])
      BY <1>1, <2>1, <3>1, <3>2, ArraySorted
    <3> QED
      BY <1>5, <2>1, <2>4, <3>2 DEF NarrowNext, LeastAfterTarget
  <2> QED
    BY <1>5, <2>3, <2>4 DEF NarrowNext
<1>6. CASE NextModule
  <2>1. /\ at = "scalars" /\ at' = "scalars" /\ m \in DOMAIN Modules /\ lo >= hi
        /\ m' = m + 1 /\ lo' = 0 /\ UNCHANGED <<op, target, rows, rowsSeen>>
        /\ m' \in DOMAIN Modules => hi' = Len(Modules[m'])
    BY <1>2, <1>6 DEF NextModule, InModule, OpenModule
  <2>2. ScalarsBefore(m') = ScalarsBefore(m) \cup Elements(Modules[m])
    BY <2>1, OneMoreModule
  <2>3. op = "resolve" => target \notin ScalarsBefore(m')
    <3>1. ASSUME op = "resolve", NEW i \in DOMAIN Modules[m] PROVE target # Modules[m][i]
      <4>1. CASE i <= lo
        BY <2>1, <3>1, <4>1
      <4>2. CASE i > hi
        <5>1. OidLess(target, Modules[m][i])
          BY <2>1, <4>2
        <5> QED
          BY <1>1, <5>1, LessIrreflexive
      <4>3. i <= lo \/ i > hi
        <5>1. i \in Nat
          BY <1>2, <2>1
        <5> QED
          BY <1>1, <2>1, <5>1
      <4> QED
        BY <4>1, <4>2, <4>3
    <3> QED
      BY <2>1, <2>2, <3>1 DEF Elements
  <2>4. op = "resolveNext" => LeastAfterTarget(best, ScalarsBefore(m))'
    <3> SUFFICES ASSUME op = "resolveNext" PROVE LeastAfterTarget(best, ScalarsBefore(m))'
      OBVIOUS
    <3>1. LeastAfterTarget(best, ScalarsBefore(m))
      BY <2>1
    <3>2. CASE lo < Len(Modules[m])
      <4> DEFINE candidate == Scalar(Modules[m][lo + 1])
      <4>1. lo + 1 \in DOMAIN Modules[m] /\ lo + 1 > hi
        BY <1>1, <1>2, <2>1, <3>2
      <4>2. /\ Modules[m][lo + 1] \in Oid /\ candidate \in Resolved
            /\ candidate.res = "ok" /\ candidate.oid = Modules[m][lo + 1]
            /\ OidLess(target, candidate.oid)
        BY <2>1, <4>1, ModuleObject
      <4>3. ASSUME NEW i \in DOMAIN Modules[m], OidLess(target, Modules[m][i])
            PROVE  ~OidLess(Modules[m][i], candidate.oid)
        <5>1. lo + 1 <= i
          BY <1>1, <1>2, <2>1, <4>3
        <5>2. Modules[m][i] \in Oid
          BY <2>1, ModuleObject
        <5>3. ~OidLess(Modules[m][i], Modules[m][lo + 1])
          BY <2>1, <4>1, <4>2, <5>1, <5>2, ArraySorted, LessIrreflexive
        <5> QED
          BY <4>2, <5>3
      <4>4. candidate.oid \in Elements(Modules[m])
        BY <4>1, <4>2 DEF Elements
      <4>5. LeastAfterTarget(candidate, Elements(Modules[m]))
        BY <4>2, <4>3, <4>4 DEF LeastAfterTarget, Elements
      <4>6. ScalarsBefore(m) \in SUBSET Oid /\ Elements(Modules[m]) \in SUBSET Oid
        BY <2>1, ModuleObject DEF ScalarsBefore, Elements
      <4>7. best' = Better(candidate)
        BY <1>6, <3>2 DEF NextModule
      <4> HIDE DEF candidate
      <4>8. LeastAfterTarget(Better(candidate), ScalarsBefore(m) \cup Elements(Modules[m]))
        BY <3>1, <4>2, <4>5, <4>6, BetterIsLeast
      <4> QED
        BY <2>1, <2>2, <4>7, <4>8 DEF LeastAfterTarget
    <3>3. CASE ~(lo < Len(Modules[m]))
      <4>1. best' = best
        BY <1>6, <3>3 DEF NextModule
      <4>2. \A i \in DOMAIN Modules[m] : ~OidLess(target, Modules[m][i])
        BY <1>1, <1>2, <2>1, <3>3
      <4> QED
        BY <2>1, <2>2, <3>1, <4>1, <4>2 DEF LeastAfterTarget, Elements
    <3> QED
      BY <3>2, <3>3
  <2>5. m' \in DOMAIN Modules => \A i \in DOMAIN Modules[m'] : ~(i <= lo') /\ ~(i > hi')
    BY <1>2, <2>1
  <2> QED
    BY <2>1, <2>3, <2>4, <2>5
<1>7. CASE ScalarsEnd
  <2>1. ScalarsBefore(m) = DOMAIN Objects
    BY <1>1, <1>7, AllScalars DEF ScalarsEnd
  <2>2. \A k \in DOMAIN TableArray : ~(k < 1)
    BY <1>1
  <2> QED
    BY <1>7, <2>1, <2>2 DEF ScalarsEnd, OpenTable, LeastAfterTarget
<1>8. CASE SkipTable
  <2>1. \A k \in DOMAIN TableArray : k < t + 1 => k < t \/ k = t
    BY <1>1
  <2> QED
    BY <1>1, <1>8, <2>1 DEF SkipTable, InTables, OpenTable, Table, LeastAfterTarget, Ops
<1>9. CASE FindRow
  <2>1. at = "tables" /\ op = "resolve" /\ t \in DOMAIN TableArray
    BY <1>9 DEF FindRow, InTables
  <2>2. row = 0 \/ row < RowArc(Table, target)
    BY <2>1
  <2>3. \/ at' = "done" /\ answer' = Resolve(target, rows)
        \/ at' = "tables" /\ row' < RowArc(Table, target)
    BY <1>9, <2>1, <2>2, RowDecision
  <2> QED
    BY <1>9, <2>1, <2>3 DEF FindRow, Table, LeastAfterTarget
<1>10. CASE ScanColumn \/ NextTable
  <2>1. at' = "tables" /\ op' = "resolveNext" /\ UNCHANGED <<rows, rowsSeen>>
    BY <1>10 DEF ScanColumn, NextTable, InTables
  <2>2. t' # 1 \/ UNCHANGED <<t, best, target>>
    BY <1>1, <1>10 DEF ScanColumn, NextTable, OpenTable
  <2> QED
    BY <1>10, <2>1, <2>2 DEF ScanColumn, NextTable, InTables, LeastAfterTarget
<1>11. CASE TablesEnd
  <2>1. ASSUME op = "resolve" PROVE Resolve(target, rows) = Miss("noSuchObject")
    <3>1. \A tab \in Tables : ~InTable(tab, target)
      BY <1>1, <1>11, <2>1, RegistryAssumption DEF TablesEnd, Elements
    <3>2. target \notin DOMAIN Objects
      BY <1>11, <2>1 DEF TablesEnd
    <3> QED
      BY <3>1, <3>2 DEF Resolve
  <2> QED
    BY <1>11, <2>1 DEF TablesEnd, Return
<1>12. CASE Leave
  BY <1>12 DEF Leave
<1>13. CASE RowsChange
  BY <1>13 DEF RowsChange, LeastAfterTarget, Table
<1>14. CASE UNCHANGED vars
  BY <1>14 DEF vars, LeastAfterTarget, Table
<1> QED
  BY <1>3, <1>4, <1>5, <1>6, <1>7, <1>8, <1>9, <1>10, <1>11, <1>12, <1>13, <1>14
  DEF Next, Search

LEMMA SearchInvariant == Spec => [](TypeInv /\ SearchInv)
<1>1. Init => TypeInv /\ SearchInv
  BY InitType, InitSearch
<1>2. TypeInv /\ SearchInv /\ [Next]_vars => (TypeInv /\ SearchInv)'
  BY StepType, StepSearch
<1> QED
  BY <1>1, <1>2, PTL DEF Spec

\* For arrays of any length, and any number of them, the binary searches find
\* a scalar exactly if it exists, and the least one after the target.
THEOREM ScalarSearch == Spec => []ScalarSearchIsExact
<1>1. SearchInv => ScalarSearchIsExact
  BY DEF SearchInv
<1> QED
  BY <1>1, SearchInvariant, PTL

\* An exact lookup is linearizable: whatever the row counts do while a table
\* is scanned, its answer was true at one instant of the call.
THEOREM ExactLookup == Spec => []ExactAnswerWasTrue
<1>1. SearchInv => ExactAnswerWasTrue
  BY DEF SearchInv
<1> QED
  BY <1>1, SearchInvariant, PTL

-----------------------------------------------------------------------------
(***************************************************************************)
(* The search for the next instance.  The candidate is the least of what   *)
(* the arrays and tables visited so far offered at some row count seen;    *)
(* only one table has rows that come and go, so one count does for all of  *)
(* them.  In the table being scanned, everything passed lies before the    *)
(* target: in every row that could exist, or, once a row was missing while *)
(* the next column lies beyond the target, in the rows of that instant.    *)
(***************************************************************************)
Offered(k, n) ==
  DOMAIN Objects \cup
  UNION {CellsOf(TableArray[j], n) : j \in {i \in DOMAIN TableArray : i < k}}

\* The candidate describes the object it names.
Sound(candidate) ==
  IF candidate.res # "ok" THEN candidate = Miss("endOfView")
  ELSE IF candidate.oid \in DOMAIN Objects THEN candidate = Scalar(candidate.oid)
  ELSE \E tab \in Tables : \E c \in DOMAIN tab.columns, i \in Nat :
         candidate = Hit(Cell(tab, c, i), tab.columns[c], i)

ColumnCell(k, i) == Cell(Table, Columns[k], i)
Beyond(k, i) == OidLess(target, ColumnCell(k, i))

AllPassed ==
  /\ \A k \in DOMAIN Columns, i \in Nat : k < col => ~Beyond(k, i)
  /\ col \in DOMAIN Columns => \A i \in 1 .. row : ~Beyond(col, i)

RowsPassed ==
  /\ row = 0
  /\ \E n \in rowsSeen : \A k \in DOMAIN Columns, i \in RowSet(Table, n) : k < col => ~Beyond(k, i)
  /\ col \in DOMAIN Columns => Beyond(col, 1)

NextInv ==
  op = "resolveNext" =>
    /\ at \in {"scalars", "tables"} => Sound(best)
    /\ at = "tables" =>
         /\ \E n \in rowsSeen : LeastAfterTarget(best, Offered(t, n))
         /\ t \in DOMAIN TableArray => AllPassed \/ RowsPassed
    /\ NextAnswerWasTrue

\* A genuine candidate that exists is what an exact lookup of it finds.
LEMMA GenuineResolves ==
  ASSUME NEW r, r.res = "ok", Sound(r), NEW n \in Nat, r.oid \in Instances(n)
  PROVE  r = Resolve(r.oid, n)
<1>1. CASE r.oid \in DOMAIN Objects
  BY <1>1 DEF Sound, Scalar, Resolve
<1>2. CASE r.oid \notin DOMAIN Objects
  <2>1. PICK tab \in Tables : \E c \in DOMAIN tab.columns, i \in Nat :
          r = Hit(Cell(tab, c, i), tab.columns[c], i)
    BY <1>2 DEF Sound
  <2>2. PICK c \in DOMAIN tab.columns, i \in Nat : r = Hit(Cell(tab, c, i), tab.columns[c], i)
    BY <2>1
  <2>3. r.oid = Cell(tab, c, i) /\ r.oid \in Oid
    BY <2>2, CellIsOid DEF Hit
  <2>4. InTable(tab, r.oid) /\ ColumnArc(tab, r.oid) = c /\ RowArc(tab, r.oid) = i
    BY <2>3, CellInTable
  <2>5. (CHOOSE u \in Tables : InTable(u, r.oid)) = tab
    BY <2>3, <2>4, OneTable
  <2>6. Resolve(r.oid, n) = FindCell(tab, r.oid, n)
    BY <1>2, <2>4, <2>5 DEF Resolve
  <2>7. Resolve(r.oid, n).res = "ok"
    BY InstanceResolves
  <2>8. FindCell(tab, r.oid, n) = Hit(r.oid, tab.columns[c], i)
    BY <2>4, <2>6, <2>7 DEF FindCell, Miss
  <2> QED BY <2>2, <2>3, <2>6, <2>8
<1> QED BY <1>1, <1>2

\* The least instance after the target is the one resolve_next is to return.
LEMMA LeastIsNext ==
  ASSUME target \in Oid, NEW r, r.oid \in Oid, Sound(r), NEW n \in Nat,
         LeastAfterTarget(r, Instances(n))
  PROVE  r = ResolveNext(target, n)
<1>1. Instances(n) \subseteq Oid
  BY InstancesAreOids
<1> DEFINE after == {x \in Instances(n) : OidLess(target, x)}
<1>2. Successors(target, n) = {x \in after : \A y \in after : ~OidLess(y, x)}
  BY DEF Successors
<1>3. CASE r.res # "ok"
  <2>1. after = {}
    BY <1>3 DEF LeastAfterTarget
  <2>2. Successors(target, n) = {}
    BY <1>2, <2>1
  <2>3. ResolveNext(target, n) = Miss("endOfView")
    BY <2>2 DEF ResolveNext
  <2> QED BY <1>3, <2>3 DEF Sound
<1>4. CASE r.res = "ok"
  <2>1. r.oid \in after /\ \A y \in after : ~OidLess(y, r.oid)
    BY <1>4 DEF LeastAfterTarget
  <2>2. ASSUME NEW x \in Successors(target, n) PROVE x = r.oid
    BY <1>1, <1>2, <2>1, <2>2, LessTotal
  <2>3. Successors(target, n) = {r.oid}
    BY <1>2, <2>1, <2>2
  <2>4. ResolveNext(target, n) = Resolve(r.oid, n)
    BY <2>3 DEF ResolveNext
  <2> QED BY <1>4, <2>1, <2>4, GenuineResolves
<1> QED BY <1>3, <1>4

\* A genuine candidate that is better than the best of a set with all the
\* scalars is genuinely the best.
LEMMA BetterIsGenuine ==
  ASSUME TypeInv, Sound(best), NEW S, DOMAIN Objects \subseteq S, LeastAfterTarget(best, S),
         NEW tab \in Tables, NEW c \in DOMAIN tab.columns, NEW i \in Nat,
         OidLess(target, Cell(tab, c, i))
  PROVE  Sound(Better(Hit(Cell(tab, c, i), tab.columns[c], i)))
<1> DEFINE r == Hit(Cell(tab, c, i), tab.columns[c], i)
<1>1. r.oid = Cell(tab, c, i) /\ r.res = "ok"
  BY DEF Hit
<1>2. CASE best.res # "ok" \/ OidLess(r.oid, best.oid)
  <2>1. Better(r) = r
    BY <1>2 DEF Better
  <2>2. r.oid \notin DOMAIN Objects
    BY <1>1, <1>2 DEF LeastAfterTarget
  <2> QED BY <1>1, <2>1, <2>2 DEF Sound
<1>3. CASE ~(best.res # "ok" \/ OidLess(r.oid, best.oid))
  BY <1>3 DEF Better
<1> QED BY <1>2, <1>3

\* Before the table with rows that come and go, nothing depends on their number.
LEMMA OneMoreTable ==
  ASSUME NEW k \in DOMAIN TableArray, NEW n, NEW new
  PROVE  \E both \in {n, new} :
           Offered(k + 1, both) = Offered(k, n) \cup CellsOf(TableArray[k], new)
<1>1. /\ DOMAIN TableArray \subseteq Nat
      /\ \A i \in DOMAIN TableArray : i < k + 1 <=> i < k \/ i = k
  BY RegistryAssumption
<1>2. \A p : Offered(k + 1, p) = Offered(k, p) \cup CellsOf(TableArray[k], p)
  BY <1>1 DEF Offered
<1>3. ASSUME NEW tab, tab.rows # "sensors" PROVE CellsOf(tab, n) = CellsOf(tab, new)
  BY <1>3 DEF CellsOf, RowSet
<1>4. CASE TableArray[k].rows = "sensors"
  <2>1. \A i \in DOMAIN TableArray : i < k => TableArray[i].rows # "sensors"
    BY <1>1, <1>4, RegistryAssumption
  <2>2. Offered(k, new) = Offered(k, n)
    BY <1>3, <2>1 DEF Offered
  <2> QED BY <1>2, <2>2
<1>5. CASE TableArray[k].rows # "sensors"
  BY <1>2, <1>3, <1>5
<1> QED BY <1>4, <1>5

\* What the scan of a table works with.
LEMMA ScanFacts ==
  ASSUME TypeInv, InTables
  PROVE  /\ Table \in Tables /\ target \in Oid
         /\ row \in Nat /\ col \in Nat \ {0} /\ rows \in Nat /\ NextRow = row + 1
         /\ Len(Columns) \in Nat /\ DOMAIN Columns = 1 .. Len(Columns)
         /\ \A k \in DOMAIN Columns : Columns[k] \in DOMAIN Table.columns
         /\ \A k \in DOMAIN Columns, i \in Nat : ColumnCell(k, i) \in Oid
         /\ \A n : CellsOf(Table, n) = {ColumnCell(k, i) : k \in DOMAIN Columns, i \in RowSet(Table, n)}
         /\ \A n \in RowCounts : \E last \in Nat \ {0} : RowSet(Table, n) = 1 .. last
<1>1. Table \in Tables
  BY RegistryAssumption DEF InTables, Table
<1>2. /\ Columns \in Seq(Nat)
      /\ DOMAIN Table.columns = Elements(Columns)
  BY <1>1, RegistryAssumption DEF Columns
<1>3. \A k \in DOMAIN Columns : Columns[k] \in DOMAIN Table.columns
  BY <1>2 DEF Elements
<1>4. \A n : CellsOf(Table, n) = {ColumnCell(k, i) : k \in DOMAIN Columns, i \in RowSet(Table, n)}
  BY <1>2 DEF CellsOf, ColumnCell, Elements
<1>5. \A k \in DOMAIN Columns, i \in Nat : ColumnCell(k, i) \in Oid
  BY <1>1, <1>3, CellIsOid DEF ColumnCell
<1>6. ASSUME NEW n \in RowCounts PROVE \E last \in Nat \ {0} : RowSet(Table, n) = 1 .. last
  <2>1. n \in Nat \ {0}
    BY RegistryAssumption
  <2>2. CASE Table.rows = "sensors"
    BY <2>1, <2>2 DEF RowSet
  <2>3. CASE Table.rows # "sensors"
    BY <2>3 DEF RowSet
  <2> QED BY <2>2, <2>3
<1>7. rows \in Nat
  BY RegistryAssumption DEF TypeInv, TypeOK
<1> QED
  BY <1>1, <1>2, <1>3, <1>4, <1>5, <1>6, <1>7 DEF TypeInv, TypeOK, NextRow

\* The cells of the table being scanned come in the order of the scan.
LEMMA ScanOrder ==
  ASSUME TypeInv, InTables, NEW j \in DOMAIN Columns, NEW k \in DOMAIN Columns,
         NEW i \in Nat, NEW n \in Nat, j < k \/ (j = k /\ i < n)
  PROVE  OidLess(ColumnCell(j, i), ColumnCell(k, n))
<1>1. Columns[j] < Columns[k] \/ (Columns[j] = Columns[k] /\ i < n)
  BY ScanFacts, RegistryAssumption DEF Columns
<1>2. /\ Table \in Tables /\ Columns[j] \in DOMAIN Table.columns
      /\ Columns[k] \in DOMAIN Table.columns
  BY ScanFacts
<1> QED BY <1>1, <1>2, CellOrder DEF ColumnCell

\* At the end of a column, either it lies before the target however many rows
\* there may be, or the next column lies beyond it.
LEMMA ColumnEnds ==
  ASSUME TypeInv, InTables, RowsAreSeen, AllPassed \/ RowsPassed, col \in DOMAIN Columns,
         ~HasNextRow, col' = col + 1, row' = 0,
         UNCHANGED <<t, target, rows, rowsSeen>>
  PROVE  (AllPassed \/ RowsPassed)'
<1>1. PICK last \in Nat \ {0} : RowSet(Table, rows) = 1 .. last
  BY ScanFacts DEF TypeInv, TypeOK
<1>2. row \in Nat /\ row >= last /\ col \in Nat \ {0}
  BY <1>1, ScanFacts DEF HasNextRow
<1>3. AllPassed
  BY <1>2 DEF RowsPassed
<1>4. rows \in rowsSeen
  BY DEF RowsAreSeen, InTables
<1>5. DOMAIN Columns = 1 .. Len(Columns) /\ Len(Columns) \in Nat
  BY ScanFacts
<1>6. /\ Columns' = Columns /\ Table' = Table
      /\ \A k, i : Beyond(k, i)' = Beyond(k, i)
  BY DEF Columns, Table, Beyond, ColumnCell
<1>7. \A k \in DOMAIN Columns : k < col' <=> k < col \/ k = col
  BY <1>2, <1>5
<1>8. CASE \A i \in Nat : ~Beyond(col, i)
  <2>1. AllPassed'
    BY <1>3, <1>6, <1>7, <1>8 DEF AllPassed
  <2> QED BY <2>1
<1>9. CASE \E i \in Nat : Beyond(col, i)
  <2>1. PICK i \in Nat : Beyond(col, i)
    BY <1>9
  <2>2. ASSUME NEW k \in DOMAIN Columns, NEW j \in RowSet(Table, rows), k < col'
        PROVE  ~Beyond(k, j)
    <3>1. j \in Nat /\ j \in 1 .. row
      BY <1>1, <1>2
    <3>2. CASE k < col
      BY <1>3, <3>1, <3>2 DEF AllPassed
    <3>3. CASE k = col
      BY <1>3, <3>1, <3>3 DEF AllPassed
    <3> QED BY <1>7, <2>2, <3>2, <3>3
  <2>3. col' \in DOMAIN Columns => Beyond(col', 1)
    <3> SUFFICES ASSUME col' \in DOMAIN Columns PROVE Beyond(col', 1)
      OBVIOUS
    <3>1. OidLess(ColumnCell(col, i), ColumnCell(col', 1))
      BY <1>2, ScanOrder
    <3>2. /\ ColumnCell(col, i) \in Oid /\ ColumnCell(col', 1) \in Oid /\ target \in Oid
      BY ScanFacts
    <3> QED BY <2>1, <3>1, <3>2, LessTransitive DEF Beyond
  <2>4. RowsPassed'
    BY <1>4, <1>6, <2>2, <2>3, Zenon DEF RowsPassed
  <2> QED BY <2>4
<1> QED BY <1>8, <1>9

\* The first cell beyond the target is the least one of its table, at some
\* row count seen.
LEMMA CellIsLeast ==
  ASSUME TypeInv, InTables, RowsAreSeen, AllPassed \/ RowsPassed, col \in DOMAIN Columns,
         HasNextRow, Beyond(col, NextRow), NEW definition
  PROVE  \E n \in rowsSeen :
           LeastAfterTarget(Hit(ColumnCell(col, NextRow), definition, NextRow), CellsOf(Table, n))
<1>1. row \in Nat /\ NextRow = row + 1 /\ col \in Nat /\ DOMAIN Columns = 1 .. Len(Columns)
      /\ Len(Columns) \in Nat
  BY ScanFacts
<1>2. /\ rows \in rowsSeen /\ rowsSeen \subseteq RowCounts
      /\ \A n \in RowCounts : RowSet(Table, n) \subseteq Nat \ {0} /\ 1 \in RowSet(Table, n)
  <2>1. rows \in rowsSeen /\ rowsSeen \subseteq RowCounts
    BY Zenon DEF RowsAreSeen, InTables, TypeInv, TypeOK
  <2>2. \A n \in RowCounts : RowSet(Table, n) \subseteq Nat \ {0} /\ 1 \in RowSet(Table, n)
    BY ScanFacts
  <2> QED BY <2>1, <2>2
<1>3. \E n \in rowsSeen :
        /\ NextRow \in RowSet(Table, n)
        /\ \A k \in DOMAIN Columns, i \in RowSet(Table, n) :
             k < col \/ (k = col /\ i < NextRow) => ~Beyond(k, i)
  <2>1. CASE AllPassed
    <3>1. ASSUME NEW k \in DOMAIN Columns, NEW i \in RowSet(Table, rows),
                 k < col \/ (k = col /\ i < NextRow)
          PROVE  ~Beyond(k, i)
      <4>1. i \in Nat \ {0}
        BY <1>2
      <4>2. CASE k < col
        BY <2>1, <4>1, <4>2 DEF AllPassed
      <4>3. CASE k = col /\ i < NextRow
        <5>1. i \in 1 .. row
          BY <1>1, <4>1, <4>3
        <5> QED BY <2>1, <4>3, <5>1 DEF AllPassed
      <4> QED BY <3>1, <4>2, <4>3
    <3> QED BY <1>2, <3>1 DEF HasNextRow
  <2>2. CASE RowsPassed
    <3>1. PICK n \in rowsSeen :
            \A k \in DOMAIN Columns, i \in RowSet(Table, n) : k < col => ~Beyond(k, i)
      BY <2>2 DEF RowsPassed
    <3>2. NextRow = 1 /\ \A i \in RowSet(Table, n) : ~(i < NextRow)
      BY <1>1, <1>2, <2>2 DEF RowsPassed
    <3> QED BY <1>2, <3>1, <3>2
  <2> QED BY <2>1, <2>2
<1>4. PICK n \in rowsSeen :
        /\ NextRow \in RowSet(Table, n)
        /\ \A k \in DOMAIN Columns, i \in RowSet(Table, n) :
             k < col \/ (k = col /\ i < NextRow) => ~Beyond(k, i)
  BY <1>3
<1> DEFINE r == Hit(ColumnCell(col, NextRow), definition, NextRow)
<1>5. r.res = "ok" /\ r.oid = ColumnCell(col, NextRow)
  BY DEF Hit
<1>6. CellsOf(Table, n) = {ColumnCell(k, i) : k \in DOMAIN Columns, i \in RowSet(Table, n)}
  BY ScanFacts
<1>7. ASSUME NEW k \in DOMAIN Columns, NEW i \in RowSet(Table, n), Beyond(k, i)
      PROVE  ~OidLess(ColumnCell(k, i), r.oid)
  <2>1. i \in Nat /\ NextRow \in Nat
    BY <1>1, <1>2
  <2>2. ColumnCell(k, i) \in Oid /\ ColumnCell(col, NextRow) \in Oid
    BY <2>1, ScanFacts
  <2>3. CASE k = col /\ i = NextRow
    BY <1>5, <2>2, <2>3, LessIrreflexive
  <2>4. CASE col < k \/ (col = k /\ NextRow < i)
    <3>1. OidLess(ColumnCell(col, NextRow), ColumnCell(k, i))
      BY <2>1, <2>4, ScanOrder
    <3> QED BY <1>5, <2>2, <3>1, LessTotal
  <2> QED BY <1>1, <1>4, <1>7, <2>1, <2>3, <2>4
<1> HIDE DEF r
<1>8. LeastAfterTarget(r, CellsOf(Table, n))
  BY <1>4, <1>5, <1>6, <1>7 DEF LeastAfterTarget, Beyond
<1> QED BY <1>8 DEF r

\* Past its last column, the table has nothing after the target.
LEMMA NothingBeyond ==
  ASSUME TypeInv, InTables, RowsAreSeen, AllPassed \/ RowsPassed, col \notin DOMAIN Columns
  PROVE  \E n \in rowsSeen : \A o \in CellsOf(Table, n) : ~OidLess(target, o)
<1>1. \A k \in DOMAIN Columns : k < col
  BY ScanFacts
<1>2. rows \in rowsSeen /\ rows \in RowCounts
  BY DEF RowsAreSeen, InTables, TypeInv, TypeOK
<1>3. CASE AllPassed
  <2>1. \A k \in DOMAIN Columns, i \in Nat : ~Beyond(k, i)
    BY <1>1, <1>3 DEF AllPassed
  <2>2. RowSet(Table, rows) \subseteq Nat
    BY <1>2, ScanFacts
  <2> QED BY <1>2, <2>1, <2>2, ScanFacts DEF Beyond
<1>4. CASE RowsPassed
  <2>1. PICK n \in rowsSeen : \A k \in DOMAIN Columns, i \in RowSet(Table, n) : ~Beyond(k, i)
    BY <1>1, <1>4 DEF RowsPassed
  <2> QED BY <2>1, ScanFacts DEF Beyond
<1> QED BY <1>3, <1>4

\* A table that has been scanned joins what has been offered.
LEMMA TableScanned ==
  ASSUME TypeInv, InTables, NEW n \in rowsSeen, LeastAfterTarget(best, Offered(t, n)),
         NEW new \in rowsSeen, NEW candidate,
         LeastAfterTarget(candidate, Offered(t, n) \cup CellsOf(Table, new)),
         best' = candidate, t' = t + 1, UNCHANGED <<target, rowsSeen>>
  PROVE  \E both \in rowsSeen' : LeastAfterTarget(best, Offered(t, both))'
<1>1. PICK both \in {n, new} :
        Offered(t + 1, both) = Offered(t, n) \cup CellsOf(TableArray[t], new)
  BY OneMoreTable, Zenon DEF InTables
<1>2. LeastAfterTarget(candidate, Offered(t + 1, both))
  BY <1>1 DEF Table
<1> QED BY <1>1, <1>2 DEF LeastAfterTarget, Offered

\* A table is opened with nothing passed.
LEMMA OpenedAtStart ==
  ASSUME NEW k, OpenTable(k), TypeOK'
  PROVE  (t \in DOMAIN TableArray)' => AllPassed'
<1>1. col' = 1 /\ row' = 0
  BY DEF OpenTable
<1> SUFFICES ASSUME t' \in DOMAIN TableArray PROVE AllPassed'
  OBVIOUS
<1>2. DOMAIN Columns' \subseteq Nat \ {0}
  <2>1. TableArray[t'] \in Tables
    BY RegistryAssumption
  <2>2. ColumnArray[TableArray[t']] \in Seq(Nat)
    BY <2>1, RegistryAssumption
  <2> QED BY <2>2 DEF Columns, Table
<1>3. \A k2 \in DOMAIN Columns' : ~(k2 < col')
  BY <1>1, <1>2
<1>4. \A i \in 1 .. row' : FALSE
  BY <1>1
<1> QED BY <1>3, <1>4 DEF AllPassed

LEMMA StepNext == TypeInv /\ SearchInv /\ NextInv /\ [Next]_vars => NextInv'
<1> SUFFICES ASSUME TypeInv, SearchInv, NextInv, [Next]_vars PROVE NextInv'
  OBVIOUS
<1>0. TypeInv' /\ TypeOK'
  BY StepType DEF TypeInv
<1>1. /\ RowsAreSeen /\ target \in Oid /\ best.oid \in Oid /\ op \in Ops
      /\ rowsSeen \subseteq RowCounts /\ RowCounts \subseteq Nat
  BY RegistryAssumption DEF SearchInv, TypeInv, TypeOK, Resolved
<1>2. ASSUME NEW operation \in Ops, NEW oid \in Targets, Call(operation, oid)
      PROVE  NextInv'
  BY <1>2 DEF Call, Miss, Sound, NextInv, NextAnswerWasTrue
<1>3. CASE op' # "resolveNext"
  BY <1>3 DEF NextInv
<1>4. CASE NarrowExact \/ SkipTable \/ FindRow
  BY <1>4 DEF NarrowExact, SkipTable, FindRow, NextInv
<1>5. CASE NarrowNext
  <2>1. at = "scalars" /\ UNCHANGED <<at, op, target, best>>
    BY <1>5 DEF NarrowNext, InModule
  <2> QED BY <2>1 DEF NextInv, NextAnswerWasTrue, Sound
<1>6. CASE NextModule /\ op = "resolveNext"
  <2>1. at = "scalars" /\ at' = "scalars" /\ op' = "resolveNext" /\ m \in DOMAIN Modules
    BY <1>6 DEF NextModule, InModule
  <2>2. Sound(best)
    BY <1>6, <2>1 DEF NextInv
  <2>3. ASSUME lo < Len(Modules[m]) PROVE Sound(Scalar(Modules[m][lo + 1]))
    <3>1. lo + 1 \in DOMAIN Modules[m]
      BY <2>1, <2>3, ArrayFacts DEF TypeInv, TypeOK
    <3> QED BY <2>1, <3>1, ModuleObject DEF Sound
  <2>4. best' = best \/ (lo < Len(Modules[m]) /\ best' = Scalar(Modules[m][lo + 1]))
    BY <1>6 DEF NextModule, Better
  <2>5. Sound(best')
    BY <2>2, <2>3, <2>4
  <2> QED BY <2>1, <2>5 DEF NextInv, NextAnswerWasTrue, Sound
<1>7. CASE ScalarsEnd /\ op = "resolveNext"
  <2>1. /\ at = "scalars" /\ at' = "tables" /\ OpenTable(1)
        /\ UNCHANGED <<op, target, best, rows, rowsSeen>>
    BY <1>7 DEF ScalarsEnd
  <2>2. LeastAfterTarget(best, DOMAIN Objects)'
    <3>1. SearchInv'
      BY StepSearch
    <3> QED BY <1>7, <2>1, <3>1 DEF SearchInv, ScalarSearchIsExact, OpenTable
  <2>3. \A n : Offered(1, n) = DOMAIN Objects
    <3>1. \A i \in DOMAIN TableArray : ~(i < 1)
      BY RegistryAssumption
    <3> QED BY <3>1 DEF Offered
  <2>4. rows' \in rowsSeen'
    BY <1>1, <2>1 DEF RowsAreSeen
  <2>5. \E n \in rowsSeen' : LeastAfterTarget(best, Offered(t, n))'
    <3>1. t' = 1
      BY <2>1 DEF OpenTable
    <3>2. PICK n \in rowsSeen' : TRUE
      BY <2>4
    <3>3. LeastAfterTarget(best, Offered(t, n))'
      BY <2>2, <2>3, <3>1 DEF LeastAfterTarget, Offered
    <3> QED BY <3>3
  <2>6. t' \in DOMAIN TableArray => AllPassed'
    BY <1>0, <2>1, OpenedAtStart
  <2>7. Sound(best)'
    BY <1>7, <2>1 DEF NextInv, Sound
  <2> QED BY <2>1, <2>5, <2>6, <2>7, Zenon DEF NextInv, NextAnswerWasTrue
<1>8. CASE ScanColumn
  <2>1. /\ InTables /\ op = "resolveNext" /\ col \in DOMAIN Columns /\ at = "tables"
        /\ UNCHANGED <<at, op, target, answer, rows, rowsSeen>>
    BY <1>8 DEF ScanColumn, InTables
  <2>2. Sound(best) /\ (AllPassed \/ RowsPassed)
    BY <2>1 DEF NextInv, InTables
  <2>3. PICK n \in rowsSeen : LeastAfterTarget(best, Offered(t, n))
    BY <2>1 DEF NextInv
  <2>4. ASSUME UNCHANGED <<t, best>>, (AllPassed \/ RowsPassed)'
        PROVE  NextInv'
    <3>1. \E k \in rowsSeen' : LeastAfterTarget(best, Offered(t, k))'
      BY <2>1, <2>3, <2>4 DEF LeastAfterTarget, Offered
    <3>2. Sound(best)'
      BY <2>2, <2>4 DEF Sound
    <3> QED BY <2>1, <2>4, <3>1, <3>2, Zenon DEF NextInv, NextAnswerWasTrue
  <2> DEFINE cell == Cell(Table, Columns[col], NextRow)
             definition == Table.columns[Columns[col]]
  <2>5. CASE ~HasNextRow /\ col' = col + 1 /\ row' = 0 /\ UNCHANGED <<t, best>>
    <3>1. (AllPassed \/ RowsPassed)'
      BY <1>1, <2>1, <2>2, <2>5, ColumnEnds
    <3> QED BY <2>4, <2>5, <3>1
  <2>6. CASE HasNextRow /\ OidCompare(cell, target) > 0 /\ best' = Better(Hit(cell, definition, NextRow))
             /\ OpenTable(t + 1)
    <3>1. /\ Table \in Tables /\ Columns[col] \in DOMAIN Table.columns /\ NextRow \in Nat
          /\ cell \in Oid /\ cell = ColumnCell(col, NextRow)
      <4>1. /\ Table \in Tables /\ Columns[col] \in DOMAIN Table.columns /\ NextRow \in Nat
        BY <2>1, ScanFacts
      <4> QED BY <4>1, CellIsOid DEF ColumnCell
    <3>2. OidLess(target, cell) /\ Beyond(col, NextRow)
      BY <1>1, <2>6, <3>1, LessTotal DEF Beyond
    <3>3. PICK new \in rowsSeen :
            LeastAfterTarget(Hit(ColumnCell(col, NextRow), definition, NextRow), CellsOf(Table, new))
      BY <1>1, <2>1, <2>2, <2>6, <3>2, CellIsLeast
    <3> DEFINE r == Hit(cell, definition, NextRow)
    <3>4. r \in Resolved /\ r.res = "ok" /\ LeastAfterTarget(r, CellsOf(Table, new))
      BY <2>1, <3>1, <3>3, CellType DEF Hit
    <3>5. DOMAIN Objects \subseteq Offered(t, n) /\ Offered(t, n) \subseteq Oid
          /\ CellsOf(Table, new) \subseteq Oid
      <4>1. \A k \in rowsSeen : Instances(k) \subseteq Oid
        BY <1>1, InstancesAreOids
      <4>2. Offered(t, n) \subseteq Instances(n)
        BY RegistryAssumption DEF Offered, Instances
      <4>3. CellsOf(Table, new) \subseteq Instances(new)
        BY <3>1 DEF Instances
      <4> QED BY <4>1, <4>2, <4>3 DEF Offered
    <3>6. Sound(Better(r))
      BY <2>2, <2>3, <3>1, <3>2, <3>5, BetterIsGenuine
    <3> HIDE DEF r
    <3>7. LeastAfterTarget(Better(r), Offered(t, n) \cup CellsOf(Table, new))
      BY <2>3, <3>4, <3>5, BetterIsLeast
    <3>8. best' = Better(r) /\ t' = t + 1
      BY <2>6 DEF r, OpenTable
    <3>9. \E both \in rowsSeen' : LeastAfterTarget(best, Offered(t, both))'
      BY <2>1, <2>3, <3>7, <3>8, TableScanned
    <3>10. t' \in DOMAIN TableArray => AllPassed'
      BY <1>0, <2>6, OpenedAtStart
    <3>11. Sound(best)'
      BY <3>6, <3>8 DEF Sound
    <3> QED BY <2>1, <3>9, <3>10, <3>11, Zenon DEF NextInv, NextAnswerWasTrue
  <2>7. CASE HasNextRow /\ OidCompare(cell, target) <= 0 /\ row' = NextRow /\ UNCHANGED <<t, col, best>>
    <3>1. /\ Table \in Tables /\ Columns[col] \in DOMAIN Table.columns
          /\ row \in Nat /\ NextRow = row + 1
      BY <2>1, ScanFacts
    <3>2. cell \in Oid /\ cell = ColumnCell(col, NextRow)
      BY <3>1, CellIsOid DEF ColumnCell
    <3>3. ~Beyond(col, NextRow)
      BY <1>1, <2>7, <3>2, LessTotal, CompareIsTotal DEF Beyond
    <3>4. AllPassed
      <4>1. row = 0 => NextRow = 1
        BY <3>1
      <4> QED BY <2>1, <2>2, <3>3, <4>1 DEF RowsPassed
    <3>5. \A i \in 1 .. row' : i \in 1 .. row \/ i = NextRow
      BY <2>7, <3>1
    <3>6. Columns' = Columns /\ \A k, i : Beyond(k, i)' = Beyond(k, i)
      BY <2>1, <2>7 DEF Columns, Table, Beyond, ColumnCell
    <3>7. AllPassed'
      BY <2>7, <3>3, <3>4, <3>5, <3>6 DEF AllPassed
    <3> QED BY <2>4, <2>7, <3>7
  <2> QED BY <1>8, <2>5, <2>6, <2>7 DEF ScanColumn
<1>9. CASE NextTable
  <2>1. /\ InTables /\ op = "resolveNext" /\ col \notin DOMAIN Columns /\ at = "tables"
        /\ UNCHANGED <<at, op, target, best, answer, rows, rowsSeen>> /\ OpenTable(t + 1)
    BY <1>9 DEF NextTable, InTables
  <2>2. Sound(best) /\ (AllPassed \/ RowsPassed)
    BY <2>1 DEF NextInv, InTables
  <2>3. PICK n \in rowsSeen : LeastAfterTarget(best, Offered(t, n))
    BY <2>1 DEF NextInv
  <2>4. PICK new \in rowsSeen : \A o \in CellsOf(Table, new) : ~OidLess(target, o)
    BY <1>1, <2>1, <2>2, NothingBeyond
  <2>5. LeastAfterTarget(best, Offered(t, n) \cup CellsOf(Table, new))
    BY <2>3, <2>4 DEF LeastAfterTarget
  <2>6. t' = t + 1
    BY <2>1 DEF OpenTable
  <2>7. \E both \in rowsSeen' : LeastAfterTarget(best, Offered(t, both))'
    BY <2>1, <2>3, <2>5, <2>6, TableScanned
  <2>8. t' \in DOMAIN TableArray => AllPassed'
    BY <1>0, <2>1, OpenedAtStart
  <2>9. Sound(best)'
    BY <2>1, <2>2 DEF Sound
  <2> QED BY <2>1, <2>7, <2>8, <2>9, Zenon DEF NextInv, NextAnswerWasTrue
<1>10. CASE TablesEnd /\ op = "resolveNext"
  <2>1. /\ at = "tables" /\ t \notin DOMAIN TableArray /\ at' = "done" /\ answer' = best
        /\ UNCHANGED <<op, target, rowsSeen>>
    BY <1>10 DEF TablesEnd, Return
  <2>2. PICK n \in rowsSeen : LeastAfterTarget(best, Offered(t, n))
    BY <1>10, <2>1 DEF NextInv
  <2>3. \A i \in DOMAIN TableArray : i < t
    BY <2>1, ArrayFacts DEF TypeInv, TypeOK
  <2>4. Offered(t, n) = Instances(n)
    BY <2>3, RegistryAssumption DEF Offered, Instances, Elements
  <2>5. n \in Nat /\ Sound(best)
    BY <1>1, <1>10, <2>1 DEF NextInv
  <2>6. best = ResolveNext(target, n)
    BY <1>1, <2>2, <2>4, <2>5, LeastIsNext
  <2> QED BY <2>1, <2>6, Zenon DEF NextInv, NextAnswerWasTrue
<1>11. CASE Leave
  BY <1>11 DEF Leave, NextInv, NextAnswerWasTrue
<1>12. CASE RowsChange
  <2>1. rowsSeen \subseteq rowsSeen' /\ UNCHANGED <<at, op, target, t, col, row, best, answer>>
    BY <1>12 DEF RowsChange
  <2>2. /\ Columns' = Columns /\ Table' = Table
        /\ \A k, i : Beyond(k, i)' = Beyond(k, i)
    BY <2>1 DEF Columns, Table, Beyond, ColumnCell
  <2>3. (AllPassed => AllPassed') /\ (RowsPassed => RowsPassed')
    BY <2>1, <2>2, Zenon DEF AllPassed, RowsPassed
  <2>4. \A S : LeastAfterTarget(best, S)' = LeastAfterTarget(best, S)
    BY <2>1 DEF LeastAfterTarget
  <2>5. (\E n \in rowsSeen : LeastAfterTarget(best, Offered(t, n)))
          => \E n \in rowsSeen' : LeastAfterTarget(best, Offered(t, n))'
    BY <2>1 DEF LeastAfterTarget, Offered
  <2>6. NextAnswerWasTrue => NextAnswerWasTrue'
    BY <2>1, Zenon DEF NextAnswerWasTrue
  <2>7. Sound(best) => Sound(best)'
    BY <2>1 DEF Sound
  <2> QED BY <2>1, <2>3, <2>5, <2>6, <2>7, Zenon DEF NextInv
<1>13. CASE UNCHANGED vars
  BY <1>13 DEF vars, NextInv, NextAnswerWasTrue, Sound, LeastAfterTarget, Offered,
       AllPassed, RowsPassed, Beyond, ColumnCell, Columns, Table
<1>14. ASSUME NextModule \/ ScalarsEnd \/ TablesEnd, op # "resolveNext" PROVE NextInv'
  BY <1>3, <1>14 DEF NextModule, ScalarsEnd, TablesEnd
<1> QED
  BY <1>2, <1>4, <1>5, <1>6, <1>7, <1>8, <1>9, <1>10, <1>11, <1>12, <1>13, <1>14, Zenon
  DEF Next, Search

\* The lookup of the next instance is linearizable: for any arrays and tables,
\* and whatever the row counts do while the rows are enumerated, its answer is
\* the least instance after the target at one instant of the call.
THEOREM NextLookup == Spec => []NextAnswerWasTrue
<1>1. Init => NextInv
  BY DEF Init, NextInv
<1>2. NextInv => NextAnswerWasTrue
  BY DEF NextInv, NextAnswerWasTrue
<1> QED BY <1>1, <1>2, StepNext, SearchInvariant, PTL DEF Spec
=============================================================================
