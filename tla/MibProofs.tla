----------------------------- MODULE MibProofs ------------------------------
(***************************************************************************)
(* Facts about the MIB and the operators the agent is built from.  First   *)
(* mib_oid_compare: a total order on object identifiers, the order the     *)
(* textbook gives, as the binary searches, the column-major scan and a     *)
(* GETNEXT walk take for granted.  Then what the registry resolves, what   *)
(* the error translation and the accessors return.                         *)
(***************************************************************************)
EXTENDS WespeMib, SnmpError, FiniteSetTheorems, WellFoundedInduction, SequenceTheorems, TLAPS

LEMMA ShorterLenType ==
  ASSUME NEW a \in Oid, NEW b \in Oid
  PROVE  /\ ShorterLen(a, b) \in Nat
         /\ ShorterLen(a, b) <= Len(a) /\ ShorterLen(a, b) <= Len(b)
         /\ ShorterLen(a, b) = Len(a) \/ ShorterLen(a, b) = Len(b)
  BY DEF Oid, ShorterLen

\* The loop of mib_oid_compare stops at the first difference, if there is one.
LEMMA FirstDifference ==
  ASSUME NEW a \in Oid, NEW b \in Oid, Differences(a, b) # {}
  PROVE  LET k == CHOOSE i \in Differences(a, b) : \A j \in Differences(a, b) : i <= j
         IN  /\ k \in 1 .. ShorterLen(a, b)
             /\ a[k] # b[k]
             /\ a[k] \in Nat /\ b[k] \in Nat
             /\ Agree(a, b, k - 1)
<1> DEFINE D == Differences(a, b)
           k == CHOOSE i \in D : \A j \in D : i <= j
<1>1. D \subseteq Nat
  BY ShorterLenType DEF Differences
<1>2. \E i \in D : \A j \in D : i <= j
  <2>1. PICK i \in D : \A j \in D : ~(<<j, i>> \in OpToRel(<, Nat))
    BY <1>1, WFMin, NatLessThanWellFounded, Zenon
  <2>2. \A j \in D : ~(j < i)
    BY <1>1, <2>1 DEF OpToRel
  <2> QED
    BY <1>1, <2>2
<1>3. k \in D /\ \A j \in D : k <= j
  BY <1>2
<1> HIDE DEF k
<1>4. k \in 1 .. ShorterLen(a, b) /\ a[k] # b[k]
  BY <1>3 DEF Differences
<1>5. a[k] \in Nat /\ b[k] \in Nat
  <2>1. Len(a) \in Nat /\ Len(b) \in Nat
    BY DEF Oid
  <2>2. k \in 1 .. Len(a) /\ k \in 1 .. Len(b)
    BY <1>4, <2>1, ShorterLenType
  <2> QED BY <2>2 DEF Oid
<1>6. ASSUME NEW i \in 1 .. k - 1 PROVE a[i] = b[i]
  <2>1. i \in 1 .. ShorterLen(a, b) /\ ~(k <= i)
    BY <1>4, ShorterLenType
  <2> QED
    BY <1>3, <2>1 DEF Differences
<1> QED
  BY <1>4, <1>5, <1>6 DEF k, Agree

\* Without a difference the shorter identifier is a prefix of the longer.
LEMMA NoDifference ==
  ASSUME NEW a \in Oid, NEW b \in Oid, Differences(a, b) = {}
  PROVE  Agree(a, b, ShorterLen(a, b))
  BY DEF Differences, Agree

\* The comparison loop computes the lexicographic order.
THEOREM CompareIsLexicographic ==
  ASSUME NEW a \in Oid, NEW b \in Oid
  PROVE  OidLess(a, b) <=> Precedes(a, b)
<1> DEFINE D == Differences(a, b)
           k == CHOOSE i \in D : \A j \in D : i <= j
<1>1. /\ Len(a) \in Nat /\ Len(b) \in Nat /\ ShorterLen(a, b) \in Nat
      /\ ShorterLen(a, b) <= Len(a) /\ ShorterLen(a, b) <= Len(b)
  BY ShorterLenType DEF Oid
<1>2. ASSUME NEW i \in 1 .. ShorterLen(a, b) PROVE a[i] \in Nat /\ b[i] \in Nat
  <2>1. i \in 1 .. Len(a) /\ i \in 1 .. Len(b)
    BY <1>1
  <2> QED BY <2>1 DEF Oid
<1>3. CASE D = {}
  <2>1. OidLess(a, b) <=> Len(a) < Len(b)
    <3>1. OidCompare(a, b) = IF Len(a) < Len(b) THEN -1 ELSE IF Len(a) > Len(b) THEN 1 ELSE 0
      BY <1>3, Zenon DEF OidCompare
    <3> QED BY <1>1, <3>1 DEF OidLess
  <2>2. Agree(a, b, ShorterLen(a, b))
    BY <1>3, NoDifference
  <2>3. ~ \E i \in 1 .. ShorterLen(a, b) : Agree(a, b, i - 1) /\ a[i] < b[i]
    <3> SUFFICES ASSUME NEW i \in 1 .. ShorterLen(a, b) PROVE ~(a[i] < b[i])
      OBVIOUS
    <3>1. a[i] = b[i]
      BY <2>2 DEF Agree
    <3> QED BY <1>2, <3>1
  <2>4. Len(a) < Len(b) => Agree(a, b, Len(a))
    BY <1>1, <2>2 DEF ShorterLen
  <2> QED
    BY <2>1, <2>3, <2>4 DEF Precedes
<1>4. CASE D # {}
  <2>1. /\ k \in 1 .. ShorterLen(a, b) /\ a[k] # b[k]
        /\ a[k] \in Nat /\ b[k] \in Nat
        /\ Agree(a, b, k - 1)
    BY <1>4, FirstDifference
  <2>2. OidLess(a, b) <=> a[k] < b[k]
    BY <1>4 DEF OidLess, OidCompare
  <2> HIDE DEF k
  <2>3. ~Agree(a, b, Len(a)) \/ Len(b) <= Len(a)
    BY <1>1, <2>1 DEF Agree
  <2>4. ASSUME NEW i \in 1 .. ShorterLen(a, b), Agree(a, b, i - 1), a[i] < b[i]
        PROVE  i = k
    <3>1. a[i] \in Nat /\ b[i] \in Nat
      BY <1>2
    <3>2. ~(i < k)
      <4>1. i < k => i \in 1 .. k - 1
        BY <1>1, <2>1, <2>4
      <4>2. i < k => a[i] = b[i]
        BY <2>1, <4>1 DEF Agree
      <4> QED BY <2>4, <3>1, <4>2
    <3>3. ~(k < i)
      <4>1. k < i => k \in 1 .. i - 1
        BY <1>1, <2>1, <2>4
      <4>2. k < i => a[k] = b[k]
        BY <2>4, <4>1 DEF Agree
      <4> QED BY <2>1, <4>2
    <3> QED
      BY <1>1, <2>1, <3>2, <3>3
  <2>5. Precedes(a, b) => a[k] < b[k]
    BY <1>1, <2>3, <2>4 DEF Precedes
  <2>6. a[k] < b[k] => Precedes(a, b)
    BY <2>1 DEF Precedes
  <2> QED
    BY <2>2, <2>5, <2>6
<1> QED
  BY <1>3, <1>4

\* Two identifiers compare equal only if they are the same, and comparing
\* them the other way round gives the opposite.
THEOREM CompareIsTotal ==
  ASSUME NEW a \in Oid, NEW b \in Oid
  PROVE  /\ OidCompare(a, b) \in {-1, 0, 1}
         /\ OidCompare(a, b) = 0 <=> a = b
         /\ OidCompare(b, a) = - OidCompare(a, b)
<1> DEFINE D == Differences(a, b)
           k == CHOOSE i \in D : \A j \in D : i <= j
<1>1. /\ Len(a) \in Nat /\ Len(b) \in Nat
      /\ ShorterLen(a, b) = ShorterLen(b, a)
  BY DEF Oid, ShorterLen
<1>2. Differences(b, a) = D
  BY <1>1 DEF Differences
<1>3. CASE D = {}
  <2>1. Len(a) = Len(b) => a = b
    <3>1. Agree(a, b, ShorterLen(a, b))
      BY <1>3, NoDifference
    <3>2. Len(a) = Len(b) => \A i \in 1 .. Len(a) : a[i] = b[i]
      BY <1>1, <3>1 DEF Agree, ShorterLen
    <3>3. a \in Seq(Nat) /\ b \in Seq(Nat)
      BY DEF Oid
    <3> QED
      BY <3>2, <3>3, SeqEqual
  <2>2. /\ OidCompare(a, b) = IF Len(a) < Len(b) THEN -1 ELSE IF Len(a) > Len(b) THEN 1 ELSE 0
        /\ OidCompare(b, a) = IF Len(b) < Len(a) THEN -1 ELSE IF Len(b) > Len(a) THEN 1 ELSE 0
    BY <1>2, <1>3 DEF OidCompare
  <2> QED
    BY <1>1, <2>1, <2>2
<1>4. CASE D # {}
  <2>1. a[k] # b[k] /\ a[k] \in Nat /\ b[k] \in Nat
    BY <1>4, FirstDifference
  <2>2. /\ OidCompare(a, b) = IF a[k] < b[k] THEN -1 ELSE 1
        /\ OidCompare(b, a) = IF b[k] < a[k] THEN -1 ELSE 1
    BY <1>2, <1>4 DEF OidCompare
  <2> QED
    BY <2>1, <2>2
<1> QED
  BY <1>3, <1>4

LEMMA LessIrreflexive ==
  ASSUME NEW a \in Oid
  PROVE  ~OidLess(a, a)
  BY CompareIsTotal DEF OidLess

LEMMA LessTotal ==
  ASSUME NEW a \in Oid, NEW b \in Oid
  PROVE  /\ OidLess(a, b) \/ a = b \/ OidLess(b, a)
         /\ OidLess(a, b) => ~OidLess(b, a)
         /\ OidCompare(a, b) > 0 <=> OidLess(b, a)
  BY CompareIsTotal DEF OidLess

\* Both cases of the order in one: a ends, or has the smaller arc, at k.
DropsAt(a, b, k) ==
  /\ k \in 1 .. Len(b)
  /\ k <= Len(a) + 1
  /\ \A i \in 1 .. k - 1 : a[i] = b[i]
  /\ k <= Len(a) => a[k] < b[k]

LEMMA PrecedesDrops ==
  ASSUME NEW a \in Oid, NEW b \in Oid
  PROVE  Precedes(a, b) <=> \E k \in Nat : DropsAt(a, b, k)
<1>1. Len(a) \in Nat /\ Len(b) \in Nat
  BY DEF Oid
<1>2. ASSUME Len(a) < Len(b), Agree(a, b, Len(a))
      PROVE  DropsAt(a, b, Len(a) + 1)
  BY <1>1, <1>2 DEF DropsAt, Agree
<1>3. ASSUME NEW k \in 1 .. ShorterLen(a, b), Agree(a, b, k - 1), a[k] < b[k]
      PROVE  DropsAt(a, b, k)
  BY <1>1, <1>3 DEF DropsAt, Agree, ShorterLen
<1>4. ASSUME NEW k \in Nat, DropsAt(a, b, k) PROVE Precedes(a, b)
  <2>1. CASE k = Len(a) + 1
    BY <1>1, <1>4, <2>1 DEF Precedes, DropsAt, Agree
  <2>2. CASE k <= Len(a)
    <3>1. k \in 1 .. ShorterLen(a, b)
      BY <1>1, <1>4, <2>2 DEF DropsAt, ShorterLen
    <3>2. Agree(a, b, k - 1) /\ a[k] < b[k]
      BY <1>4, <2>2 DEF DropsAt, Agree
    <3> QED
      BY <3>1, <3>2 DEF Precedes
  <2> QED
    BY <1>1, <1>4, <2>1, <2>2 DEF DropsAt
<1>5. ASSUME Precedes(a, b) PROVE \E k \in Nat : DropsAt(a, b, k)
  <2>1. CASE Len(a) < Len(b) /\ Agree(a, b, Len(a))
    BY <1>1, <1>2, <2>1
  <2>2. CASE \E k \in 1 .. ShorterLen(a, b) : Agree(a, b, k - 1) /\ a[k] < b[k]
    <3>1. PICK k \in 1 .. ShorterLen(a, b) : Agree(a, b, k - 1) /\ a[k] < b[k]
      BY <2>2
    <3>2. k \in Nat
      BY <3>1, ShorterLenType
    <3> QED
      BY <1>3, <3>1, <3>2
  <2> QED
    BY <1>5, <2>1, <2>2 DEF Precedes
<1> QED
  BY <1>4, <1>5

LEMMA LessTransitive ==
  ASSUME NEW a \in Oid, NEW b \in Oid, NEW c \in Oid, OidLess(a, b), OidLess(b, c)
  PROVE  OidLess(a, c)
<1>1. PICK j \in Nat : DropsAt(a, b, j)
  BY CompareIsLexicographic, PrecedesDrops
<1>2. PICK k \in Nat : DropsAt(b, c, k)
  BY CompareIsLexicographic, PrecedesDrops
<1>3. /\ Len(a) \in Nat /\ Len(b) \in Nat /\ Len(c) \in Nat
      /\ \A i \in 1 .. Len(a) : a[i] \in Nat
      /\ \A i \in 1 .. Len(b) : b[i] \in Nat
      /\ \A i \in 1 .. Len(c) : c[i] \in Nat
  BY DEF Oid
<1>4. CASE j < k
  <2>1. DropsAt(a, c, j)
    BY <1>1, <1>2, <1>3, <1>4 DEF DropsAt
  <2> QED
    BY <2>1, CompareIsLexicographic, PrecedesDrops
<1>5. CASE j = k
  <2>1. DropsAt(a, c, j)
    BY <1>1, <1>2, <1>3, <1>5 DEF DropsAt
  <2> QED
    BY <2>1, CompareIsLexicographic, PrecedesDrops
<1>6. CASE k < j
  <2>1. DropsAt(a, c, k)
    BY <1>1, <1>2, <1>3, <1>6 DEF DropsAt
  <2> QED
    BY <2>1, CompareIsLexicographic, PrecedesDrops
<1> QED
  BY <1>4, <1>5, <1>6

-----------------------------------------------------------------------------
\* Appending a column and a row index to an entry OID gives an OID.
LEMMA CellIsOid ==
  ASSUME NEW t \in Tables, NEW c \in DOMAIN t.columns, NEW i \in Nat
  PROVE  Cell(t, c, i) \in Oid
<1>1. t.entry \in Seq(Nat) /\ c \in Nat
  BY MibAssumption DEF Oid
<1>2. <<c, i>> \in Seq(Nat)
  BY <1>1
<1> QED
  BY <1>1, <1>2 DEF Cell, Oid

\* Every instance the registry enumerates has an OID.
LEMMA InstancesAreOids ==
  ASSUME NEW rows \in Nat
  PROVE  Instances(rows) \subseteq Oid
<1> SUFFICES ASSUME NEW x \in Instances(rows) PROVE x \in Oid
  OBVIOUS
<1>1. CASE x \in DOMAIN Objects
  BY <1>1, MibAssumption
<1>2. CASE \E t \in Tables : x \in CellsOf(t, rows)
  <2>1. PICK t \in Tables : x \in CellsOf(t, rows)
    BY <1>2
  <2>2. PICK c \in DOMAIN t.columns, i \in RowSet(t, rows) : x = Cell(t, c, i)
    BY <2>1 DEF CellsOf
  <2>3. i \in Nat
    BY <2>2 DEF RowSet
  <2> QED
    BY <2>2, <2>3, CellIsOid
<1> QED
  BY <1>1, <1>2 DEF Instances

\* Two entry OIDs of which one OID is a cell are the same.
LEMMA SameEntry ==
  ASSUME NEW e1 \in Oid, NEW e2 \in Oid, NEW o \in Oid,
         Len(o) = Len(e1) + 2, Len(o) = Len(e2) + 2,
         Agree(o, e1, Len(e1)), Agree(o, e2, Len(e2))
  PROVE  e1 = e2
<1>1. /\ e1 \in Seq(Nat) /\ e2 \in Seq(Nat)
      /\ Len(e1) = Len(e2) /\ Len(e1) \in Nat
  BY DEF Oid
<1>2. \A i \in 1 .. Len(e1) : e1[i] = e2[i]
  BY <1>1, Zenon DEF Agree
<1> QED
  BY <1>1, <1>2, SeqEqual, Zenon

\* No OID is a cell of two tables.
LEMMA OneTable ==
  ASSUME NEW t \in Tables, NEW u \in Tables, NEW o \in Oid, InTable(t, o), InTable(u, o)
  PROVE  t = u
<1>1. t.entry \in Oid /\ u.entry \in Oid
  BY MibAssumption
<1>2. /\ Len(o) = Len(t.entry) + 2 /\ Agree(o, t.entry, Len(t.entry))
      /\ Len(o) = Len(u.entry) + 2 /\ Agree(o, u.entry, Len(u.entry))
  BY DEF InTable
<1>3. t.entry = u.entry
  BY <1>1, <1>2, SameEntry
<1> QED BY <1>3, MibAssumption

\* A cell lies in its table, in the column and the row it was made of.
LEMMA CellInTable ==
  ASSUME NEW t \in Tables, NEW c \in DOMAIN t.columns, NEW i \in Nat
  PROVE  LET o == Cell(t, c, i)
         IN  InTable(t, o) /\ ColumnArc(t, o) = c /\ RowArc(t, o) = i
<1>1. t.entry \in Seq(Nat) /\ c \in Nat
  BY MibAssumption DEF Oid
<1>2. <<c, i>> \in Seq(Nat) /\ Len(<<c, i>>) = 2 /\ <<c, i>>[1] = c /\ <<c, i>>[2] = i
  BY <1>1
<1> DEFINE o == Cell(t, c, i)
<1>3. /\ Len(o) = Len(t.entry) + 2
      /\ \A k \in 1 .. Len(t.entry) : o[k] = t.entry[k]
      /\ o[Len(t.entry) + 1] = c /\ o[Len(t.entry) + 2] = i
  BY <1>1, <1>2 DEF Cell
<1> QED BY <1>3 DEF InTable, ColumnArc, RowArc, Agree

\* The cells of a table come column by column, row by row.
LEMMA CellOrder ==
  ASSUME NEW t \in Tables, NEW c \in DOMAIN t.columns, NEW d \in DOMAIN t.columns,
         NEW i \in Nat, NEW j \in Nat, c < d \/ (c = d /\ i < j)
  PROVE  OidLess(Cell(t, c, i), Cell(t, d, j))
<1> DEFINE a == Cell(t, c, i)
           b == Cell(t, d, j)
           n == Len(t.entry)
<1>1. a \in Oid /\ b \in Oid
  BY CellIsOid
<1>2. t.entry \in Seq(Nat) /\ c \in Nat /\ d \in Nat /\ n \in Nat
  BY MibAssumption DEF Oid
<1>3. /\ Len(a) = n + 2 /\ Len(b) = n + 2
      /\ a[n + 1] = c /\ a[n + 2] = i /\ b[n + 1] = d /\ b[n + 2] = j
      /\ \A k \in 1 .. n : a[k] = b[k]
  BY <1>2 DEF Cell
<1> HIDE DEF a, b, n
<1>4. CASE c < d
  <2>1. DropsAt(a, b, n + 1)
    BY <1>2, <1>3, <1>4 DEF DropsAt
  <2> QED BY <1>1, <1>2, <2>1, PrecedesDrops, CompareIsLexicographic DEF a, b
<1>5. CASE c = d /\ i < j
  <2>1. DropsAt(a, b, n + 2)
    BY <1>2, <1>3, <1>5 DEF DropsAt
  <2> QED BY <1>1, <1>2, <2>1, PrecedesDrops, CompareIsLexicographic DEF a, b
<1> QED BY <1>4, <1>5

-----------------------------------------------------------------------------
\* What an exact lookup returns names what was asked for, and a row that is
\* there; when the row is not, that is what it says.
LEMMA ResolveFacts ==
  ASSUME NEW o \in Oid, NEW n \in Nat
  PROVE  /\ Resolve(o, n).res \in {"ok", "noSuchObject", "noSuchInstance"}
         /\ Resolve(o, n).res = "ok" => Resolve(o, n).oid = o
         /\ Resolve(o, n).accessor \in SensorAccessors =>
              /\ Resolve(o, n).row <= n
              /\ \A k \in Nat : Resolve(o, n).row > k => Resolve(o, k).res = "noSuchInstance"
<1>1. CASE o \in DOMAIN Objects
  <2>1. Resolve(o, n) = Hit(o, Objects[o], 0)
    BY <1>1 DEF Resolve
  <2>2. Objects[o].accessor \in ScalarAccessors
    BY <1>1, MibAssumption
  <2>3. Objects[o].accessor \notin SensorAccessors
    BY <2>2 DEF ScalarAccessors, SensorAccessors
  <2> QED BY <2>1, <2>3 DEF Hit
<1>2. CASE o \notin DOMAIN Objects /\ \E t \in Tables : InTable(t, o)
  <2> DEFINE t == CHOOSE u \in Tables : InTable(u, o)
             c == ColumnArc(t, o)
             i == RowArc(t, o)
  <2>1. t \in Tables /\ InTable(t, o)
    BY <1>2
  <2>2. \A k \in Nat : Resolve(o, k) = FindCell(t, o, k)
    BY <1>2 DEF Resolve
  <2>3. c \in DOMAIN t.columns
    BY <2>1 DEF InTable, ColumnArc
  <2>4. t.rows # "sensors" => t.columns[c].accessor \notin SensorAccessors
    <3> HIDE DEF t, c
    <3>1. t.rows # "sensors" => t.columns[c].accessor = "fixed"
      BY <2>1, <2>3, MibAssumption
    <3> QED BY <3>1 DEF SensorAccessors
  <2> HIDE DEF t, c, i
  <2>5. CASE i \in RowSet(t, n)
    <3>1. Resolve(o, n) = Hit(o, t.columns[c], i)
      BY <2>2, <2>5 DEF FindCell, c, i
    <3>2. ASSUME t.rows = "sensors"
          PROVE  i <= n /\ \A k \in Nat : i > k => i \notin RowSet(t, k)
      BY <2>5, <3>2 DEF RowSet
    <3>3. \A k \in Nat : i \notin RowSet(t, k) => Resolve(o, k) = Miss("noSuchInstance")
      BY <2>2 DEF FindCell, i
    <3> QED BY <2>4, <3>1, <3>2, <3>3 DEF Hit, Miss
  <2>6. CASE i \notin RowSet(t, n)
    <3>1. Resolve(o, n) = Miss("noSuchInstance")
      BY <2>2, <2>6 DEF FindCell, i
    <3> QED BY <3>1 DEF Miss, SensorAccessors
  <2> QED BY <2>5, <2>6
<1>3. CASE o \notin DOMAIN Objects /\ ~ \E t \in Tables : InTable(t, o)
  <2>1. Resolve(o, n) = Miss("noSuchObject")
    BY <1>3 DEF Resolve
  <2> QED BY <2>1 DEF Miss, SensorAccessors
<1> QED BY <1>1, <1>2, <1>3

\* An instance that exists is found.
LEMMA InstanceResolves ==
  ASSUME NEW n \in Nat, NEW x \in Instances(n)
  PROVE  Resolve(x, n).res = "ok"
<1>1. CASE x \in DOMAIN Objects
  BY <1>1 DEF Resolve, Hit
<1>2. CASE x \notin DOMAIN Objects /\ \E t \in Tables : x \in CellsOf(t, n)
  <2>1. PICK t \in Tables : x \in CellsOf(t, n)
    BY <1>2
  <2>2. PICK c \in DOMAIN t.columns, i \in RowSet(t, n) : x = Cell(t, c, i)
    BY <2>1 DEF CellsOf
  <2>3. i \in Nat
    BY <2>2 DEF RowSet
  <2>4. InTable(t, x) /\ RowArc(t, x) = i
    BY <2>2, <2>3, CellInTable
  <2>5. x \in Oid
    BY InstancesAreOids
  <2>6. (CHOOSE u \in Tables : InTable(u, x)) = t
    BY <2>4, <2>5, OneTable
  <2>7. Resolve(x, n) = FindCell(t, x, n)
    BY <1>2, <2>4, <2>6 DEF Resolve
  <2> QED BY <2>2, <2>4, <2>7 DEF FindCell, Hit
<1> QED BY <1>1, <1>2 DEF Instances

\* The lookup of the next instance returns one, in a row that is there, or
\* says that the view ends.
LEMMA ResolveNextFacts ==
  ASSUME NEW o \in Oid, NEW n \in Nat
  PROVE  /\ ResolveNext(o, n).res \in {"ok", "endOfView"}
         /\ ResolveNext(o, n).accessor \in SensorAccessors => ResolveNext(o, n).row <= n
<1>1. CASE Successors(o, n) = {}
  <2>1. ResolveNext(o, n) = Miss("endOfView")
    BY <1>1 DEF ResolveNext
  <2> QED BY <2>1 DEF Miss, SensorAccessors
<1>2. CASE Successors(o, n) # {}
  <2> DEFINE x == CHOOSE y \in Successors(o, n) : TRUE
  <2>1. x \in Instances(n)
    BY <1>2 DEF Successors
  <2>2. ResolveNext(o, n) = Resolve(x, n)
    BY <1>2 DEF ResolveNext
  <2> HIDE DEF x
  <2>3. x \in Oid
    BY <2>1, InstancesAreOids
  <2> QED BY <2>1, <2>2, <2>3, ResolveFacts, InstanceResolves
<1> QED BY <1>1, <1>2

\* More rows do not change what is found in those that were there.
LEMMA ResolveStable ==
  ASSUME NEW o \in Oid, NEW n \in Nat, NEW m \in Nat, n <= m, Resolve(o, n).res = "ok"
  PROVE  Resolve(o, m) = Resolve(o, n)
<1>1. CASE o \in DOMAIN Objects
  BY <1>1 DEF Resolve
<1>2. CASE o \notin DOMAIN Objects /\ \E t \in Tables : InTable(t, o)
  <2> DEFINE t == CHOOSE u \in Tables : InTable(u, o)
  <2>1. \A k \in Nat : Resolve(o, k) = FindCell(t, o, k)
    BY <1>2 DEF Resolve
  <2> HIDE DEF t
  <2>2. RowArc(t, o) \in RowSet(t, n)
    BY <2>1 DEF FindCell, Miss
  <2>3. RowArc(t, o) \in RowSet(t, m)
    BY <2>2 DEF RowSet
  <2> QED BY <2>1, <2>2, <2>3 DEF FindCell
<1>3. CASE o \notin DOMAIN Objects /\ ~ \E t \in Tables : InTable(t, o)
  BY <1>3 DEF Resolve
<1> QED BY <1>1, <1>2, <1>3

\* The next instance is what an exact lookup of its name finds.
LEMMA NextResolves ==
  ASSUME NEW o \in Oid, NEW n \in Nat, ResolveNext(o, n).res = "ok"
  PROVE  /\ ResolveNext(o, n).oid \in Instances(n)
         /\ ResolveNext(o, n).oid \in Oid
         /\ OidLess(o, ResolveNext(o, n).oid)
         /\ \A y \in Instances(n) : OidLess(o, y) => ~OidLess(y, ResolveNext(o, n).oid)
         /\ Resolve(ResolveNext(o, n).oid, n) = ResolveNext(o, n)
<1>1. Successors(o, n) # {}
  <2>1. Successors(o, n) = {} => ResolveNext(o, n) = Miss("endOfView")
    BY DEF ResolveNext
  <2> QED BY <2>1 DEF Miss
<1> DEFINE x == CHOOSE y \in Successors(o, n) : TRUE
<1>2. x \in Successors(o, n)
  BY <1>1
<1>3. ResolveNext(o, n) = Resolve(x, n)
  BY <1>1 DEF ResolveNext
<1> HIDE DEF x
<1>4. /\ x \in Instances(n) /\ OidLess(o, x)
      /\ \A y \in Instances(n) : OidLess(o, y) => ~OidLess(y, x)
  BY <1>2 DEF Successors
<1>5. x \in Oid
  BY <1>4, InstancesAreOids
<1>6. Resolve(x, n).oid = x
  BY <1>3, <1>5, ResolveFacts
<1> QED BY <1>3, <1>4, <1>5, <1>6

\* A scalar is found whatever the rows, and is no object of a sensor row.
LEMMA ScalarResolves ==
  ASSUME NEW o \in DOMAIN Objects, NEW n \in Nat
  PROVE  /\ Resolve(o, n).res = "ok"
         /\ Resolve(o, n).accessor \notin SensorAccessors
<1>1. Resolve(o, n) = Hit(o, Objects[o], 0)
  BY DEF Resolve
<1>2. Objects[o].accessor \in ScalarAccessors
  BY MibAssumption
<1>3. Objects[o].accessor \notin SensorAccessors
  BY <1>2 DEF ScalarAccessors, SensorAccessors
<1> QED BY <1>1, <1>3 DEF Hit

-----------------------------------------------------------------------------
\* Finitely many identifiers have a least one.
LEMMA LeastOid ==
  ASSUME NEW S, S \subseteq Oid, IsFiniteSet(S), S # {}
  PROVE  \E x \in S : \A y \in S : ~OidLess(y, x)
<1> DEFINE Below(x) == {y \in S : OidLess(y, x)}
           B == {Below(x) : x \in S}
<1>1. IsWellFoundedOn(StrictSubsetOrdering(S), SUBSET S)
  BY FS_StrictSubsetOrderingWellFounded, FS_FiniteSubsetsOfFinite
<1>2. B \subseteq SUBSET S /\ B # {}
  OBVIOUS
<1> HIDE DEF B
<1>3. PICK b \in B : \A c \in B : ~(<<c, b>> \in StrictSubsetOrdering(S))
  BY <1>1, <1>2, WFMin, Zenon
<1> USE DEF B
<1>4. PICK x \in S : b = Below(x)
  OBVIOUS
<1>5. ASSUME NEW y \in S, OidLess(y, x) PROVE FALSE
  <2>1. Below(y) \subseteq Below(x)
    BY <1>5, LessTransitive
  <2>2. y \in Below(x) /\ y \notin Below(y)
    BY <1>5, LessIrreflexive
  <2>3. <<Below(y), Below(x)>> \in StrictSubsetOrdering(S)
    <3> DEFINE P == Below(x)
               Q == Below(y)
    <3>1. P \in SUBSET S /\ Q \in SUBSET S /\ Q \subseteq P /\ Q # P
      BY <2>1, <2>2
    <3> HIDE DEF P, Q
    <3>2. <<Q, P>> \in StrictSubsetOrdering(S)
      BY <3>1 DEF StrictSubsetOrdering
    <3> QED BY <3>2 DEF P, Q
  <2>4. Below(y) \in B
    OBVIOUS
  <2> HIDE DEF B, Below
  <2> QED BY <1>3, <1>4, <2>3, <2>4
<1> QED BY <1>5

\* The view of a MIB has finitely many instances.
LEMMA InstancesFinite ==
  ASSUME NEW n \in Nat
  PROVE  IsFiniteSet(Instances(n))
<1>1. ASSUME NEW t \in Tables PROVE IsFiniteSet(CellsOf(t, n))
  <2> DEFINE C == DOMAIN t.columns
             R == RowSet(t, n)
             f == [p \in C \X R |-> Cell(t, p[1], p[2])]
  <2>1. IsFiniteSet(C)
    BY MibIsFinite
  <2>2. IsFiniteSet(R)
    <3>1. PICK k \in Nat : R = 1 .. k
      BY DEF RowSet
    <3>2. IsFiniteSet(1 .. k)
      BY FS_Interval
    <3> QED BY <3>1, <3>2
  <2>3. IsFiniteSet(C \X R)
    BY <2>1, <2>2, FS_Product
  <2>4. f \in Surjection(C \X R, CellsOf(t, n))
    <3>1. \A p \in C \X R : f[p] \in CellsOf(t, n)
      BY DEF CellsOf
    <3>2. \A x \in CellsOf(t, n) : \E p \in C \X R : f[p] = x
      <4> SUFFICES ASSUME NEW x \in CellsOf(t, n) PROVE \E p \in C \X R : f[p] = x
        OBVIOUS
      <4>1. PICK c \in C, i \in R : x = Cell(t, c, i)
        BY DEF CellsOf
      <4>2. <<c, i>> \in C \X R /\ f[<<c, i>>] = x
        BY <4>1
      <4> QED BY <4>2
    <3> QED BY <3>1, <3>2 DEF Surjection
  <2> HIDE DEF C, R, f
  <2> QED BY <2>3, <2>4, FS_Surjection
<1> DEFINE g == [t \in Tables |-> CellsOf(t, n)]
           G == {CellsOf(t, n) : t \in Tables}
<1>2. IsFiniteSet(Tables) /\ IsFiniteSet(DOMAIN Objects)
  BY MibIsFinite
<1>3. g \in Surjection(Tables, G)
  BY DEF Surjection
<1>4. \A T \in G : IsFiniteSet(T)
  BY <1>1
<1>5. IsFiniteSet(G)
  <2> HIDE DEF g, G
  <2> QED BY <1>2, <1>3, FS_Surjection
<1>6. IsFiniteSet(UNION G)
  <2> HIDE DEF G
  <2> QED BY <1>4, <1>5, FS_UNION
<1>7. IsFiniteSet(DOMAIN Objects \cup UNION G)
  <2> HIDE DEF G
  <2> QED BY <1>2, <1>6, FS_Union
<1> QED BY <1>7 DEF Instances

\* When no next instance is found, none follows.
LEMMA NothingFollows ==
  ASSUME NEW o \in Oid, NEW n \in Nat, ResolveNext(o, n).res # "ok"
  PROVE  \A x \in Instances(n) : ~OidLess(o, x)
<1> SUFFICES ASSUME NEW x \in Instances(n), OidLess(o, x) PROVE FALSE
  OBVIOUS
<1> DEFINE after == {y \in Instances(n) : OidLess(o, y)}
<1>1. after \subseteq Oid /\ after # {}
  BY InstancesAreOids
<1>2. IsFiniteSet(after)
  <2>1. after \subseteq Instances(n)
    OBVIOUS
  <2> HIDE DEF after
  <2> QED BY <2>1, InstancesFinite, FS_Subset
<1>3. \E y \in after : \A z \in after : ~OidLess(z, y)
  <2> HIDE DEF after
  <2> QED BY <1>1, <1>2, LeastOid
<1>4. Successors(o, n) = {y \in after : \A z \in after : ~OidLess(z, y)}
  BY DEF Successors
<1>5. Successors(o, n) # {}
  BY <1>3, <1>4
<1> DEFINE s == CHOOSE y \in Successors(o, n) : TRUE
<1>6. s \in Instances(n)
  BY <1>4, <1>5
<1>7. ResolveNext(o, n) = Resolve(s, n)
  BY <1>5 DEF ResolveNext
<1> HIDE DEF s
<1> QED BY <1>6, <1>7, InstanceResolves
-----------------------------------------------------------------------------

\* A resolved object names a row if it belongs to the sensor table, and a
\* writable scalar is one of the stored fields.
WellResolved(r) ==
  /\ r \in Resolved
  /\ r.accessor \in SensorAccessors => r.row \in Nat \ {0}
  /\ r.accessor \in {"string", "relay"} => r.oid \in Fields
  /\ r.res \in {"ok", "noSuchObject", "noSuchInstance", "endOfView"}

\* mib_registry_resolve fills a well-formed mib_resolved_t.
LEMMA ResolveType ==
  ASSUME NEW o \in Oid, NEW rows \in Nat
  PROVE  WellResolved(Resolve(o, rows))
<1>1. CASE o \in DOMAIN Objects
  <2>1. Resolve(o, rows) = Hit(o, Objects[o], 0)
    BY <1>1 DEF Resolve
  <2>2. /\ Objects[o] \in Definitions
        /\ Objects[o].accessor \in ScalarAccessors
        /\ Objects[o].writable <=> Objects[o].accessor \in {"string", "relay"}
    BY <1>1, MibAssumption
  <2> QED
    BY <1>1, <2>1, <2>2
    DEF Hit, WellResolved, Resolved, Definitions, Results, Fields,
        ScalarAccessors, SensorAccessors
<1>2. CASE o \notin DOMAIN Objects /\ \E t \in Tables : InTable(t, o)
  <2> DEFINE t == CHOOSE u \in Tables : InTable(u, o)
             c == ColumnArc(t, o)
             i == RowArc(t, o)
  <2>1. t \in Tables /\ InTable(t, o)
    BY <1>2
  <2>2. Resolve(o, rows) = FindCell(t, o, rows)
    BY <1>2 DEF Resolve
  <2>3. /\ c \in DOMAIN t.columns
        /\ i \in Nat
    <3> HIDE DEF t
    <3>1. t.entry \in Seq(Nat) /\ o \in Seq(Nat) /\ Len(o) = Len(t.entry) + 2
      BY <2>1, MibAssumption DEF InTable, Oid
    <3>2. Len(t.entry) + 2 \in 1 .. Len(o)
      BY <3>1
    <3>3. i \in Nat
      BY <3>1, <3>2 DEF RowArc
    <3> QED
      BY <2>1, <3>3 DEF InTable, ColumnArc
  <2>4. /\ t.columns[c] \in Definitions
        /\ t.columns[c].accessor \in SensorAccessors \cup {"fixed"}
    BY <2>1, <2>3, MibAssumption
  <2>5. CASE i \in RowSet(t, rows)
    <3>1. Resolve(o, rows) = Hit(o, t.columns[c], i)
      BY <2>2, <2>5 DEF FindCell
    <3>2. i \in Nat \ {0}
      BY <2>5 DEF RowSet
    <3> HIDE DEF t, c, i
    <3> QED
      BY <3>1, <3>2, <2>4
      DEF Hit, WellResolved, Resolved, Definitions, Results, SensorAccessors
  <2>6. CASE i \notin RowSet(t, rows)
    <3>1. Resolve(o, rows) = Miss("noSuchInstance")
      BY <2>2, <2>6 DEF FindCell
    <3> QED
      BY <3>1
      DEF Miss, WellResolved, Resolved, Oid, Results, ValueTags, Accessors,
          ScalarAccessors, SensorAccessors
  <2> QED
    BY <2>5, <2>6
<1>3. CASE o \notin DOMAIN Objects /\ ~ \E t \in Tables : InTable(t, o)
  <2>1. Resolve(o, rows) = Miss("noSuchObject")
    BY <1>3 DEF Resolve
  <2> QED
    BY <2>1
    DEF Miss, WellResolved, Resolved, Oid, Results, ValueTags, Accessors,
        ScalarAccessors, SensorAccessors
<1> QED
  BY <1>1, <1>2, <1>3

\* So does mib_registry_resolve_next.
LEMMA ResolveNextType ==
  ASSUME NEW o \in Oid, NEW rows \in Nat
  PROVE  WellResolved(ResolveNext(o, rows))
<1>1. CASE Successors(o, rows) = {}
  <2>1. ResolveNext(o, rows) = Miss("endOfView")
    BY <1>1 DEF ResolveNext
  <2> QED
    BY <2>1
    DEF Miss, WellResolved, Resolved, Oid, Results, ValueTags, Accessors,
        ScalarAccessors, SensorAccessors
<1>2. CASE Successors(o, rows) # {}
  <2> DEFINE x == CHOOSE y \in Successors(o, rows) : TRUE
  <2>1. x \in Oid
    BY <1>2, InstancesAreOids DEF Successors
  <2>2. ResolveNext(o, rows) = Resolve(x, rows)
    BY <1>2 DEF ResolveNext
  <2> QED
    BY <2>1, <2>2, ResolveType
<1> QED
  BY <1>1, <1>2

-----------------------------------------------------------------------------
\* snmp_error_translate: an error status of the PDU, or an exception value,
\* or neither -- and neither only on success.
LEMMA TranslateType ==
  ASSUME NEW version, NEW result \in Results
  PROVE  LET tr == Translate(version, result) IN
         /\ tr.status \in ErrorStatuses
         /\ tr.abort \in BOOLEAN
         /\ tr.abort <=> tr.status # "noError"
         /\ tr.exception \in Exceptions \cup {NoException}
         /\ ~tr.abort /\ tr.exception = NoException => result = "ok"
         /\ result = "ok" => ~tr.abort /\ tr.exception = NoException
<1>1. V2cException(result) \in Exceptions \cup {NoException}
  BY DEF V2cException, Exceptions
<1>2. V1Status(result) \in ErrorStatuses \ {"noError"}
  BY DEF V1Status, ErrorStatuses
<1> QED
  BY <1>1, <1>2 DEF Translate, Translation, ErrorStatuses

\* sensor_count() stays within the arrays indexed by row.
LEMMA RowsType ==
  ASSUME MibTypeOK
  PROVE  /\ Rows \in Sensors
         /\ NextPhase \in DOMAIN RowPattern
         /\ RowPattern[NextPhase] \in Sensors
         /\ Sensors \subseteq Nat \ {0}
<1>1. phase \in 1 .. Len(RowPattern) /\ Len(RowPattern) \in Nat
  BY DeviceAssumption DEF MibTypeOK
<1>2. NextPhase \in 1 .. Len(RowPattern)
  BY <1>1 DEF NextPhase
<1> QED
  BY <1>1, <1>2, DeviceAssumption DEF Rows, Sensors

\* A getter keeps the store well-typed; what it returns on success is a value.
LEMMA GetterType ==
  ASSUME MibTypeOK, NEW r, WellResolved(r), CallGetter(r)
  PROVE  /\ MibTypeOK'
         /\ GetResult(r) \in Results
         /\ GetResult(r) = "ok" => GetValue(r) \in Nat
<1>1. /\ Rows \in Nat /\ Rows <= SensorMax /\ SensorMax \in Nat
  BY RowsType, DeviceAssumption DEF Sensors
<1>2. r.accessor \in SensorAccessors /\ ~RowGone(r) => r.row \in Sensors
  BY <1>1 DEF RowGone, WellResolved, Sensors
<1>3. label \in [Sensors -> Nat] /\ readCount \in [Sensors -> Nat] /\ field \in [Fields -> Nat]
  BY DEF MibTypeOK
<1>4. label' \in [Sensors -> Nat]
  BY <1>2, <1>3 DEF CallGetter, LabelAfterGet, LabelOf, DefaultLabel, SensorAccessors
<1>5. readCount' \in [Sensors -> Nat]
  BY <1>2, <1>3 DEF CallGetter, ReadCountAfterGet, GetResult, SensorAccessors
<1>6. MibTypeOK'
  BY <1>4, <1>5 DEF MibTypeOK, CallGetter
<1>7. GetResult(r) \in Results
  BY DEF GetResult, Results
<1>8. ASSUME GetResult(r) = "ok" PROVE GetValue(r) \in Nat
  <2>1. ~RowGone(r)
    BY <1>8 DEF GetResult
  <2>2. r.accessor \in {"string", "relay"} => field[r.oid] \in Nat
    BY <1>3 DEF WellResolved
  <2>3. r.accessor \in SensorAccessors =>
          /\ r.row \in Nat
          /\ label[r.row] \in Nat
          /\ readCount[r.row] \in Nat
    BY <1>2, <1>3, <2>1 DEF WellResolved
  <2> QED
    BY <2>2, <2>3 DEF GetValue, LabelOf, DefaultLabel, SensorAccessors
<1> QED
  BY <1>6, <1>7, <1>8

\* So does a setter given a well-typed varbind.
LEMMA SetterType ==
  ASSUME MibTypeOK, NEW r, WellResolved(r), NEW vb, vb.val \in Nat, CallSetter(r, vb)
  PROVE  /\ MibTypeOK'
         /\ SetResult(r, vb) \in Results
<1>1. /\ Rows \in Nat /\ Rows <= SensorMax /\ SensorMax \in Nat
  BY RowsType, DeviceAssumption DEF Sensors
<1>2. r.accessor \in SensorAccessors /\ ~RowGone(r) => r.row \in Sensors
  BY <1>1 DEF RowGone, WellResolved, Sensors
<1>3. field' \in [Fields -> Nat]
  BY DEF CallSetter, FieldAfterSet, MibTypeOK, WellResolved
<1>4. label' \in [Sensors -> Nat]
  BY <1>2 DEF CallSetter, LabelAfterSet, SetResult, MibTypeOK, SensorAccessors
<1>5. MibTypeOK'
  BY <1>3, <1>4 DEF MibTypeOK, CallSetter
<1>6. SetResult(r, vb) \in Results
  BY DEF SetResult, StringResult, RelayResult, Results
<1> QED
  BY <1>5, <1>6

-----------------------------------------------------------------------------
\* The varbinds of a list that deliver a temperature are finitely many.
LEMMA DeliveriesFinite ==
  ASSUME NEW v, NEW n \in Nat, NEW s
  PROVE  /\ IsFiniteSet({k \in 1 .. n : Delivers(v[k], s)})
         /\ Deliveries(v, n, s) \in Nat
<1> DEFINE D == {k \in 1 .. n : Delivers(v[k], s)}
<1>1. D \subseteq 1 .. n
  OBVIOUS
<1> HIDE DEF D
<1>2. IsFiniteSet(1 .. n)
  BY FS_Interval
<1>3. IsFiniteSet(D)
  BY <1>1, <1>2, FS_Subset
<1>4. Cardinality(D) \in Nat
  BY <1>3, FS_CardinalityType
<1> QED BY <1>3, <1>4 DEF Deliveries, D

\* Lists that deliver in the same places deliver as many.
LEMMA DeliveriesSame ==
  ASSUME NEW v, NEW w, NEW n, NEW s,
         \A k \in 1 .. n : Delivers(w[k], s) <=> Delivers(v[k], s)
  PROVE  Deliveries(w, n, s) = Deliveries(v, n, s)
<1>1. {k \in 1 .. n : Delivers(w[k], s)} = {k \in 1 .. n : Delivers(v[k], s)}
  OBVIOUS
<1> QED BY <1>1, Zenon DEF Deliveries

\* A list that carries no values delivers nothing.
LEMMA DeliveriesNone ==
  ASSUME NEW v, NEW n \in Nat, NEW s, \A k \in 1 .. n : ~Delivers(v[k], s)
  PROVE  Deliveries(v, n, s) = 0
<1>1. {k \in 1 .. n : Delivers(v[k], s)} = {}
  OBVIOUS
<1>2. Cardinality({}) = 0
  BY FS_EmptySet
<1> QED BY <1>1, <1>2, Zenon DEF Deliveries

Places(v, n, s) == {k \in 1 .. n : Delivers(v[k], s)}

\* One more place adds itself.
SameElsewhere(v, n, w, m, s, i) == i \in 1 .. m /\ Places(w, m, s) \ {i} = Places(v, n, s)

LEMMA DeliveriesGrow ==
  ASSUME NEW v, NEW n \in Nat, NEW w, NEW m \in Nat, NEW s, NEW i,
         SameElsewhere(v, n, w, m, s, i)
  PROVE  Deliveries(w, m, s) = Deliveries(v, n, s) + (IF Delivers(w[i], s) THEN 1 ELSE 0)
<1> DEFINE V == Places(v, n, s)
           W == Places(w, m, s)
<1>1. Deliveries(w, m, s) = Cardinality(W) /\ Deliveries(v, n, s) = Cardinality(V)
  BY DEF Deliveries, Places
<1>0. i \in 1 .. m /\ Places(w, m, s) \ {i} = Places(v, n, s)
  BY DEF SameElsewhere
<1>2. i \notin V /\ (Delivers(w[i], s) => W = V \cup {i}) /\ (~Delivers(w[i], s) => W = V)
  <2>1. i \in W <=> Delivers(w[i], s)
    BY <1>0, Zenon DEF Places
  <2>2. V = W \ {i}
    BY <1>0
  <2> HIDE DEF V, W
  <2> QED BY <2>1, <2>2
<1>3. IsFiniteSet(V) /\ Cardinality(V) \in Nat
  BY <1>1, DeliveriesFinite DEF Places
<1> HIDE DEF V, W
<1>4. Cardinality(V \cup {i}) = Cardinality(V) + 1
  BY <1>2, <1>3, FS_AddElement
<1>5. CASE Delivers(w[i], s)
  BY <1>1, <1>2, <1>4, <1>5
<1>6. CASE ~Delivers(w[i], s)
  BY <1>1, <1>2, <1>3, <1>6
<1> QED BY <1>5, <1>6

\* So a list that grows by one counts its new last varbind...
LEMMA DeliveriesAppend ==
  ASSUME NEW v, NEW w, NEW n \in Nat, NEW s, \A k \in 1 .. n : w[k] = v[k]
  PROVE  Deliveries(w, n + 1, s)
           = Deliveries(v, n, s) + (IF Delivers(w[n + 1], s) THEN 1 ELSE 0)
<1>1. SameElsewhere(v, n, w, n + 1, s, n + 1)
  <2>1. \A k : k \in 1 .. n + 1 /\ k # n + 1 <=> k \in 1 .. n
    OBVIOUS
  <2>2. n + 1 \in 1 .. n + 1
    OBVIOUS
  <2> QED BY <2>1, <2>2 DEF Places, SameElsewhere
<1>2. n + 1 \in Nat
  OBVIOUS
<1> QED BY <1>1, <1>2, DeliveriesGrow

\* ... and one in which a varbind without a temperature is replaced, the new one.
SameBut(v, w, n, i) == \A k \in 1 .. n : k # i => w[k] = v[k]

LEMMA DeliveriesReplace ==
  ASSUME NEW v, NEW w, NEW n \in Nat, NEW s, NEW i \in 1 .. n, ~Delivers(v[i], s),
         SameBut(v, w, n, i)
  PROVE  Deliveries(w, n, s) = Deliveries(v, n, s) + (IF Delivers(w[i], s) THEN 1 ELSE 0)
<1>1. SameElsewhere(v, n, w, n, s, i)
  BY DEF Places, SameBut, SameElsewhere
<1> QED BY <1>1, DeliveriesGrow

-----------------------------------------------------------------------------
\* What the registry found, at some row count of the table, under its name.
Genuine(r) == r.res = "ok" /\ \E n \in Sensors : Resolve(r.oid, n) = r

\* An exact lookup and the lookup of the next instance find what is there.
LEMMA LookupsAreGenuine ==
  ASSUME NEW o \in Oid, NEW n \in Sensors
  PROVE  /\ Resolve(o, n).res = "ok" => Genuine(Resolve(o, n))
         /\ ResolveNext(o, n).res = "ok" => Genuine(ResolveNext(o, n))
<1>1. n \in Nat
  BY DeviceAssumption DEF Sensors
<1>2. Resolve(o, n).res = "ok" => Genuine(Resolve(o, n))
  BY <1>1, ResolveFacts DEF Genuine
<1>3. ResolveNext(o, n).res = "ok" => Genuine(ResolveNext(o, n))
  BY <1>1, NextResolves DEF Genuine
<1> QED BY <1>2, <1>3

\* A getter counts exactly when what it fetches is a temperature: of the sensor
\* whose temperature the varbind then delivers.
LEMMA GetterCounts ==
  ASSUME MibTypeOK, NEW r, WellResolved(r), Genuine(r), CallGetter(r), NEW value,
         NEW s \in Sensors
  PROVE  /\ GetResult(r) = "ok" =>
              readCount'[s] = readCount[s] +
                (IF Delivers([oid |-> r.oid, tag |-> r.tag, val |-> value], s) THEN 1 ELSE 0)
         /\ GetResult(r) # "ok" => readCount'[s] = readCount[s]
<1>1. SensorMax \in Nat /\ readCount \in [Sensors -> Nat] /\ r.oid \in Oid /\ r.tag \in ValueTags
  BY DeviceAssumption DEF MibTypeOK, WellResolved, Resolved
<1>2. Resolve(r.oid, SensorMax) = r
  <2>1. PICK n \in Sensors : Resolve(r.oid, n) = r
    BY DEF Genuine
  <2>2. n \in Nat /\ n <= SensorMax
    BY <1>1 DEF Sensors
  <2> QED BY <1>1, <2>1, <2>2, ResolveStable DEF Genuine
<1> DEFINE vb == [oid |-> r.oid, tag |-> r.tag, val |-> value]
<1>3. Delivers(vb, s) <=> r.accessor = "sensorTemp" /\ r.row = s
  BY <1>1, <1>2 DEF Delivers
<1> HIDE DEF vb
<1>4. readCount'[s] = IF r.accessor = "sensorTemp" /\ GetResult(r) = "ok" /\ r.row = s
                      THEN readCount[s] + 1 ELSE readCount[s]
  BY <1>1 DEF CallGetter, ReadCountAfterGet
<1>5. readCount[s] \in Nat
  BY <1>1
<1> QED BY <1>3, <1>4, <1>5 DEF vb
=============================================================================
