------------------------------- MODULE MibOid -------------------------------
(***************************************************************************)
(* Object identifiers and their lexicographic order, as mib_registry.c     *)
(* compares them.  An OID is a sequence of arcs; the order decides what a  *)
(* binary search finds and where a GETNEXT walk goes next.                 *)
(***************************************************************************)
EXTENDS Integers, Sequences

Oid == Seq(Nat)

ShorterLen(a, b) == IF Len(a) < Len(b) THEN Len(a) ELSE Len(b)

\* The positions of the common prefix at which the two identifiers differ.
Differences(a, b) == {i \in 1 .. ShorterLen(a, b) : a[i] # b[i]}

\* mib_oid_compare: the first differing arc decides, then the length.
OidCompare(a, b) ==
  LET d == Differences(a, b)
      k == CHOOSE i \in d : \A j \in d : i <= j
  IN  IF d # {} THEN IF a[k] < b[k] THEN -1 ELSE 1
      ELSE IF Len(a) < Len(b) THEN -1
      ELSE IF Len(a) > Len(b) THEN 1
      ELSE 0

OidLess(a, b) == OidCompare(a, b) < 0

(***************************************************************************)
(* The textbook order, written without the loop: a proper prefix comes     *)
(* first, otherwise the first differing arc decides.                       *)
(***************************************************************************)
Agree(a, b, n) == \A i \in 1 .. n : a[i] = b[i]

Precedes(a, b) ==
  \/ Len(a) < Len(b) /\ Agree(a, b, Len(a))
  \/ \E k \in 1 .. ShorterLen(a, b) : Agree(a, b, k - 1) /\ a[k] < b[k]
=============================================================================
