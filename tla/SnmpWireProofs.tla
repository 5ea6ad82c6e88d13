--------------------------- MODULE SnmpWireProofs ---------------------------
(***************************************************************************)
(* Theorems about SnmpWire.  Whatever the datagram, what is decoded from   *)
(* it stays within the arrays of the context; what is sent is the shortest *)
(* encoding; an echo is never longer than its request; a legal request is  *)
(* understood as it was meant; and the traps of the firmware fit.          *)
(***************************************************************************)
EXTENDS SnmpWire, FiniteSetTheorems, WellFoundedInduction, SequenceTheorems, TLAPS

-----------------------------------------------------------------------------
(***************************************************************************)
(* Induction and recursion over an interval.  What is shown of each n is   *)
(* the membership in a set, which a lemma can take as a parameter.         *)
(***************************************************************************)
LEMMA Induct ==
  ASSUME NEW N \in Nat, NEW S, 0 \in S, \A n \in 0 .. N - 1 : n \in S => n + 1 \in S
  PROVE  \A n \in 0 .. N : n \in S
<1> DEFINE I == 0 .. N
           Under(n) == {k \in I : k < n}
           Bad == {n \in I : n \notin S}
           B == {Under(n) : n \in Bad}
<1> SUFFICES ASSUME Bad # {} PROVE FALSE
  OBVIOUS
<1>1. IsWellFoundedOn(StrictSubsetOrdering(I), SUBSET I)
  <2>1. IsFiniteSet(I)
    BY FS_Interval
  <2> HIDE DEF I
  <2>2. IsWellFoundedOn(StrictSubsetOrdering(I), FiniteSubsetsOf(I))
    BY <2>1, FS_StrictSubsetOrderingWellFounded
  <2>3. FiniteSubsetsOf(I) = SUBSET I
    BY <2>1, FS_FiniteSubsetsOfFinite
  <2> QED BY <2>2, <2>3
<1>2. B \subseteq SUBSET I /\ B # {}
  OBVIOUS
<1> HIDE DEF B
<1>3. PICK b \in B : \A c \in B : ~(<<c, b>> \in StrictSubsetOrdering(I))
  BY <1>1, <1>2, WFMin, Zenon
<1>4. PICK n \in Bad : b = Under(n)
  BY DEF B
<1>5. n \in I /\ n \notin S /\ n # 0
  OBVIOUS
<1>6. n - 1 \in 0 .. N - 1 /\ n - 1 \in I /\ (n - 1) + 1 = n
  BY <1>5
<1>7. n - 1 \in Bad
  BY <1>5, <1>6
<1>8. <<Under(n - 1), Under(n)>> \in StrictSubsetOrdering(I)
  <2> DEFINE P == Under(n)
             Q == Under(n - 1)
  <2>1. P \in SUBSET I /\ Q \in SUBSET I /\ Q \subseteq P
    BY <1>5
  <2>2. n - 1 \in P /\ n - 1 \notin Q
    BY <1>5, <1>6
  <2> HIDE DEF P, Q
  <2>3. <<Q, P>> \in StrictSubsetOrdering(I)
    BY <2>1, <2>2 DEF StrictSubsetOrdering
  <2> QED BY <2>3 DEF P, Q
<1>9. Under(n - 1) \in B
  BY <1>7 DEF B
<1> HIDE DEF Under
<1> QED BY <1>3, <1>4, <1>8, <1>9

LEMMA InductFromOne ==
  ASSUME NEW N \in Nat, NEW S, 1 \in S, \A n \in 2 .. N : n - 1 \in S => n \in S
  PROVE  \A n \in 1 .. N : n \in S
<1> DEFINE T == {0} \cup {n \in 1 .. N : n \in S}
<1>1. ASSUME NEW n \in 0 .. N - 1, n \in T PROVE n + 1 \in T
  <2>1. CASE n = 0
    BY <2>1
  <2>2. CASE n # 0
    <3>1. n \in S /\ n + 1 \in 1 .. N /\ n + 1 \in 2 .. N /\ (n + 1) - 1 = n
      BY <1>1, <2>2
    <3> QED BY <3>1
  <2> QED BY <2>1, <2>2
<1>2. 0 \in T
  OBVIOUS
<1> HIDE DEF T
<1>3. \A n \in 0 .. N : n \in T
  BY <1>1, <1>2, Induct
<1> QED BY <1>3 DEF T

\* f iterates F: F[n] is its n-th step.
Iterates(f, N, w, F) == f = [n \in 0 .. N |-> IF n = 0 THEN w ELSE F[n][f[n - 1]]]

LEMMA Iterate ==
  ASSUME NEW N \in Nat, NEW W, NEW w \in W, NEW F \in [1 .. N -> [W -> W]]
  PROVE  \E f \in [0 .. N -> W] : Iterates(f, N, w, F)
<1> DEFINE S == {m \in 0 .. N : \E f \in [0 .. m -> W] : Iterates(f, m, w, F)}
<1>1. 0 \in S
  <2> DEFINE f == [n \in 0 .. 0 |-> w]
  <2>1. f \in [0 .. 0 -> W] /\ Iterates(f, 0, w, F)
    BY DEF Iterates
  <2> QED BY <2>1
<1>2. ASSUME NEW m \in 0 .. N - 1, m \in S PROVE m + 1 \in S
  <2>1. PICK f \in [0 .. m -> W] : Iterates(f, m, w, F)
    BY <1>2
  <2> DEFINE g == [n \in 0 .. m + 1 |-> IF n = m + 1 THEN F[m + 1][f[m]] ELSE f[n]]
  <2>2. m + 1 \in 1 .. N /\ m + 1 \in 0 .. N /\ m \in 0 .. m /\ m \in Nat
    OBVIOUS
  <2>3. F[m + 1][f[m]] \in W
    BY <2>2
  <2>4. g \in [0 .. m + 1 -> W]
    BY <2>3
  <2>5. ASSUME NEW n \in 0 .. m + 1 PROVE g[n] = IF n = 0 THEN w ELSE F[n][g[n - 1]]
    <3>1. CASE n = m + 1
      BY <2>2, <3>1
    <3>2. CASE n # m + 1
      <4>1. n \in 0 .. m /\ (n # 0 => n - 1 \in 0 .. m /\ n - 1 \in 0 .. m + 1 /\ n - 1 # m + 1)
        BY <2>2, <3>2
      <4>2. f[n] = IF n = 0 THEN w ELSE F[n][f[n - 1]]
        BY <2>1, <4>1, Zenon DEF Iterates
      <4> QED BY <3>2, <4>1, <4>2
    <3> QED BY <3>1, <3>2
  <2>6. Iterates(g, m + 1, w, F)
    BY <2>5, Zenon DEF Iterates
  <2> QED BY <2>2, <2>4, <2>6
<1> HIDE DEF S
<1>3. \A n \in 0 .. N : n \in S
  BY <1>1, <1>2, Induct
<1> QED BY <1>3 DEF S

-----------------------------------------------------------------------------
(* Numbers. *)
LEMMA Powers == 2^7 = 128 /\ 2^16 = 65536 /\ 2^24 = 16777216
  OBVIOUS

LEMMA WordOfType ==
  ASSUME NEW n \in 0 .. 255
  PROVE  /\ WordOf(n) \in Word /\ WordOf(n) = <<0, 0, 0, n>>
         /\ \A bound : n < bound => Below(WordOf(n), bound)
<1>1. n \div 16777216 = 0 /\ n \div 65536 = 0 /\ n \div 256 = 0 /\ n % 256 = n
  OBVIOUS
<1>2. WordOf(n) = <<0, 0, 0, n>>
  BY <1>1, Powers DEF WordOf
<1>3. WordOf(n) \in Word
  BY <1>2 DEF Word, Octet
<1>4. WordOf(n)[1] = 0 /\ WordOf(n)[2] = 0 /\ WordOf(n)[3] = 0 /\ WordOf(n)[4] = n
  BY <1>2
<1>5. \A bound : n < bound => Below(WordOf(n), bound)
  BY <1>4, Zenon DEF Below
<1> QED BY <1>2, <1>3, <1>5

LEMMA ZeroType == Zero \in Word
  BY WordOfType DEF Zero

LEMMA ShiftIn7Type ==
  ASSUME NEW w \in Word, NEW b \in Octet
  PROVE  ShiftIn7(w, b) \in Word
<1> DEFINE low(i) == IF i < 4 THEN w[i + 1] \div 2 ELSE b % 128
<1>1. ASSUME NEW i \in 1 .. 4 PROVE (w[i] % 2) * 128 + low(i) \in Octet
  <2>1. w[i] \in 0 .. 255 /\ b \in 0 .. 255
    BY DEF Word, Octet
  <2>2. i < 4 => w[i + 1] \in 0 .. 255
    BY DEF Word, Octet
  <2>3. w[i] % 2 \in 0 .. 1 /\ low(i) \in 0 .. 127
    BY <2>1, <2>2
  <2> HIDE DEF low
  <2>4. \A p \in 0 .. 1, q \in 0 .. 127 : p * 128 + q \in 0 .. 255
    OBVIOUS
  <2> QED BY <2>3, <2>4 DEF Octet
<1>2. ShiftIn7(w, b) = [i \in 1 .. 4 |-> (w[i] % 2) * 128 + low(i)]
  BY Powers DEF ShiftIn7
<1> QED BY <1>1, <1>2 DEF Word

\* The cut of a sequence of octets.
LEMMA CutType ==
  ASSUME NEW S, NEW s \in Seq(S), NEW a \in Nat \ {0}, NEW b \in 0 .. Len(s)
  PROVE  /\ SubSeq(s, a, b) \in Seq(S)
         /\ Len(SubSeq(s, a, b)) = IF a <= b THEN b - a + 1 ELSE 0
  BY SubSeqProperties

LEMMA ShiftInType ==
  ASSUME NEW n \in {4, 8}, NEW fill \in Octet, NEW content \in Seq(Octet), Len(content) >= 1
  PROVE  ShiftIn(n, fill, content) \in [1 .. n -> Octet]
<1> DEFINE head == [i \in 1 .. n |-> fill]
           all == head \o content
           word == SubSeq(all, Len(content) + 1, Len(content) + n)
<1>1. n \in Nat /\ Len(content) \in Nat
  OBVIOUS
<1>2. head \in Seq(Octet) /\ Len(head) = n
  BY <1>1
<1> HIDE DEF head
<1>3. all \in Seq(Octet) /\ Len(all) = n + Len(content)
  BY <1>1, <1>2, ConcatProperties
<1> HIDE DEF all
<1>4. word \in Seq(Octet) /\ Len(word) = n
  BY <1>1, <1>3, CutType
<1>5. word = ShiftIn(n, fill, content)
  BY DEF ShiftIn, all, head
<1> HIDE DEF word
<1> QED BY <1>4, <1>5, LenProperties

-----------------------------------------------------------------------------
(* Lengths and elements. *)
\* The recursion of LengthValue.
LengthWalk(field) ==
  LET value[i \in 0 .. Len(field)] == IF i = 0 THEN 0 ELSE value[i - 1] * 256 + field[i]
  IN  value

LEMMA LengthWalkIs ==
  ASSUME NEW field \in Seq(Octet)
  PROVE  /\ \A i \in 0 .. Len(field) : LengthWalk(field)[i] \in Nat
         /\ LengthWalk(field)[0] = 0
         /\ \A i \in 1 .. Len(field) : LengthWalk(field)[i] = LengthWalk(field)[i - 1] * 256 + field[i]
<1> DEFINE n == Len(field)
           F == [i \in 1 .. n |-> [v \in Nat |-> v * 256 + field[i]]]
           walk == LengthWalk(field)
           S == {i \in 0 .. n : walk[i] \in Nat}
<1>1. n \in Nat /\ \A i \in 1 .. n : field[i] \in Nat
  <2>1. Octet \subseteq Nat
    BY DEF Octet
  <2> QED BY <2>1, ElementOfSeq, LenProperties
<1>2. F \in [1 .. n -> [Nat -> Nat]]
  BY <1>1
<1>3. PICK f \in [0 .. n -> Nat] : Iterates(f, n, 0, F)
  BY <1>1, <1>2, Iterate
<1>4. f = [i \in 0 .. n |-> IF i = 0 THEN 0 ELSE f[i - 1] * 256 + field[i]]
  <2>1. ASSUME NEW i \in 1 .. n PROVE F[i][f[i - 1]] = f[i - 1] * 256 + field[i]
    <3>1. i - 1 \in 0 .. n
      BY <1>1
    <3> QED BY <3>1
  <2>2. \A i \in 0 .. n : i = 0 \/ i \in 1 .. n
    BY <1>1
  <2>3. f = [i \in 0 .. n |-> IF i = 0 THEN 0 ELSE F[i][f[i - 1]]]
    BY <1>3, Zenon DEF Iterates
  <2>4. \A i \in 0 .. n : (IF i = 0 THEN 0 ELSE F[i][f[i - 1]])
                         = IF i = 0 THEN 0 ELSE f[i - 1] * 256 + field[i]
    BY <2>1, <2>2, ZenonT(60)
  <2> HIDE DEF F
  <2> QED BY <2>3, <2>4, ZenonT(60)
<1>5. walk = [i \in 0 .. n |-> IF i = 0 THEN 0 ELSE walk[i - 1] * 256 + field[i]]
  <2> DEFINE Is(g) == g = [i \in 0 .. n |-> IF i = 0 THEN 0 ELSE g[i - 1] * 256 + field[i]]
  <2>1. Is(f)
    BY <1>4
  <2>2. walk = CHOOSE g : Is(g)
    BY Zenon DEF LengthWalk
  <2> HIDE DEF Is
  <2>3. Is(walk)
    BY <2>1, <2>2, Zenon
  <2> QED BY <2>3 DEF Is
<1> HIDE DEF walk
<1>6. 0 \in S
  BY <1>1, <1>5
<1>7. ASSUME NEW i \in 0 .. n - 1, i \in S PROVE i + 1 \in S
  <2>1. i + 1 \in 0 .. n /\ i + 1 # 0 /\ i + 1 \in 1 .. n /\ (i + 1) - 1 = i
    BY <1>1
  <2>2. walk[i + 1] = walk[i] * 256 + field[i + 1]
    BY <1>5, <2>1
  <2> QED BY <1>1, <1>7, <2>1, <2>2
<1>8. \A i \in 0 .. n : i \in S
  <2> HIDE DEF S
  <2> QED BY <1>1, <1>6, <1>7, Induct
<1>9. walk[0] = 0 /\ \A i \in 1 .. n : walk[i] = walk[i - 1] * 256 + field[i]
  <2>1. \A i \in 1 .. n : i \in 0 .. n /\ i # 0
    BY <1>1
  <2> QED BY <1>1, <1>5, <2>1
<1> QED BY <1>8, <1>9 DEF walk

LEMMA LengthValueIs ==
  ASSUME NEW field \in Seq(Octet)
  PROVE  LengthValue(field)
           = IF Len(field) = 4 /\ field[1] # 0 THEN 2^24 ELSE LengthWalk(field)[Len(field)]
  BY Zenon DEF LengthValue, LengthWalk

LEMMA LengthValueType ==
  ASSUME NEW field \in Seq(Octet)
  PROVE  LengthValue(field) \in Nat
<1>1. Len(field) \in 0 .. Len(field)
  BY LenProperties
<1>2. LengthWalk(field)[Len(field)] \in Nat
  BY <1>1, LengthWalkIs
<1> QED BY <1>2, LengthValueIs, Powers

LEMMA DecodeLengthType ==
  ASSUME NEW d \in Seq(Octet), d # <<>>
  PROVE  LET length == DecodeLength(d)
         IN  /\ length.ok \in BOOLEAN
             /\ length.ok => /\ length.value \in Nat
                             /\ length.size \in 1 .. 5 /\ length.size <= Len(d)
<1> DEFINE n == d[1] - 128
<1>1. Len(d) \in Nat /\ Len(d) >= 1 /\ d[1] \in 0 .. 255 /\ d[1] \in Nat
  <2>1. Len(d) \in Nat \ {0}
    BY EmptySeq
  <2>2. d[1] \in Octet
    BY <2>1, ElementOfSeq
  <2>3. Octet = 0 .. 255 /\ Octet \subseteq Nat
    BY DEF Octet
  <2>4. Len(d) >= 1
    BY <2>1
  <2> QED BY <2>1, <2>2, <2>3, <2>4, Zenon
<1>2. CASE d[1] < 128
  <2>1. DecodeLength(d) = [ok |-> TRUE, value |-> d[1], size |-> 1]
    BY <1>2 DEF DecodeLength
  <2>2. DecodeLength(d).ok = TRUE /\ DecodeLength(d).value = d[1] /\ DecodeLength(d).size = 1
    BY <2>1
  <2>3. 1 \in 1 .. 5 /\ 1 <= Len(d)
    BY <1>1
  <2> QED BY <1>1, <2>2, <2>3, Zenon
<1>3. CASE ~(d[1] < 128) /\ (n \notin 1 .. 4 \/ Len(d) < 1 + n)
  <2>1. DecodeLength(d) = [ok |-> FALSE]
    BY <1>3 DEF DecodeLength
  <2> QED BY <2>1
<1>4. CASE ~(d[1] < 128) /\ ~(n \notin 1 .. 4 \/ Len(d) < 1 + n)
  <2> DEFINE field == SubSeq(d, 2, 1 + n)
  <2>1. DecodeLength(d) = [ok |-> TRUE, value |-> LengthValue(field), size |-> 1 + n]
    BY <1>4 DEF DecodeLength
  <2>2. 1 + n \in 0 .. Len(d) /\ 1 + n \in 1 .. 5
    BY <1>1, <1>4
  <2>3. field \in Seq(Octet)
    BY <2>2, CutType
  <2> HIDE DEF field
  <2>4. LengthValue(field) \in Nat
    BY <2>3, LengthValueType
  <2> QED BY <2>1, <2>2, <2>4
<1> QED BY <1>2, <1>3, <1>4

\* What ber_decode_tlv fills in.
Tlvs == [ok : BOOLEAN, tag : Octet, content : Seq(Octet), rest : Seq(Octet)]

LEMMA NoTlvType == NoTlv \in Tlvs
<1>1. <<>> \in Seq(Octet) /\ 0 \in Octet
  BY DEF Octet
<1> QED BY <1>1 DEF NoTlv, Tlvs

LEMMA DecodeTlvType ==
  ASSUME NEW d \in Seq(Octet)
  PROVE  DecodeTlv(d) \in Tlvs
<1> DEFINE length == DecodeLength(Tail(d))
           header == 1 + length.size
           end == header + length.value
<1>1. CASE DecodeTlv(d) = NoTlv
  BY <1>1, NoTlvType
<1>2. CASE DecodeTlv(d) # NoTlv
  <2>1. ~(Len(d) < 2) /\ length.ok /\ ~(Len(d) < end)
    BY <1>2, Zenon DEF DecodeTlv
  <2>2. Len(d) \in Nat /\ d # <<>> /\ 1 \in 1 .. Len(d)
    BY <2>1, LenProperties
  <2>3. Tail(d) \in Seq(Octet) /\ Tail(d) # <<>>
    <3>1. Tail(d) \in Seq(Octet) /\ Len(Tail(d)) = Len(d) - 1
      BY <2>2, HeadTailProperties
    <3>2. Len(Tail(d)) # 0
      BY <2>1, <2>2, <3>1
    <3> QED BY <3>1, <3>2, EmptySeq
  <2>4. length.value \in Nat /\ length.size \in 1 .. 5
    BY <2>1, <2>3, DecodeLengthType
  <2>5. DecodeTlv(d) = [ok |-> TRUE, tag |-> d[1], content |-> SubSeq(d, header + 1, end),
                        rest |-> SubSeq(d, end + 1, Len(d))]
    BY <2>1, Zenon DEF DecodeTlv
  <2> HIDE DEF length
  <2>6. header + 1 \in Nat \ {0} /\ end + 1 \in Nat \ {0} /\ end \in 0 .. Len(d)
        /\ Len(d) \in 0 .. Len(d)
    <3>1. length.size \in Nat /\ length.value \in Nat
      BY <2>4
    <3>2. \A size, value, all \in Nat :
            ~(all < (1 + size) + value) =>
              /\ (1 + size) + 1 \in Nat \ {0} /\ ((1 + size) + value) + 1 \in Nat \ {0}
              /\ (1 + size) + value \in 0 .. all /\ all \in 0 .. all
      OBVIOUS
    <3> QED BY <2>1, <2>2, <3>1, <3>2, Zenon
  <2>7. d[1] \in Octet
    BY <2>2, ElementOfSeq
  <2> HIDE DEF header, end
  <2>8. SubSeq(d, header + 1, end) \in Seq(Octet) /\ SubSeq(d, end + 1, Len(d)) \in Seq(Octet)
    BY <2>6, CutType
  <2> QED BY <2>5, <2>7, <2>8, SMTT(30) DEF Tlvs
<1> QED BY <1>1, <1>2

LEMMA ExpectType ==
  ASSUME NEW d \in Seq(Octet), NEW tag
  PROVE  Expect(d, tag) \in Tlvs /\ (Expect(d, tag).ok => Expect(d, tag).tag = tag)
<1>1. NoTlv.ok = FALSE
  BY DEF NoTlv
<1> QED BY <1>1, DecodeTlvType, NoTlvType, Zenon DEF Expect

-----------------------------------------------------------------------------
(* Values.  What a decoder yields is typed if it is ok. *)
\* What the loop over the arcs keeps.
RootedOids == {oid \in Oids : Rooted(oid)}
ArcWalks == [ok : BOOLEAN, open : BOOLEAN, arc : Word, oid : RootedOids]

LEMMA NextArcOctetType ==
  ASSUME NEW walk \in ArcWalks, NEW b \in Octet
  PROVE  NextArcOctet(walk, b) \in ArcWalks
<1> DEFINE arc == ShiftIn7(walk.arc, b)
           final == b < 128
<1>1. walk.ok \in BOOLEAN /\ walk.open \in BOOLEAN /\ walk.arc \in Word /\ walk.oid \in RootedOids
  BY DEF ArcWalks
<1>2. arc \in Word /\ Zero \in Word
  BY <1>1, ShiftIn7Type, ZeroType
<1>3. CASE ~walk.ok \/ walk.arc[1] >= 2 \/ (final /\ Len(walk.oid) >= MaxOidLen)
  <2>1. NextArcOctet(walk, b) = [walk EXCEPT !.ok = FALSE]
    BY <1>3, Zenon DEF NextArcOctet
  <2> QED BY <2>1 DEF ArcWalks
<1>4. CASE ~(~walk.ok \/ walk.arc[1] >= 2 \/ (final /\ Len(walk.oid) >= MaxOidLen))
  <2> DEFINE oid == IF final THEN Append(walk.oid, arc) ELSE walk.oid
  <2>1. NextArcOctet(walk, b) = [ok |-> TRUE, open |-> ~final, arc |-> IF final THEN Zero ELSE arc,
                                 oid |-> oid]
    BY <1>4, Zenon DEF NextArcOctet
  <2>2. oid \in RootedOids
    <3>1. CASE final
      <4>1. walk.oid \in Seq(Word) /\ Len(walk.oid) \in 2 .. 20 /\ ~(Len(walk.oid) >= 20)
        BY <1>1, <1>4, <3>1 DEF RootedOids, Oids, MaxOidLen
      <4> HIDE DEF arc
      <4>2. Append(walk.oid, arc) \in Seq(Word) /\ Len(Append(walk.oid, arc)) = Len(walk.oid) + 1
        BY <1>2, <4>1, AppendProperties
      <4>3. Len(Append(walk.oid, arc)) \in 2 .. 20
        <5>1. \A k \in 2 .. 20 : ~(k >= 20) => k + 1 \in 2 .. 20
          OBVIOUS
        <5> QED BY <4>1, <4>2, <5>1, Zenon
      <4>4. Append(walk.oid, arc)[2] = walk.oid[2]
        <5>1. 2 \in 1 .. Len(walk.oid)
          <6>1. \A k \in 2 .. 20 : 2 \in 1 .. k
            OBVIOUS
          <6> QED BY <4>1, <6>1, Zenon
        <5> QED BY <1>2, <4>1, <5>1, AppendProperties
      <4>5. Rooted(Append(walk.oid, arc))
        BY <1>1, <4>4, Zenon DEF RootedOids, Rooted, Below
      <4> QED BY <3>1, <4>2, <4>3, <4>5 DEF RootedOids, Oids, MaxOidLen
    <3>2. CASE ~final
      BY <1>1, <3>2
    <3> QED BY <3>1, <3>2
  <2> HIDE DEF oid, arc
  <2> QED BY <1>2, <2>1, <2>2 DEF ArcWalks
<1> QED BY <1>3, <1>4

\* The loop of ber_decode_oid.
ArcWalk(content) ==
  LET first == content[1]
      walk[i \in 1 .. Len(content)] ==
        IF i = 1
        THEN [ok |-> TRUE, open |-> FALSE, arc |-> Zero,
              oid |-> <<WordOf(first \div 40), WordOf(first % 40)>>]
        ELSE NextArcOctet(walk[i - 1], content[i])
  IN  walk

ArcStart(first) ==
  [ok |-> TRUE, open |-> FALSE, arc |-> Zero, oid |-> <<WordOf(first \div 40), WordOf(first % 40)>>]

LEMMA ArcWalkIs ==
  ASSUME NEW content \in Seq(Octet), content # <<>>
  PROVE  /\ \A i \in 1 .. Len(content) : ArcWalk(content)[i] \in ArcWalks
         /\ ArcWalk(content)[1] = ArcStart(content[1])
         /\ \A i \in 2 .. Len(content) :
              ArcWalk(content)[i] = NextArcOctet(ArcWalk(content)[i - 1], content[i])
<1> DEFINE n == Len(content)
           first == content[1]
           start == ArcStart(first)
           F == [i \in 1 .. n |->
                   [w \in ArcWalks |-> IF i = 1 THEN start ELSE NextArcOctet(w, content[i])]]
<1>1. n \in Nat \ {0} /\ \A i \in 1 .. n : content[i] \in Octet
  BY EmptySeq, ElementOfSeq
<1>2. start \in ArcWalks
  <2>1. first \in 0 .. 255
    BY <1>1 DEF Octet
  <2> HIDE DEF first
  <2>2. first \div 40 \in 0 .. 255 /\ first % 40 \in 0 .. 255
    BY <2>1
  <2>3. WordOf(first \div 40) \in Word /\ WordOf(first % 40) \in Word /\ Zero \in Word
    <3>1. \A k \in 0 .. 255 : WordOf(k) \in Word
      BY WordOfType
    <3> QED BY <2>2, <3>1, ZeroType, Zenon
  <2>4. <<WordOf(first \div 40), WordOf(first % 40)>> \in RootedOids
    <3>1. first % 40 \in 0 .. 255 /\ first % 40 < 40
      BY <2>1
    <3>2. Below(WordOf(first % 40), 40)
      <4>1. \A k \in 0 .. 255 : k < 40 => Below(WordOf(k), 40)
        BY WordOfType, Zenon
      <4> QED BY <3>1, <4>1, Zenon
    <3> HIDE DEF Below
    <3> QED BY <2>3, <3>2 DEF RootedOids, Oids, MaxOidLen, Rooted
  <2> QED BY <2>3, <2>4 DEF ArcWalks, ArcStart
<1> HIDE DEF start
<1>3. F \in [1 .. n -> [ArcWalks -> ArcWalks]]
  BY <1>1, <1>2, NextArcOctetType
<1>4. PICK f \in [0 .. n -> ArcWalks] : Iterates(f, n, start, F)
  BY <1>1, <1>2, <1>3, Iterate
<1>5. ASSUME NEW i \in 1 .. n
      PROVE  f[i] = IF i = 1 THEN start ELSE NextArcOctet(f[i - 1], content[i])
  <2>1. i \in 0 .. n /\ i - 1 \in 0 .. n /\ i # 0
    BY <1>1
  <2>2. f[i] = F[i][f[i - 1]]
    BY <1>4, <2>1, Zenon DEF Iterates
  <2>3. f[i - 1] \in ArcWalks
    BY <2>1
  <2> QED BY <2>2, <2>3
<1> DEFINE g == [i \in 1 .. n |-> f[i]]
<1>6. g = [i \in 1 .. n |-> IF i = 1 THEN start ELSE NextArcOctet(g[i - 1], content[i])]
  <2>1. ASSUME NEW i \in 1 .. n
        PROVE  g[i] = IF i = 1 THEN start ELSE NextArcOctet(g[i - 1], content[i])
    <3>1. i # 1 => i - 1 \in 1 .. n
      BY <1>1
    <3> QED BY <1>5, <3>1
  <2> QED BY <2>1
<1> DEFINE walk == ArcWalk(content)
<1>7. walk = [i \in 1 .. n |-> IF i = 1 THEN start ELSE NextArcOctet(walk[i - 1], content[i])]
  <2> HIDE DEF g
  <2> QED BY <1>6, Zenon DEF ArcWalk, ArcStart, start
<1> HIDE DEF walk
<1>8. walk[1] = start /\ \A i \in 2 .. n : walk[i] = NextArcOctet(walk[i - 1], content[i])
  <2>1. 1 \in 1 .. n /\ \A i \in 2 .. n : i \in 1 .. n /\ i # 1
    BY <1>1
  <2> QED BY <1>7, <2>1
<1> DEFINE S == {i \in 1 .. n : walk[i] \in ArcWalks}
<1>9. 1 \in S
  BY <1>1, <1>2, <1>8
<1>10. ASSUME NEW i \in 2 .. n, i - 1 \in S PROVE i \in S
  <2>1. i \in 1 .. n
    BY <1>1
  <2> QED BY <1>1, <1>8, <1>10, <2>1, NextArcOctetType
<1>11. \A i \in 1 .. n : i \in S
  <2> HIDE DEF S
  <2> QED BY <1>1, <1>9, <1>10, InductFromOne
<1> QED BY <1>8, <1>11 DEF walk, start

LEMMA ArcWalkType ==
  ASSUME NEW content \in Seq(Octet), content # <<>>
  PROVE  ArcWalk(content)[Len(content)] \in ArcWalks
<1>1. Len(content) \in 1 .. Len(content)
  <2>1. Len(content) \in Nat \ {0}
    BY EmptySeq
  <2> QED BY <2>1
<1> QED BY <1>1, ArcWalkIs

LEMMA DecodeOidType ==
  ASSUME NEW tlv \in Tlvs
  PROVE  /\ DecodeOid(tlv).ok \in BOOLEAN
         /\ DecodeOid(tlv).ok => DecodeOid(tlv).value \in RootedOids
<1> DEFINE end == ArcWalk(tlv.content)[Len(tlv.content)]
<1>1. DecodeOid(tlv) = IF tlv.content # <<>> /\ end.ok /\ ~end.open THEN Yields(end.oid) ELSE Fails
  BY Zenon DEF DecodeOid, ArcWalk
<1> HIDE DEF end
<1>2. tlv.content # <<>> => end.oid \in RootedOids
  <2>1. tlv.content # <<>> => end \in ArcWalks
    BY ArcWalkType DEF Tlvs, end
  <2> QED BY <2>1 DEF ArcWalks
<1> QED BY <1>1, <1>2 DEF Yields, Fails

LEMMA TagValues ==
  /\ Tag.integer = 2 /\ Tag.oid = 6 /\ Tag.counter64 = 70
  /\ UnsignedTags = {65, 66, 67} /\ ByteTags = {4, 64, 68} /\ NullTags = {5, 128, 129, 130}
  BY DEF Tag, UnsignedTags, ByteTags, NullTags

LEMMA TagsApart ==
  ASSUME NEW tag
  PROVE  /\ tag = Tag.integer => tag \notin UnsignedTags
         /\ tag \in UnsignedTags \cup {Tag.integer} => tag # Tag.counter64
         /\ tag \in UnsignedTags \cup {Tag.integer, Tag.counter64} => tag # Tag.oid
         /\ tag \in UnsignedTags \cup {Tag.integer, Tag.counter64, Tag.oid} => tag \notin ByteTags
         /\ tag \in UnsignedTags \cup ByteTags \cup {Tag.integer, Tag.counter64, Tag.oid}
            => tag \notin NullTags
  BY TagValues

\* The values of a tag, and the choice of snmp_decode_value, one line for each
\* kind of tag.
ValuesOf(tag) ==
  CASE tag \in UnsignedTags \cup {Tag.integer} -> Word
    [] tag = Tag.counter64 -> Word64
    [] tag = Tag.oid -> Oids
    [] tag \in ByteTags -> OctetStrings
    [] tag \in NullTags -> {<<>>}
    [] OTHER -> {}

LEMMA ValuesByTag ==
  ASSUME NEW tag
  PROVE  /\ tag \in UnsignedTags \cup {Tag.integer} => ValuesOf(tag) = Word
         /\ tag = Tag.counter64 => ValuesOf(tag) = Word64
         /\ tag = Tag.oid => ValuesOf(tag) = Oids
         /\ tag \in ByteTags => ValuesOf(tag) = OctetStrings
         /\ tag \in NullTags => ValuesOf(tag) = {<<>>}
         /\ tag \in UnsignedTags \cup ByteTags \cup NullTags \cup {Tag.integer, Tag.counter64, Tag.oid}
            \/ ValuesOf(tag) = {}
<1>1. tag \in UnsignedTags \cup {Tag.integer} => ValuesOf(tag) = Word
  BY TagsApart DEF ValuesOf
<1>2. tag = Tag.counter64 => ValuesOf(tag) = Word64
  BY TagsApart DEF ValuesOf
<1>3. tag = Tag.oid => ValuesOf(tag) = Oids
  BY TagsApart DEF ValuesOf
<1>4. tag \in ByteTags => ValuesOf(tag) = OctetStrings
  BY TagsApart DEF ValuesOf
<1>5. tag \in NullTags => ValuesOf(tag) = {<<>>}
  BY TagsApart DEF ValuesOf
<1>6. tag \in UnsignedTags \cup ByteTags \cup NullTags \cup {Tag.integer, Tag.counter64, Tag.oid}
      \/ ValuesOf(tag) = {}
  BY TagsApart DEF ValuesOf
<1> QED BY <1>1, <1>2, <1>3, <1>4, <1>5, <1>6, Zenon

LEMMA VarbindsByTag ==
  ASSUME NEW oid \in Oids, NEW tag, NEW value \in ValuesOf(tag)
  PROVE  [oid |-> oid, tag |-> tag, value |-> value] \in Varbinds
<1> DEFINE vb == [oid |-> oid, tag |-> tag, value |-> value]
<1>1. CASE tag \in UnsignedTags \cup {Tag.integer}
  BY <1>1, ValuesByTag DEF Varbinds
<1>2. CASE tag = Tag.counter64
  BY <1>2, ValuesByTag DEF Varbinds
<1>3. CASE tag = Tag.oid
  BY <1>3, ValuesByTag DEF Varbinds
<1>4. CASE tag \in ByteTags
  BY <1>4, ValuesByTag DEF Varbinds
<1>5. CASE tag \in NullTags
  BY <1>5, ValuesByTag DEF Varbinds
<1> QED BY <1>1, <1>2, <1>3, <1>4, <1>5, ValuesByTag

LEMMA VarbindFields ==
  ASSUME NEW vb \in Varbinds
  PROVE  /\ vb.oid \in Oids /\ vb.value \in ValuesOf(vb.tag)
         /\ \/ vb.tag \in {Tag.integer, Tag.counter64, Tag.oid}
            \/ vb.tag \in UnsignedTags \cup ByteTags \cup NullTags
<1>1. CASE vb \in [oid : Oids, tag : UnsignedTags \cup {Tag.integer}, value : Word]
  BY <1>1, ValuesByTag
<1>2. CASE vb \in [oid : Oids, tag : {Tag.counter64}, value : Word64]
  BY <1>2, ValuesByTag
<1>3. CASE vb \in [oid : Oids, tag : {Tag.oid}, value : Oids]
  BY <1>3, ValuesByTag
<1>4. CASE vb \in [oid : Oids, tag : ByteTags, value : OctetStrings]
  BY <1>4, ValuesByTag
<1>5. CASE vb \in [oid : Oids, tag : NullTags, value : {<<>>}]
  BY <1>5, ValuesByTag
<1> QED BY <1>1, <1>2, <1>3, <1>4, <1>5 DEF Varbinds

LEMMA DecodeByTag ==
  ASSUME NEW tlv
  PROVE  /\ tlv.tag = Tag.integer => DecodeValue(tlv) = DecodeInteger(tlv)
         /\ tlv.tag \in UnsignedTags => DecodeValue(tlv) = DecodeUnsigned(tlv, 4)
         /\ tlv.tag = Tag.counter64 => DecodeValue(tlv) = DecodeUnsigned(tlv, 8)
         /\ tlv.tag = Tag.oid => DecodeValue(tlv) = DecodeOid(tlv)
         /\ tlv.tag \in ByteTags => DecodeValue(tlv) = DecodeOctets(tlv, MaxOctets)
         /\ tlv.tag \in NullTags => DecodeValue(tlv) = DecodeNull(tlv)
         /\ \/ tlv.tag \in {Tag.integer, Tag.counter64, Tag.oid}
            \/ tlv.tag \in UnsignedTags \cup ByteTags \cup NullTags
            \/ DecodeValue(tlv) = Fails
<1>1. tlv.tag = Tag.integer => DecodeValue(tlv) = DecodeInteger(tlv)
  BY TagsApart DEF DecodeValue
<1>2. tlv.tag \in UnsignedTags => DecodeValue(tlv) = DecodeUnsigned(tlv, 4)
  BY TagsApart DEF DecodeValue
<1>3. tlv.tag = Tag.counter64 => DecodeValue(tlv) = DecodeUnsigned(tlv, 8)
  BY TagsApart DEF DecodeValue
<1>4. tlv.tag = Tag.oid => DecodeValue(tlv) = DecodeOid(tlv)
  BY TagsApart DEF DecodeValue
<1>5. tlv.tag \in ByteTags => DecodeValue(tlv) = DecodeOctets(tlv, MaxOctets)
  BY TagsApart DEF DecodeValue
<1>6. tlv.tag \in NullTags => DecodeValue(tlv) = DecodeNull(tlv)
  BY TagsApart DEF DecodeValue
<1>7. \/ tlv.tag \in {Tag.integer, Tag.counter64, Tag.oid}
      \/ tlv.tag \in UnsignedTags \cup ByteTags \cup NullTags
      \/ DecodeValue(tlv) = Fails
  BY TagsApart DEF DecodeValue
<1> QED BY <1>1, <1>2, <1>3, <1>4, <1>5, <1>6, <1>7, Zenon

\* A result whose value, if there is one, is in S.
Gives(result, S) == result.ok \in BOOLEAN /\ (result.ok => result.value \in S)

LEMMA FailsGives ==
  ASSUME NEW S
  PROVE  Gives(Fails, S) /\ \A v \in S : Gives(Yields(v), S)
  BY DEF Gives, Fails, Yields

LEMMA DecodeIntegerType ==
  ASSUME NEW tlv \in Tlvs
  PROVE  Gives(DecodeInteger(tlv), Word)
<1> DEFINE fill == IF tlv.content[1] >= 128 THEN 255 ELSE 0
<1>1. CASE Len(tlv.content) \notin 1 .. 4
  BY <1>1, FailsGives, Zenon DEF DecodeInteger
<1>2. CASE Len(tlv.content) \in 1 .. 4
  <2> HIDE DEF fill
  <2>1. tlv.content \in Seq(Octet) /\ Len(tlv.content) >= 1
    <3>1. \A k \in 1 .. 4 : k >= 1
      OBVIOUS
    <3>2. tlv.content \in Seq(Octet)
      BY DEF Tlvs
    <3> QED BY <1>2, <3>1, <3>2, Zenon
  <2>2. 255 \in Octet /\ 0 \in Octet
    BY DEF Octet
  <2>3. DecodeInteger(tlv) = Yields(ShiftIn(4, fill, tlv.content))
    BY <1>2, Zenon DEF DecodeInteger, fill
  <2>4. fill \in Octet
    BY <2>2, Zenon DEF fill
  <2>5. ShiftIn(4, fill, tlv.content) \in Word
    BY <2>1, <2>4, ShiftInType DEF Word
  <2> QED BY <2>3, <2>5, FailsGives, Zenon
<1> QED BY <1>1, <1>2

LEMMA DecodeUnsignedType ==
  ASSUME NEW tlv \in Tlvs, NEW width \in {4, 8}
  PROVE  Gives(DecodeUnsigned(tlv, width), [1 .. width -> Octet])
<1>1. CASE Len(tlv.content) \notin 1 .. width + 1
  BY <1>1, FailsGives, Zenon DEF DecodeUnsigned
<1>2. CASE Len(tlv.content) \in 1 .. width + 1
  <2>1. 0 \in Octet /\ tlv.content \in Seq(Octet) /\ Len(tlv.content) >= 1
    BY <1>2 DEF Octet, Tlvs
  <2>2. DecodeUnsigned(tlv, width) = Yields(ShiftIn(width, 0, tlv.content))
    BY <1>2, Zenon DEF DecodeUnsigned
  <2>3. ShiftIn(width, 0, tlv.content) \in [1 .. width -> Octet]
    BY <2>1, ShiftInType
  <2> QED BY <2>2, <2>3, FailsGives, Zenon
<1> QED BY <1>1, <1>2

LEMMA DecodeValueType ==
  ASSUME NEW tlv \in Tlvs
  PROVE  Gives(DecodeValue(tlv), ValuesOf(tlv.tag))
<1>1. CASE tlv.tag = Tag.integer
  <2>1. Gives(DecodeValue(tlv), Word)
    BY <1>1, DecodeByTag, DecodeIntegerType, Zenon
  <2>2. ValuesOf(tlv.tag) = Word
    BY <1>1, ValuesByTag
  <2> QED BY <2>1, <2>2, Zenon
<1>2. CASE tlv.tag \in UnsignedTags
  <2>1. Gives(DecodeValue(tlv), Word)
    BY <1>2, DecodeByTag, DecodeUnsignedType DEF Word
  <2>2. ValuesOf(tlv.tag) = Word
    BY <1>2, ValuesByTag
  <2> QED BY <2>1, <2>2, Zenon
<1>3. CASE tlv.tag = Tag.counter64
  <2>1. Gives(DecodeValue(tlv), Word64)
    BY <1>3, DecodeByTag, DecodeUnsignedType DEF Word64
  <2> QED BY <1>3, <2>1, ValuesByTag, Zenon
<1>4. CASE tlv.tag = Tag.oid
  <2>1. Gives(DecodeValue(tlv), Oids)
    BY <1>4, DecodeByTag, DecodeOidType, Zenon DEF Gives, RootedOids
  <2> QED BY <1>4, <2>1, ValuesByTag, Zenon
<1>5. CASE tlv.tag \in ByteTags
  <2>1. tlv.content \in Seq(Octet)
    BY DEF Tlvs
  <2>2. Len(tlv.content) > MaxOctets \/ Len(tlv.content) <= MaxOctets
    BY <2>1, CodecAssumption
  <2>3. CASE Len(tlv.content) > MaxOctets
    <3>1. DecodeValue(tlv) = Fails
      BY <1>5, <2>3, DecodeByTag, Zenon DEF DecodeOctets
    <3> QED BY <3>1, FailsGives, Zenon
  <2>4. CASE ~(Len(tlv.content) > MaxOctets)
    <3>1. DecodeValue(tlv) = Yields(tlv.content)
      BY <1>5, <2>4, DecodeByTag, Zenon DEF DecodeOctets
    <3>2. tlv.content \in OctetStrings
      BY <2>1, <2>2, <2>4, Zenon DEF OctetStrings
    <3> QED BY <1>5, <3>1, <3>2, ValuesByTag, FailsGives, Zenon
  <2> QED BY <2>3, <2>4
<1>6. CASE tlv.tag \in NullTags
  <2>1. <<>> \in ValuesOf(tlv.tag)
    BY <1>6, ValuesByTag
  <2>2. DecodeValue(tlv) = Fails \/ DecodeValue(tlv) = Yields(<<>>)
    BY <1>6, DecodeByTag, Zenon DEF DecodeNull
  <2> QED BY <2>1, <2>2, FailsGives, Zenon
<1>7. CASE DecodeValue(tlv) = Fails
  BY <1>7, FailsGives, Zenon
<1> QED BY <1>1, <1>2, <1>3, <1>4, <1>5, <1>6, <1>7, DecodeByTag, Zenon

-----------------------------------------------------------------------------
(* Lists of varbinds. *)
RootedVarbinds ==
  {vb \in Varbinds : Rooted(vb.oid) /\ (vb.tag = Tag.oid => Rooted(vb.value))}

LEMMA DecodeVarbindType ==
  ASSUME NEW content \in Seq(Octet)
  PROVE  Gives(DecodeVarbind(content), RootedVarbinds)
<1> DEFINE name == Expect(content, Tag.oid)
           oid == DecodeOid(name)
           tlv == DecodeTlv(name.rest)
           value == DecodeValue(tlv)
           vb == [oid |-> oid.value, tag |-> tlv.tag, value |-> value.value]
<1>1. DecodeVarbind(content) = IF oid.ok /\ value.ok THEN Yields(vb) ELSE Fails
  BY Zenon DEF DecodeVarbind
<1>2. name \in Tlvs
  BY ExpectType
<1> HIDE DEF name
<1>3. Gives(oid, RootedOids)
  BY <1>2, DecodeOidType DEF Gives
<1>4. tlv \in Tlvs
  BY <1>2, DecodeTlvType DEF Tlvs
<1> HIDE DEF tlv, oid
<1>5. Gives(value, ValuesOf(tlv.tag)) /\ (tlv.tag = Tag.oid => Gives(value, RootedOids))
  BY <1>4, DecodeValueType, DecodeByTag, DecodeOidType, Zenon DEF Gives
<1> HIDE DEF value
<1>6. ASSUME oid.ok, value.ok PROVE vb \in RootedVarbinds
  <2>1. /\ oid.value \in Oids /\ value.value \in ValuesOf(tlv.tag) /\ Rooted(oid.value)
        /\ tlv.tag = Tag.oid => Rooted(value.value)
    BY <1>3, <1>5, <1>6, Zenon DEF Gives, RootedOids
  <2>2. vb \in Varbinds
    BY <2>1, VarbindsByTag
  <2>3. vb.oid = oid.value /\ vb.tag = tlv.tag /\ vb.value = value.value
    OBVIOUS
  <2> HIDE DEF vb
  <2> QED BY <2>1, <2>2, <2>3 DEF RootedVarbinds
<1> HIDE DEF vb
<1> QED BY <1>1, <1>6, FailsGives, Zenon

\* What the loop of snmp_decode_varbind_list keeps.
VarbindWalks == [rest : Seq(Octet), vbs : Seq(RootedVarbinds)]

LEMMA NextVarbindType ==
  ASSUME NEW walk \in VarbindWalks
  PROVE  /\ NextVarbind(walk) \in VarbindWalks
         /\ Len(NextVarbind(walk).vbs) \in {Len(walk.vbs), Len(walk.vbs) + 1}
<1> DEFINE element == Expect(walk.rest, Tag.sequence)
           vb == DecodeVarbind(element.content)
<1>1. walk.rest \in Seq(Octet) /\ walk.vbs \in Seq(RootedVarbinds)
  BY DEF VarbindWalks
<1>2. element \in Tlvs
  BY <1>1, ExpectType
<1>3. CASE walk.rest # <<>> /\ element.ok /\ vb.ok
  <2>1. NextVarbind(walk) = [rest |-> element.rest, vbs |-> Append(walk.vbs, vb.value)]
    BY <1>3, Zenon DEF NextVarbind
  <2> HIDE DEF element
  <2>2. vb.value \in RootedVarbinds /\ element.rest \in Seq(Octet)
    BY <1>2, <1>3, DecodeVarbindType DEF Gives, Tlvs
  <2> HIDE DEF vb
  <2>3. Append(walk.vbs, vb.value) \in Seq(RootedVarbinds)
        /\ Len(Append(walk.vbs, vb.value)) = Len(walk.vbs) + 1
    BY <1>1, <2>2, AppendProperties
  <2> QED BY <2>1, <2>2, <2>3 DEF VarbindWalks
<1>4. CASE ~(walk.rest # <<>> /\ element.ok /\ vb.ok)
  <2>1. NextVarbind(walk) = walk
    BY <1>4, Zenon DEF NextVarbind
  <2> QED BY <2>1
<1> QED BY <1>3, <1>4

VarbindWalk(d) ==
  LET walk[n \in 0 .. MaxVarbinds] ==
        IF n = 0 THEN [rest |-> d, vbs |-> <<>>] ELSE NextVarbind(walk[n - 1])
  IN  walk

LEMMA VarbindWalkIs ==
  ASSUME NEW d \in Seq(Octet)
  PROVE  /\ \A i \in 0 .. MaxVarbinds :
              VarbindWalk(d)[i] \in VarbindWalks /\ Len(VarbindWalk(d)[i].vbs) <= i
         /\ VarbindWalk(d)[0] = [rest |-> d, vbs |-> <<>>]
         /\ \A i \in 1 .. MaxVarbinds : VarbindWalk(d)[i] = NextVarbind(VarbindWalk(d)[i - 1])
<1> DEFINE N == MaxVarbinds
           start == [rest |-> d, vbs |-> <<>>]
           F == [i \in 1 .. N |-> [w \in VarbindWalks |-> NextVarbind(w)]]
           walk == VarbindWalk(d)
           S == {i \in 0 .. N : walk[i] \in VarbindWalks /\ Len(walk[i].vbs) <= i}
<1>1. N \in Nat
  BY CodecAssumption
<1>2. start \in VarbindWalks /\ Len(start.vbs) = 0
  <2>1. <<>> \in Seq(RootedVarbinds) /\ Len(<<>>) = 0
    BY EmptySeq
  <2> QED BY <2>1 DEF VarbindWalks
<1> HIDE DEF start
<1>3. F \in [1 .. N -> [VarbindWalks -> VarbindWalks]]
  BY NextVarbindType
<1>4. PICK f \in [0 .. N -> VarbindWalks] : Iterates(f, N, start, F)
  BY <1>1, <1>2, <1>3, Iterate
<1>5. f = [i \in 0 .. N |-> IF i = 0 THEN start ELSE NextVarbind(f[i - 1])]
  <2>1. ASSUME NEW i \in 1 .. N PROVE F[i][f[i - 1]] = NextVarbind(f[i - 1])
    <3>1. i - 1 \in 0 .. N
      BY <1>1
    <3> QED BY <3>1
  <2>2. \A i \in 0 .. N : i = 0 \/ i \in 1 .. N
    BY <1>1
  <2> QED BY <1>4, <2>1, <2>2 DEF Iterates
<1>6. walk = [i \in 0 .. N |-> IF i = 0 THEN start ELSE NextVarbind(walk[i - 1])]
  BY <1>5, Zenon DEF VarbindWalk, start
<1> HIDE DEF walk
<1>7. 0 \in S
  <2>1. 0 \in 0 .. N
    BY <1>1
  <2> QED BY <1>2, <1>6, <2>1
<1>8. ASSUME NEW i \in 0 .. N - 1, i \in S PROVE i + 1 \in S
  <2>1. i + 1 \in 0 .. N /\ i + 1 # 0 /\ (i + 1) - 1 = i
    BY <1>1
  <2>2. walk[i + 1] = NextVarbind(walk[i])
    BY <1>6, <2>1
  <2>3. walk[i] \in VarbindWalks /\ Len(walk[i].vbs) <= i
    BY <1>8
  <2>4. walk[i].vbs \in Seq(RootedVarbinds)
    BY <2>3 DEF VarbindWalks
  <2>5. Len(walk[i].vbs) \in Nat
    BY <2>4, LenProperties
  <2>6. walk[i + 1] \in VarbindWalks
        /\ Len(walk[i + 1].vbs) \in {Len(walk[i].vbs), Len(walk[i].vbs) + 1}
    BY <2>2, <2>3, NextVarbindType, Zenon
  <2>7. Len(walk[i + 1].vbs) <= i + 1
    BY <2>3, <2>5, <2>6, SMTT(30)
  <2> QED BY <2>1, <2>6, <2>7
<1>9. \A i \in 0 .. N : i \in S
  <2> HIDE DEF S
  <2> QED BY <1>1, <1>7, <1>8, Induct
<1>10. walk[0] = start /\ \A i \in 1 .. N : walk[i] = NextVarbind(walk[i - 1])
  <2>1. 0 \in 0 .. N /\ \A i \in 1 .. N : i \in 0 .. N /\ i # 0
    BY <1>1
  <2> QED BY <1>6, <2>1
<1> QED BY <1>9, <1>10 DEF walk, start

LEMMA VarbindWalkType ==
  ASSUME NEW d \in Seq(Octet)
  PROVE  /\ VarbindWalk(d)[MaxVarbinds] \in VarbindWalks
         /\ Len(VarbindWalk(d)[MaxVarbinds].vbs) <= MaxVarbinds
<1>1. MaxVarbinds \in 0 .. MaxVarbinds
  BY CodecAssumption
<1> QED BY <1>1, VarbindWalkIs

RootedLists == {vbs \in Seq(RootedVarbinds) : Len(vbs) <= MaxVarbinds}

LEMMA DecodeVarbindsType ==
  ASSUME NEW d \in Seq(Octet)
  PROVE  Gives(DecodeVarbinds(d), RootedLists)
<1> DEFINE end == VarbindWalk(d)[MaxVarbinds]
<1>1. DecodeVarbinds(d) = IF end.rest = <<>> THEN Yields(end.vbs) ELSE Fails
  BY Zenon DEF DecodeVarbinds, VarbindWalk
<1>2. end \in VarbindWalks /\ Len(end.vbs) <= MaxVarbinds
  BY VarbindWalkType
<1> HIDE DEF end
<1>3. end.vbs \in RootedLists
  BY <1>2 DEF RootedLists, VarbindWalks
<1> QED BY <1>1, <1>3, FailsGives, Zenon

-----------------------------------------------------------------------------
(* The envelope and the PDU. *)
LEMMA ExpectAllIs ==
  ASSUME NEW d \in Seq(Octet), NEW tags, Len(tags) \in Nat
  PROVE  LET tlv == ExpectAll(d, tags)
         IN  /\ tlv[0].rest = d
             /\ \A i \in 1 .. Len(tags) :
                  tlv[i] \in Tlvs /\ tlv[i] = Expect(tlv[i - 1].rest, tags[i])
<1> DEFINE N == Len(tags)
           start == [ok |-> TRUE, rest |-> d]
           W == {start} \cup Tlvs
           F == [i \in 1 .. N |-> [w \in W |-> Expect(w.rest, tags[i])]]
           walk == ExpectAll(d, tags)
           S == {i \in 0 .. N : walk[i] \in W}
<1>1. N \in Nat
  OBVIOUS
<1>2. start \in W /\ \A w \in W : w.rest \in Seq(Octet)
  BY DEF Tlvs
<1> HIDE DEF start
<1>3. \A w \in W : \A tag : Expect(w.rest, tag) \in Tlvs /\ Expect(w.rest, tag) \in W
  <2> HIDE DEF W
  <2>1. \A w \in W : \A tag : Expect(w.rest, tag) \in Tlvs
    BY <1>2, ExpectType
  <2> QED BY <2>1 DEF W
<1>4. F \in [1 .. N -> [W -> W]]
  <2> HIDE DEF W
  <2> QED BY <1>3
<1>5. PICK f \in [0 .. N -> W] : Iterates(f, N, start, F)
  <2> HIDE DEF W, F, N
  <2> QED BY <1>1, <1>2, <1>4, Iterate
<1> HIDE DEF W
<1>6. f = [i \in 0 .. N |-> IF i = 0 THEN start ELSE Expect(f[i - 1].rest, tags[i])]
  <2>1. ASSUME NEW i \in 1 .. N PROVE F[i][f[i - 1]] = Expect(f[i - 1].rest, tags[i])
    <3>1. i - 1 \in 0 .. N
      BY <1>1
    <3> QED BY <3>1
  <2>2. \A i \in 0 .. N : i = 0 \/ i \in 1 .. N
    BY <1>1
  <2> QED BY <1>5, <2>1, <2>2 DEF Iterates
<1>7. walk = [i \in 0 .. N |-> IF i = 0 THEN start ELSE Expect(walk[i - 1].rest, tags[i])]
  BY <1>6, Zenon DEF ExpectAll, start
<1> HIDE DEF walk
<1>8. 0 \in S
  <2>1. 0 \in 0 .. N
    BY <1>1
  <2> QED BY <1>2, <1>7, <2>1
<1>9. ASSUME NEW i \in 0 .. N - 1, i \in S PROVE i + 1 \in S
  <2>1. i + 1 \in 0 .. N /\ i + 1 # 0 /\ (i + 1) - 1 = i
    BY <1>1
  <2>2. walk[i + 1] = Expect(walk[i].rest, tags[i + 1])
    BY <1>7, <2>1
  <2> QED BY <1>3, <1>9, <2>1, <2>2
<1>10. \A i \in 0 .. N : i \in S
  <2> HIDE DEF S, N
  <2> QED BY <1>1, <1>8, <1>9, Induct
<1>11. ASSUME NEW i \in 1 .. N
       PROVE  walk[i] \in Tlvs /\ walk[i] = Expect(walk[i - 1].rest, tags[i])
  <2>1. i \in 0 .. N /\ i # 0 /\ i - 1 \in 0 .. N
    BY <1>1
  <2>2. walk[i - 1] \in W
    BY <1>10, <2>1
  <2>3. walk[i] = Expect(walk[i - 1].rest, tags[i])
    BY <1>7, <2>1
  <2> QED BY <1>3, <2>2, <2>3
<1>12. walk[0].rest = d
  <2>1. 0 \in 0 .. N
    BY <1>1
  <2>2. walk[0] = start
    BY <1>7, <2>1
  <2> QED BY <2>2 DEF start
<1> QED BY <1>11, <1>12 DEF walk

LEMMA Least ==
  ASSUME NEW S, S \subseteq Nat, S # {}
  PROVE  \E i \in S : \A j \in S : i <= j
<1>1. PICK i \in S : \A j \in S : ~(<<j, i>> \in OpToRel(<, Nat))
  BY WFMin, NatLessThanWellFounded, Zenon
<1>2. \A j \in S : ~(j < i)
  BY <1>1 DEF OpToRel
<1> QED BY <1>2

\* C sees no more than there is.
LEMMA CStringType ==
  ASSUME NEW octets \in Seq(Octet)
  PROVE  CString(octets) \in Seq(Octet) /\ Len(CString(octets)) <= Len(octets)
<1> DEFINE nuls == {i \in DOMAIN octets : octets[i] = 0}
           first == CHOOSE i \in nuls : \A j \in nuls : i <= j
           last == IF nuls = {} THEN Len(octets) ELSE first - 1
<1>1. Len(octets) \in Nat /\ nuls \subseteq 1 .. Len(octets)
  BY LenProperties
<1> HIDE DEF nuls
<1>2. nuls # {} => first \in 1 .. Len(octets)
  <2>1. ASSUME nuls # {} PROVE \E i \in nuls : \A j \in nuls : i <= j
    <3>1. nuls \subseteq Nat
      BY <1>1
    <3> QED BY <2>1, <3>1, Least
  <2>2. nuls # {} => first \in nuls
    BY <2>1
  <2> QED BY <1>1, <2>2
<1> HIDE DEF first
<1>3. last \in 0 .. Len(octets)
  BY <1>1, <1>2
<1>4. CString(octets) = SubSeq(octets, 1, last)
  BY Zenon DEF CString, last, nuls, first
<1> HIDE DEF last
<1>5. SubSeq(octets, 1, last) \in Seq(Octet)
      /\ Len(SubSeq(octets, 1, last)) = IF 1 <= last THEN last - 1 + 1 ELSE 0
  BY <1>3, CutType
<1> QED BY <1>1, <1>3, <1>4, <1>5

LEMMA DecodeCommunityType ==
  ASSUME NEW d \in Seq(Octet)
  PROVE  LET sender == DecodeCommunity(d)
         IN  /\ sender.ok \in BOOLEAN
             /\ sender.ok => /\ sender.community \in Seq(Octet) /\ sender.rest \in Seq(Octet)
                             /\ Len(sender.community) <= MaxCommunity
<1> DEFINE tags == <<Tag.integer, Tag.octets>>
           message == Expect(d, Tag.sequence)
           tlv == ExpectAll(message.content, tags)
           octets == DecodeOctets(tlv[2], MaxCommunity)
<1>1. Len(tags) = 2
  OBVIOUS
<1>2. message.content \in Seq(Octet)
  BY ExpectType DEF Tlvs
<1> HIDE DEF message, tags
<1>3. tlv[2] \in Tlvs
  BY <1>1, <1>2, ExpectAllIs
<1>4. DecodeCommunity(d) =
        IF tlv[2].ok /\ octets.ok
        THEN [ok |-> TRUE, community |-> CString(octets.value), rest |-> tlv[2].rest]
        ELSE [ok |-> FALSE]
  BY Zenon DEF DecodeCommunity, tags, message
<1> HIDE DEF tlv
<1>5. CASE tlv[2].ok /\ octets.ok
  <2> DEFINE content == tlv[2].content
  <2>1. content \in Seq(Octet) /\ tlv[2].rest \in Seq(Octet)
    BY <1>3 DEF Tlvs
  <2>2. octets = Yields(content) /\ ~(Len(content) > MaxCommunity)
    BY <1>5 DEF DecodeOctets, Fails
  <2>3. Len(content) \in Nat /\ MaxCommunity \in Nat
    BY <2>1, CodecAssumption
  <2>4. octets.value = content
    BY <2>2 DEF Yields
  <2> HIDE DEF octets, content
  <2>5. CString(content) \in Seq(Octet) /\ Len(CString(content)) <= Len(content)
    BY <2>1, CStringType
  <2>6. Len(CString(content)) \in Nat
    BY <2>5
  <2>7. Len(CString(content)) <= MaxCommunity
    BY <2>2, <2>3, <2>5, <2>6
  <2>8. DecodeCommunity(d) = [ok |-> TRUE, community |-> CString(content), rest |-> tlv[2].rest]
    BY <1>4, <1>5, <2>4
  <2> QED BY <2>1, <2>5, <2>7, <2>8
<1>6. CASE ~(tlv[2].ok /\ octets.ok)
  <2>1. DecodeCommunity(d) = [ok |-> FALSE]
    BY <1>4, <1>6, Zenon
  <2> QED BY <2>1
<1> QED BY <1>5, <1>6

LEMMA DecodeRequestPduType ==
  ASSUME NEW d \in Seq(Octet)
  PROVE  LET pdu == DecodeRequestPdu(d)
         IN  /\ pdu.ok \in BOOLEAN
             /\ pdu.ok => /\ pdu.tag \in RequestTags
                          /\ pdu.numbers \in [1 .. 3 -> Word]
                          /\ pdu.vbs \in RootedLists
<1> DEFINE tags == <<Tag.integer, Tag.integer, Tag.integer, Tag.sequence>>
           element == DecodeTlv(d)
           tlv == ExpectAll(element.content, tags)
           numbers == [f \in 1 .. 3 |-> DecodeInteger(tlv[f])]
           vbs == DecodeVarbinds(tlv[4].content)
<1>1. Len(tags) = 4
  OBVIOUS
<1>2. element.content \in Seq(Octet)
  BY DecodeTlvType DEF Tlvs
<1>3. DecodeRequestPdu(d) =
        IF tlv[4].ok THEN RequestPdu(element.tag, numbers, vbs) ELSE NoPdu
  BY Zenon DEF DecodeRequestPdu
<1> HIDE DEF element, tags
<1>4. \A i \in 1 .. 4 : tlv[i] \in Tlvs
  <2>1. Len(tags) \in Nat
    BY <1>1
  <2>2. \A i \in 1 .. Len(tags) : tlv[i] \in Tlvs
    BY <1>2, <2>1, ExpectAllIs, Zenon
  <2> QED BY <1>1, <2>2, Zenon
<1> HIDE DEF tlv
<1>5. \A f \in 1 .. 3 : Gives(numbers[f], Word)
  BY <1>4, DecodeIntegerType
<1>6. Gives(vbs, RootedLists)
  BY <1>4, DecodeVarbindsType DEF Tlvs
<1> HIDE DEF numbers, vbs
<1>7. CASE DecodeRequestPdu(d) = NoPdu
  BY <1>7 DEF NoPdu
<1>8. CASE DecodeRequestPdu(d) # NoPdu
  <2> DEFINE values == [f \in 1 .. 3 |-> numbers[f].value]
  <2>1. DecodeRequestPdu(d) = RequestPdu(element.tag, numbers, vbs)
    BY <1>3, <1>8, Zenon
  <2>2. element.tag \in RequestTags /\ (\A f \in 1 .. 3 : numbers[f].ok) /\ vbs.ok
    BY <1>8, <2>1, Zenon DEF RequestPdu
  <2>3. DecodeRequestPdu(d) = [ok |-> TRUE, tag |-> element.tag, numbers |-> values,
                               vbs |-> vbs.value]
    BY <2>1, <2>2, Zenon DEF RequestPdu
  <2>4. values \in [1 .. 3 -> Word]
    BY <1>5, <2>2 DEF Gives
  <2>5. vbs.value \in RootedLists
    BY <1>6, <2>2 DEF Gives
  <2> HIDE DEF values
  <2> QED BY <2>2, <2>3, <2>4, <2>5
<1> QED BY <1>7, <1>8

-----------------------------------------------------------------------------
(* The context, and the invariant. *)
LEMMA RootedListsType ==
  ASSUME NEW vbs \in RootedLists
  PROVE  vbs \in Lists /\ AllRooted(vbs)
<1>1. vbs \in Seq(RootedVarbinds) /\ Len(vbs) <= MaxVarbinds
  BY DEF RootedLists
<1>2. RootedVarbinds \subseteq Varbinds
  BY DEF RootedVarbinds
<1>3. vbs \in Seq(Varbinds)
  BY <1>1, <1>2, SeqMonotonic
<1>4. \A i \in DOMAIN vbs : vbs[i] \in RootedVarbinds
  BY <1>1, LenProperties, ElementOfSeq
<1>5. AllRooted(vbs)
  BY <1>4 DEF AllRooted, RootedVarbinds
<1> QED BY <1>1, <1>3, <1>5 DEF Lists

\* Every datagram, of whatever length and content, is refused or decoded into
\* a context within its arrays (snmp_message_process, process_incoming,
\* snmp_decode_request_pdu).
THEOREM IncomingFits ==
  ASSUME NEW d \in Seq(Octet)
  PROVE  Incoming(d) = Nothing \/ (Incoming(d) \in Contexts /\ AllRooted(Incoming(d).vbs))
<1> DEFINE sender == DecodeCommunity(d)
           pdu == DecodeRequestPdu(sender.rest)
           version == DecodeVersion(d)
           access == Access(sender.community)
           c == [ok |-> TRUE, version |-> version.value, community |-> sender.community,
                 access |-> access, tag |-> pdu.tag, numbers |-> pdu.numbers, vbs |-> pdu.vbs]
<1> SUFFICES ASSUME Incoming(d) # Nothing PROVE Incoming(d) \in Contexts /\ AllRooted(Incoming(d).vbs)
  OBVIOUS
<1>1. Incoming(d) = Accepted(version, sender, pdu)
  BY Zenon DEF Incoming
<1>2. /\ Supported(version) /\ sender.ok /\ access # "none" /\ pdu.ok
      /\ Incoming(d) = c
  BY <1>1, Zenon DEF Accepted
<1>3. /\ sender.community \in Seq(Octet) /\ sender.rest \in Seq(Octet)
      /\ Len(sender.community) <= MaxCommunity
  BY <1>2, DecodeCommunityType
<1> HIDE DEF sender
<1>4. pdu.tag \in RequestTags /\ pdu.numbers \in [1 .. 3 -> Word] /\ pdu.vbs \in RootedLists
  BY <1>2, <1>3, DecodeRequestPduType
<1> HIDE DEF pdu
<1>5. version.value \in {V1, V2c}
  BY <1>2, Zenon DEF Supported
<1>6. access \in {"read", "readwrite"}
  BY <1>2, Zenon DEF Access
<1> HIDE DEF access, version
<1>7. sender.community \in Communities
  BY <1>3 DEF Communities
<1>8. pdu.vbs \in Lists /\ AllRooted(pdu.vbs)
  BY <1>4, RootedListsType
<1>9. c \in Contexts /\ c.vbs = pdu.vbs
  BY <1>4, <1>5, <1>6, <1>7, <1>8 DEF Contexts
<1> QED BY <1>2, <1>8, <1>9, Zenon

\* The handler leaves a context.
Handled(c, status, index) ==
  [c EXCEPT !.tag = Tag.response, !.numbers[2] = status, !.numbers[3] = index]

Answered(c, vbs, status, index) ==
  [c EXCEPT !.tag = Tag.response, !.vbs = vbs, !.numbers[2] = status, !.numbers[3] = index]

LEMMA HandledIsContext ==
  ASSUME NEW c \in Contexts, NEW status \in Word, NEW index \in Word
  PROVE  Handled(c, status, index) \in Contexts /\ Handled(c, status, index).vbs = c.vbs
  BY DEF Contexts, Handled

LEMMA AnsweredIsContext ==
  ASSUME NEW c \in Contexts, NEW vbs \in Lists, NEW status \in Word, NEW index \in Word
  PROVE  /\ Answered(c, vbs, status, index) \in Contexts
         /\ Answered(c, vbs, status, index).vbs = vbs
  BY DEF Contexts, Answered

\* What the datagram may become on its way is still made of octets.
LEMMA ArrivalsType ==
  ASSUME NEW m \in DOMAIN Messages, NEW sent \in Seq(Octet), NEW damage,
         NEW d \in Arrivals(m, sent, damage)
  PROVE  d \in Seq(Octet)
<1>1. \/ d = sent
      \/ \E n \in 0 .. Len(sent) - 1 : d = SubSeq(sent, 1, n)
      \/ \E i \in DOMAIN sent, o \in Faults : d = [sent EXCEPT ![i] = o]
  <2>1. CASE damage = "none"
    BY <2>1 DEF Arrivals
  <2>2. CASE damage # "none" /\ m \notin Damaged
    BY <2>2 DEF Arrivals
  <2>3. CASE m \in Damaged /\ damage = "cut"
    BY <2>3 DEF Arrivals
  <2>4. CASE m \in Damaged /\ damage # "none" /\ damage # "cut"
    BY <2>4 DEF Arrivals
  <2> QED BY <2>1, <2>2, <2>3, <2>4
<1>2. ASSUME NEW n \in 0 .. Len(sent) - 1 PROVE SubSeq(sent, 1, n) \in Seq(Octet)
  <2>1. n \in 0 .. Len(sent)
    BY LenProperties
  <2> QED BY <2>1, CutType
<1>3. ASSUME NEW i \in DOMAIN sent, NEW o \in Faults PROVE [sent EXCEPT ![i] = o] \in Seq(Octet)
  <2>1. o \in Octet /\ i \in 1 .. Len(sent)
    BY WireAssumption, LenProperties
  <2> QED BY <2>1, ExceptSeq
<1> QED BY <1>1, <1>2, <1>3

-----------------------------------------------------------------------------
(* The encoder against the reference. *)
\* The recursion of FlattenSeq.
FlattenWalk(seqs) ==
  LET flatten[i \in 1 .. Len(seqs)] ==
        IF i = 1 THEN seqs[i] ELSE flatten[i - 1] \o seqs[i]
  IN  flatten

LEMMA FlattenWalkIs ==
  ASSUME NEW S, NEW seqs \in Seq(Seq(S)), seqs # <<>>
  PROVE  /\ FlattenSeq(seqs) = FlattenWalk(seqs)[Len(seqs)]
         /\ FlattenWalk(seqs)[1] = seqs[1]
         /\ \A i \in 2 .. Len(seqs) : FlattenWalk(seqs)[i] = FlattenWalk(seqs)[i - 1] \o seqs[i]
<1> DEFINE n == Len(seqs)
           flat == FlattenWalk(seqs)
           W == Seq(S)
           F == [i \in 1 .. n |-> [w \in W |-> IF i = 1 THEN seqs[1] ELSE w \o seqs[i]]]
<1>1. n \in Nat \ {0} /\ 1 \in 1 .. n /\ \A i \in 1 .. n : seqs[i] \in W
  <2>1. n \in Nat /\ n # 0
    BY EmptySeq, LenProperties
  <2>2. \A i \in 1 .. n : seqs[i] \in W
    BY ElementOfSeq
  <2> QED BY <2>1, <2>2
<1>2. \A v, w \in W : v \o w \in W
  BY ConcatProperties
<1> HIDE DEF W
<1>3. F \in [1 .. n -> [W -> W]]
  BY <1>1, <1>2
<1>4. PICK f \in [0 .. n -> W] : Iterates(f, n, seqs[1], F)
  <2> HIDE DEF F, n
  <2> QED BY <1>1, <1>3, Iterate
<1>5. ASSUME NEW i \in 1 .. n
      PROVE  f[i] \in W /\ f[i] = IF i = 1 THEN seqs[i] ELSE f[i - 1] \o seqs[i]
  <2>1. i \in 0 .. n /\ i - 1 \in 0 .. n /\ i # 0
    BY <1>1
  <2>2. f[i] = F[i][f[i - 1]]
    BY <1>4, <2>1, Zenon DEF Iterates
  <2>3. f[i - 1] \in W
    BY <2>1
  <2> QED BY <2>1, <2>2, <2>3
<1> DEFINE g == [i \in 1 .. n |-> f[i]]
<1>6. g = [i \in 1 .. n |-> IF i = 1 THEN seqs[i] ELSE g[i - 1] \o seqs[i]]
  <2>1. ASSUME NEW i \in 1 .. n
        PROVE  g[i] = IF i = 1 THEN seqs[i] ELSE g[i - 1] \o seqs[i]
    <3>1. i # 1 => i - 1 \in 1 .. n
      BY <1>1
    <3> QED BY <1>5, <3>1
  <2> QED BY <2>1
<1>7. flat = [i \in 1 .. n |-> IF i = 1 THEN seqs[i] ELSE flat[i - 1] \o seqs[i]]
  <2> HIDE DEF g
  <2> QED BY <1>6, Zenon DEF FlattenWalk
<1> HIDE DEF flat
<1>8. flat[1] = seqs[1] /\ \A i \in 2 .. n : flat[i] = flat[i - 1] \o seqs[i]
  <2>1. \A i \in 2 .. n : i \in 1 .. n /\ i # 1
    BY <1>1
  <2> QED BY <1>1, <1>7, <2>1
<1>9. FlattenSeq(seqs) = flat[n]
  BY <1>1, Zenon DEF FlattenSeq, FlattenWalk, flat
<1> QED BY <1>8, <1>9 DEF flat

LEMMA FlattenType ==
  ASSUME NEW S, NEW seqs \in Seq(Seq(S))
  PROVE  FlattenSeq(seqs) \in Seq(S)
<1> DEFINE n == Len(seqs)
           flat == FlattenWalk(seqs)
           T == {i \in 1 .. n : flat[i] \in Seq(S)}
<1>1. n \in Nat /\ \A i \in 1 .. n : seqs[i] \in Seq(S)
  BY ElementOfSeq, LenProperties
<1>2. CASE seqs = <<>>
  <2>1. n = 0
    BY <1>2, EmptySeq
  <2> QED BY <1>2, <2>1, EmptySeq, Zenon DEF FlattenSeq
<1>3. CASE seqs # <<>>
  <2>1. 1 \in 1 .. n /\ n \in 1 .. n /\ \A i \in 2 .. n : i \in 1 .. n
    <3>1. n # 0
      BY <1>3, EmptySeq
    <3> QED BY <1>1, <3>1
  <2>2. FlattenSeq(seqs) = flat[n] /\ flat[1] = seqs[1]
        /\ \A i \in 2 .. n : flat[i] = flat[i - 1] \o seqs[i]
    BY <1>3, FlattenWalkIs
  <2> HIDE DEF flat
  <2>3. 1 \in T
    BY <1>1, <2>1, <2>2
  <2>4. ASSUME NEW i \in 2 .. n, i - 1 \in T PROVE i \in T
    <3>1. i \in 1 .. n /\ seqs[i] \in Seq(S) /\ flat[i] = flat[i - 1] \o seqs[i]
      BY <1>1, <2>1, <2>2
    <3>2. flat[i - 1] \o seqs[i] \in Seq(S)
      BY <2>4, <3>1, ConcatProperties
    <3> QED BY <3>1, <3>2
  <2>5. \A i \in 1 .. n : i \in T
    <3> HIDE DEF T
    <3> QED BY <1>1, <2>3, <2>4, InductFromOne
  <2> QED BY <2>1, <2>2, <2>5
<1> QED BY <1>2, <1>3

LEMMA LengthsAgree ==
  ASSUME NEW n \in Nat
  PROVE  LengthOctets(n) = Length(n, "shortest") /\ LengthOctets(n) \in Seq(Nat)
<1>1. n \div 256 \in Nat /\ n % 256 \in Nat
  OBVIOUS
<1>2. LengthOctets(n) \in Seq(Nat)
  BY <1>1 DEF LengthOctets
<1>3. (n <= 127 <=> n < 128) /\ (n <= 255 <=> n < 256)
  OBVIOUS
<1>4. LengthOctets(n) = Length(n, "shortest")
  BY <1>3 DEF LengthOctets, Length
<1> QED BY <1>2, <1>4

LEMMA ElementsAgree ==
  ASSUME NEW tag \in Nat, NEW content \in Seq(Nat)
  PROVE  /\ EncodeTlv(tag, content) = Element(tag, content, "shortest")
         /\ EncodeTlv(tag, content) \in Seq(Nat)
<1>1. Len(content) \in Nat
  OBVIOUS
<1>2. LengthOctets(Len(content)) = Length(Len(content), "shortest")
      /\ LengthOctets(Len(content)) \in Seq(Nat)
  BY <1>1, LengthsAgree
<1>3. <<tag>> \in Seq(Nat)
  OBVIOUS
<1>4. EncodeTlv(tag, content) \in Seq(Nat)
  BY <1>2, <1>3, ConcatProperties DEF EncodeTlv
<1> QED BY <1>2, <1>4, Zenon DEF EncodeTlv, Element

LEMMA MinIs ==
  ASSUME NEW S, S \subseteq Nat, NEW n \in S, \A m \in S : n <= m
  PROVE  Min(S) = n
<1> DEFINE least == CHOOSE x \in S : \A y \in S : x =< y
<1>1. least \in S /\ \A y \in S : least =< y
  <2>1. \E x \in S : \A y \in S : x =< y
    OBVIOUS
  <2> QED BY <2>1
<1> HIDE DEF least
<1>2. least <= n /\ n <= least /\ least \in Nat /\ n \in Nat
  BY <1>1
<1>3. least = n
  BY <1>2
<1> QED BY <1>3, Zenon DEF Min, least

LEMMA OctetsAreNumbers == Seq(Octet) \subseteq Seq(Nat)
<1>1. Octet \subseteq Nat
  BY DEF Octet
<1> QED BY <1>1, SeqMonotonic

\* A word is a sequence of octets.
LEMMA WordIsSeq ==
  ASSUME NEW n \in {4, 8}, NEW w \in [1 .. n -> Octet]
  PROVE  /\ w \in Seq(Octet) /\ w \in Seq(Nat) /\ Len(w) = n
         /\ \A i \in 1 .. n : w[i] \in 0 .. 255
<1>1. n \in Nat
  OBVIOUS
<1>2. w \in Seq(Octet)
  BY <1>1
<1>3. Len(w) = n
  BY <1>1, <1>2
<1>4. Octet \subseteq Nat /\ Octet = 0 .. 255
  BY DEF Octet
<1>5. w \in Seq(Nat)
  BY <1>2, OctetsAreNumbers
<1>6. \A i \in 1 .. n : w[i] \in 0 .. 255
  BY <1>4, Zenon
<1> QED BY <1>2, <1>3, <1>5, <1>6, Zenon

LEMMA LastOctetsType ==
  ASSUME NEW w \in Seq(Nat), NEW n \in 1 .. Len(w)
  PROVE  /\ LastOctets(w, n) \in Seq(Nat) /\ Len(LastOctets(w, n)) = n
         /\ \A i \in 1 .. n : LastOctets(w, n)[i] = w[Len(w) - n + i]
<1> DEFINE a == Len(w) + 1 - n
           b == Len(w)
<1>1. a \in 1 .. b /\ b \in Nat /\ a \in Int /\ b \in Int /\ b - a + 1 = n
      /\ \A i \in 1 .. n : a + i - 1 = Len(w) - n + i
  OBVIOUS
<1>2. \A i \in a .. b : w[i] \in Nat
  BY <1>1
<1> HIDE DEF a, b
<1>3. /\ SubSeq(w, a, b) \in Seq(Nat)
      /\ Len(SubSeq(w, a, b)) = IF a <= b THEN b - a + 1 ELSE 0
      /\ \A i \in 1 .. b - a + 1 : SubSeq(w, a, b)[i] = w[a + i - 1]
  BY <1>1, <1>2, SubSeqProperties
<1>4. a <= b
  BY <1>1
<1>5. LastOctets(w, n) = SubSeq(w, a, b)
  BY Zenon DEF LastOctets, a, b
<1> QED BY <1>1, <1>3, <1>4, <1>5

\* The sign of an octet, extended.
Fill(o) == IF o >= 128 THEN 255 ELSE 0

LEMMA FillIdempotent ==
  ASSUME NEW o
  PROVE  Fill(Fill(o)) = Fill(o)
  BY DEF Fill

LEMMA RedundantIs ==
  ASSUME NEW w \in Word
  PROVE  /\ Redundant(w, 1) <=> w[1] = Fill(w[2])
         /\ Redundant(w, 2) <=> w[2] = Fill(w[3])
         /\ Redundant(w, 3) <=> w[3] = Fill(w[4])
<1>1. ASSUME NEW p, NEW q \in 0 .. 255
      PROVE  ((p = 0 /\ q < 128) \/ (p = 255 /\ q >= 128)) <=> p = Fill(q)
  BY DEF Fill
<1>2. w[2] \in 0 .. 255 /\ w[3] \in 0 .. 255 /\ w[4] \in 0 .. 255
  <2>1. \A i \in 1 .. 4 : w[i] \in 0 .. 255
    BY WordIsSeq DEF Word
  <2>2. 2 \in 1 .. 4 /\ 3 \in 1 .. 4 /\ 4 \in 1 .. 4
    OBVIOUS
  <2> QED BY <2>1, <2>2
<1>3. 1 + 1 = 2 /\ 2 + 1 = 3 /\ 3 + 1 = 4
  OBVIOUS
<1>4. Redundant(w, 1) <=> ((w[1] = 0 /\ w[2] < 128) \/ (w[1] = 255 /\ w[2] >= 128))
  BY <1>3, Zenon DEF Redundant
<1>5. Redundant(w, 2) <=> ((w[2] = 0 /\ w[3] < 128) \/ (w[2] = 255 /\ w[3] >= 128))
  BY <1>3, Zenon DEF Redundant
<1>6. Redundant(w, 3) <=> ((w[3] = 0 /\ w[4] < 128) \/ (w[3] = 255 /\ w[4] >= 128))
  BY <1>3, Zenon DEF Redundant
<1>7. Redundant(w, 1) <=> w[1] = Fill(w[2])
  <2>1. ((w[1] = 0 /\ w[2] < 128) \/ (w[1] = 255 /\ w[2] >= 128)) <=> w[1] = Fill(w[2])
    BY <1>2 DEF Fill
  <2> QED BY <2>1, <1>4, Zenon
<1>8. Redundant(w, 2) <=> w[2] = Fill(w[3])
  <2>1. ((w[2] = 0 /\ w[3] < 128) \/ (w[2] = 255 /\ w[3] >= 128)) <=> w[2] = Fill(w[3])
    BY <1>2 DEF Fill
  <2> QED BY <2>1, <1>5, Zenon
<1>9. Redundant(w, 3) <=> w[3] = Fill(w[4])
  <2>1. ((w[3] = 0 /\ w[4] < 128) \/ (w[3] = 255 /\ w[4] >= 128)) <=> w[3] = Fill(w[4])
    BY <1>2 DEF Fill
  <2> QED BY <2>1, <1>6, Zenon
<1> QED BY <1>7, <1>8, <1>9

LEMMA SignedIs ==
  ASSUME NEW w \in Word, NEW n \in 1 .. 4
  PROVE  Signed(LastOctets(w, n)) = w <=> \A i \in 1 .. 4 - n : w[i] = Fill(w[5 - n])
<1> DEFINE s == LastOctets(w, n)
           head == [i \in 1 .. 4 - n |-> Fill(w[5 - n])]
<1>1. w \in Seq(Nat) /\ Len(w) = 4 /\ \A i \in 1 .. 4 : w[i] \in 0 .. 255
  BY WordIsSeq DEF Word
<1>2. s \in Seq(Nat) /\ Len(s) = n /\ \A i \in 1 .. n : s[i] = w[4 - n + i]
  <2> HIDE DEF head
  <2>1. n \in 1 .. Len(w)
    BY <1>1
  <2>2. s \in Seq(Nat) /\ Len(s) = n /\ \A i \in 1 .. n : s[i] = w[Len(w) - n + i]
    BY <1>1, <2>1, LastOctetsType, Zenon
  <2> QED BY <1>1, <2>2, Zenon
<1>3. s[1] = w[5 - n]
  <2>1. 1 \in 1 .. n /\ 4 - n + 1 = 5 - n
    OBVIOUS
  <2> QED BY <1>2, <2>1
<1>4. head = [i \in 1 .. 4 - Len(s) |-> IF s[1] >= 128 THEN 255 ELSE 0]
  BY <1>2, <1>3, Zenon DEF Fill
<1>5. Signed(s) = head \o s
  BY <1>4, Zenon DEF Signed
<1> HIDE DEF s
<1>6. 4 - n \in Nat /\ Fill(w[5 - n]) \in Nat
  BY DEF Fill
<1>7. head \in Seq(Nat) /\ Len(head) = 4 - n /\ \A i \in 1 .. 4 - n : head[i] = Fill(w[5 - n])
  BY <1>6
<1> HIDE DEF head
<1>8. /\ head \o s \in Seq(Nat) /\ Len(head \o s) = (4 - n) + n
      /\ \A i \in 1 .. (4 - n) + n :
           (head \o s)[i] = IF i <= 4 - n THEN head[i] ELSE s[i - (4 - n)]
  <2>1. /\ head \o s \in Seq(Nat) /\ Len(head \o s) = Len(head) + Len(s)
        /\ \A i \in 1 .. Len(head) + Len(s) :
             (head \o s)[i] = IF i <= Len(head) THEN head[i] ELSE s[i - Len(head)]
    BY <1>2, <1>7, ConcatProperties, ZenonT(60)
  <2>2. Len(head) = 4 - n /\ Len(s) = n
    BY <1>2, <1>7
  <2> QED BY <2>1, <2>2
<1>9. (4 - n) + n = 4
  OBVIOUS
<1>10. \A i \in 1 .. 4 : (head \o s)[i] = IF i <= 4 - n THEN Fill(w[5 - n]) ELSE w[i]
  <2>1. ASSUME NEW i \in 1 .. 4 PROVE (head \o s)[i] = IF i <= 4 - n THEN Fill(w[5 - n]) ELSE w[i]
    <3>1. CASE i <= 4 - n
      <4>1. i \in 1 .. 4 - n
        BY <3>1
      <4> QED BY <1>7, <1>8, <1>9, <3>1, <4>1
    <3>2. CASE ~(i <= 4 - n)
      <4>1. i - (4 - n) \in 1 .. n /\ 4 - n + (i - (4 - n)) = i
        BY <3>2
      <4>2. (head \o s)[i] = s[i - (4 - n)]
        BY <1>8, <1>9, <3>2
      <4>3. s[i - (4 - n)] = w[i]
        BY <1>2, <4>1
      <4> QED BY <3>2, <4>2, <4>3
    <3> QED BY <3>1, <3>2
  <2> QED BY <2>1
<1>11. head \o s = w <=> \A i \in 1 .. 4 : (head \o s)[i] = w[i]
  <2>1. ASSUME \A i \in 1 .. 4 : (head \o s)[i] = w[i] PROVE head \o s = w
    <3>1. head \o s \in Seq(Nat) /\ w \in Seq(Nat)
      BY <1>1, <1>8
    <3>2. Len(head \o s) = 4 /\ Len(w) = 4
      BY <1>1, <1>8, <1>9
    <3>3. Len(head \o s) = Len(w) /\ \A i \in 1 .. Len(head \o s) : (head \o s)[i] = w[i]
      BY <2>1, <3>2
    <3> QED BY <3>1, <3>3, SeqEqual, Zenon
  <2> QED BY <2>1, Zenon
<1>12. (\A i \in 1 .. 4 : (head \o s)[i] = w[i]) <=> \A i \in 1 .. 4 - n : w[i] = Fill(w[5 - n])
  <2>1. \A i \in 1 .. 4 : i \in 1 .. 4 - n <=> i <= 4 - n
    OBVIOUS
  <2>2. 1 .. 4 - n \subseteq 1 .. 4
    OBVIOUS
  <2> QED BY <1>10, <2>1, <2>2
<1> QED BY <1>5, <1>11, <1>12, Zenon DEF s

\* The loop over the redundant octets stops.
LEMMA IntegerStartIs ==
  ASSUME NEW w
  PROVE  /\ IntegerStart(w) \in 1 .. 4
         /\ \A i \in 1 .. IntegerStart(w) - 1 : Redundant(w, i)
         /\ IntegerStart(w) < 4 => ~Redundant(w, IntegerStart(w))
<1> DEFINE Starts(s) == /\ \A i \in 1 .. s - 1 : Redundant(w, i)
                        /\ s < 4 => ~Redundant(w, s)
           start == IntegerStart(w)
<1>1. \E s \in 1 .. 4 : Starts(s)
  <2>1. CASE ~Redundant(w, 1)
    <3>1. Starts(1)
      BY <2>1
    <3> QED BY <3>1
  <2>2. CASE Redundant(w, 1) /\ ~Redundant(w, 2)
    <3>1. Starts(2)
      <4>1. \A i \in 1 .. 2 - 1 : i = 1
        OBVIOUS
      <4> QED BY <2>2, <4>1
    <3> QED BY <3>1
  <2>3. CASE Redundant(w, 1) /\ Redundant(w, 2) /\ ~Redundant(w, 3)
    <3>1. Starts(3)
      <4>1. \A i \in 1 .. 3 - 1 : i = 1 \/ i = 2
        OBVIOUS
      <4> QED BY <2>3, <4>1
    <3> QED BY <3>1
  <2>4. CASE Redundant(w, 1) /\ Redundant(w, 2) /\ Redundant(w, 3)
    <3>1. Starts(4)
      <4>1. \A i \in 1 .. 4 - 1 : i = 1 \/ i = 2 \/ i = 3
        OBVIOUS
      <4> QED BY <2>4, <4>1
    <3> QED BY <3>1
  <2> QED BY <2>1, <2>2, <2>3, <2>4
<1>2. start = CHOOSE s \in 1 .. 4 : Starts(s)
  BY Zenon DEF IntegerStart
<1>3. start \in 1 .. 4 /\ Starts(start)
  <2> HIDE DEF Starts, start
  <2> QED BY <1>1, <1>2
<1> QED BY <1>3

LEMMA IntegersAgree ==
  ASSUME NEW w \in Word
  PROVE  /\ IntegerContent(w) = ShortestSigned(w)
         /\ IntegerContent(w) \in Seq(Nat)
<1> DEFINE Starts(s) == /\ \A i \in 1 .. s - 1 : Redundant(w, i)
                        /\ s < 4 => ~Redundant(w, s)
           start == IntegerStart(w)
           n == 5 - start
           S == {k \in 1 .. 4 : Signed(LastOctets(w, k)) = w}
<1>1. w \in Seq(Nat) /\ Len(w) = 4
      /\ w[1] \in 0 .. 255 /\ w[2] \in 0 .. 255 /\ w[3] \in 0 .. 255 /\ w[4] \in 0 .. 255
  <2>1. w \in Seq(Nat) /\ Len(w) = 4 /\ \A i \in 1 .. 4 : w[i] \in 0 .. 255
    BY WordIsSeq DEF Word
  <2>2. 1 \in 1 .. 4 /\ 2 \in 1 .. 4 /\ 3 \in 1 .. 4 /\ 4 \in 1 .. 4
    OBVIOUS
  <2> QED BY <2>1, <2>2
<1>2. start \in 1 .. 4 /\ Starts(start)
  BY IntegerStartIs
<1> HIDE DEF start
<1>3. n \in S
  <2>1. \A i \in 1 .. start - 1 : w[i] = Fill(w[start])
    <3>1. CASE start = 1
      BY <3>1
    <3>2. CASE start = 2
      <4>1. 1 \in 1 .. start - 1 /\ \A i \in 1 .. start - 1 : i = 1
        BY <3>2
      <4>2. Redundant(w, 1)
        BY <1>2, <4>1
      <4>3. w[1] = Fill(w[2])
        BY <4>2, RedundantIs
      <4> QED BY <3>2, <4>1, <4>3, Zenon
    <3>3. CASE start = 3
      <4>1. 1 \in 1 .. start - 1 /\ 2 \in 1 .. start - 1
            /\ \A i \in 1 .. start - 1 : i = 1 \/ i = 2
        BY <3>3
      <4>2. Redundant(w, 1) /\ Redundant(w, 2)
        BY <1>2, <4>1
      <4>3. w[2] = Fill(w[3]) /\ w[1] = Fill(w[3])
        BY <4>2, RedundantIs, FillIdempotent, Zenon
      <4> QED BY <3>3, <4>1, <4>3, Zenon
    <3>4. CASE start = 4
      <4>1. 1 \in 1 .. start - 1 /\ 2 \in 1 .. start - 1 /\ 3 \in 1 .. start - 1
            /\ \A i \in 1 .. start - 1 : i = 1 \/ i = 2 \/ i = 3
        BY <3>4
      <4>2. Redundant(w, 1) /\ Redundant(w, 2) /\ Redundant(w, 3)
        BY <1>2, <4>1
      <4>3. w[3] = Fill(w[4]) /\ w[2] = Fill(w[4]) /\ w[1] = Fill(w[4])
        BY <4>2, RedundantIs, FillIdempotent, ZenonT(60)
      <4> QED BY <3>4, <4>1, <4>3, Zenon
    <3> QED BY <1>2, <3>1, <3>2, <3>3, <3>4
  <2>2. n \in 1 .. 4 /\ 4 - n = start - 1 /\ 5 - n = start
    BY <1>2
  <2>3. Signed(LastOctets(w, n)) = w
    BY <2>1, <2>2, SignedIs
  <2> QED BY <2>2, <2>3
<1>4. ASSUME NEW k \in S PROVE n <= k
  <2> SUFFICES ASSUME k < n PROVE FALSE
    BY <1>2
  <2> DEFINE t == 5 - k
  <2>1. k \in 1 .. 4 /\ t \in 2 .. 4 /\ start < t /\ 4 - k = t - 1 /\ start < 4
        /\ start \in 1 .. t - 1 /\ (start + 1 = t \/ start + 1 \in 1 .. t - 1)
        /\ start + 1 \in 1 .. 4
    BY <1>2
  <2>2. \A i \in 1 .. t - 1 : w[i] = Fill(w[t])
    BY <2>1, SignedIs
  <2>3. w[start] = Fill(w[t]) /\ (start + 1 = t \/ w[start + 1] = Fill(w[t]))
    BY <2>1, <2>2
  <2> HIDE DEF t
  <2>4. w[start + 1] \in 0 .. 255
    BY WordIsSeq, <2>1 DEF Word
  <2>5. Redundant(w, start)
    BY <2>3, <2>4 DEF Redundant, Fill
  <2> QED BY <1>2, <2>1, <2>5
<1>5. Min(S) = n
  <2>1. S \subseteq Nat
    OBVIOUS
  <2> HIDE DEF S
  <2> QED BY <1>3, <1>4, <2>1, MinIs
<1>6. ShortestSigned(w) = LastOctets(w, n)
  BY <1>5, Zenon DEF ShortestSigned, S
<1>7. LastOctets(w, n) = SubSeq(w, start, 4)
  <2>1. Len(w) + 1 - n = start
    BY <1>1, <1>2
  <2> QED BY <1>1, <2>1 DEF LastOctets
<1>8. LastOctets(w, n) \in Seq(Nat)
  <2>1. n \in 1 .. Len(w)
    BY <1>1, <1>2
  <2> QED BY <1>1, <2>1, LastOctetsType
<1> QED BY <1>6, <1>7, <1>8, Zenon DEF IntegerContent, start


LEMMA OctetBelow == \A o \in 0 .. 255 : (o >= 128 <=> ~(o < 128)) /\ (o = 0 => o < 128)
  OBVIOUS

\* The leading zero octets that are dropped end where the code's loop does.
LEMMA UnsignedStartIs ==
  ASSUME NEW n \in {4, 8}, NEW w \in [1 .. n -> Octet]
  PROVE  /\ UnsignedStart(w) \in 1 .. n
         /\ \A i \in 1 .. UnsignedStart(w) - 1 : w[i] = 0 /\ w[i + 1] < 128
         /\ UnsignedStart(w) < n => w[UnsignedStart(w)] # 0 \/ w[UnsignedStart(w) + 1] >= 128
<1> DEFINE Stops(s) == /\ \A i \in 1 .. s - 1 : w[i] = 0 /\ w[i + 1] < 128
                       /\ s < n => w[s] # 0 \/ w[s + 1] >= 128
           P == {s \in 1 .. n : s < n => w[s] # 0 \/ w[s + 1] >= 128}
           start == UnsignedStart(w)
<1>0. n \in Nat /\ n > 0
  OBVIOUS
<1>1. Len(w) = n /\ n \in Nat /\ \A i \in 1 .. n : w[i] \in 0 .. 255
  BY <1>0, WordIsSeq, ZenonT(60)
<1>2. \E s \in 1 .. n : Stops(s)
  <2>1. n \in P /\ P \subseteq Nat
    OBVIOUS
  <2> HIDE DEF P
  <2>2. PICK s \in P : \A t \in P : s <= t
    BY <2>1, Least
  <2> USE DEF P
  <2>3. s \in 1 .. n /\ (s < n => w[s] # 0 \/ w[s + 1] >= 128)
    BY <2>2
  <2>4. ASSUME NEW i \in 1 .. s - 1 PROVE w[i] = 0 /\ w[i + 1] < 128
    <3>1. i \in 1 .. n /\ i < s /\ i < n /\ i + 1 \in 1 .. n
      BY <2>3
    <3>2. i \notin P
      BY <2>2, <3>1
    <3>3. w[i] = 0 /\ ~(w[i + 1] >= 128)
      BY <3>1, <3>2
    <3>4. w[i + 1] \in 0 .. 255
      BY <1>1, <3>1
    <3> QED BY <3>3, <3>4, OctetBelow, Zenon
  <2>5. Stops(s)
    BY <2>3, <2>4
  <2> QED BY <2>3, <2>5
<1>3. start = CHOOSE s \in 1 .. n : Stops(s)
  BY <1>1, Zenon DEF UnsignedStart
<1> HIDE DEF start, Stops
<1>4. start \in 1 .. n /\ Stops(start)
  BY <1>2, <1>3
<1> QED BY <1>4 DEF Stops, start

LEMMA UnsignedsAgree ==
  ASSUME NEW n \in {4, 8}, NEW w \in [1 .. n -> Octet]
  PROVE  /\ UnsignedContent(w) = ShortestPositive(w)
         /\ UnsignedContent(w) \in Seq(Nat)
<1> DEFINE start == UnsignedStart(w)
           positive == <<0>> \o w
           Fits(k) == /\ LastOctets(positive, k)[1] < 128
                      /\ \A i \in 1 .. Len(positive) - k : positive[i] = 0
           S == {k \in 1 .. Len(positive) : Fits(k)}
<1>0. n \in Nat /\ n > 0
  OBVIOUS
<1>1. w \in Seq(Nat) /\ Len(w) = n /\ n \in Nat /\ n > 0 /\ \A i \in 1 .. n : w[i] \in 0 .. 255
  BY <1>0, WordIsSeq, ZenonT(60)
<1>2. /\ start \in 1 .. n
      /\ \A i \in 1 .. start - 1 : w[i] = 0 /\ w[i + 1] < 128
      /\ start < n => w[start] # 0 \/ w[start + 1] >= 128
  BY UnsignedStartIs
<1>3. UnsignedContent(w) = (IF w[start] >= 128 THEN <<0>> ELSE <<>>) \o SubSeq(w, start, n)
  BY <1>1, Zenon DEF UnsignedContent
<1> HIDE DEF start
<1>4. /\ positive \in Seq(Nat) /\ Len(positive) = n + 1 /\ positive[1] = 0
      /\ \A i \in 2 .. n + 1 : positive[i] = w[i - 1]
  <2>1. <<0>> \in Seq(Nat) /\ Len(<<0>>) = 1 /\ <<0>>[1] = 0
    OBVIOUS
  <2>2. /\ positive \in Seq(Nat) /\ Len(positive) = 1 + n
        /\ \A i \in 1 .. 1 + n : positive[i] = IF i <= 1 THEN <<0>>[i] ELSE w[i - 1]
    BY <1>1, <2>1, ConcatProperties
  <2> HIDE DEF positive
  <2> QED BY <1>1, <2>1, <2>2
<1>5. ShortestPositive(w) = LastOctets(positive, Min(S))
  BY Zenon DEF ShortestPositive
<1> HIDE DEF positive
<1>6. ASSUME NEW k \in 1 .. n + 1 PROVE LastOctets(positive, k)[1] = positive[n + 2 - k]
  <2>1. 1 \in 1 .. k /\ n + 1 - k + 1 = n + 2 - k
    BY <1>1
  <2>2. LastOctets(positive, k)[1] = positive[Len(positive) - k + 1]
    <3>1. k \in 1 .. Len(positive)
      BY <1>4
    <3> QED BY <1>4, <2>1, <3>1, LastOctetsType, Zenon
  <2>3. Len(positive) = n + 1
    BY <1>4
  <2> QED BY <2>1, <2>2, <2>3
<1>7. S \subseteq Nat
  BY <1>4
<1>8. ASSUME NEW k \in S
      PROVE  k \in 1 .. n + 1 /\ positive[n + 2 - k] < 128
             /\ \A i \in 1 .. n + 1 - k : positive[i] = 0
  BY <1>4, <1>6
<1>9. ASSUME NEW k \in 1 .. n + 1, positive[n + 2 - k] < 128,
             \A i \in 1 .. n + 1 - k : positive[i] = 0
      PROVE  k \in S
  BY <1>4, <1>6, <1>9, SMTT(30)
<1> HIDE DEF S
<1>10. CASE w[start] >= 128
  <2>1. start = 1
    <3> SUFFICES ASSUME start # 1 PROVE FALSE
      OBVIOUS
    <3>1. start - 1 \in 1 .. start - 1 /\ (start - 1) + 1 = start /\ start \in 1 .. n
      BY <1>2
    <3>2. w[start] < 128
      BY <1>2, <3>1
    <3> QED BY <1>1, <1>10, <3>1, <3>2
  <2>2. n + 1 \in S
    <3>1. n + 1 \in 1 .. n + 1 /\ n + 2 - (n + 1) = 1 /\ 1 .. n + 1 - (n + 1) = {}
      BY <1>1
    <3> QED BY <1>4, <1>9, <3>1
  <2>3. ASSUME NEW k \in S PROVE n + 1 <= k
    <3> SUFFICES ASSUME k <= n PROVE FALSE
      BY <1>1, <1>8
    <3>1. positive[2] = w[1]
      BY <1>1, <1>4
    <3>2. ~(w[1] < 128) /\ w[1] # 0
      <4>1. w[1] \in 0 .. 255 /\ w[1] >= 128
        BY <1>1, <1>10, <2>1
      <4> QED BY <4>1, OctetBelow, Zenon
    <3>3. CASE k = n
      <4>1. n + 2 - k = 2
        BY <1>1, <3>3
      <4> QED BY <1>8, <3>1, <3>2, <4>1
    <3>4. CASE k # n
      <4>1. 2 \in 1 .. n + 1 - k
        BY <1>1, <1>8, <3>4
      <4> QED BY <1>8, <3>1, <3>2, <4>1
    <3> QED BY <3>3, <3>4
  <2>4. Min(S) = n + 1
    BY <1>7, <2>2, <2>3, MinIs
  <2>5. LastOctets(positive, n + 1) = positive
    <3>1. Len(positive) + 1 - (n + 1) = 1 /\ Len(positive) = n + 1
      BY <1>1, <1>4
    <3>2. SubSeq(positive, 1, n + 1) = positive
      BY <1>4, <3>1
    <3> QED BY <3>1, <3>2, Zenon DEF LastOctets
  <2>6. SubSeq(w, start, n) = w
    BY <1>1, <2>1
  <2>7. UnsignedContent(w) = positive
    BY <1>3, <1>10, <2>6, Zenon DEF positive
  <2> QED BY <1>4, <1>5, <2>4, <2>5, <2>7, Zenon
<1>11. CASE ~(w[start] >= 128)
  <2> DEFINE last == n + 1 - start
  <2>1. last \in 1 .. n + 1 /\ last \in 1 .. n /\ n + 2 - last = start + 1
        /\ n + 1 - last = start /\ start + 1 \in 2 .. n + 1 /\ (start + 1) - 1 = start
        /\ last \in Nat /\ n + 1 - start = last
    BY <1>1, <1>2
  <2> HIDE DEF last
  <2>2. last \in S
    <3>1. positive[start + 1] < 128
      <4>1. w[start] \in 0 .. 255
        BY <1>1, <1>2
      <4>2. positive[start + 1] = w[start]
        BY <1>4, <2>1
      <4> QED BY <1>11, <4>1, <4>2, OctetBelow, Zenon
    <3>2. ASSUME NEW i \in 1 .. start PROVE positive[i] = 0
      <4>1. CASE i = 1
        BY <1>4, <4>1
      <4>2. CASE i # 1
        <5>1. i \in 2 .. n + 1 /\ i - 1 \in 1 .. start - 1
          BY <1>1, <1>2, <4>2
        <5> QED BY <1>2, <1>4, <5>1
      <4> QED BY <4>1, <4>2
    <3>3. positive[n + 2 - last] < 128 /\ \A i \in 1 .. n + 1 - last : positive[i] = 0
      BY <2>1, <3>1, <3>2
    <3> QED BY <1>9, <2>1, <3>3
  <2>3. ASSUME NEW k \in S PROVE last <= k
    <3> SUFFICES ASSUME k < last PROVE FALSE
      BY <1>8, <2>1
    <3>1. start < n /\ start + 1 \in 1 .. n + 1 - k /\ start + 2 \in 2 .. n + 1
          /\ (start + 2) - 1 = start + 1 /\ start + 1 \in 1 .. n
          /\ (start + 2 \in 1 .. n + 1 - k \/ start + 2 = n + 2 - k)
      <4>1. k \in 1 .. n + 1
        BY <1>8
      <4>2. n \in Nat /\ start \in 1 .. n
        BY <1>1, <1>2
      <4>3. k < n + 1 - start
        BY <2>1
      <4> QED BY <4>1, <4>2, <4>3
    <3>2. w[start] = 0
      BY <1>4, <1>8, <2>1, <3>1
    <3>3. w[start + 1] >= 128 /\ w[start + 1] \in 0 .. 255
      BY <1>1, <1>2, <3>1, <3>2, SMTT(30)
    <3>4. positive[start + 2] = w[start + 1]
      BY <1>4, <3>1
    <3>5. positive[start + 2] = 0 \/ positive[start + 2] < 128
      BY <1>8, <3>1
    <3>6. w[start + 1] < 128
      BY <3>4, <3>5
    <3> QED BY <3>3, <3>6, OctetBelow, Zenon
  <2>4. Min(S) = last
    BY <1>7, <2>2, <2>3, MinIs
  <2>5. LastOctets(positive, last) = SubSeq(w, start, n)
    <3>1. /\ LastOctets(positive, last) \in Seq(Nat) /\ Len(LastOctets(positive, last)) = last
          /\ \A i \in 1 .. last :
               LastOctets(positive, last)[i] = positive[Len(positive) - last + i]
      <4>1. last \in 1 .. Len(positive)
        BY <1>4, <2>1
      <4> QED BY <1>4, <4>1, LastOctetsType, Zenon
    <3>2. /\ LastOctets(w, last) \in Seq(Nat) /\ Len(LastOctets(w, last)) = last
          /\ \A i \in 1 .. last : LastOctets(w, last)[i] = w[Len(w) - last + i]
      <4>1. last \in 1 .. Len(w)
        BY <1>1, <2>1
      <4> QED BY <1>1, <4>1, LastOctetsType, Zenon
    <3>3. ASSUME NEW i \in 1 .. last
          PROVE  positive[Len(positive) - last + i] = w[Len(w) - last + i]
      <4>1. Len(positive) - last + i \in 2 .. n + 1
            /\ (Len(positive) - last + i) - 1 = Len(w) - last + i
        BY <1>1, <1>4, <2>1
      <4> QED BY <1>4, <4>1
    <3>4. LastOctets(positive, last) = LastOctets(w, last)
      <4>1. Len(LastOctets(positive, last)) = Len(LastOctets(w, last))
            /\ \A i \in 1 .. Len(LastOctets(positive, last)) :
                 LastOctets(positive, last)[i] = LastOctets(w, last)[i]
        BY <3>1, <3>2, <3>3
      <4> QED BY <3>1, <3>2, <4>1, SeqEqual, Zenon
    <3>5. Len(w) + 1 - last = start
      BY <1>1, <1>2, <2>1
    <3>6. LastOctets(w, last) = SubSeq(w, start, n)
      BY <1>1, <3>5, Zenon DEF LastOctets
    <3> QED BY <3>4, <3>6
  <2>6. LastOctets(positive, last) \in Seq(Nat)
    BY <1>4, <2>1, LastOctetsType
  <2>7. <<>> \o SubSeq(w, start, n) = SubSeq(w, start, n)
    BY <2>5, <2>6
  <2> QED BY <1>3, <1>5, <1>11, <2>4, <2>5, <2>6, <2>7, Zenon
<1> QED BY <1>10, <1>11

\* The word whose groups of seven bits these are, the most significant first.
Regroup(a, b, c, d, e) ==
  <<b \div 8 + 16 * a, c \div 4 + 32 * (b % 8), d \div 2 + 64 * (c % 4), e + 128 * (d % 2)>>

SevenBits == 0 .. 127

\* The arithmetic of the groups of two neighbouring octets, and back.
LEMMA Splits1 ==
  ASSUME NEW p \in 0 .. 255, NEW q \in 0 .. 255
  PROVE  (p % 16) * 8 + q \div 32 \in 0 .. 127
  OBVIOUS

LEMMA Splits2 ==
  ASSUME NEW p \in 0 .. 255, NEW q \in 0 .. 255
  PROVE  (p % 32) * 4 + q \div 64 \in 0 .. 127
  OBVIOUS

LEMMA Splits3 ==
  ASSUME NEW p \in 0 .. 255, NEW q \in 0 .. 255
  PROVE  (p % 64) * 2 + q \div 128 \in 0 .. 127
  OBVIOUS

LEMMA Ends ==
  ASSUME NEW p \in 0 .. 255
  PROVE  /\ p \div 16 \in 0 .. 15 /\ p % 128 \in 0 .. 127
         /\ (p % 128) + 128 * (p \div 128) = p
  OBVIOUS

LEMMA Joins1 ==
  ASSUME NEW p \in 0 .. 255, NEW q \in 0 .. 255
  PROVE  ((p % 16) * 8 + q \div 32) \div 8 + 16 * (p \div 16) = p
  OBVIOUS

LEMMA Joins2 ==
  ASSUME NEW p \in 0 .. 255, NEW q \in 0 .. 255
  PROVE  ((p % 32) * 4 + q \div 64) \div 4 + 32 * (p \div 32) = p
  OBVIOUS

LEMMA Joins3 ==
  ASSUME NEW p \in 0 .. 255, NEW q \in 0 .. 255
  PROVE  ((p % 64) * 2 + q \div 128) \div 2 + 64 * (p \div 64) = p
  OBVIOUS

LEMMA Joins4 ==
  ASSUME NEW p \in 0 .. 255, NEW q \in 0 .. 255
  PROVE  ((p % 16) * 8 + q \div 32) % 8 = q \div 32
  OBVIOUS

LEMMA Joins5 ==
  ASSUME NEW p \in 0 .. 255, NEW q \in 0 .. 255
  PROVE  ((p % 32) * 4 + q \div 64) % 4 = q \div 64
  OBVIOUS

LEMMA Joins6 ==
  ASSUME NEW p \in 0 .. 255, NEW q \in 0 .. 255
  PROVE  ((p % 64) * 2 + q \div 128) % 2 = q \div 128
  OBVIOUS

LEMMA WordOctets ==
  ASSUME NEW w \in Word
  PROVE  /\ w[1] \in 0 .. 255 /\ w[2] \in 0 .. 255 /\ w[3] \in 0 .. 255 /\ w[4] \in 0 .. 255
         /\ w = <<w[1], w[2], w[3], w[4]>>
<1>1. \A i \in 1 .. 4 : w[i] \in 0 .. 255
  BY WordIsSeq DEF Word
<1>2. 1 \in 1 .. 4 /\ 2 \in 1 .. 4 /\ 3 \in 1 .. 4 /\ 4 \in 1 .. 4
  OBVIOUS
<1>3. w = <<w[1], w[2], w[3], w[4]>>
  BY DEF Word
<1> QED BY <1>1, <1>2, <1>3, ZenonT(60)

LEMMA GroupsType ==
  ASSUME NEW w \in Word
  PROVE  /\ Groups(w) \in [1 .. 5 -> SevenBits]
         /\ Groups(w)[1] \in 0 .. 15
<1> DEFINE a == w[1] \div 16
           b == (w[1] % 16) * 8 + w[2] \div 32
           c == (w[2] % 32) * 4 + w[3] \div 64
           d == (w[3] % 64) * 2 + w[4] \div 128
           e == w[4] % 128
<1>1. Groups(w) = <<a, b, c, d, e>>
  BY Zenon DEF Groups
<1>2. a \in 0 .. 15
  BY WordOctets, Ends, Zenon
<1>3. b \in 0 .. 127
  BY WordOctets, Splits1, ZenonT(60)
<1>4. c \in 0 .. 127
  BY WordOctets, Splits2, ZenonT(60)
<1>5. d \in 0 .. 127
  BY WordOctets, Splits3, ZenonT(60)
<1>6. e \in 0 .. 127
  BY WordOctets, Ends, ZenonT(60)
<1> HIDE DEF a, b, c, d, e
<1>7. a \in 0 .. 127
  BY <1>2
<1> QED BY <1>1, <1>2, <1>3, <1>4, <1>5, <1>6, <1>7 DEF SevenBits

LEMMA RegroupGroups ==
  ASSUME NEW w \in Word
  PROVE  w = Regroup(Groups(w)[1], Groups(w)[2], Groups(w)[3], Groups(w)[4], Groups(w)[5])
<1>1. /\ Groups(w)[1] = w[1] \div 16
      /\ Groups(w)[2] = (w[1] % 16) * 8 + w[2] \div 32
      /\ Groups(w)[3] = (w[2] % 32) * 4 + w[3] \div 64
      /\ Groups(w)[4] = (w[3] % 64) * 2 + w[4] \div 128
      /\ Groups(w)[5] = w[4] % 128
  BY DEF Groups
<1>2. ((w[1] % 16) * 8 + w[2] \div 32) \div 8 + 16 * (w[1] \div 16) = w[1]
  BY WordOctets, Joins1, ZenonT(60)
<1>3. ((w[2] % 32) * 4 + w[3] \div 64) \div 4
        + 32 * (((w[1] % 16) * 8 + w[2] \div 32) % 8) = w[2]
  <2>1. ((w[2] % 32) * 4 + w[3] \div 64) \div 4 + 32 * (w[2] \div 32) = w[2]
    BY WordOctets, Joins2, ZenonT(60)
  <2>2. ((w[1] % 16) * 8 + w[2] \div 32) % 8 = w[2] \div 32
    BY WordOctets, Joins4, ZenonT(60)
  <2> QED BY <2>1, <2>2, Zenon
<1>4. ((w[3] % 64) * 2 + w[4] \div 128) \div 2
        + 64 * (((w[2] % 32) * 4 + w[3] \div 64) % 4) = w[3]
  <2>1. ((w[3] % 64) * 2 + w[4] \div 128) \div 2 + 64 * (w[3] \div 64) = w[3]
    BY WordOctets, Joins3, ZenonT(60)
  <2>2. ((w[2] % 32) * 4 + w[3] \div 64) % 4 = w[3] \div 64
    BY WordOctets, Joins5, ZenonT(60)
  <2> QED BY <2>1, <2>2, Zenon
<1>5. (w[4] % 128) + 128 * (((w[3] % 64) * 2 + w[4] \div 128) % 2) = w[4]
  <2>1. (w[4] % 128) + 128 * (w[4] \div 128) = w[4]
    BY WordOctets, Ends, Zenon
  <2>2. ((w[3] % 64) * 2 + w[4] \div 128) % 2 = w[4] \div 128
    BY WordOctets, Joins6, ZenonT(60)
  <2> QED BY <2>1, <2>2, Zenon
<1>6. Regroup(Groups(w)[1], Groups(w)[2], Groups(w)[3], Groups(w)[4], Groups(w)[5])
        = <<w[1], w[2], w[3], w[4]>>
  BY <1>1, <1>2, <1>3, <1>4, <1>5, Zenon DEF Regroup
<1> QED BY <1>6, WordOctets, Zenon

LEMMA Shifts1 ==
  ASSUME NEW p \in 0 .. 127, NEW q \in 0 .. 127
  PROVE  (q \div 8 + 16 * p) % 128 = q \div 8 + 16 * (p % 8)
  OBVIOUS

LEMMA Shifts2 ==
  ASSUME NEW p \in 0 .. 127, NEW q \in 0 .. 127
  PROVE  (q \div 4 + 32 * (p % 8)) \div 128 = (p % 8) \div 4
  OBVIOUS

LEMMA Shifts3 ==
  ASSUME NEW p \in 0 .. 127, NEW q \in 0 .. 127
  PROVE  (q \div 4 + 32 * (p % 8)) % 128 = q \div 4 + 32 * (p % 4)
  OBVIOUS

LEMMA Shifts4 ==
  ASSUME NEW p \in 0 .. 127, NEW q \in 0 .. 127
  PROVE  (q \div 2 + 64 * (p % 4)) \div 128 = (p % 4) \div 2
  OBVIOUS

LEMMA Shifts5 ==
  ASSUME NEW p \in 0 .. 127, NEW q \in 0 .. 127
  PROVE  (q \div 2 + 64 * (p % 4)) % 128 = q \div 2 + 64 * (p % 2)
  OBVIOUS

LEMMA Shifts6 ==
  ASSUME NEW p \in 0 .. 127, NEW q \in 0 .. 127
  PROVE  (q + 128 * (p % 2)) \div 128 = p % 2
  OBVIOUS

LEMMA Carries1 ==
  ASSUME NEW p \in 0 .. 127, NEW q \in 0 .. 127
  PROVE  (q % 8) \div 4 + 2 * (q \div 8 + 16 * (p % 8)) = q \div 4 + 32 * (p % 8)
  OBVIOUS

LEMMA Carries2 ==
  ASSUME NEW p \in 0 .. 127, NEW q \in 0 .. 127
  PROVE  (q % 4) \div 2 + 2 * (q \div 4 + 32 * (p % 4)) = q \div 2 + 64 * (p % 4)
  OBVIOUS

LEMMA Carries3 ==
  ASSUME NEW p \in 0 .. 127, NEW q \in 0 .. 127
  PROVE  (q % 2) + 2 * (q \div 2 + 64 * (p % 2)) = q + 128 * (p % 2)
  OBVIOUS

\* Shifting by seven bits moves the groups by one.
LEMMA ShiftRegroup ==
  ASSUME NEW a \in 0 .. 15, NEW b \in SevenBits, NEW c \in SevenBits,
         NEW d \in SevenBits, NEW e \in SevenBits
  PROVE  ShiftRight7(Regroup(a, b, c, d, e)) = Regroup(0, a, b, c, d)
<1> DEFINE w == Regroup(a, b, c, d, e)
<1>1. /\ w[1] = b \div 8 + 16 * a /\ w[2] = c \div 4 + 32 * (b % 8)
      /\ w[3] = d \div 2 + 64 * (c % 4) /\ w[4] = e + 128 * (d % 2)
  BY DEF Regroup
<1>2. a \in 0 .. 127 /\ b \in 0 .. 127 /\ c \in 0 .. 127 /\ d \in 0 .. 127 /\ e \in 0 .. 127
  BY DEF SevenBits
<1>3. ShiftRight7(w) = <<w[1] \div 128 + 0, w[2] \div 128 + 2 * (w[1] % 128),
                         w[3] \div 128 + 2 * (w[2] % 128), w[4] \div 128 + 2 * (w[3] % 128)>>
  <2> HIDE DEF w
  <2> QED BY Powers DEF ShiftRight7
<1> HIDE DEF w
<1>4. w[1] \div 128 + 0 = a \div 8 + 16 * 0
  <2>1. \A p \in 0 .. 15, q \in 0 .. 127 : (q \div 8 + 16 * p) \div 128 + 0 = p \div 8 + 16 * 0
    OBVIOUS
  <2>2. (b \div 8 + 16 * a) \div 128 + 0 = a \div 8 + 16 * 0
    BY <1>2, <2>1, Zenon
  <2> QED BY <1>1, <2>2, Zenon
<1>5. w[2] \div 128 + 2 * (w[1] % 128) = b \div 4 + 32 * (a % 8)
  <2>1. w[2] \div 128 = (b % 8) \div 4
    <3>1. (c \div 4 + 32 * (b % 8)) \div 128 = (b % 8) \div 4
      BY <1>2, Shifts2, Zenon
    <3> QED BY <1>1, <3>1, Zenon
  <2>2. w[1] % 128 = b \div 8 + 16 * (a % 8)
    <3>1. (b \div 8 + 16 * a) % 128 = b \div 8 + 16 * (a % 8)
      BY <1>2, Shifts1, Zenon
    <3> QED BY <1>1, <3>1, Zenon
  <2>3. (b % 8) \div 4 + 2 * (b \div 8 + 16 * (a % 8)) = b \div 4 + 32 * (a % 8)
    BY <1>2, Carries1, Zenon
  <2> QED BY <2>1, <2>2, <2>3, Zenon
<1>6. w[3] \div 128 + 2 * (w[2] % 128) = c \div 2 + 64 * (b % 4)
  <2>1. w[3] \div 128 = (c % 4) \div 2
    <3>1. (d \div 2 + 64 * (c % 4)) \div 128 = (c % 4) \div 2
      BY <1>2, Shifts4, Zenon
    <3> QED BY <1>1, <3>1, Zenon
  <2>2. w[2] % 128 = c \div 4 + 32 * (b % 4)
    <3>1. (c \div 4 + 32 * (b % 8)) % 128 = c \div 4 + 32 * (b % 4)
      BY <1>2, Shifts3, Zenon
    <3> QED BY <1>1, <3>1, Zenon
  <2>3. (c % 4) \div 2 + 2 * (c \div 4 + 32 * (b % 4)) = c \div 2 + 64 * (b % 4)
    BY <1>2, Carries2, Zenon
  <2> QED BY <2>1, <2>2, <2>3, Zenon
<1>7. w[4] \div 128 + 2 * (w[3] % 128) = d + 128 * (c % 2)
  <2>1. w[4] \div 128 = d % 2
    <3>1. (e + 128 * (d % 2)) \div 128 = d % 2
      BY <1>2, Shifts6, Zenon
    <3> QED BY <1>1, <3>1, Zenon
  <2>2. w[3] % 128 = d \div 2 + 64 * (c % 2)
    <3>1. (d \div 2 + 64 * (c % 4)) % 128 = d \div 2 + 64 * (c % 2)
      BY <1>2, Shifts5, Zenon
    <3> QED BY <1>1, <3>1, Zenon
  <2>3. (d % 2) + 2 * (d \div 2 + 64 * (c % 2)) = d + 128 * (c % 2)
    BY <1>2, Carries3, ZenonT(60)
  <2> QED BY <2>1, <2>2, <2>3, Zenon
<1>8. ShiftRight7(w) = <<a \div 8 + 16 * 0, b \div 4 + 32 * (a % 8),
                         c \div 2 + 64 * (b % 4), d + 128 * (c % 2)>>
  BY <1>3, <1>4, <1>5, <1>6, <1>7, Zenon
<1> QED BY <1>8, Zenon DEF Regroup, w

LEMMA RegroupZero ==
  ASSUME NEW a \in SevenBits, NEW b \in SevenBits, NEW c \in SevenBits,
         NEW d \in SevenBits, NEW e \in SevenBits
  PROVE  Regroup(a, b, c, d, e) = Zero <=> a = 0 /\ b = 0 /\ c = 0 /\ d = 0 /\ e = 0
<1>1. Zero = <<0, 0, 0, 0>>
  BY Powers DEF Zero, WordOf
<1>2. \A p, q, r, s, t, u, v, x :
        <<p, q, r, s>> = <<t, u, v, x>> <=> p = t /\ q = u /\ r = v /\ s = x
  OBVIOUS
<1>3. \A p \in 0 .. 127, q \in 0 .. 127 :
        /\ q \div 8 + 16 * p = 0 <=> q \div 8 = 0 /\ p = 0
        /\ q \div 4 + 32 * (p % 8) = 0 <=> q \div 4 = 0 /\ p % 8 = 0
        /\ q \div 2 + 64 * (p % 4) = 0 <=> q \div 2 = 0 /\ p % 4 = 0
        /\ q + 128 * (p % 2) = 0 <=> q = 0 /\ p % 2 = 0
  OBVIOUS
<1>4. \A p \in 0 .. 127 :
        /\ p = 0 <=> p \div 8 = 0 /\ p % 8 = 0
        /\ p = 0 <=> p \div 4 = 0 /\ p % 4 = 0
        /\ p = 0 <=> p \div 2 = 0 /\ p % 2 = 0
  OBVIOUS
<1>5. a \in 0 .. 127 /\ b \in 0 .. 127 /\ c \in 0 .. 127 /\ d \in 0 .. 127 /\ e \in 0 .. 127
  BY DEF SevenBits
<1>6. /\ b \div 8 + 16 * a = 0 <=> b \div 8 = 0 /\ a = 0
      /\ c \div 4 + 32 * (b % 8) = 0 <=> c \div 4 = 0 /\ b % 8 = 0
      /\ d \div 2 + 64 * (c % 4) = 0 <=> d \div 2 = 0 /\ c % 4 = 0
      /\ e + 128 * (d % 2) = 0 <=> e = 0 /\ d % 2 = 0
  BY <1>3, <1>5
<1>7. /\ b = 0 <=> b \div 8 = 0 /\ b % 8 = 0
      /\ c = 0 <=> c \div 4 = 0 /\ c % 4 = 0
      /\ d = 0 <=> d \div 2 = 0 /\ d % 2 = 0
  BY <1>4, <1>5
<1>8. Regroup(a, b, c, d, e) = Zero
        <=> (/\ b \div 8 + 16 * a = 0 /\ c \div 4 + 32 * (b % 8) = 0
             /\ d \div 2 + 64 * (c % 4) = 0 /\ e + 128 * (d % 2) = 0)
  BY <1>1, <1>2 DEF Regroup
<1> QED BY <1>6, <1>7, <1>8

LEMMA RegroupLow ==
  ASSUME NEW a \in SevenBits, NEW b \in SevenBits, NEW c \in SevenBits,
         NEW d \in SevenBits, NEW e \in SevenBits
  PROVE  Regroup(a, b, c, d, e)[4] % 2^7 = e
<1>1. \A p \in 0 .. 127, q \in 0 .. 127 : (q + 128 * (p % 2)) % 128 = q
  OBVIOUS
<1>2. Regroup(a, b, c, d, e)[4] = e + 128 * (d % 2)
  BY DEF Regroup
<1>3. d \in 0 .. 127 /\ e \in 0 .. 127
  BY DEF SevenBits
<1> QED BY <1>1, <1>2, <1>3, Powers

\* The recursion of ArcOctets.
ShiftWalk(w) ==
  LET shifted[k \in 0 .. 5] == IF k = 0 THEN w ELSE ShiftRight7(shifted[k - 1])
  IN  shifted

\* The highest of the groups that is not zero is not among the first 5 - k.
Vanish(w, k) == \A g \in 1 .. 5 - k : Groups(w)[g] = 0

LEMMA ShiftWalkIs ==
  ASSUME NEW w \in Word
  PROVE  /\ \A k \in 0 .. 4 : ShiftWalk(w)[k][4] % 2^7 = Groups(w)[5 - k]
         /\ \A k \in 0 .. 5 : ShiftWalk(w)[k] = Zero <=> Vanish(w, k)
<1> DEFINE s == ShiftWalk(w)
           a == Groups(w)[1]
           b == Groups(w)[2]
           c == Groups(w)[3]
           d == Groups(w)[4]
           e == Groups(w)[5]
           f == [k \in 0 .. 5 |-> CASE k = 0 -> w
                                    [] k = 1 -> ShiftRight7(w)
                                    [] k = 2 -> ShiftRight7(ShiftRight7(w))
                                    [] k = 3 -> ShiftRight7(ShiftRight7(ShiftRight7(w)))
                                    [] k = 4 -> ShiftRight7(ShiftRight7(ShiftRight7(ShiftRight7(w))))
                                    [] k = 5 -> ShiftRight7(ShiftRight7(ShiftRight7(ShiftRight7(ShiftRight7(w)))))]
<1>1. f = [k \in 0 .. 5 |-> IF k = 0 THEN w ELSE ShiftRight7(f[k - 1])]
  <2>1. ASSUME NEW k \in 0 .. 5 PROVE f[k] = IF k = 0 THEN w ELSE ShiftRight7(f[k - 1])
    <3>1. k = 0 \/ k = 1 \/ k = 2 \/ k = 3 \/ k = 4 \/ k = 5
      OBVIOUS
    <3>2. f[0] = w /\ f[1] = ShiftRight7(w) /\ f[2] = ShiftRight7(ShiftRight7(w))
          /\ f[3] = ShiftRight7(ShiftRight7(ShiftRight7(w)))
          /\ f[4] = ShiftRight7(ShiftRight7(ShiftRight7(ShiftRight7(w))))
          /\ f[5] = ShiftRight7(ShiftRight7(ShiftRight7(ShiftRight7(ShiftRight7(w)))))
      OBVIOUS
    <3> HIDE DEF f
    <3>3. 1 - 1 = 0 /\ 2 - 1 = 1 /\ 3 - 1 = 2 /\ 4 - 1 = 3 /\ 5 - 1 = 4
      OBVIOUS
    <3> QED BY <3>1, <3>2, <3>3
  <2> QED BY <2>1
<1>2. s = [k \in 0 .. 5 |-> IF k = 0 THEN w ELSE ShiftRight7(s[k - 1])]
  <2> HIDE DEF f
  <2> QED BY <1>1, Zenon DEF ShiftWalk
<1> HIDE DEF s
<1>3. /\ a \in SevenBits /\ b \in SevenBits /\ c \in SevenBits /\ d \in SevenBits /\ e \in SevenBits
      /\ a \in 0 .. 15
  <2>1. 1 \in 1 .. 5 /\ 2 \in 1 .. 5 /\ 3 \in 1 .. 5 /\ 4 \in 1 .. 5 /\ 5 \in 1 .. 5
    OBVIOUS
  <2> QED BY <2>1, GroupsType
<1>4. 0 \in 0 .. 15 /\ 0 \in SevenBits
  BY DEF SevenBits
<1>5. w = Regroup(a, b, c, d, e)
  BY RegroupGroups
<1> HIDE DEF a, b, c, d, e
<1>7. s[0] = Regroup(a, b, c, d, e)
  BY <1>2, <1>5
<1>8. s[1] = Regroup(0, a, b, c, d)
  <2>1. s[1] = ShiftRight7(s[1 - 1]) /\ 1 - 1 = 0
    BY <1>2
  <2> QED BY <1>3, <1>7, <2>1, ShiftRegroup
<1>9. s[2] = Regroup(0, 0, a, b, c)
  <2>1. s[2] = ShiftRight7(s[2 - 1]) /\ 2 - 1 = 1
    BY <1>2
  <2> QED BY <1>3, <1>4, <1>8, <2>1, ShiftRegroup, SMTT(30)
<1>10. s[3] = Regroup(0, 0, 0, a, b)
  <2>1. s[3] = ShiftRight7(s[3 - 1]) /\ 3 - 1 = 2
    BY <1>2
  <2> QED BY <1>3, <1>4, <1>9, <2>1, ShiftRegroup, SMTT(30)
<1>11. s[4] = Regroup(0, 0, 0, 0, a)
  <2>1. s[4] = ShiftRight7(s[4 - 1]) /\ 4 - 1 = 3
    BY <1>2
  <2> QED BY <1>3, <1>4, <1>10, <2>1, ShiftRegroup, SMTT(30)
<1>12. s[5] = Regroup(0, 0, 0, 0, 0)
  <2>1. s[5] = ShiftRight7(s[5 - 1]) /\ 5 - 1 = 4
    BY <1>2
  <2> QED BY <1>3, <1>4, <1>11, <2>1, ShiftRegroup, SMTT(30)
<1>13. /\ s[0][4] % 2^7 = e /\ s[1][4] % 2^7 = d /\ s[2][4] % 2^7 = c
       /\ s[3][4] % 2^7 = b /\ s[4][4] % 2^7 = a
  <2>1. s[0][4] % 2^7 = e
    <3>1. Regroup(a, b, c, d, e)[4] % 2^7 = e
      BY <1>3, <1>4, RegroupLow
    <3> QED BY <1>7, <3>1, Zenon
  <2>2. s[1][4] % 2^7 = d
    <3>1. Regroup(0, a, b, c, d)[4] % 2^7 = d
      BY <1>3, <1>4, RegroupLow
    <3> QED BY <1>8, <3>1, Zenon
  <2>3. s[2][4] % 2^7 = c
    <3>1. Regroup(0, 0, a, b, c)[4] % 2^7 = c
      BY <1>3, <1>4, RegroupLow
    <3> QED BY <1>9, <3>1, Zenon
  <2>4. s[3][4] % 2^7 = b
    <3>1. Regroup(0, 0, 0, a, b)[4] % 2^7 = b
      BY <1>3, <1>4, RegroupLow
    <3> QED BY <1>10, <3>1, Zenon
  <2>5. s[4][4] % 2^7 = a
    <3>1. Regroup(0, 0, 0, 0, a)[4] % 2^7 = a
      BY <1>3, <1>4, RegroupLow
    <3> QED BY <1>11, <3>1, Zenon
  <2> QED BY <2>1, <2>2, <2>3, <2>4, <2>5, Zenon
<1>14. /\ s[0] = Zero <=> a = 0 /\ b = 0 /\ c = 0 /\ d = 0 /\ e = 0
       /\ s[1] = Zero <=> a = 0 /\ b = 0 /\ c = 0 /\ d = 0
       /\ s[2] = Zero <=> a = 0 /\ b = 0 /\ c = 0
       /\ s[3] = Zero <=> a = 0 /\ b = 0
       /\ s[4] = Zero <=> a = 0
       /\ s[5] = Zero
  <2>1. s[0] = Zero <=> a = 0 /\ b = 0 /\ c = 0 /\ d = 0 /\ e = 0
    <3>1. Regroup(a, b, c, d, e) = Zero <=> a = 0 /\ b = 0 /\ c = 0 /\ d = 0 /\ e = 0
      BY <1>3, <1>4, RegroupZero
    <3> QED BY <1>7, <3>1, Zenon
  <2>2. s[1] = Zero <=> a = 0 /\ b = 0 /\ c = 0 /\ d = 0
    <3>1. Regroup(0, a, b, c, d) = Zero <=> 0 = 0 /\ a = 0 /\ b = 0 /\ c = 0 /\ d = 0
      BY <1>3, <1>4, RegroupZero
    <3> QED BY <1>8, <3>1, Zenon
  <2>3. s[2] = Zero <=> a = 0 /\ b = 0 /\ c = 0
    <3>1. Regroup(0, 0, a, b, c) = Zero <=> 0 = 0 /\ 0 = 0 /\ a = 0 /\ b = 0 /\ c = 0
      BY <1>3, <1>4, RegroupZero
    <3> QED BY <1>9, <3>1, Zenon
  <2>4. s[3] = Zero <=> a = 0 /\ b = 0
    <3>1. Regroup(0, 0, 0, a, b) = Zero <=> 0 = 0 /\ 0 = 0 /\ 0 = 0 /\ a = 0 /\ b = 0
      BY <1>3, <1>4, RegroupZero
    <3> QED BY <1>10, <3>1, Zenon
  <2>5. s[4] = Zero <=> a = 0
    <3>1. Regroup(0, 0, 0, 0, a) = Zero <=> 0 = 0 /\ 0 = 0 /\ 0 = 0 /\ 0 = 0 /\ a = 0
      BY <1>3, <1>4, RegroupZero
    <3> QED BY <1>11, <3>1, Zenon
  <2>6. s[5] = Zero
    BY <1>3, <1>4, <1>12, RegroupZero
  <2> QED BY <2>1, <2>2, <2>3, <2>4, <2>5, <2>6
<1>15. /\ Vanish(w, 0) <=> a = 0 /\ b = 0 /\ c = 0 /\ d = 0 /\ e = 0
       /\ Vanish(w, 1) <=> a = 0 /\ b = 0 /\ c = 0 /\ d = 0
       /\ Vanish(w, 2) <=> a = 0 /\ b = 0 /\ c = 0
       /\ Vanish(w, 3) <=> a = 0 /\ b = 0
       /\ Vanish(w, 4) <=> a = 0
       /\ Vanish(w, 5)
  <2>1. 1 .. 5 - 0 = {1, 2, 3, 4, 5} /\ 1 .. 5 - 1 = {1, 2, 3, 4} /\ 1 .. 5 - 2 = {1, 2, 3}
        /\ 1 .. 5 - 3 = {1, 2} /\ 1 .. 5 - 4 = {1} /\ 1 .. 5 - 5 = {}
    OBVIOUS
  <2>2. Vanish(w, 0) <=> a = 0 /\ b = 0 /\ c = 0 /\ d = 0 /\ e = 0
    BY <2>1 DEF Vanish, a, b, c, d, e
  <2>3. Vanish(w, 1) <=> a = 0 /\ b = 0 /\ c = 0 /\ d = 0
    BY <2>1 DEF Vanish, a, b, c, d
  <2>4. Vanish(w, 2) <=> a = 0 /\ b = 0 /\ c = 0
    BY <2>1 DEF Vanish, a, b, c
  <2>5. Vanish(w, 3) <=> a = 0 /\ b = 0
    BY <2>1 DEF Vanish, a, b
  <2>6. Vanish(w, 4) <=> a = 0
    BY <2>1 DEF Vanish, a
  <2>7. Vanish(w, 5)
    BY <2>1 DEF Vanish
  <2> QED BY <2>2, <2>3, <2>4, <2>5, <2>6, <2>7
<1>16. \A k \in 0 .. 4 : s[k][4] % 2^7 = Groups(w)[5 - k]
  <2>1. \A k \in 0 .. 4 : k = 0 \/ k = 1 \/ k = 2 \/ k = 3 \/ k = 4
    OBVIOUS
  <2>2. 5 - 0 = 5 /\ 5 - 1 = 4 /\ 5 - 2 = 3 /\ 5 - 3 = 2 /\ 5 - 4 = 1
    OBVIOUS
  <2> QED BY <1>13, <2>1, <2>2, Zenon DEF a, b, c, d, e
<1>17. \A k \in 0 .. 5 : s[k] = Zero <=> Vanish(w, k)
  <2>1. \A k \in 0 .. 5 : k = 0 \/ k = 1 \/ k = 2 \/ k = 3 \/ k = 4 \/ k = 5
    OBVIOUS
  <2> QED BY <1>14, <1>15, <2>1, Zenon
<1> QED BY <1>16, <1>17, Zenon DEF s

LEMMA ArcsAgree ==
  ASSUME NEW w \in Word
  PROVE  /\ ArcOctets(w) = SubIdentifier(w)
         /\ ArcOctets(w) \in Seq(Nat)
<1> DEFINE s == ShiftWalk(w)
           P(k) == Vanish(w, k)
           S == {k \in 1 .. 5 : Vanish(w, k)}
           n == CHOOSE k \in 1 .. 5 : s[k] = Zero /\ (k > 1 => s[k - 1] # Zero)
<1>1. ArcOctets(w) = [i \in 1 .. n |-> (s[n - i][4] % 2^7) + (IF i < n THEN 2^7 ELSE 0)]
  BY Zenon DEF ArcOctets, ShiftWalk
<1>2. /\ \A k \in 0 .. 4 : s[k][4] % 2^7 = Groups(w)[5 - k]
      /\ \A k \in 0 .. 5 : s[k] = Zero <=> Vanish(w, k)
  BY ShiftWalkIs
<1>3. SubIdentifier(w) = [i \in 1 .. Min(S) |-> Groups(w)[5 - Min(S) + i]
                                                  + IF i < Min(S) THEN 128 ELSE 0]
  BY Zenon DEF SubIdentifier, Vanish
<1> HIDE DEF s
<1>4. \A k, j \in 1 .. 5 : j <= k /\ Vanish(w, j) => Vanish(w, k)
  <2>1. \A k, j \in 1 .. 5 : j <= k => \A g \in 1 .. 5 - k : g \in 1 .. 5 - j
    OBVIOUS
  <2> QED BY <2>1 DEF Vanish
<1>5. S \subseteq Nat /\ 5 \in S
  BY DEF Vanish
<1>6. n \in 1 .. 5 /\ s[n] = Zero /\ (n > 1 => s[n - 1] # Zero)
  <2>1. \E k \in 1 .. 5 : s[k] = Zero /\ (k > 1 => s[k - 1] # Zero)
    <3> HIDE DEF S
    <3>1. PICK k \in S : \A j \in S : k <= j
      BY <1>5, Least
    <3> USE DEF S
    <3>2. k \in 1 .. 5 /\ s[k] = Zero
      BY <1>2, <3>1
    <3>3. ASSUME k > 1 PROVE s[k - 1] # Zero
      <4>1. k - 1 \in 1 .. 5 /\ k - 1 \in 0 .. 5 /\ ~(k <= k - 1)
        BY <3>2, <3>3
      <4> QED BY <1>2, <3>1, <4>1
    <3> QED BY <3>2, <3>3
  <2> HIDE DEF s
  <2> QED BY <2>1
<1> HIDE DEF n
<1>7. n \in S
  BY <1>2, <1>6
<1>8. ASSUME NEW j \in S PROVE n <= j
  <2> SUFFICES ASSUME j < n PROVE FALSE
    BY <1>6
  <2>1. n > 1 /\ n - 1 \in 1 .. 5 /\ n - 1 \in 0 .. 5 /\ j <= n - 1 /\ j \in 1 .. 5
    BY <1>6
  <2>2. Vanish(w, n - 1)
    BY <1>4, <2>1
  <2> QED BY <1>2, <1>6, <2>1, <2>2
<1>9. Min(S) = n
  <2> HIDE DEF S
  <2> QED BY <1>5, <1>7, <1>8, MinIs
<1>10. ASSUME NEW i \in 1 .. n
       PROVE  /\ (s[n - i][4] % 2^7) + (IF i < n THEN 2^7 ELSE 0)
                   = Groups(w)[5 - n + i] + IF i < n THEN 128 ELSE 0
              /\ Groups(w)[5 - n + i] + (IF i < n THEN 128 ELSE 0) \in Nat
  <2>1. n - i \in 0 .. 4 /\ 5 - (n - i) = 5 - n + i /\ 5 - n + i \in 1 .. 5
    BY <1>6
  <2>2. s[n - i][4] % 2^7 = Groups(w)[5 - n + i]
    BY <1>2, <2>1
  <2>3. Groups(w)[5 - n + i] \in 0 .. 127
    BY <2>1, GroupsType, Zenon DEF SevenBits
  <2> QED BY <2>2, <2>3, Powers
<1>11. SubIdentifier(w) = [i \in 1 .. n |-> Groups(w)[5 - n + i] + IF i < n THEN 128 ELSE 0]
  BY <1>3, <1>9, Zenon
<1>12. ArcOctets(w) = SubIdentifier(w)
  BY <1>1, <1>10, <1>11, Zenon
<1>13. SubIdentifier(w) \in Seq(Nat)
  <2>1. n \in Nat
    BY <1>6
  <2> QED BY <1>10, <1>11, <2>1
<1> QED BY <1>12, <1>13

LEMMA FlattenThree ==
  ASSUME NEW a \in Seq(Nat), NEW b \in Seq(Nat), NEW c \in Seq(Nat)
  PROVE  FlattenSeq(<<a, b, c>>) = a \o b \o c
<1> DEFINE seqs == <<a, b, c>>
<1>1. seqs \in Seq(Seq(Nat)) /\ seqs # <<>> /\ Len(seqs) = 3
      /\ seqs[1] = a /\ seqs[2] = b /\ seqs[3] = c
  OBVIOUS
<1>2. 2 \in 2 .. 3 /\ 3 \in 2 .. 3 /\ 2 - 1 = 1 /\ 3 - 1 = 2
  OBVIOUS
<1> HIDE DEF seqs
<1>3. /\ FlattenSeq(seqs) = FlattenWalk(seqs)[3] /\ FlattenWalk(seqs)[1] = a
      /\ \A i \in 2 .. 3 : FlattenWalk(seqs)[i] = FlattenWalk(seqs)[i - 1] \o seqs[i]
  BY <1>1, FlattenWalkIs
<1>4. FlattenWalk(seqs)[2] = a \o b
  BY <1>1, <1>2, <1>3
<1>5. FlattenWalk(seqs)[3] = (a \o b) \o c
  BY <1>1, <1>2, <1>3, <1>4
<1> QED BY <1>3, <1>5 DEF seqs

\* An OID that ber_encode_oid encodes without loss.
Encodes(oid) == oid \in Oids /\ Rooted(oid) /\ Below(oid[1], 3)

LEMMA OidParts ==
  ASSUME NEW oid, Encodes(oid)
  PROVE  /\ oid \in Seq(Word) /\ Len(oid) - 2 \in Nat
         /\ \A i \in 1 .. Len(oid) : oid[i] \in Word
         /\ 1 \in 1 .. Len(oid) /\ 2 \in 1 .. Len(oid)
         /\ \A i \in 1 .. Len(oid) - 2 : i + 2 \in 1 .. Len(oid)
         /\ oid[1][4] \in 0 .. 2 /\ oid[2][4] \in 0 .. 39
<1>1. oid \in Seq(Word) /\ Len(oid) \in 2 .. MaxOidLen
  BY DEF Encodes, Oids
<1>2. Len(oid) \in 2 .. 20
  BY <1>1 DEF MaxOidLen
<1>3. \A i \in 1 .. Len(oid) : oid[i] \in Word
  BY <1>1, ElementOfSeq
<1>4. 1 \in 1 .. Len(oid) /\ 2 \in 1 .. Len(oid) /\ Len(oid) - 2 \in Nat
      /\ \A i \in 1 .. Len(oid) - 2 : i + 2 \in 1 .. Len(oid)
  <2>1. \A n \in 2 .. 20 : 1 \in 1 .. n /\ 2 \in 1 .. n /\ n - 2 \in Nat
          /\ \A i \in 1 .. n - 2 : i + 2 \in 1 .. n
    OBVIOUS
  <2> QED BY <1>2, <2>1, Zenon
<1>5. oid[1][4] \in 0 .. 255 /\ oid[2][4] \in 0 .. 255
  <2>1. \A w \in Word : w[4] \in 0 .. 255
    BY DEF Word, Octet
  <2> QED BY <1>3, <1>4, <2>1, Zenon
<1>6. oid[1][4] < 3 /\ oid[2][4] < 40
  BY Zenon DEF Encodes, Rooted, Below
<1>7. oid[1][4] \in 0 .. 2
  <2>1. \A o \in 0 .. 255 : o < 3 => o \in 0 .. 2
    OBVIOUS
  <2> QED BY <1>5, <1>6, <2>1, Zenon
<1>8. oid[2][4] \in 0 .. 39
  <2>1. \A o \in 0 .. 255 : o < 40 => o \in 0 .. 39
    OBVIOUS
  <2>2. oid[2][4] \in 0 .. 255 /\ oid[2][4] < 40
    BY <1>5, <1>6
  <2> QED BY <2>1, <2>2, ZenonT(60)
<1> QED BY <1>1, <1>3, <1>4, <1>7, <1>8

LEMMA OidsAgree ==
  ASSUME NEW oid, Encodes(oid)
  PROVE  /\ OidContent(oid) = OidOctets(oid)
         /\ OidContent(oid) \in Seq(Nat)
<1> DEFINE n == Len(oid) - 2
           arcs == [i \in 1 .. n |-> ArcOctets(oid[i + 2])]
           ids == [i \in 1 .. n |-> SubIdentifier(oid[i + 2])]
           first == (oid[1][4] * 40 + oid[2][4]) % 256
<1>1. n \in Nat /\ oid[1][4] \in 0 .. 2 /\ oid[2][4] \in 0 .. 39
  BY OidParts
<1>2. ASSUME NEW i \in 1 .. n
      PROVE  ArcOctets(oid[i + 2]) = SubIdentifier(oid[i + 2])
             /\ ArcOctets(oid[i + 2]) \in Seq(Nat)
  <2>1. oid[i + 2] \in Word
    BY OidParts
  <2> QED BY <2>1, ArcsAgree
<1> HIDE DEF n
<1>3. arcs = ids
  BY <1>2
<1>4. arcs \in Seq(Seq(Nat))
  BY <1>1, <1>2
<1>5. first = 40 * oid[1][4] + oid[2][4] /\ first \in Nat
  <2>1. \A p \in 0 .. 2, q \in 0 .. 39 : (p * 40 + q) % 256 = 40 * p + q /\ (p * 40 + q) % 256 \in Nat
    OBVIOUS
  <2> QED BY <1>1, <2>1
<1>6. OidContent(oid) = <<first>> \o FlattenSeq(arcs)
  BY Zenon DEF OidContent, n
<1>7. OidOctets(oid) = <<40 * oid[1][4] + oid[2][4]>> \o FlattenSeq(ids)
  BY Zenon DEF OidOctets, n
<1>8. FlattenSeq(arcs) \in Seq(Nat)
  <2> HIDE DEF arcs
  <2> QED BY <1>4, FlattenType
<1> HIDE DEF arcs, ids, first
<1>9. <<first>> \in Seq(Nat)
  BY <1>5
<1> QED BY <1>3, <1>5, <1>6, <1>7, <1>8, <1>9, ConcatProperties

LEMMA TagsAreNumbers ==
  /\ Tag.integer \in Nat /\ Tag.octets \in Nat /\ Tag.oid \in Nat /\ Tag.sequence \in Nat
  /\ Tag.ipAddress \in Nat /\ Tag.timeTicks \in Nat /\ Tag.response \in Nat
  /\ Tag.trapV1 \in Nat /\ Tag.trapV2 \in Nat /\ Tag.counter64 \in Nat
  /\ UnsignedTags \subseteq Nat /\ ByteTags \subseteq Nat /\ NullTags \subseteq Nat
  /\ RequestTags \subseteq Nat
  BY DEF Tag, UnsignedTags, ByteTags, NullTags, RequestTags

\* The content that snmp_encode_value and the reference choose by the tag.
LEMMA ContentByTag ==
  ASSUME NEW vb
  PROVE  /\ vb.tag = Tag.integer =>
              /\ EncodeValue(vb) = EncodeTlv(vb.tag, IntegerContent(vb.value))
              /\ Value(vb, "shortest") = Element(vb.tag, ShortestSigned(vb.value), "shortest")
         /\ vb.tag \in UnsignedTags \cup {Tag.counter64} =>
              /\ EncodeValue(vb) = EncodeTlv(vb.tag, UnsignedContent(vb.value))
              /\ Value(vb, "shortest") = Element(vb.tag, ShortestPositive(vb.value), "shortest")
         /\ vb.tag = Tag.oid =>
              /\ EncodeValue(vb) = EncodeTlv(vb.tag, OidContent(vb.value))
              /\ Value(vb, "shortest") = Element(vb.tag, OidOctets(vb.value), "shortest")
         /\ vb.tag \in ByteTags =>
              /\ EncodeValue(vb) = EncodeTlv(vb.tag, vb.value)
              /\ Value(vb, "shortest") = Element(vb.tag, vb.value, "shortest")
         /\ vb.tag \in NullTags =>
              /\ EncodeValue(vb) = EncodeTlv(vb.tag, <<>>)
              /\ Value(vb, "shortest") = Element(vb.tag, vb.value, "shortest")
<1>1. UnsignedTags \cup {Tag.counter64}
        = {Tag.counter32, Tag.gauge32, Tag.timeTicks, Tag.counter64}
  BY DEF UnsignedTags
<1>2. "shortest" # "wide" /\ "shortest" # "bare"
  OBVIOUS
<1>3. ASSUME NEW tag, NEW w
      PROVE  /\ Positive(tag, w, "shortest") = Element(tag, ShortestPositive(w), "shortest")
             /\ Number(w, "shortest") = Element(Tag.integer, ShortestSigned(w), "shortest")
  BY <1>2 DEF Positive, Number
<1>4. vb.tag = Tag.integer =>
        /\ EncodeValue(vb) = EncodeTlv(vb.tag, IntegerContent(vb.value))
        /\ Value(vb, "shortest") = Element(vb.tag, ShortestSigned(vb.value), "shortest")
  BY <1>1, <1>3, TagsApart DEF EncodeValue, Value
<1>5. vb.tag \in UnsignedTags \cup {Tag.counter64} =>
        /\ EncodeValue(vb) = EncodeTlv(vb.tag, UnsignedContent(vb.value))
        /\ Value(vb, "shortest") = Element(vb.tag, ShortestPositive(vb.value), "shortest")
  BY <1>1, <1>3, TagsApart DEF EncodeValue, Value
<1>6. vb.tag = Tag.oid =>
        /\ EncodeValue(vb) = EncodeTlv(vb.tag, OidContent(vb.value))
        /\ Value(vb, "shortest") = Element(vb.tag, OidOctets(vb.value), "shortest")
  BY <1>1, TagsApart DEF EncodeValue, Value
<1>7. vb.tag \in ByteTags =>
        /\ EncodeValue(vb) = EncodeTlv(vb.tag, vb.value)
        /\ Value(vb, "shortest") = Element(vb.tag, vb.value, "shortest")
  BY <1>1, TagsApart DEF EncodeValue, Value
<1>8. vb.tag \in NullTags =>
        /\ EncodeValue(vb) = EncodeTlv(vb.tag, <<>>)
        /\ Value(vb, "shortest") = Element(vb.tag, vb.value, "shortest")
  BY <1>1, TagsApart DEF EncodeValue, Value
<1> QED BY <1>4, <1>5, <1>6, <1>7, <1>8, Zenon

\* A varbind whose OIDs can be encoded without loss.
Binds(vb) ==
  vb \in Varbinds /\ Encodes(vb.oid) /\ (vb.tag = Tag.oid => Encodes(vb.value))

LEMMA ValuesAgree ==
  ASSUME NEW vb, Binds(vb)
  PROVE  EncodeValue(vb) = Value(vb, "shortest") /\ EncodeValue(vb) \in Seq(Nat)
<1>1. vb.value \in ValuesOf(vb.tag)
      /\ (\/ vb.tag \in {Tag.integer, Tag.counter64, Tag.oid}
          \/ vb.tag \in UnsignedTags \cup ByteTags \cup NullTags)
  BY VarbindFields DEF Binds
<1>2. vb.tag \in Nat
  BY <1>1, TagsAreNumbers
<1>3. ASSUME NEW c, NEW r, c = r, c \in Seq(Nat)
      PROVE  EncodeTlv(vb.tag, c) = Element(vb.tag, r, "shortest")
             /\ EncodeTlv(vb.tag, c) \in Seq(Nat)
  BY <1>2, <1>3, ElementsAgree
<1>4. CASE vb.tag = Tag.integer
  <2>1. vb.value \in Word
    BY <1>1, <1>4, ValuesByTag
  <2>2. IntegerContent(vb.value) = ShortestSigned(vb.value) /\ IntegerContent(vb.value) \in Seq(Nat)
    BY <2>1, IntegersAgree
  <2>3. /\ EncodeValue(vb) = EncodeTlv(vb.tag, IntegerContent(vb.value))
        /\ Value(vb, "shortest") = Element(vb.tag, ShortestSigned(vb.value), "shortest")
    BY <1>4, ContentByTag, Zenon
  <2> QED BY <1>3, <2>2, <2>3, Zenon
<1>5. CASE vb.tag \in UnsignedTags \cup {Tag.counter64}
  <2>1. vb.value \in Word \/ vb.value \in Word64
    BY <1>1, <1>5, ValuesByTag
  <2>2. UnsignedContent(vb.value) = ShortestPositive(vb.value)
        /\ UnsignedContent(vb.value) \in Seq(Nat)
    <3>1. 4 \in {4, 8} /\ 8 \in {4, 8}
      OBVIOUS
    <3> QED BY <2>1, <3>1, UnsignedsAgree, Zenon DEF Word, Word64
  <2>3. /\ EncodeValue(vb) = EncodeTlv(vb.tag, UnsignedContent(vb.value))
        /\ Value(vb, "shortest") = Element(vb.tag, ShortestPositive(vb.value), "shortest")
    BY <1>5, ContentByTag, Zenon
  <2> QED BY <1>3, <2>2, <2>3, Zenon
<1>6. CASE vb.tag = Tag.oid
  <2>1. OidContent(vb.value) = OidOctets(vb.value) /\ OidContent(vb.value) \in Seq(Nat)
    BY <1>6, OidsAgree DEF Binds
  <2>2. /\ EncodeValue(vb) = EncodeTlv(vb.tag, OidContent(vb.value))
        /\ Value(vb, "shortest") = Element(vb.tag, OidOctets(vb.value), "shortest")
    BY <1>6, ContentByTag, Zenon
  <2> QED BY <1>3, <2>1, <2>2, Zenon
<1>7. CASE vb.tag \in ByteTags
  <2>1. vb.value \in Seq(Nat)
    BY <1>1, <1>7, ValuesByTag, OctetsAreNumbers DEF OctetStrings
  <2>2. /\ EncodeValue(vb) = EncodeTlv(vb.tag, vb.value)
        /\ Value(vb, "shortest") = Element(vb.tag, vb.value, "shortest")
    BY <1>7, ContentByTag, Zenon
  <2> QED BY <1>3, <2>1, <2>2, Zenon
<1>8. CASE vb.tag \in NullTags
  <2>1. vb.value = <<>>
    <3>1. vb.value \in {<<>>}
      BY <1>1, <1>8, ValuesByTag
    <3> QED BY <3>1
  <2>2. <<>> \in Seq(Nat)
    OBVIOUS
  <2>3. /\ EncodeValue(vb) = EncodeTlv(vb.tag, <<>>)
        /\ Value(vb, "shortest") = Element(vb.tag, vb.value, "shortest")
    BY <1>8, ContentByTag, Zenon
  <2> QED BY <1>3, <2>1, <2>2, <2>3, Zenon
<1> QED BY <1>1, <1>4, <1>5, <1>6, <1>7, <1>8

LEMMA BindingAgrees ==
  ASSUME NEW vb, Binds(vb)
  PROVE  /\ EncodeVarbind(vb)
              = Element(Tag.sequence,
                        Element(Tag.oid, OidOctets(vb.oid), "shortest") \o Value(vb, "shortest"),
                        "shortest")
         /\ EncodeVarbind(vb) \in Seq(Nat)
<1> DEFINE name == Element(Tag.oid, OidOctets(vb.oid), "shortest")
           value == Value(vb, "shortest")
<1>1. EncodeOid(vb.oid) = name /\ name \in Seq(Nat)
  <2>1. OidContent(vb.oid) = OidOctets(vb.oid) /\ OidContent(vb.oid) \in Seq(Nat)
    BY OidsAgree DEF Binds
  <2> QED BY <2>1, ElementsAgree, TagsAreNumbers DEF EncodeOid
<1>2. EncodeValue(vb) = value /\ value \in Seq(Nat)
  BY ValuesAgree
<1> HIDE DEF name, value
<1>3. name \o value \in Seq(Nat)
  BY <1>1, <1>2, ConcatProperties
<1>4. /\ EncodeTlv(Tag.sequence, name \o value) = Element(Tag.sequence, name \o value, "shortest")
      /\ EncodeTlv(Tag.sequence, name \o value) \in Seq(Nat)
  BY <1>3, ElementsAgree, TagsAreNumbers
<1>5. EncodeVarbind(vb) = EncodeTlv(Tag.sequence, name \o value)
  BY <1>1, <1>2, Zenon DEF EncodeVarbind
<1> QED BY <1>4, <1>5, Zenon DEF name, value

LEMMA BindingsAgree ==
  ASSUME NEW vbs \in Seq(Varbinds), \A i \in 1 .. Len(vbs) : Binds(vbs[i])
  PROVE  /\ EncodeVarbinds(vbs) = Bindings(vbs, "shortest")
         /\ EncodeVarbinds(vbs) \in Seq(Nat)
<1> DEFINE Bound(vb) ==
             Element(Tag.sequence,
                     Element(Tag.oid, OidOctets(vb.oid), "shortest") \o Value(vb, "shortest"),
                     "shortest")
           encoded == [i \in DOMAIN vbs |-> EncodeVarbind(vbs[i])]
           meant == [i \in DOMAIN vbs |-> Bound(vbs[i])]
<1>1. DOMAIN vbs = 1 .. Len(vbs) /\ Len(vbs) \in Nat
  OBVIOUS
<1>2. ASSUME NEW i \in DOMAIN vbs
      PROVE  EncodeVarbind(vbs[i]) = Bound(vbs[i]) /\ EncodeVarbind(vbs[i]) \in Seq(Nat)
  <2>1. Binds(vbs[i])
    BY <1>1
  <2> QED BY <2>1, BindingAgrees
<1>3. EncodeVarbinds(vbs) = EncodeTlv(Tag.sequence, FlattenSeq(encoded))
  BY Zenon DEF EncodeVarbinds
<1>4. Bindings(vbs, "shortest") = Element(Tag.sequence, FlattenSeq(meant), "shortest")
  BY Zenon DEF Bindings
<1> HIDE DEF Bound
<1>5. encoded = meant
  BY <1>2
<1>6. encoded \in Seq(Seq(Nat))
  BY <1>1, <1>2
<1> HIDE DEF encoded, meant
<1>7. FlattenSeq(encoded) \in Seq(Nat)
  BY <1>6, FlattenType
<1> QED BY <1>3, <1>4, <1>5, <1>7, ElementsAgree, TagsAreNumbers

LEMMA NumbersAgree ==
  ASSUME NEW w \in Word
  PROVE  EncodeInteger(w) = Number(w, "shortest") /\ EncodeInteger(w) \in Seq(Nat)
<1>1. IntegerContent(w) = ShortestSigned(w) /\ IntegerContent(w) \in Seq(Nat)
  BY IntegersAgree
<1>2. Number(w, "shortest") = Element(Tag.integer, ShortestSigned(w), "shortest")
  BY DEF Number
<1> QED BY <1>1, <1>2, ElementsAgree, TagsAreNumbers DEF EncodeInteger

LEMMA PdusAgree ==
  ASSUME NEW tag \in Nat, NEW numbers \in [1 .. 3 -> Word],
         NEW vbs \in Seq(Varbinds), \A i \in 1 .. Len(vbs) : Binds(vbs[i])
  PROVE  /\ EncodePdu(tag, numbers, vbs) = Pdu(tag, numbers, vbs, "shortest")
         /\ EncodePdu(tag, numbers, vbs) \in Seq(Nat)
<1> DEFINE number(i) == EncodeInteger(numbers[i])
           all == [i \in 1 .. 3 |-> number(i)]
           bindings == EncodeVarbinds(vbs)
<1>1. 1 \in 1 .. 3 /\ 2 \in 1 .. 3 /\ 3 \in 1 .. 3
  OBVIOUS
<1>2. \A i \in 1 .. 3 : number(i) = Number(numbers[i], "shortest") /\ number(i) \in Seq(Nat)
  BY NumbersAgree
<1> HIDE DEF number
<1>3. all = <<number(1), number(2), number(3)>>
  <2>1. \A i \in 1 .. 3 : i = 1 \/ i = 2 \/ i = 3
    OBVIOUS
  <2> QED BY <2>1
<1> HIDE DEF all
<1>4. FlattenSeq(all) = number(1) \o number(2) \o number(3)
  <2>1. number(1) \in Seq(Nat) /\ number(2) \in Seq(Nat) /\ number(3) \in Seq(Nat)
    BY <1>1, <1>2
  <2>2. FlattenSeq(<<number(1), number(2), number(3)>>) = number(1) \o number(2) \o number(3)
    BY <2>1, FlattenThree, Zenon
  <2> QED BY <1>3, <2>2, Zenon
<1>5. number(1) \o number(2) \o number(3) \in Seq(Nat)
  BY <1>1, <1>2, ConcatProperties
<1>6. bindings = Bindings(vbs, "shortest") /\ bindings \in Seq(Nat)
  BY BindingsAgree
<1>7. EncodePdu(tag, numbers, vbs) = EncodeTlv(tag, FlattenSeq(all) \o bindings)
  BY Zenon DEF EncodePdu, all, number
<1> HIDE DEF bindings
<1>8. number(1) \o number(2) \o number(3) \o bindings \in Seq(Nat)
  BY <1>5, <1>6, ConcatProperties
<1>9. Pdu(tag, numbers, vbs, "shortest")
        = Element(tag, number(1) \o number(2) \o number(3) \o bindings, "shortest")
  BY <1>1, <1>2, <1>6, Zenon DEF Pdu
<1> QED BY <1>4, <1>7, <1>8, <1>9, ElementsAgree

LEMMA EnvelopesAgree ==
  ASSUME NEW version \in Word, NEW community \in Seq(Octet), NEW pdu \in Seq(Nat)
  PROVE  /\ EncodeMessage(version, community, pdu) = Envelope(version, community, pdu, "shortest")
         /\ EncodeMessage(version, community, pdu) \in Seq(Nat)
<1> DEFINE number == EncodeInteger(version)
           name == EncodeTlv(Tag.octets, community)
<1>1. number = Number(version, "shortest") /\ number \in Seq(Nat)
  BY NumbersAgree
<1>2. name = Element(Tag.octets, community, "shortest") /\ name \in Seq(Nat)
  BY ElementsAgree, OctetsAreNumbers, TagsAreNumbers
<1>3. EncodeMessage(version, community, pdu) = EncodeTlv(Tag.sequence, number \o name \o pdu)
  BY Zenon DEF EncodeMessage
<1> HIDE DEF number, name
<1>4. Envelope(version, community, pdu, "shortest")
        = Element(Tag.sequence, number \o name \o pdu, "shortest")
  BY <1>1, <1>2, Zenon DEF Envelope
<1>5. number \o name \o pdu \in Seq(Nat)
  BY <1>1, <1>2, ConcatProperties
<1> QED BY <1>3, <1>4, <1>5, ElementsAgree, TagsAreNumbers

-----------------------------------------------------------------------------
(* What leaves the agent. *)
Response(c) ==
  EncodeMessage(c.version, c.community, EncodePdu(c.tag, c.numbers, c.vbs))

LEMMA RootedEncodes ==
  ASSUME NEW oid \in Oids, Rooted(oid), Encodable(oid)
  PROVE  Encodes(oid)
  BY DEF Encodes, Encodable

LEMMA ListBinds ==
  ASSUME NEW vbs \in Seq(Varbinds), AllRooted(vbs), EncodableVarbinds(vbs)
  PROVE  \A i \in 1 .. Len(vbs) : Binds(vbs[i])
<1> SUFFICES ASSUME NEW i \in 1 .. Len(vbs) PROVE Binds(vbs[i])
  OBVIOUS
<1>1. vbs[i] \in Varbinds /\ i \in DOMAIN vbs
  BY ElementOfSeq, LenProperties
<1>2. vbs[i].oid \in Oids /\ vbs[i].value \in ValuesOf(vbs[i].tag)
  BY <1>1, VarbindFields
<1>3. Encodes(vbs[i].oid)
  BY <1>1, <1>2, RootedEncodes, Zenon DEF AllRooted, EncodableVarbinds
<1>4. ASSUME vbs[i].tag = Tag.oid PROVE Encodes(vbs[i].value)
  <2>1. vbs[i].value \in Oids
    BY <1>2, <1>4, ValuesByTag
  <2> QED BY <1>1, <1>4, <2>1, RootedEncodes, Zenon DEF AllRooted, EncodableVarbinds
<1> QED BY <1>1, <1>3, <1>4 DEF Binds

LEMMA VersionsType == V1 \in Word /\ V2c \in Word
<1>1. 0 \in 0 .. 255 /\ 1 \in 0 .. 255
  OBVIOUS
<1> QED BY <1>1, WordOfType DEF V1, V2c

LEMMA ResponsesAgree ==
  ASSUME NEW c \in Contexts, AllRooted(c.vbs), EncodableVarbinds(c.vbs)
  PROVE  Response(c) = Message(c, "shortest") /\ Response(c) \in Seq(Nat)
<1>1. /\ c.version \in {V1, V2c} /\ c.community \in Communities
      /\ c.tag \in RequestTags \cup {Tag.response} /\ c.numbers \in [1 .. 3 -> Word]
      /\ c.vbs \in Lists
  BY DEF Contexts
<1>2. c.version \in Word /\ c.community \in Seq(Octet) /\ c.tag \in Nat /\ c.vbs \in Seq(Varbinds)
  <2>1. c.version \in Word
    BY <1>1, VersionsType
  <2>2. c.tag \in Nat
    BY <1>1, TagsAreNumbers
  <2> QED BY <1>1, <2>1, <2>2 DEF Communities, Lists
<1>3. \A i \in 1 .. Len(c.vbs) : Binds(c.vbs[i])
  BY <1>2, ListBinds
<1>4. /\ EncodePdu(c.tag, c.numbers, c.vbs) = Pdu(c.tag, c.numbers, c.vbs, "shortest")
      /\ EncodePdu(c.tag, c.numbers, c.vbs) \in Seq(Nat)
  BY <1>1, <1>2, <1>3, PdusAgree
<1> QED BY <1>2, <1>4, EnvelopesAgree, Zenon DEF Response, Message

LEMMA NotEncodable ==
  ASSUME NEW vbs \in Seq(Varbinds), AllRooted(vbs), ~EncodableVarbinds(vbs)
  PROVE  \E i \in DOMAIN vbs : BeyondTwo(vbs[i])
<1>1. ASSUME NEW oid \in Oids, Rooted(oid), ~Encodable(oid)
      PROVE  ~Below(oid[1], 3)
  <2>1. Len(oid) \in 2 .. 20
    BY DEF Oids, MaxOidLen
  <2>2. Len(oid) >= 2
    <3>1. \A n \in 2 .. 20 : n >= 2
      OBVIOUS
    <3> QED BY <2>1, <3>1, Zenon
  <2> QED BY <1>1, <2>2, Zenon DEF Encodable, Rooted
<1>2. PICK i \in DOMAIN vbs :
        ~(Encodable(vbs[i].oid) /\ (vbs[i].tag = Tag.oid => Encodable(vbs[i].value)))
  BY Zenon DEF EncodableVarbinds
<1>3. vbs[i].oid \in Oids /\ vbs[i].value \in ValuesOf(vbs[i].tag)
  <2>1. vbs[i] \in Varbinds
    BY ElementOfSeq, LenProperties
  <2> QED BY <2>1, VarbindFields
<1>4. vbs[i].tag = Tag.oid => vbs[i].value \in Oids
  BY <1>3, ValuesByTag
<1>5. BeyondTwo(vbs[i])
  BY <1>1, <1>2, <1>3, <1>4, Zenon DEF BeyondTwo, AllRooted
<1> QED BY <1>5

LEMMA OidOfType ==
  ASSUME NEW arcs \in Seq(0 .. 255), Len(arcs) \in 2 .. 20, arcs[1] < 3, arcs[2] < 40
  PROVE  Encodes(OidOf(arcs))
<1>1. DOMAIN arcs = 1 .. Len(arcs) /\ Len(arcs) \in Nat /\ 1 \in DOMAIN arcs /\ 2 \in DOMAIN arcs
  OBVIOUS
<1>2. \A i \in DOMAIN arcs : WordOf(arcs[i]) \in Word
  <2>1. \A i \in DOMAIN arcs : arcs[i] \in 0 .. 255
    BY <1>1, ElementOfSeq
  <2> QED BY <2>1, WordOfType, Zenon
<1>3. OidOf(arcs) \in Seq(Word) /\ Len(OidOf(arcs)) = Len(arcs)
  BY <1>1, <1>2 DEF OidOf
<1>4. OidOf(arcs)[1] = WordOf(arcs[1]) /\ OidOf(arcs)[2] = WordOf(arcs[2])
  BY <1>1 DEF OidOf
<1>5. arcs[1] \in 0 .. 255 /\ arcs[2] \in 0 .. 255
  BY <1>1
<1>6. Below(OidOf(arcs)[1], 3) /\ Below(OidOf(arcs)[2], 40)
  BY <1>4, <1>5, WordOfType, Zenon
<1>7. OidOf(arcs) \in Oids
  BY <1>3 DEF Oids, MaxOidLen
<1> QED BY <1>6, <1>7 DEF Encodes, Rooted

LEMMA OrdinaryEncodes ==
  ASSUME NEW oid \in Oids, Ordinary(oid)
  PROVE  Encodes(oid) /\ Encodable(oid)
<1>1. Len(oid) >= 2
  <2>1. Len(oid) \in 2 .. 20
    BY DEF Oids, MaxOidLen
  <2>2. \A n \in 2 .. 20 : n >= 2
    OBVIOUS
  <2> QED BY <2>1, <2>2, Zenon
<1> QED BY <1>1, Zenon DEF Ordinary, Encodes, Rooted, Encodable

LEMMA OrdinaryBinds ==
  ASSUME NEW vbs \in Seq(Varbinds), AllOrdinary(vbs)
  PROVE  EncodableVarbinds(vbs) /\ \A i \in 1 .. Len(vbs) : Binds(vbs[i])
<1>1. ASSUME NEW i \in DOMAIN vbs
      PROVE  /\ Encodable(vbs[i].oid) /\ (vbs[i].tag = Tag.oid => Encodable(vbs[i].value))
             /\ Binds(vbs[i])
  <2>1. vbs[i] \in Varbinds
    BY ElementOfSeq, LenProperties
  <2>2. vbs[i].oid \in Oids /\ (vbs[i].tag = Tag.oid => vbs[i].value \in Oids)
    BY <2>1, VarbindFields, ValuesByTag
  <2>3. Ordinary(vbs[i].oid) /\ (vbs[i].tag = Tag.oid => Ordinary(vbs[i].value))
    BY Zenon DEF AllOrdinary
  <2> QED BY <2>1, <2>2, <2>3, OrdinaryEncodes, Zenon DEF Binds
<1>2. DOMAIN vbs = 1 .. Len(vbs)
  BY LenProperties
<1> QED BY <1>1, <1>2, Zenon DEF EncodableVarbinds

LEMMA OctetsOf ==
  /\ <<1, 3, 6, 1, 2, 1, 1, 3, 0>> \in Seq(0 .. 255)
  /\ <<1, 3, 6, 1, 6, 3, 1, 1, 4, 1, 0>> \in Seq(0 .. 255)
  OBVIOUS

\* The varbinds of a v2c trap.
LEMMA HeadNames == Encodes(SysUpTime) /\ Encodes(SnmpTrapOid)
<1>1. Len(<<1, 3, 6, 1, 2, 1, 1, 3, 0>>) \in 2 .. 20
      /\ <<1, 3, 6, 1, 2, 1, 1, 3, 0>>[1] < 3 /\ <<1, 3, 6, 1, 2, 1, 1, 3, 0>>[2] < 40
  OBVIOUS
<1>2. Len(<<1, 3, 6, 1, 6, 3, 1, 1, 4, 1, 0>>) \in 2 .. 20
      /\ <<1, 3, 6, 1, 6, 3, 1, 1, 4, 1, 0>>[1] < 3
      /\ <<1, 3, 6, 1, 6, 3, 1, 1, 4, 1, 0>>[2] < 40
  OBVIOUS
<1> QED BY <1>1, <1>2, OctetsOf, OidOfType DEF SysUpTime, SnmpTrapOid

LEMMA TrapVarbindsBind ==
  ASSUME NEW uptime \in Word, NEW oid, Encodes(oid),
         NEW extra \in Seq(Varbinds), \A i \in 1 .. Len(extra) : Binds(extra[i])
  PROVE  /\ TrapVarbinds(uptime, oid, extra) \in Seq(Varbinds)
         /\ \A i \in 1 .. Len(TrapVarbinds(uptime, oid, extra)) :
              Binds(TrapVarbinds(uptime, oid, extra)[i])
<1> DEFINE first == [oid |-> SysUpTime, tag |-> Tag.timeTicks, value |-> uptime]
           second == [oid |-> SnmpTrapOid, tag |-> Tag.oid, value |-> oid]
           head == <<first, second>>
           S == {vb \in Varbinds : Binds(vb)}
<1>1. Encodes(SysUpTime) /\ Encodes(SnmpTrapOid)
  BY HeadNames
<1>2. Tag.timeTicks \in UnsignedTags /\ Tag.timeTicks # Tag.oid
  BY DEF UnsignedTags, Tag
<1>3. first.oid = SysUpTime /\ first.tag = Tag.timeTicks
      /\ second.oid = SnmpTrapOid /\ second.tag = Tag.oid /\ second.value = oid
  OBVIOUS
<1>4. first \in Varbinds
  <2>1. SysUpTime \in Oids /\ uptime \in ValuesOf(Tag.timeTicks)
    BY <1>1, <1>2, ValuesByTag DEF Encodes
  <2> QED BY <2>1, VarbindsByTag
<1>5. second \in Varbinds
  <2>1. SnmpTrapOid \in Oids /\ oid \in ValuesOf(Tag.oid)
    BY <1>1, ValuesByTag DEF Encodes
  <2> QED BY <2>1, VarbindsByTag
<1> HIDE DEF first, second
<1>6. first \in S /\ second \in S
  BY <1>1, <1>2, <1>3, <1>4, <1>5, Zenon DEF Binds
<1>7. extra \in Seq(S)
  <2>1. \A i \in 1 .. Len(extra) : extra[i] \in S
    BY ElementOfSeq
  <2> HIDE DEF S
  <2>2. Len(extra) \in Nat /\ extra = [i \in 1 .. Len(extra) |-> extra[i]]
    OBVIOUS
  <2> QED BY <2>1, <2>2
<1>8. TrapVarbinds(uptime, oid, extra) = head \o extra
  BY Zenon DEF TrapVarbinds, head, first, second
<1> HIDE DEF S
<1>9. head \in Seq(S)
  BY <1>6
<1> HIDE DEF head
<1>10. TrapVarbinds(uptime, oid, extra) \in Seq(S)
  BY <1>7, <1>8, <1>9, ConcatProperties
<1>11. \A i \in 1 .. Len(TrapVarbinds(uptime, oid, extra)) : TrapVarbinds(uptime, oid, extra)[i] \in S
  BY <1>10, ElementOfSeq
<1>12. S \subseteq Varbinds
  BY DEF S
<1>13. TrapVarbinds(uptime, oid, extra) \in Seq(Varbinds)
  BY <1>10, <1>12, SeqMonotonic
<1> QED BY <1>11, <1>13 DEF S

Built(t) ==
  IF t.version = V2c
  THEN BuildTrapV2c(t.community, t.uptime, t.oid, t.extra)
  ELSE BuildTrapV1(t.community, t.uptime, t.oid, t.address, t.extra)

TooMany(t) == Len(t.extra) + (IF t.version = V2c THEN 2 ELSE 0) > MaxVarbinds

LEMMA TrapV1Agrees ==
  ASSUME NEW address \in Seq(Octet), NEW uptime \in Word, NEW oid, Encodes(oid),
         NEW extra \in Seq(Varbinds), \A i \in 1 .. Len(extra) : Binds(extra[i])
  PROVE  /\ EncodeTrapV1(address, uptime, oid, extra)
              = TrapV1Pdu(oid, address, oid[Len(oid)], uptime, extra)
         /\ EncodeTrapV1(address, uptime, oid, extra) \in Seq(Nat)
<1> DEFINE enterprise == EncodeOid(oid)
           agent == EncodeTlv(Tag.ipAddress, address)
           generic == EncodeInteger(EnterpriseSpecific)
           specific == EncodeInteger(oid[Len(oid)])
           ticks == EncodeTlv(Tag.timeTicks, UnsignedContent(uptime))
           bindings == EncodeVarbinds(extra)
<1>1. enterprise = Element(Tag.oid, OidOctets(oid), "shortest") /\ enterprise \in Seq(Nat)
  <2>1. OidContent(oid) = OidOctets(oid) /\ OidContent(oid) \in Seq(Nat)
    BY OidsAgree
  <2> QED BY <2>1, ElementsAgree, TagsAreNumbers DEF EncodeOid
<1>2. agent = Element(Tag.ipAddress, address, "shortest") /\ agent \in Seq(Nat)
  BY ElementsAgree, OctetsAreNumbers, TagsAreNumbers
<1>3. generic = Number(<<0, 0, 0, 6>>, "shortest") /\ generic \in Seq(Nat)
  <2>1. 6 \in 0 .. 255
    OBVIOUS
  <2>2. EnterpriseSpecific = <<0, 0, 0, 6>> /\ EnterpriseSpecific \in Word
    BY <2>1, WordOfType, Zenon DEF EnterpriseSpecific
  <2> QED BY <2>2, NumbersAgree
<1>4. specific = Number(oid[Len(oid)], "shortest") /\ specific \in Seq(Nat)
  <2>1. Len(oid) \in 2 .. 20
    BY DEF Encodes, Oids, MaxOidLen
  <2>2. \A n \in 2 .. 20 : n \in 1 .. n
    OBVIOUS
  <2>3. oid[Len(oid)] \in Word
    BY <2>1, <2>2, OidParts, Zenon
  <2> QED BY <2>3, NumbersAgree
<1>5. ticks = Positive(Tag.timeTicks, uptime, "shortest") /\ ticks \in Seq(Nat)
  <2>1. UnsignedContent(uptime) = ShortestPositive(uptime) /\ UnsignedContent(uptime) \in Seq(Nat)
    BY UnsignedsAgree DEF Word
  <2>2. Positive(Tag.timeTicks, uptime, "shortest")
          = Element(Tag.timeTicks, ShortestPositive(uptime), "shortest")
    BY DEF Positive
  <2> QED BY <2>1, <2>2, ElementsAgree, TagsAreNumbers
<1>6. bindings = Bindings(extra, "shortest") /\ bindings \in Seq(Nat)
  BY BindingsAgree
<1>7. EncodeTrapV1(address, uptime, oid, extra)
        = EncodeTlv(Tag.trapV1, enterprise \o agent \o generic \o specific \o ticks \o bindings)
  BY Zenon DEF EncodeTrapV1
<1> HIDE DEF enterprise, agent, generic, specific, ticks, bindings
<1>8. TrapV1Pdu(oid, address, oid[Len(oid)], uptime, extra)
        = Element(Tag.trapV1, enterprise \o agent \o generic \o specific \o ticks \o bindings,
                  "shortest")
  BY <1>1, <1>2, <1>3, <1>4, <1>5, <1>6, Zenon DEF TrapV1Pdu
<1>9. enterprise \o agent \o generic \o specific \o ticks \o bindings \in Seq(Nat)
  BY <1>1, <1>2, <1>3, <1>4, <1>5, <1>6, ConcatProperties
<1> QED BY <1>7, <1>8, <1>9, ElementsAgree, TagsAreNumbers

LEMMA TrapsAgree ==
  ASSUME NEW t, t.community \in Seq(Octet), t.uptime \in Word,
         t.oid \in Oids, Ordinary(t.oid), t.address \in Seq(Octet),
         t.extra \in Seq(Varbinds), AllOrdinary(t.extra)
  PROVE  /\ Built(t) = IF TooMany(t) THEN <<>> ELSE TrapMeant(t)
         /\ Built(t) \in Seq(Nat) /\ TrapMeant(t) \in Seq(Nat)
<1>1. Encodable(t.oid) /\ Encodes(t.oid) /\ EncodableVarbinds(t.extra)
      /\ \A i \in 1 .. Len(t.extra) : Binds(t.extra[i])
  BY OrdinaryEncodes, OrdinaryBinds
<1>2. Len(t.extra) \in Nat /\ MaxVarbinds \in Nat
  BY CodecAssumption
<1>3. <<>> \in Seq(Nat)
  OBVIOUS
<1>4. CASE t.version = V2c
  <2> DEFINE zeros == <<Zero, Zero, Zero>>
             vbs == TrapVarbinds(t.uptime, t.oid, t.extra)
             pdu == EncodePdu(Tag.trapV2, zeros, vbs)
  <2>1. vbs \in Seq(Varbinds) /\ \A i \in 1 .. Len(vbs) : Binds(vbs[i])
    BY <1>1, TrapVarbindsBind
  <2>2. vbs = TrapHead(t) \o t.extra
    BY Zenon DEF TrapVarbinds, TrapHead, SysUpTime, SnmpTrapOid
  <2>3. zeros \in [1 .. 3 -> Word]
    BY ZeroType
  <2> HIDE DEF zeros, vbs
  <2>4. pdu = Pdu(Tag.trapV2, zeros, vbs, "shortest") /\ pdu \in Seq(Nat)
    BY <2>1, <2>3, PdusAgree, TagsAreNumbers
  <2> HIDE DEF pdu
  <2>5. /\ EncodeMessage(V2c, t.community, pdu) = Envelope(V2c, t.community, pdu, "shortest")
        /\ EncodeMessage(V2c, t.community, pdu) \in Seq(Nat)
    BY <2>4, EnvelopesAgree, VersionsType
  <2>6. TrapMeant(t) = Envelope(V2c, t.community, pdu, "shortest")
    <3> DEFINE m == [version |-> V2c, community |-> t.community, tag |-> Tag.trapV2,
                     numbers |-> zeros, vbs |-> vbs]
    <3>1. TrapMeant(t) = Message(m, "shortest")
      BY <1>4, <2>2, Zenon DEF TrapMeant, zeros
    <3>2. m.version = V2c /\ m.community = t.community /\ m.tag = Tag.trapV2
          /\ m.numbers = zeros /\ m.vbs = vbs
      OBVIOUS
    <3> HIDE DEF m
    <3> QED BY <2>4, <3>1, <3>2, Zenon DEF Message
  <2>7. TooMany(t) <=> Len(t.extra) + 2 > MaxVarbinds
    BY <1>4 DEF TooMany
  <2>8. Built(t) = IF Len(t.extra) + 2 > MaxVarbinds THEN <<>>
                   ELSE EncodeMessage(V2c, t.community, pdu)
    BY <1>1, <1>4, Zenon DEF Built, BuildTrapV2c, pdu, vbs, zeros
  <2> QED BY <1>3, <2>5, <2>6, <2>7, <2>8
<1>5. CASE t.version # V2c
  <2> DEFINE pdu == EncodeTrapV1(t.address, t.uptime, t.oid, t.extra)
  <2>1. pdu = TrapV1Pdu(t.oid, t.address, t.oid[Len(t.oid)], t.uptime, t.extra) /\ pdu \in Seq(Nat)
    BY <1>1, TrapV1Agrees
  <2>2. TooMany(t) <=> Len(t.extra) > MaxVarbinds
    BY <1>2, <1>5 DEF TooMany
  <2>3. Built(t) = IF Len(t.extra) > MaxVarbinds THEN <<>>
                   ELSE EncodeMessage(V1, t.community, pdu)
    BY <1>1, <1>5, Zenon DEF Built, BuildTrapV1
  <2> HIDE DEF pdu
  <2>4. /\ EncodeMessage(V1, t.community, pdu) = Envelope(V1, t.community, pdu, "shortest")
        /\ EncodeMessage(V1, t.community, pdu) \in Seq(Nat)
    BY <2>1, EnvelopesAgree, VersionsType
  <2>5. TrapMeant(t) = Envelope(V1, t.community, pdu, "shortest")
    BY <1>5, <2>1, Zenon DEF TrapMeant
  <2> QED BY <1>3, <2>2, <2>3, <2>4, <2>5
<1> QED BY <1>4, <1>5

-----------------------------------------------------------------------------
(***************************************************************************)
(* The invariant.  What is in the context can be encoded, but for a first  *)
(* arc beyond two; what has been encoded is remembered as the code's own   *)
(* encoding, which the lemmas above turn into the reference's.             *)
(***************************************************************************)
WireInv ==
  /\ TypeOK
  /\ phase \in {"dispatched", "handled", "sent", "silent"} =>
       context \in Contexts /\ AllRooted(context.vbs)
  /\ phase = "sent" => EncodableVarbinds(context.vbs) /\ packet = Response(context)
  /\ phase = "silent" => ~(EncodableVarbinds(context.vbs) /\ Len(Response(context)) <= PacketLen)
  /\ phase = "trap" => \E t \in DOMAIN Traps :
       asked = Traps[t] /\ packet = IF Len(Built(asked)) <= asked.cap THEN Built(asked) ELSE <<>>

LEMMA NothingFits == Len(<<>>) <= PacketLen
<1>1. Len(<<>>) = 0
  BY EmptySeq
<1> QED BY <1>1, WireAssumption

LEMMA MinAtMost ==
  ASSUME NEW S, S \subseteq Nat, NEW n \in S
  PROVE  Min(S) \in S /\ Min(S) <= n
<1>1. PICK m \in S : \A j \in S : m <= j
  BY Least
<1>2. Min(S) = m
  BY <1>1, MinIs
<1> QED BY <1>1, <1>2

\* recvfrom keeps no more than has come, and no more than a packet.
LEMMA KeptFits ==
  ASSUME NEW d \in Seq(Octet)
  PROVE  LET kept == SubSeq(d, 1, Min({Len(d), PacketLen}))
         IN  kept \in Seq(Octet) /\ Len(kept) <= Len(d) /\ Len(kept) <= PacketLen
<1> DEFINE n == Min({Len(d), PacketLen})
<1>1. Len(d) \in Nat /\ PacketLen \in Nat
  BY WireAssumption, LenProperties
<1>2. n \in {Len(d), PacketLen} /\ n <= Len(d) /\ n <= PacketLen
  BY <1>1, MinAtMost
<1> HIDE DEF n
<1>3. n \in 0 .. Len(d)
  BY <1>1, <1>2
<1>4. SubSeq(d, 1, n) \in Seq(Octet) /\ Len(SubSeq(d, 1, n)) = IF 1 <= n THEN n - 1 + 1 ELSE 0
  BY <1>3, CutType
<1>5. Len(SubSeq(d, 1, n)) = n
  BY <1>3, <1>4
<1> QED BY <1>2, <1>4, <1>5, Zenon DEF n

LEMMA InitWire ==
  ASSUME Init
  PROVE  WireInv
<1>1. TypeOK
  BY NothingFits DEF Init, TypeOK
<1>2. phase = "idle"
  BY DEF Init
<1> QED BY <1>1, <1>2 DEF WireInv

LEMMA ReceiveWire ==
  ASSUME WireInv, NEW m \in DOMAIN Messages, NEW form \in Forms,
         NEW damage \in {"none", "cut", "changed"}, Receive(m, form, damage)
  PROVE  WireInv'
<1> DEFINE sent == Message(Messages[m], form)
<1>1. sent \in Seq(Octet)
  BY WireAssumption
<1>2. PICK d \in Arrivals(m, sent, damage) : Process(d)
  BY Zenon DEF Receive
<1> HIDE DEF sent
<1>3. d \in Seq(Octet)
  BY <1>1, ArrivalsType
<1> DEFINE kept == SubSeq(d, 1, Min({Len(d), PacketLen}))
<1>5. kept \in Seq(Octet)
  BY <1>3, KeptFits
<1>6. context' = Incoming(kept)
  BY <1>2, Zenon DEF Process
<1> HIDE DEF kept
<1>7. context' = Nothing \/ (context' \in Contexts /\ AllRooted(context'.vbs))
  BY <1>5, <1>6, IncomingFits, Zenon
<1>8. phase' = IF context'.ok THEN "dispatched" ELSE "refused"
  BY <1>2, Zenon DEF Process
<1>9. phase' \in {"dispatched", "refused"}
  BY <1>8
<1>10. phase' = "dispatched" => context' \in Contexts /\ AllRooted(context'.vbs)
  BY <1>7, <1>8 DEF Nothing
<1>11. fault' = damage /\ echoed' = echoed /\ packet' = packet
  BY DEF Receive
<1>12. TypeOK'
  BY <1>7, <1>9, <1>11 DEF WireInv, TypeOK
<1>13. phase' \notin {"handled", "sent", "silent", "trap"}
  BY <1>9
<1> QED BY <1>10, <1>12, <1>13 DEF WireInv

\* Whatever the handler does leaves a context.
LEMMA HandleWire ==
  ASSUME WireInv,
         \/ \E status \in Statuses, index \in Indices : Echo(status, index)
         \/ \E a \in DOMAIN Answers : Answer(Answers[a])
  PROVE  WireInv'
<1>1. /\ phase = "dispatched" /\ phase' = "handled" /\ fault' = fault /\ packet' = packet
      /\ echoed' \in BOOLEAN
  BY DEF Echo, Answer, WireInv, TypeOK
<1>2. context \in Contexts /\ AllRooted(context.vbs)
  BY <1>1 DEF WireInv
<1>3. context' \in Contexts /\ AllRooted(context'.vbs)
  <2>1. ASSUME NEW status \in Statuses, NEW index \in Indices, Echo(status, index)
        PROVE  context' \in Contexts /\ AllRooted(context'.vbs)
    <3>1. status \in 0 .. 255 /\ index \in 0 .. 255
      BY DEF Statuses, Indices
    <3>2. WordOf(status) \in Word /\ WordOf(index) \in Word
      BY <3>1, WordOfType
    <3>3. context' = Handled(context, WordOf(status), WordOf(index))
      BY <2>1, Zenon DEF Echo, Handled
    <3>4. context' \in Contexts /\ context'.vbs = context.vbs
      BY <1>2, <3>2, <3>3, HandledIsContext
    <3> QED BY <1>2, <3>4, Zenon
  <2>2. ASSUME NEW a \in DOMAIN Answers, Answer(Answers[a])
        PROVE  context' \in Contexts /\ AllRooted(context'.vbs)
    <3>1. Answers[a] \in Lists /\ AllRooted(Answers[a])
      BY WireAssumption
    <3>2. context' = Answered(context, Answers[a], Zero, Zero)
      BY <2>2, Zenon DEF Answer, Answered
    <3>3. context' \in Contexts /\ context'.vbs = Answers[a]
      BY <1>2, <3>1, <3>2, AnsweredIsContext, ZeroType
    <3> QED BY <3>1, <3>3, Zenon
  <2> QED BY <2>1, <2>2, Zenon
<1>4. TypeOK'
  BY <1>1, <1>3 DEF WireInv, TypeOK
<1> QED BY <1>1, <1>3, <1>4 DEF WireInv

LEMMA ReplyWire ==
  ASSUME WireInv, Reply
  PROVE  WireInv'
<1> DEFINE sendable == EncodableVarbinds(context.vbs) /\ Len(Response(context)) <= PacketLen
<1>1. /\ phase = "handled" /\ phase' = (IF sendable THEN "sent" ELSE "silent")
      /\ packet' = (IF sendable THEN Response(context) ELSE <<>>)
      /\ fault' = fault /\ echoed' = echoed /\ context' = context
  BY Zenon DEF Reply, Response
<1>2. context \in Contexts /\ AllRooted(context.vbs)
  BY <1>1 DEF WireInv
<1>3. Len(packet') <= PacketLen
  BY <1>1, NothingFits
<1> HIDE DEF sendable
<1>4. phase' \in {"sent", "silent"}
  BY <1>1
<1>5. TypeOK'
  BY <1>1, <1>3, <1>4, Zenon DEF WireInv, TypeOK
<1>6. (phase' = "sent" => sendable) /\ (phase' = "silent" => ~sendable) /\ phase' # "trap"
  BY <1>1
<1>7. phase' = "sent" => EncodableVarbinds(context'.vbs) /\ packet' = Response(context')
  BY <1>1, <1>6, Zenon DEF sendable
<1>8. phase' = "silent"
      => ~(EncodableVarbinds(context'.vbs) /\ Len(Response(context')) <= PacketLen)
  BY <1>1, <1>6, Zenon DEF sendable
<1>9. context' \in Contexts /\ AllRooted(context'.vbs)
  BY <1>1, <1>2, Zenon
<1>10. Response(context)' = Response(context')
  BY DEF Response
<1> QED BY <1>5, <1>6, <1>7, <1>8, <1>9, <1>10, Zenon DEF WireInv

LEMMA TrapWire ==
  ASSUME WireInv, NEW t \in DOMAIN Traps, Trap(Traps[t])
  PROVE  WireInv'
<1> DEFINE x == Traps[t]
<1>1. /\ x.community \in Seq(Octet) /\ x.uptime \in Word
      /\ x.oid \in Oids /\ Ordinary(x.oid) /\ x.address \in Seq(Octet)
      /\ x.extra \in Seq(Varbinds) /\ AllOrdinary(x.extra) /\ x.cap \in 0 .. PacketLen
  BY WireAssumption, Zenon
<1>2. /\ phase' = "trap" /\ asked' = x
      /\ packet' = (IF Len(Built(x)) <= x.cap THEN Built(x) ELSE <<>>)
      /\ fault' = fault /\ echoed' = echoed /\ context' = context
  BY Zenon DEF Trap, Built
<1> HIDE DEF x
<1>3. Built(x) \in Seq(Nat)
  BY <1>1, TrapsAgree
<1>4. Len(packet') <= PacketLen
  <2>1. Len(Built(x)) \in Nat /\ x.cap \in Nat /\ PacketLen \in Nat /\ x.cap <= PacketLen
    BY <1>1, <1>3, WireAssumption
  <2> QED BY <1>2, <2>1, NothingFits
<1>5. TypeOK'
  BY <1>2, <1>4 DEF WireInv, TypeOK
<1>6. \E s \in DOMAIN Traps :
        asked' = Traps[s]
        /\ packet' = IF Len(Built(asked')) <= asked'.cap THEN Built(asked') ELSE <<>>
  BY <1>2, Zenon DEF x
<1>7. phase' \notin {"dispatched", "handled", "sent", "silent"}
  BY <1>2
<1>8. Built(asked)' = Built(asked')
  BY DEF Built
<1> QED BY <1>2, <1>5, <1>6, <1>7, <1>8 DEF WireInv

LEMMA StepWire ==
  ASSUME WireInv, [Next]_vars
  PROVE  WireInv'
<1>1. ASSUME Continue PROVE WireInv'
  <2>1. /\ phase' = "idle" /\ fault' = "none" /\ context' = Nothing
        /\ echoed' = FALSE /\ packet' = <<>>
    BY <1>1, Zenon DEF Continue
  <2>2. TypeOK'
    BY <2>1, NothingFits DEF TypeOK
  <2> QED BY <2>1, <2>2 DEF WireInv
<1>2. ASSUME UNCHANGED vars PROVE WireInv'
  BY <1>2 DEF vars, WireInv, TypeOK, Response, Built
<1> QED BY <1>1, <1>2, ReceiveWire, HandleWire, ReplyWire, TrapWire, Zenon DEF Next

LEMMA WireInvariant == Spec => []WireInv
<1> QED BY InitWire, StepWire, PTL DEF Spec

\* Whatever datagrams arrive and whatever the handlers answer, the context
\* stays within its arrays and no packet exceeds its buffer.
THEOREM TypeCorrect == Spec => []TypeOK
<1>1. WireInv => TypeOK
  BY DEF WireInv
<1> QED BY <1>1, WireInvariant, PTL

\* Every response, of whatever values, is the one shortest encoding of the
\* context, and only a length or an OID that has no encoding keeps it back
\* (prepare_outgoing, snmp_encode_response_shaped_pdu, ber_encode.c).
THEOREM RepliesAreCanonical == Spec => []ReplyIsCanonical
<1>1. ASSUME WireInv PROVE ReplyIsCanonical
  <2>1. ASSUME phase = "sent" PROVE packet = Message(context, "shortest")
    <3>1. /\ context \in Contexts /\ AllRooted(context.vbs)
          /\ EncodableVarbinds(context.vbs) /\ packet = Response(context)
      BY <1>1, <2>1 DEF WireInv
    <3> QED BY <3>1, ResponsesAgree, Zenon
  <2>2. ASSUME phase = "silent"
        PROVE  ~Repeatable \/ Len(Message(context, "shortest")) > PacketLen
    <3>1. /\ context \in Contexts /\ AllRooted(context.vbs)
          /\ ~(EncodableVarbinds(context.vbs) /\ Len(Response(context)) <= PacketLen)
      BY <1>1, <2>2 DEF WireInv
    <3>2. CASE ~EncodableVarbinds(context.vbs)
      <4>1. context.vbs \in Seq(Varbinds)
        BY <3>1 DEF Contexts, Lists
      <4>2. \E i \in DOMAIN context.vbs : BeyondTwo(context.vbs[i])
        BY <3>1, <3>2, <4>1, NotEncodable, Zenon
      <4> QED BY <4>2, Zenon DEF Repeatable
    <3>3. CASE EncodableVarbinds(context.vbs)
      <4>1. Response(context) = Message(context, "shortest") /\ Response(context) \in Seq(Nat)
        BY <3>1, <3>3, ResponsesAgree, Zenon
      <4>2. Len(Response(context)) \in Nat /\ PacketLen \in Nat
        BY <4>1, WireAssumption
      <4>3. Len(Response(context)) > PacketLen
        BY <3>1, <3>3, <4>2
      <4> QED BY <4>1, <4>3, Zenon
    <3> QED BY <3>2, <3>3
  <2> QED BY <2>1, <2>2, Zenon DEF ReplyIsCanonical
<1> QED BY <1>1, WireInvariant, PTL

\* A trap says exactly what its caller asked for, whatever the uptime and the
\* values of its varbinds, or nothing (snmp_trap_build).
THEOREM TrapsSayWhatWasAsked == Spec => []TrapIsWhatWasAsked
<1>1. ASSUME WireInv PROVE TrapIsWhatWasAsked
  <2> SUFFICES ASSUME phase = "trap"
               PROVE  packet = IF TooMany(asked) \/ Len(TrapMeant(asked)) > asked.cap
                               THEN <<>> ELSE TrapMeant(asked)
    BY Zenon DEF TrapIsWhatWasAsked, TooMany
  <2>1. PICK t \in DOMAIN Traps :
          /\ asked = Traps[t]
          /\ packet = IF Len(Built(asked)) <= asked.cap THEN Built(asked) ELSE <<>>
    BY <1>1, Zenon DEF WireInv
  <2>2. /\ asked.community \in Seq(Octet) /\ asked.uptime \in Word
        /\ asked.oid \in Oids /\ Ordinary(asked.oid) /\ asked.address \in Seq(Octet)
        /\ asked.extra \in Seq(Varbinds) /\ AllOrdinary(asked.extra)
        /\ asked.cap \in 0 .. PacketLen
    BY <2>1, WireAssumption, Zenon
  <2>3. /\ Built(asked) = IF TooMany(asked) THEN <<>> ELSE TrapMeant(asked)
        /\ Built(asked) \in Seq(Nat) /\ TrapMeant(asked) \in Seq(Nat)
    BY <2>2, TrapsAgree
  <2>4. Len(TrapMeant(asked)) \in Nat /\ asked.cap \in Nat
    BY <2>2, <2>3, WireAssumption
  <2>5. Len(TrapMeant(asked)) > asked.cap <=> ~(Len(TrapMeant(asked)) <= asked.cap)
    BY <2>4
  <2> QED BY <2>1, <2>3, <2>5, Zenon
<1> QED BY <1>1, WireInvariant, PTL

-----------------------------------------------------------------------------
(* What is decoded is never longer, encoded again, than what it came from. *)
\* The octets of an element whose content has n.
TlvLen(n) == 1 + (IF n < 128 THEN 1 ELSE IF n < 256 THEN 2 ELSE 3) + n

LEMMA TlvLenGrows ==
  ASSUME NEW m \in Nat, NEW n \in Nat, m <= n
  PROVE  TlvLen(m) <= TlvLen(n)
  BY DEF TlvLen

LEMMA TlvLenType ==
  ASSUME NEW n \in Nat
  PROVE  TlvLen(n) \in Nat /\ TlvLen(n) <= n + 4 /\ TlvLen(n) >= n + 2
  BY DEF TlvLen

LEMMA EncodedLength ==
  ASSUME NEW tag \in Nat, NEW content \in Seq(Nat)
  PROVE  Len(EncodeTlv(tag, content)) = TlvLen(Len(content))
<1> DEFINE n == Len(content)
<1>1. n \in Nat
  BY LenProperties
<1>2. LengthOctets(n) \in Seq(Nat) /\ <<tag>> \in Seq(Nat) /\ Len(<<tag>>) = 1
  BY <1>1, LengthsAgree
<1>3. Len(LengthOctets(n)) = IF n < 128 THEN 1 ELSE IF n < 256 THEN 2 ELSE 3
  BY <1>1 DEF LengthOctets
<1>4. <<tag>> \o LengthOctets(n) \in Seq(Nat)
      /\ Len(<<tag>> \o LengthOctets(n)) = 1 + Len(LengthOctets(n))
  BY <1>2, ConcatProperties
<1>5. Len((<<tag>> \o LengthOctets(n)) \o content) = (1 + Len(LengthOctets(n))) + n
  BY <1>4, ConcatProperties
<1>6. EncodeTlv(tag, content) = (<<tag>> \o LengthOctets(n)) \o content
  BY Zenon DEF EncodeTlv
<1>7. Len(EncodeTlv(tag, content)) = (1 + Len(LengthOctets(n))) + n
  BY <1>5, <1>6, Zenon
<1> HIDE DEF n
<1> QED BY <1>1, <1>3, <1>7 DEF TlvLen, n

LEMMA LengthValueOne ==
  ASSUME NEW field \in Seq(Octet), Len(field) = 1
  PROVE  LengthValue(field) = field[1]
<1>1. 1 \in 1 .. Len(field) /\ 1 - 1 = 0 /\ Len(field) # 4 /\ field[1] \in Octet
  BY ElementOfSeq
<1>2. LengthWalk(field)[1] = LengthWalk(field)[1 - 1] * 256 + field[1] /\ LengthWalk(field)[0] = 0
  BY <1>1, LengthWalkIs
<1>3. \A o \in 0 .. 255 : 0 * 256 + o = o
  OBVIOUS
<1>4. 0 * 256 + field[1] = field[1]
  BY <1>1, <1>3, Zenon DEF Octet
<1>5. LengthWalk(field)[1] = field[1]
  BY <1>1, <1>2, <1>4, ZenonT(60)
<1> QED BY <1>1, <1>5, LengthValueIs, Zenon

\* A length takes at least as many octets as its shortest form.
LEMMA LengthCosts ==
  ASSUME NEW d \in Seq(Octet), d # <<>>, DecodeLength(d).ok
  PROVE  TlvLen(DecodeLength(d).value) <= 1 + DecodeLength(d).size + DecodeLength(d).value
<1> DEFINE n == d[1] - 128
<1>1. Len(d) \in Nat /\ Len(d) >= 1 /\ d[1] \in 0 .. 255
  <2>1. Len(d) \in Nat \ {0}
    BY EmptySeq
  <2>2. d[1] \in Octet
    BY <2>1, ElementOfSeq
  <2> QED BY <2>1, <2>2 DEF Octet
<1>2. DecodeLength(d).value \in Nat /\ DecodeLength(d).size \in 1 .. 5
  BY DecodeLengthType
<1>3. CASE d[1] < 128
  <2>1. DecodeLength(d) = [ok |-> TRUE, value |-> d[1], size |-> 1]
    BY <1>3 DEF DecodeLength
  <2>2. \A v \in 0 .. 255 : v < 128 => TlvLen(v) <= 1 + 1 + v
    BY DEF TlvLen
  <2>3. DecodeLength(d).value = d[1] /\ DecodeLength(d).size = 1
    BY <2>1
  <2> QED BY <1>1, <1>3, <2>2, <2>3, Zenon
<1>4. CASE ~(d[1] < 128)
  <2> DEFINE field == SubSeq(d, 2, 1 + n)
  <2>1. n \in 1 .. 4 /\ 1 + n <= Len(d)
    <3>1. CASE n \notin 1 .. 4 \/ Len(d) < 1 + n
      <4>1. DecodeLength(d) = [ok |-> FALSE]
        BY <1>4, <3>1 DEF DecodeLength
      <4> QED BY <4>1
    <3>2. CASE ~(n \notin 1 .. 4 \/ Len(d) < 1 + n)
      BY <1>1, <3>2
    <3> QED BY <3>1, <3>2, Zenon
  <2>2. DecodeLength(d) = [ok |-> TRUE, value |-> LengthValue(field), size |-> 1 + n]
    BY <1>1, <1>4, <2>1 DEF DecodeLength
  <2>3. DecodeLength(d).value = LengthValue(field) /\ DecodeLength(d).size = 1 + n
    BY <2>2
  <2>4. CASE n = 1
    <3>1. 2 \in 0 .. Len(d) /\ 1 + n = 2
      BY <1>1, <2>1, <2>4
    <3>2. field \in Seq(Octet) /\ Len(field) = 1
      BY <3>1, CutType
    <3> HIDE DEF field
    <3>3. field[1] \in 0 .. 255
      <4>1. 1 \in 1 .. Len(field)
        BY <3>2
      <4>2. field[1] \in Octet
        BY <3>2, <4>1, ElementOfSeq, Zenon
      <4> QED BY <4>2 DEF Octet
    <3>4. LengthValue(field) = field[1]
      BY <3>2, LengthValueOne
    <3>5. TlvLen(field[1]) <= 1 + 2 + field[1]
      <4>1. \A o \in 0 .. 255 : TlvLen(o) <= 1 + 2 + o
        BY DEF TlvLen
      <4> QED BY <3>3, <4>1, Zenon
    <3> QED BY <2>3, <3>1, <3>4, <3>5, Zenon
  <2>5. CASE n # 1
    <3>1. \A v \in Nat, k \in 1 .. 5 : k >= 3 => TlvLen(v) <= 1 + k + v
      BY DEF TlvLen
    <3>2. DecodeLength(d).size >= 3
      BY <1>1, <2>1, <2>3, <2>5
    <3> QED BY <1>2, <3>1, <3>2, Zenon
  <2> QED BY <2>4, <2>5
<1> QED BY <1>3, <1>4

\* So does an element.
LEMMA ElementCosts ==
  ASSUME NEW d \in Seq(Octet), DecodeTlv(d).ok
  PROVE  TlvLen(Len(DecodeTlv(d).content)) + Len(DecodeTlv(d).rest) <= Len(d)
<1> DEFINE length == DecodeLength(Tail(d))
           header == 1 + length.size
           end == header + length.value
<1>0. DecodeTlv(d) # NoTlv
  BY DEF NoTlv
<1>1. ~(Len(d) < 2) /\ length.ok /\ ~(Len(d) < end)
  BY <1>0, Zenon DEF DecodeTlv
<1>2. Len(d) \in Nat /\ d # <<>>
  BY <1>1, LenProperties
<1>3. Tail(d) \in Seq(Octet) /\ Tail(d) # <<>>
  <2>1. Tail(d) \in Seq(Octet) /\ Len(Tail(d)) = Len(d) - 1
    BY <1>2, HeadTailProperties
  <2>2. Len(Tail(d)) # 0
    BY <1>1, <1>2, <2>1
  <2> QED BY <2>1, <2>2, EmptySeq
<1>4. length.value \in Nat /\ length.size \in 1 .. 5
  BY <1>1, <1>3, DecodeLengthType
<1>5. TlvLen(length.value) <= 1 + length.size + length.value
  BY <1>1, <1>3, LengthCosts
<1>6. DecodeTlv(d) = [ok |-> TRUE, tag |-> d[1], content |-> SubSeq(d, header + 1, end),
                      rest |-> SubSeq(d, end + 1, Len(d))]
  BY <1>1, Zenon DEF DecodeTlv
<1> HIDE DEF length
<1>7. /\ header + 1 \in Nat \ {0} /\ end + 1 \in Nat \ {0} /\ end \in 0 .. Len(d)
      /\ Len(d) \in 0 .. Len(d)
      /\ (IF header + 1 <= end THEN end - (header + 1) + 1 ELSE 0) = length.value
      /\ (IF end + 1 <= Len(d) THEN Len(d) - (end + 1) + 1 ELSE 0) = Len(d) - end
      /\ end \in Nat
  <2>1. length.size \in Nat /\ length.value \in Nat
    BY <1>4
  <2> DEFINE size == length.size
             value == length.value
  <2>2. size \in Nat /\ value \in Nat /\ Len(d) \in Nat /\ ~(Len(d) < (1 + size) + value)
    BY <1>1, <1>2, <2>1
  <2>3. header = 1 + size /\ end = (1 + size) + value /\ length.value = value
    OBVIOUS
  <2> HIDE DEF size, value, header, end
  <2> QED BY <2>2, <2>3
<1>8. Len(SubSeq(d, header + 1, end)) = length.value
      /\ Len(SubSeq(d, end + 1, Len(d))) = Len(d) - end
  <2> HIDE DEF header, end
  <2> QED BY <1>7, CutType
<1>9. Len(DecodeTlv(d).content) = length.value /\ Len(DecodeTlv(d).rest) = Len(d) - end
  <2> HIDE DEF header, end
  <2>1. DecodeTlv(d).content = SubSeq(d, header + 1, end)
        /\ DecodeTlv(d).rest = SubSeq(d, end + 1, Len(d))
    <3> DEFINE first == d[1]
               inside == SubSeq(d, header + 1, end)
               after == SubSeq(d, end + 1, Len(d))
    <3>1. DecodeTlv(d) = [ok |-> TRUE, tag |-> first, content |-> inside, rest |-> after]
      BY <1>6
    <3> HIDE DEF first, inside, after
    <3>2. DecodeTlv(d).content = inside /\ DecodeTlv(d).rest = after
      BY <3>1
    <3> QED BY <3>2 DEF inside, after
  <2> QED BY <1>8, <2>1, Zenon
<1>10. TlvLen(length.value) \in Nat
  BY <1>4, TlvLenType
<1> QED BY <1>2, <1>4, <1>5, <1>7, <1>9, <1>10

\* An element that is expected is the first of its octets.
LEMMA ExpectCosts ==
  ASSUME NEW d \in Seq(Octet), NEW tag, Expect(d, tag).ok
  PROVE  /\ Expect(d, tag) = DecodeTlv(d) /\ DecodeTlv(d).ok /\ DecodeTlv(d).tag = tag
         /\ Expect(d, tag).content \in Seq(Octet) /\ Expect(d, tag).rest \in Seq(Octet)
         /\ TlvLen(Len(Expect(d, tag).content)) + Len(Expect(d, tag).rest) <= Len(d)
<1>1. ~NoTlv.ok
  BY DEF NoTlv
<1>2. Expect(d, tag) = DecodeTlv(d) /\ DecodeTlv(d).tag = tag
  BY <1>1, Zenon DEF Expect
<1>3. DecodeTlv(d).ok /\ DecodeTlv(d) \in Tlvs
  BY <1>2, DecodeTlvType, Zenon
<1>4. DecodeTlv(d).content \in Seq(Octet) /\ DecodeTlv(d).rest \in Seq(Octet)
  BY <1>3 DEF Tlvs
<1> QED BY <1>2, <1>3, <1>4, ElementCosts, Zenon

\* Which octets of the content, or of what it is filled up with, remain.
LEMMA ShiftInIs ==
  ASSUME NEW n \in {4, 8}, NEW fill \in Octet, NEW content \in Seq(Octet), Len(content) >= 1,
         NEW i \in 1 .. n
  PROVE  ShiftIn(n, fill, content)[i]
           = IF Len(content) + i <= n THEN fill ELSE content[Len(content) + i - n]
<1> DEFINE head == [j \in 1 .. n |-> fill]
           all == head \o content
           k == Len(content)
<1>1. n \in Nat /\ k \in Nat
  OBVIOUS
<1>2. head \in Seq(Octet) /\ Len(head) = n
  BY <1>1
<1>3. \A j \in 1 .. n : head[j] = fill
  OBVIOUS
<1> HIDE DEF head
<1>4. all \in Seq(Octet) /\ Len(all) = n + k
      /\ \A j \in 1 .. n + k : all[j] = IF j <= n THEN head[j] ELSE content[j - n]
  BY <1>1, <1>2, ConcatProperties
<1> HIDE DEF all
<1>5. ShiftIn(n, fill, content) = SubSeq(all, k + 1, k + n)
  BY Zenon DEF ShiftIn, all, head, k
<1>6. \A j \in k + 1 .. k + n : all[j] \in Octet
  <2>1. \A j \in k + 1 .. k + n : j \in 1 .. Len(all)
    BY <1>1, <1>4
  <2> QED BY <1>4, <2>1, ElementOfSeq
<1>7. \A j \in 1 .. n : SubSeq(all, k + 1, k + n)[j] = all[k + j]
  <2> HIDE DEF k
  <2>1. k + 1 \in Int /\ k + n \in Int /\ (k + n) - (k + 1) + 1 = n
        /\ \A j \in 1 .. n : (k + 1) + j - 1 = k + j
    BY <1>1
  <2> DEFINE a == k + 1
             b == k + n
  <2>2. a \in Int /\ b \in Int /\ \A j \in a .. b : all[j] \in Octet
    BY <1>6, <2>1
  <2> HIDE DEF a, b
  <2>3. \A j \in 1 .. b - a + 1 : SubSeq(all, a, b)[j] = all[a + j - 1]
    BY <2>2, SubSeqProperties
  <2> QED BY <2>1, <2>3 DEF a, b
<1>8. ShiftIn(n, fill, content)[i] = all[k + i]
  BY <1>5, <1>7, Zenon
<1>9. k + i \in 1 .. n + k /\ (k + i <= n => k + i \in 1 .. n)
  BY <1>1
<1> HIDE DEF k
<1>10. all[k + i] = IF k + i <= n THEN head[k + i] ELSE content[(k + i) - n]
  BY <1>4, <1>9, Zenon
<1>11. CASE k + i <= n
  <2>1. all[k + i] = head[k + i]
    BY <1>10, <1>11, Zenon
  <2> QED BY <1>3, <1>8, <1>9, <1>11, <2>1, Zenon DEF k
<1>12. CASE ~(k + i <= n)
  <2>1. all[k + i] = content[(k + i) - n]
    BY <1>10, <1>12, Zenon
  <2>2. ShiftIn(n, fill, content)[i] = content[(k + i) - n]
    BY <1>8, <2>1, Zenon
  <2> QED BY <1>12, <2>2 DEF k
<1> QED BY <1>11, <1>12, Zenon

\* An integer.
LEMMA IntegerCosts ==
  ASSUME NEW tlv \in Tlvs, DecodeInteger(tlv).ok
  PROVE  /\ DecodeInteger(tlv).value \in Word
         /\ Len(IntegerContent(DecodeInteger(tlv).value)) <= Len(tlv.content)
         /\ Len(tlv.content) >= 1
<1> DEFINE n == Len(tlv.content)
           fill == Fill(tlv.content[1])
           w == ShiftIn(4, fill, tlv.content)
           S == {k \in 1 .. 4 : Signed(LastOctets(w, k)) = w}
<1>1. n \in 1 .. 4 /\ DecodeInteger(tlv) = Yields(w)
  <2>1. ~Fails.ok
    BY DEF Fails
  <2> QED BY <2>1, Zenon DEF DecodeInteger, Fill
<1>2. tlv.content \in Seq(Octet) /\ n >= 1
  BY <1>1 DEF Tlvs
<1>3. fill \in Octet
  BY DEF Fill, Octet
<1>4. DecodeInteger(tlv).value = w /\ w \in Word
  <2>1. w \in Word
    BY <1>2, <1>3, ShiftInType DEF Word
  <2> HIDE DEF w
  <2> QED BY <1>1, <2>1 DEF Yields
<1>5. \A i \in 1 .. 4 : w[i] = IF n + i <= 4 THEN fill ELSE tlv.content[n + i - 4]
  BY <1>2, <1>3, ShiftInIs
<1>6. \A i \in 1 .. 4 - n : w[i] = fill
  <2>1. \A i \in 1 .. 4 - n : i \in 1 .. 4 /\ n + i <= 4
    BY <1>1
  <2> QED BY <1>5, <2>1, Zenon
<1>7. w[5 - n] = tlv.content[1]
  <2>1. 5 - n \in 1 .. 4 /\ ~(n + (5 - n) <= 4) /\ n + (5 - n) - 4 = 1
    <3>1. \A m \in 1 .. 4 : 5 - m \in 1 .. 4 /\ ~(m + (5 - m) <= 4) /\ m + (5 - m) - 4 = 1
      OBVIOUS
    <3> QED BY <1>1, <3>1, Zenon
  <2>2. w[5 - n] = tlv.content[n + (5 - n) - 4]
    BY <1>5, <2>1, Zenon
  <2> QED BY <2>1, <2>2, Zenon
<1>8. n \in S
  <2> HIDE DEF w
  <2>1. Signed(LastOctets(w, n)) = w
    <3>1. \A i \in 1 .. 4 - n : w[i] = Fill(w[5 - n])
      BY <1>6, <1>7, Zenon
    <3>2. n \in 1 .. 4 /\ w \in Word
      BY <1>1, <1>4
    <3> HIDE DEF n
    <3> QED BY <3>1, <3>2, SignedIs
  <2> QED BY <1>1, <2>1
<1>9. Min(S) \in 1 .. 4 /\ Min(S) <= n
  <2>1. S \subseteq Nat /\ S \subseteq 1 .. 4
    OBVIOUS
  <2> HIDE DEF S
  <2> QED BY <1>8, <2>1, MinAtMost
<1>10. IntegerContent(w) = LastOctets(w, Min(S))
  <2> HIDE DEF w
  <2> QED BY <1>4, IntegersAgree, Zenon DEF ShortestSigned, S
<1>11. Len(LastOctets(w, Min(S))) = Min(S)
  <2> HIDE DEF w, S
  <2>1. w \in Seq(Nat) /\ Len(w) = 4
    BY <1>4, WordIsSeq DEF Word
  <2> QED BY <1>9, <2>1, LastOctetsType
<1> QED BY <1>2, <1>4, <1>9, <1>10, <1>11, Zenon

\* An unsigned word, unless it needs a pad octet.
LEMMA UnsignedCosts ==
  ASSUME NEW tlv \in Tlvs, NEW width \in {4, 8}, DecodeUnsigned(tlv, width).ok,
         LET shortest == ShortestPositive(DecodeUnsigned(tlv, width).value)
         IN  ~(Len(shortest) > 1 /\ shortest[1] = 0)
  PROVE  /\ DecodeUnsigned(tlv, width).value \in [1 .. width -> Octet]
         /\ Len(UnsignedContent(DecodeUnsigned(tlv, width).value)) <= Len(tlv.content)
<1> DEFINE n == Len(tlv.content)
           w == ShiftIn(width, 0, tlv.content)
           positive == <<0>> \o w
           fits(k) == /\ LastOctets(positive, k)[1] < 128
                      /\ \A i \in 1 .. Len(positive) - k : positive[i] = 0
           S == {k \in 1 .. Len(positive) : fits(k)}
<1>1. n \in 1 .. width + 1 /\ DecodeUnsigned(tlv, width) = Yields(w)
  <2>1. ~Fails.ok
    BY DEF Fails
  <2> QED BY <2>1, Zenon DEF DecodeUnsigned
<1>2. tlv.content \in Seq(Octet) /\ n \in Nat /\ n >= 1 /\ width \in Nat
  BY <1>1 DEF Tlvs
<1>3. 0 \in Octet
  BY DEF Octet
<1>4. DecodeUnsigned(tlv, width).value = w /\ w \in [1 .. width -> Octet]
  <2>1. w \in [1 .. width -> Octet]
    BY <1>2, <1>3, ShiftInType
  <2> HIDE DEF w
  <2> QED BY <1>1, <2>1 DEF Yields
<1>5. \A i \in 1 .. width : n + i <= width => w[i] = 0
  <2> TAKE i \in 1 .. width
  <2>1. w[i] = IF n + i <= width THEN 0 ELSE tlv.content[n + i - width]
    BY <1>2, <1>3, ShiftInIs, ZenonT(60)
  <2> QED BY <2>1, Zenon
<1>6. w \in Seq(Nat) /\ Len(w) = width
  <2> HIDE DEF w
  <2> QED BY <1>4, WordIsSeq, ZenonT(60)
<1> HIDE DEF w
<1>7. positive \in Seq(Nat) /\ Len(positive) = width + 1
      /\ \A i \in 1 .. width + 1 : positive[i] = IF i <= 1 THEN 0 ELSE w[i - 1]
  <2>1. <<0>> \in Seq(Nat) /\ Len(<<0>>) = 1 /\ <<0>>[1] = 0
    OBVIOUS
  <2>2. positive \in Seq(Nat) /\ Len(positive) = 1 + width
        /\ \A i \in 1 .. 1 + width : positive[i] = IF i <= 1 THEN <<0>>[i] ELSE w[i - 1]
    BY <1>6, <2>1, ConcatProperties
  <2>3. 1 + width = width + 1 /\ \A i \in 1 .. width + 1 : i <= 1 => i = 1
    BY <1>2
  <2> HIDE DEF positive
  <2> QED BY <2>1, <2>2, <2>3
<1>8. \A i \in 1 .. width + 1 : n + i <= width + 1 => positive[i] = 0
  <2> TAKE i \in 1 .. width + 1
  <2> HAVE n + i <= width + 1
  <2> HIDE DEF n, positive
  <2>1. i <= 1 \/ (i - 1 \in 1 .. width /\ n + (i - 1) <= width)
    BY <1>2
  <2> QED BY <1>5, <1>7, <2>1
<1> HIDE DEF positive
<1>9. \A k \in 1 .. width + 1 :
        Len(LastOctets(positive, k)) = k /\ LastOctets(positive, k)[1] = positive[(width + 1) - k + 1]
  <2> TAKE k \in 1 .. width + 1
  <2>1. 1 \in 1 .. k /\ k \in 1 .. Len(positive)
    BY <1>2, <1>7
  <2>2. /\ Len(LastOctets(positive, k)) = k
        /\ \A i \in 1 .. k : LastOctets(positive, k)[i] = positive[Len(positive) - k + i]
    BY <1>7, <2>1, LastOctetsType, Zenon
  <2> QED BY <1>7, <2>1, <2>2, Zenon
<1>10. S \subseteq 1 .. width + 1 /\ S \subseteq Nat
  BY <1>2, <1>7
<1>11. ShortestPositive(w) = LastOctets(positive, Min(S))
  BY Zenon DEF ShortestPositive, positive
<1>12. UnsignedContent(w) = ShortestPositive(w)
  BY <1>4, UnsignedsAgree
<1>13. CASE n = width + 1
  <2>1. width + 1 \in S
    <3>1. width + 1 \in 1 .. width + 1 /\ (width + 1) - (width + 1) + 1 = 1
          /\ (width + 1) - (width + 1) = 0 /\ 1 \in 1 .. width + 1 /\ 1 .. 0 = {}
      BY <1>2
    <3>2. LastOctets(positive, width + 1)[1] = 0
      BY <1>7, <1>9, <3>1
    <3> QED BY <1>7, <3>1, <3>2
  <2> HIDE DEF S
  <2>2. Min(S) \in 1 .. width + 1 /\ Min(S) <= n
    BY <1>10, <1>13, <2>1, MinAtMost
  <2>3. Len(ShortestPositive(w)) <= n
    BY <1>9, <1>11, <2>2
  <2> QED BY <1>4, <1>12, <2>3
<1>14. CASE n # width + 1
  <2> HIDE DEF n
  <2>1. n + 1 \in 1 .. width + 1 /\ (width + 1) - (n + 1) + 1 = (width + 1) - n
        /\ (width + 1) - n \in 1 .. width + 1 /\ n + ((width + 1) - n) <= width + 1
        /\ \A i \in 1 .. (width + 1) - (n + 1) : i \in 1 .. width + 1 /\ n + i <= width + 1
    BY <1>1, <1>2, <1>14
  <2>2. LastOctets(positive, n + 1)[1] = 0
    BY <1>8, <1>9, <2>1
  <2>3. n + 1 \in S
    BY <1>7, <1>8, <2>1, <2>2, SMTT(30)
  <2> HIDE DEF S
  <2>4. Min(S) \in 1 .. width + 1 /\ Min(S) <= n + 1
    BY <1>10, <2>3, MinAtMost
  <2>5. Min(S) # n + 1
    <3> SUFFICES ASSUME Min(S) = n + 1 PROVE FALSE
      OBVIOUS
    <3>1. Len(ShortestPositive(w)) = n + 1 /\ ShortestPositive(w)[1] = 0
      BY <1>9, <1>11, <2>1, <2>2
    <3>2. n + 1 > 1
      BY <1>2
    <3> QED BY <1>4, <3>1, <3>2
  <2>6. Min(S) <= n
    BY <1>2, <2>4, <2>5
  <2>7. Len(ShortestPositive(w)) <= n
    BY <1>9, <1>11, <2>4, <2>6
  <2> QED BY <1>4, <1>12, <2>7 DEF n
<1> QED BY <1>13, <1>14

-----------------------------------------------------------------------------
(* Shifting seven bits in moves every group of a word up by one. *)
LEMMA Inserts1 ==
  ASSUME NEW b \in 0 .. 15, NEW c \in 0 .. 127
  PROVE  ((b \div 8 + 16 * 0) % 2) * 128 + (c \div 4 + 32 * (b % 8)) \div 2 = c \div 8 + 16 * b
  OBVIOUS

LEMMA Inserts2 ==
  ASSUME NEW p \in 0 .. 127, NEW q \in 0 .. 127
  PROVE  (q \div 4 + 32 * (p % 8)) % 2 = (q \div 4) % 2
  OBVIOUS

LEMMA Inserts3 ==
  ASSUME NEW p \in 0 .. 127, NEW q \in 0 .. 127
  PROVE  ((p \div 4) % 2) * 128 + (q \div 2 + 64 * (p % 4)) \div 2 = q \div 4 + 32 * (p % 8)
  BY SMTT(30)

LEMMA Inserts4 ==
  ASSUME NEW p \in 0 .. 127, NEW q \in 0 .. 127
  PROVE  (q \div 2 + 64 * (p % 4)) % 2 = (q \div 2) % 2
  OBVIOUS

LEMMA Inserts5 ==
  ASSUME NEW p \in 0 .. 127, NEW q \in 0 .. 127
  PROVE  ((p \div 2) % 2) * 128 + (q + 128 * (p % 2)) \div 2 = q \div 2 + 64 * (p % 4)
  OBVIOUS

LEMMA Inserts6 ==
  ASSUME NEW p \in 0 .. 127, NEW q \in 0 .. 127
  PROVE  (q + 128 * (p % 2)) % 2 = q % 2
  OBVIOUS

LEMMA Inserts7 ==
  ASSUME NEW p \in 0 .. 127, NEW q \in 0 .. 127
  PROVE  (p % 2) * 128 + q = q + 128 * (p % 2)
  OBVIOUS

LEMMA Takes1 ==
  ASSUME NEW a \in 0 .. 15, NEW b \in 0 .. 127
  PROVE  (b \div 8 + 16 * a) \div 16 = a /\ (b \div 8 + 16 * a) % 16 = b \div 8
  OBVIOUS

LEMMA Takes2 ==
  ASSUME NEW b \in 0 .. 127, NEW c \in 0 .. 127
  PROVE  (b \div 8) * 8 + (c \div 4 + 32 * (b % 8)) \div 32 = b
  OBVIOUS

LEMMA Takes3 ==
  ASSUME NEW b \in 0 .. 127, NEW c \in 0 .. 127
  PROVE  (c \div 4 + 32 * (b % 8)) % 32 = c \div 4
  OBVIOUS

LEMMA Takes4 ==
  ASSUME NEW c \in 0 .. 127, NEW d \in 0 .. 127
  PROVE  (c \div 4) * 4 + (d \div 2 + 64 * (c % 4)) \div 64 = c
  OBVIOUS

LEMMA Takes5 ==
  ASSUME NEW c \in 0 .. 127, NEW d \in 0 .. 127
  PROVE  (d \div 2 + 64 * (c % 4)) % 64 = d \div 2
  OBVIOUS

LEMMA Takes6 ==
  ASSUME NEW d \in 0 .. 127, NEW e \in 0 .. 127
  PROVE  (d \div 2) * 2 + (e + 128 * (d % 2)) \div 128 = d
  OBVIOUS

LEMMA Takes7 ==
  ASSUME NEW d \in 0 .. 127, NEW e \in 0 .. 127
  PROVE  (e + 128 * (d % 2)) % 128 = e
  OBVIOUS

LEMMA GroupsRegroup ==
  ASSUME NEW a \in SevenBits, a \in 0 .. 15, NEW b \in SevenBits, NEW c \in SevenBits,
         NEW d \in SevenBits, NEW e \in SevenBits
  PROVE  LET groups == Groups(Regroup(a, b, c, d, e))
         IN  groups[1] = a /\ groups[2] = b /\ groups[3] = c /\ groups[4] = d /\ groups[5] = e
<1> DEFINE r1 == b \div 8 + 16 * a
           r2 == c \div 4 + 32 * (b % 8)
           r3 == d \div 2 + 64 * (c % 4)
           r4 == e + 128 * (d % 2)
           w == Regroup(a, b, c, d, e)
<1>1. w[1] = r1 /\ w[2] = r2 /\ w[3] = r3 /\ w[4] = r4
  BY DEF Regroup
<1>2. /\ r1 \div 16 = a /\ (r1 % 16) * 8 + r2 \div 32 = b
      /\ (r2 % 32) * 4 + r3 \div 64 = c /\ (r3 % 64) * 2 + r4 \div 128 = d
      /\ r4 % 128 = e
  <2>0. b \in 0 .. 127 /\ c \in 0 .. 127 /\ d \in 0 .. 127 /\ e \in 0 .. 127
    BY DEF SevenBits
  <2>1. r1 \div 16 = a /\ r1 % 16 = b \div 8
    BY <2>0, Takes1, Zenon
  <2>2. r2 % 32 = c \div 4 /\ r3 % 64 = d \div 2 /\ r4 % 128 = e
    <3>1. r2 % 32 = c \div 4
      BY <2>0, Takes3, Zenon
    <3>2. r3 % 64 = d \div 2
      BY <2>0, Takes5, Zenon
    <3>3. r4 % 128 = e
      BY <2>0, Takes7, ZenonT(60)
    <3> QED BY <3>1, <3>2, <3>3, Zenon
  <2>3. (b \div 8) * 8 + r2 \div 32 = b
    BY <2>0, Takes2, Zenon
  <2>4. (c \div 4) * 4 + r3 \div 64 = c
    BY <2>0, Takes4, ZenonT(60)
  <2>5. (d \div 2) * 2 + r4 \div 128 = d
    BY <2>0, Takes6, ZenonT(60)
  <2> HIDE DEF r1, r2, r3, r4
  <2> QED BY <2>1, <2>2, <2>3, <2>4, <2>5, Zenon
<1> HIDE DEF r1, r2, r3, r4, w
<1>3. Groups(w) = <<w[1] \div 16, (w[1] % 16) * 8 + w[2] \div 32, (w[2] % 32) * 4 + w[3] \div 64,
                    (w[3] % 64) * 2 + w[4] \div 128, w[4] % 128>>
  BY Zenon DEF Groups
<1>4. Groups(w) = <<r1 \div 16, (r1 % 16) * 8 + r2 \div 32, (r2 % 32) * 4 + r3 \div 64,
                    (r3 % 64) * 2 + r4 \div 128, r4 % 128>>
  BY <1>1, <1>3, Zenon
<1>5. Groups(w) = <<a, b, c, d, e>>
  BY <1>2, <1>4, Zenon
<1>6. Groups(w)[1] = a /\ Groups(w)[2] = b /\ Groups(w)[3] = c /\ Groups(w)[4] = d
      /\ Groups(w)[5] = e
  BY <1>5
<1> QED BY <1>6, Zenon DEF w

LEMMA ShiftInRegroup ==
  ASSUME NEW b \in 0 .. 15, NEW c \in SevenBits, NEW d \in SevenBits, NEW e \in SevenBits,
         NEW o \in Octet
  PROVE  ShiftIn7(Regroup(0, b, c, d, e), o) = Regroup(b, c, d, e, o % 128)
<1> DEFINE f == o % 128
           r1 == b \div 8 + 16 * 0
           r2 == c \div 4 + 32 * (b % 8)
           r3 == d \div 2 + 64 * (c % 4)
           r4 == e + 128 * (d % 2)
           w == Regroup(0, b, c, d, e)
           v == ShiftIn7(w, o)
<1>1. w[1] = r1 /\ w[2] = r2 /\ w[3] = r3 /\ w[4] = r4
  BY DEF Regroup
<1>2. f \in 0 .. 127 /\ b \in 0 .. 127
  BY DEF Octet
<1>3. v = [i \in 1 .. 4 |-> (w[i] % 2) * 128 + (IF i < 4 THEN w[i + 1] \div 2 ELSE f)]
  <2> HIDE DEF w
  <2> QED BY Powers DEF ShiftIn7
<1>4. /\ (r1 % 2) * 128 + r2 \div 2 = c \div 8 + 16 * b
      /\ (r2 % 2) * 128 + r3 \div 2 = d \div 4 + 32 * (c % 8)
      /\ (r3 % 2) * 128 + r4 \div 2 = e \div 2 + 64 * (d % 4)
      /\ (r4 % 2) * 128 + f = f + 128 * (e % 2)
  <2>0. c \in 0 .. 127 /\ d \in 0 .. 127 /\ e \in 0 .. 127
    BY DEF SevenBits
  <2>1. (r1 % 2) * 128 + r2 \div 2 = c \div 8 + 16 * b
    BY <2>0, Inserts1, Zenon
  <2>2. r2 % 2 = (c \div 4) % 2 /\ r3 % 2 = (d \div 2) % 2 /\ r4 % 2 = e % 2
    <3>1. r2 % 2 = (c \div 4) % 2
      BY <1>2, <2>0, Inserts2, Zenon
    <3>2. r3 % 2 = (d \div 2) % 2
      BY <2>0, Inserts4, Zenon
    <3>3. r4 % 2 = e % 2
      BY <2>0, Inserts6, ZenonT(60)
    <3> QED BY <3>1, <3>2, <3>3, Zenon
  <2>3. ((c \div 4) % 2) * 128 + r3 \div 2 = d \div 4 + 32 * (c % 8)
        /\ ((d \div 2) % 2) * 128 + r4 \div 2 = e \div 2 + 64 * (d % 4)
    BY <2>0, Inserts3, Inserts5, ZenonT(60)
  <2>4. (e % 2) * 128 + f = f + 128 * (e % 2)
    BY <1>2, <2>0, Inserts7, ZenonT(60)
  <2> HIDE DEF r1, r2, r3, r4, f
  <2> QED BY <2>1, <2>2, <2>3, <2>4, ZenonT(60)
<1> HIDE DEF r1, r2, r3, r4, w, f, v
<1>5. v = <<(w[1] % 2) * 128 + w[2] \div 2, (w[2] % 2) * 128 + w[3] \div 2,
            (w[3] % 2) * 128 + w[4] \div 2, (w[4] % 2) * 128 + f>>
  BY <1>3
<1>6. v = <<(r1 % 2) * 128 + r2 \div 2, (r2 % 2) * 128 + r3 \div 2,
            (r3 % 2) * 128 + r4 \div 2, (r4 % 2) * 128 + f>>
  BY <1>1, <1>5, ZenonT(60)
<1>7. v = <<c \div 8 + 16 * b, d \div 4 + 32 * (c % 8), e \div 2 + 64 * (d % 4), f + 128 * (e % 2)>>
  BY <1>4, <1>6, Zenon
<1> QED BY <1>7, Zenon DEF Regroup, v, w, f

LEMMA LowRoot ==
  ASSUME NEW p \in 0 .. 255, NEW q \in 0 .. 255, p < 2
  PROVE  p \div 16 = 0 /\ (p % 16) * 8 + q \div 32 \in 0 .. 15
  OBVIOUS

LEMMA ShiftInGroups ==
  ASSUME NEW w \in Word, w[1] < 2, NEW o \in Octet
  PROVE  /\ Groups(w)[1] = 0
         /\ \A g \in 1 .. 4 : Groups(ShiftIn7(w, o))[g] = Groups(w)[g + 1]
         /\ Groups(ShiftIn7(w, o))[5] = o % 128
<1> DEFINE b == Groups(w)[2]
           c == Groups(w)[3]
           d == Groups(w)[4]
           e == Groups(w)[5]
           f == o % 128
<1>1. w[1] \in 0 .. 255 /\ w[2] \in 0 .. 255
  BY WordOctets
<1>2. Groups(w)[1] = w[1] \div 16 /\ b = (w[1] % 16) * 8 + w[2] \div 32
  BY DEF Groups
<1>3. Groups(w)[1] = 0 /\ b \in 0 .. 15
  <2>1. w[1] \div 16 = 0 /\ (w[1] % 16) * 8 + w[2] \div 32 \in 0 .. 15
    BY <1>1, LowRoot, Zenon
  <2> HIDE DEF b
  <2> QED BY <1>2, <2>1, Zenon
<1>4. b \in SevenBits /\ c \in SevenBits /\ d \in SevenBits /\ e \in SevenBits
  <2>1. Groups(w) \in [1 .. 5 -> SevenBits]
    BY GroupsType
  <2> QED BY <2>1
<1>5. f \in SevenBits
  BY DEF Octet, SevenBits
<1>6. w = Regroup(Groups(w)[1], b, c, d, e)
  BY RegroupGroups, Zenon
<1> HIDE DEF b, c, d, e
<1>7. ShiftIn7(w, o) = Regroup(b, c, d, e, f)
  <2>1. ShiftIn7(Regroup(0, b, c, d, e), o) = Regroup(b, c, d, e, f)
    BY <1>3, <1>4, ShiftInRegroup
  <2>2. w = Regroup(0, b, c, d, e)
    BY <1>3, <1>6, Zenon
  <2> QED BY <2>1, <2>2, Zenon
<1> HIDE DEF f
<1> DEFINE v == Regroup(b, c, d, e, f)
<1>8. Groups(v)[1] = b /\ Groups(v)[2] = c /\ Groups(v)[3] = d /\ Groups(v)[4] = e
      /\ Groups(v)[5] = f
  BY <1>3, <1>4, <1>5, GroupsRegroup
<1> HIDE DEF v
<1>9. ShiftIn7(w, o) = v
  BY <1>7, Zenon DEF v
<1>10. \A g \in 1 .. 4 : Groups(v)[g] = Groups(w)[g + 1]
  BY <1>8 DEF b, c, d, e
<1> QED BY <1>3, <1>8, <1>9, <1>10, Zenon DEF f

\* Groups that were nothing stay nothing, one place further up.
LEMMA VanishShift ==
  ASSUME NEW w \in Word, w[1] < 2, NEW o \in Octet, NEW k \in Nat, Vanish(w, k)
  PROVE  Vanish(ShiftIn7(w, o), k + 1)
<1>2. ASSUME NEW g \in 1 .. 5 - (k + 1)
      PROVE  Groups(ShiftIn7(w, o))[g] = 0
  <2>1. g \in 1 .. 4 /\ g + 1 \in 1 .. 5 - k
    BY <1>2
  <2>2. Groups(ShiftIn7(w, o))[g] = Groups(w)[g + 1]
    BY <2>1, ShiftInGroups
  <2> QED BY <2>1, <2>2 DEF Vanish
<1> QED BY <1>2 DEF Vanish

LEMMA ArcLength ==
  ASSUME NEW w \in Word, NEW k \in Nat, k >= 1, Vanish(w, k)
  PROVE  ArcOctets(w) \in Seq(Nat) /\ Len(ArcOctets(w)) \in Nat /\ Len(ArcOctets(w)) <= k
<1> DEFINE S == {j \in 1 .. 5 : \A g \in 1 .. 5 - j : Groups(w)[g] = 0}
           n == Min(S)
<1>1. S \subseteq Nat /\ S \subseteq 1 .. 5 /\ 5 \in S /\ (k <= 5 => k \in S)
  <2>1. 1 .. 5 - 5 = {}
    OBVIOUS
  <2> QED BY <2>1 DEF Vanish
<1> HIDE DEF S
<1>2. n \in 1 .. 5 /\ n <= 5 /\ (k <= 5 => n <= k)
  BY <1>1, MinAtMost
<1> HIDE DEF n
<1>3. n \in Nat /\ n <= k
  BY <1>2
<1>4. ArcOctets(w) = SubIdentifier(w) /\ ArcOctets(w) \in Seq(Nat)
  BY ArcsAgree
<1>5. SubIdentifier(w) = [i \in 1 .. n |-> Groups(w)[5 - n + i] + IF i < n THEN 128 ELSE 0]
  BY Zenon DEF SubIdentifier, n, S
<1>6. Len(SubIdentifier(w)) = n
  BY <1>3, <1>5
<1> QED BY <1>3, <1>4, <1>6, Zenon

\* One more sequence at the end.
LEMMA FlattenAppend ==
  ASSUME NEW S, NEW seqs \in Seq(Seq(S)), NEW s \in Seq(S)
  PROVE  FlattenSeq(Append(seqs, s)) = FlattenSeq(seqs) \o s
<1> DEFINE all == Append(seqs, s)
           n == Len(seqs)
<1>1. all \in Seq(Seq(S)) /\ all # <<>> /\ Len(all) = n + 1 /\ all[n + 1] = s
      /\ \A i \in 1 .. n : all[i] = seqs[i]
  BY AppendProperties
<1>2. n \in Nat
  BY LenProperties
<1> HIDE DEF all
<1>3. /\ FlattenSeq(all) = FlattenWalk(all)[n + 1]
      /\ FlattenWalk(all)[1] = all[1]
      /\ \A i \in 2 .. n + 1 : FlattenWalk(all)[i] = FlattenWalk(all)[i - 1] \o all[i]
  BY <1>1, FlattenWalkIs
<1>4. CASE seqs = <<>>
  <2>1. n = 0 /\ n + 1 = 1
    BY <1>4, EmptySeq
  <2>2. FlattenSeq(seqs) = <<>>
    BY <1>4, <2>1, EmptySeq, Zenon DEF FlattenSeq
  <2>3. FlattenSeq(all) = s
    BY <1>1, <1>3, <2>1, Zenon
  <2>4. <<>> \o s = s
    BY ConcatEmptySeq
  <2> QED BY <2>2, <2>3, <2>4, Zenon DEF all
<1>5. CASE seqs # <<>>
  <2> DEFINE T == {i \in 1 .. n : FlattenWalk(all)[i] = FlattenWalk(seqs)[i]}
  <2>1. n \in 1 .. n /\ 1 \in 1 .. n /\ n + 1 \in 2 .. n + 1 /\ (n + 1) - 1 = n
        /\ \A i \in 2 .. n : i \in 1 .. n /\ i \in 2 .. n + 1
    <3>1. n # 0
      BY <1>5, EmptySeq
    <3> QED BY <1>2, <3>1
  <2>2. /\ FlattenSeq(seqs) = FlattenWalk(seqs)[n]
        /\ FlattenWalk(seqs)[1] = seqs[1]
        /\ \A i \in 2 .. n : FlattenWalk(seqs)[i] = FlattenWalk(seqs)[i - 1] \o seqs[i]
    BY <1>5, FlattenWalkIs
  <2>3. 1 \in T
    BY <1>1, <1>3, <2>1, <2>2
  <2>4. ASSUME NEW i \in 2 .. n, i - 1 \in T PROVE i \in T
    <3>1. FlattenWalk(all)[i] = FlattenWalk(all)[i - 1] \o all[i]
      BY <1>3, <2>1
    <3> QED BY <1>1, <2>1, <2>2, <2>4, <3>1
  <2>5. \A i \in 1 .. n : i \in T
    <3> HIDE DEF T
    <3> QED BY <1>2, <2>3, <2>4, InductFromOne
  <2>6. FlattenWalk(all)[n] = FlattenWalk(seqs)[n]
    BY <2>1, <2>5
  <2>7. FlattenWalk(all)[n + 1] = FlattenWalk(all)[n] \o all[n + 1]
    BY <1>3, <2>1
  <2> QED BY <1>1, <1>3, <2>2, <2>6, <2>7, Zenon DEF all
<1> QED BY <1>4, <1>5

-----------------------------------------------------------------------------
(* OIDs, an arc at a time. *)
Arcs2(oid) == [i \in 1 .. Len(oid) - 2 |-> ArcOctets(oid[i + 2])]

LEMMA Arcs2Type ==
  ASSUME NEW oid \in Seq(Word), Len(oid) >= 2
  PROVE  Arcs2(oid) \in Seq(Seq(Nat)) /\ Len(Arcs2(oid)) = Len(oid) - 2
<1>1. Len(oid) - 2 \in Nat /\ \A i \in 1 .. Len(oid) - 2 : i + 2 \in 1 .. Len(oid)
  BY LenProperties
<1>2. \A i \in 1 .. Len(oid) - 2 : oid[i + 2] \in Word
  BY <1>1, ElementOfSeq
<1>3. \A i \in 1 .. Len(oid) - 2 : ArcOctets(oid[i + 2]) \in Seq(Nat)
  BY <1>2, ArcsAgree
<1> DEFINE n == Len(oid) - 2
<1>4. Arcs2(oid) = [i \in 1 .. n |-> ArcOctets(oid[i + 2])]
  BY DEF Arcs2
<1> HIDE DEF n
<1>5. n \in Nat /\ \A i \in 1 .. n : ArcOctets(oid[i + 2]) \in Seq(Nat)
  BY <1>1, <1>3 DEF n
<1>6. Arcs2(oid) \in Seq(Seq(Nat)) /\ Len(Arcs2(oid)) = n
  BY <1>4, <1>5
<1> QED BY <1>6 DEF n

LEMMA OidsLong ==
  ASSUME NEW oid \in Oids
  PROVE  oid \in Seq(Word) /\ Len(oid) \in 2 .. 20 /\ Len(oid) >= 2
<1>1. oid \in Seq(Word) /\ Len(oid) \in 2 .. 20
  BY Zenon DEF Oids, MaxOidLen
<1>2. \A k \in 2 .. 20 : k >= 2
  OBVIOUS
<1> QED BY <1>1, <1>2, Zenon

\* The octet of the first two arcs.
LEMMA RootType ==
  ASSUME NEW oid \in Seq(Word), Len(oid) >= 2
  PROVE  (oid[1][4] * 40 + oid[2][4]) % 256 \in Nat
<1>1. 1 \in 1 .. Len(oid) /\ 2 \in 1 .. Len(oid)
  BY LenProperties
<1>2. oid[1] \in Word /\ oid[2] \in Word
  BY <1>1, ElementOfSeq
<1>3. oid[1][4] \in 0 .. 255 /\ oid[2][4] \in 0 .. 255
  BY <1>2, WordOctets
<1>4. \A p, q \in 0 .. 255 : (p * 40 + q) % 256 \in Nat
  OBVIOUS
<1> QED BY <1>3, <1>4, ZenonT(60)

LEMMA OidContentType ==
  ASSUME NEW oid \in Seq(Word), Len(oid) >= 2
  PROVE  OidContent(oid) \in Seq(Nat) /\ Len(OidContent(oid)) \in Nat
<1> DEFINE root == (oid[1][4] * 40 + oid[2][4]) % 256
<1>1. FlattenSeq(Arcs2(oid)) \in Seq(Nat)
  BY Arcs2Type, FlattenType
<1>2. root \in Nat
  BY RootType
<1> HIDE DEF root
<1>3. <<root>> \in Seq(Nat)
  BY <1>2
<1>4. OidContent(oid) = <<root>> \o FlattenSeq(Arcs2(oid))
  BY Zenon DEF OidContent, Arcs2, root
<1>5. OidContent(oid) \in Seq(Nat)
  BY <1>1, <1>3, <1>4, ConcatProperties
<1> QED BY <1>5, LenProperties

LEMMA NumbersAssociate ==
  ASSUME NEW s \in Seq(Nat), NEW t \in Seq(Nat), NEW u \in Seq(Nat)
  PROVE  (s \o t) \o u = s \o (t \o u)
<1> DEFINE a == Len(s)
           b == Len(t)
           c == Len(u)
           p == s \o t
           q == t \o u
           x == p \o u
           y == s \o q
<1>1. a \in Nat /\ b \in Nat /\ c \in Nat
  BY LenProperties
<1>2. p \in Seq(Nat) /\ Len(p) = a + b
      /\ \A i \in 1 .. a + b : p[i] = IF i <= a THEN s[i] ELSE t[i - a]
  BY ConcatProperties
<1>3. q \in Seq(Nat) /\ Len(q) = b + c
      /\ \A i \in 1 .. b + c : q[i] = IF i <= b THEN t[i] ELSE u[i - b]
  BY ConcatProperties
<1> HIDE DEF p, q
<1>4. x \in Seq(Nat) /\ Len(x) = (a + b) + c
      /\ \A i \in 1 .. (a + b) + c : x[i] = IF i <= a + b THEN p[i] ELSE u[i - (a + b)]
  <2>1. x \in Seq(Nat) /\ Len(x) = Len(p) + Len(u)
        /\ \A i \in 1 .. Len(p) + Len(u) : x[i] = IF i <= Len(p) THEN p[i] ELSE u[i - Len(p)]
    <3>1. p \in Seq(Nat)
      BY <1>2
    <3> HIDE DEF a, b, c
    <3> QED BY <3>1, ConcatProperties
  <2> HIDE DEF x
  <2> QED BY <1>2, <2>1, Zenon
<1>5. y \in Seq(Nat) /\ Len(y) = a + (b + c)
      /\ \A i \in 1 .. a + (b + c) : y[i] = IF i <= a THEN s[i] ELSE q[i - a]
  <2>1. y \in Seq(Nat) /\ Len(y) = Len(s) + Len(q)
        /\ \A i \in 1 .. Len(s) + Len(q) : y[i] = IF i <= Len(s) THEN s[i] ELSE q[i - Len(s)]
    <3>1. q \in Seq(Nat)
      BY <1>3
    <3> HIDE DEF a, b, c
    <3> QED BY <3>1, ConcatProperties
  <2> HIDE DEF y
  <2> QED BY <1>3, <2>1, Zenon
<1> HIDE DEF a, b, c, x, y
<1>6. ASSUME NEW i \in 1 .. (a + b) + c PROVE x[i] = y[i]
  <2>1. i \in 1 .. a + (b + c) /\ i \in Nat
    BY <1>1
  <2>2. CASE i <= a
    <3>1. i <= a + b /\ i \in 1 .. a + b
      BY <1>1, <2>1, <2>2
    <3> QED BY <1>2, <1>4, <1>5, <2>1, <2>2, <3>1, Zenon
  <2>3. CASE ~(i <= a)
    <3>1. CASE i <= a + b
      <4>1. i \in 1 .. a + b /\ i - a \in 1 .. b + c /\ i - a <= b
        BY <1>1, <2>1, <2>3, <3>1
      <4> QED BY <1>2, <1>3, <1>4, <1>5, <2>1, <2>3, <3>1, <4>1, Zenon
    <3>2. CASE ~(i <= a + b)
      <4>1. i - a \in 1 .. b + c /\ ~(i - a <= b) /\ (i - a) - b = i - (a + b)
        BY <1>1, <2>1, <2>3, <3>2
      <4> QED BY <1>3, <1>4, <1>5, <2>1, <2>3, <3>2, <4>1, Zenon
    <3> QED BY <3>1, <3>2
  <2> QED BY <2>2, <2>3
<1>7. Len(x) = Len(y) /\ \A i \in 1 .. Len(x) : x[i] = y[i]
  BY <1>1, <1>4, <1>5, <1>6
<1>8. x = y
  BY <1>4, <1>5, <1>7, SeqEqual
<1> QED BY <1>8 DEF x, y, p, q

LEMMA OidContentAppend ==
  ASSUME NEW oid \in Seq(Word), Len(oid) >= 2, NEW arc \in Word
  PROVE  OidContent(Append(oid, arc)) = OidContent(oid) \o ArcOctets(arc)
<1> DEFINE all == Append(oid, arc)
           n == Len(oid) - 2
           root == (oid[1][4] * 40 + oid[2][4]) % 256
<1>1. all \in Seq(Word) /\ Len(all) = Len(oid) + 1 /\ all[Len(oid) + 1] = arc
      /\ \A i \in 1 .. Len(oid) : all[i] = oid[i]
  BY AppendProperties
<1>2. /\ Len(oid) \in Nat /\ n \in Nat /\ Len(oid) = n + 2 /\ (Len(oid) + 1) - 2 = n + 1
      /\ (n + 1) + 2 = Len(oid) + 1
      /\ 1 \in 1 .. Len(oid) /\ 2 \in 1 .. Len(oid) /\ Len(oid) + 1 >= 2
      /\ \A i \in 1 .. n : i + 2 \in 1 .. Len(oid)
  BY LenProperties
<1>3. all[1] = oid[1] /\ all[2] = oid[2]
  BY <1>1, <1>2
<1> HIDE DEF all
<1>4. ArcOctets(arc) \in Seq(Nat)
  BY ArcsAgree, Zenon
<1>5. Arcs2(oid) \in Seq(Seq(Nat)) /\ Len(Arcs2(oid)) = n
      /\ Arcs2(all) \in Seq(Seq(Nat)) /\ Len(Arcs2(all)) = n + 1
  BY <1>1, <1>2, Arcs2Type, Zenon
<1>6. Append(Arcs2(oid), ArcOctets(arc)) \in Seq(Seq(Nat))
      /\ Len(Append(Arcs2(oid), ArcOctets(arc))) = n + 1
      /\ Append(Arcs2(oid), ArcOctets(arc))[n + 1] = ArcOctets(arc)
      /\ \A i \in 1 .. n : Append(Arcs2(oid), ArcOctets(arc))[i] = Arcs2(oid)[i]
  BY <1>4, <1>5, AppendProperties
<1>7. ASSUME NEW i \in 1 .. n + 1
      PROVE  Arcs2(all)[i] = Append(Arcs2(oid), ArcOctets(arc))[i]
  <2>1. Arcs2(all)[i] = ArcOctets(all[i + 2])
    BY <1>1, <1>2 DEF Arcs2
  <2>2. CASE i = n + 1
    BY <1>1, <1>2, <1>6, <2>1, <2>2
  <2>3. CASE i # n + 1
    <3>1. i \in 1 .. n
      <4>1. n \in Nat
        BY <1>2
      <4> HIDE DEF n
      <4> QED BY <2>3, <4>1
    <3>2. Arcs2(oid)[i] = ArcOctets(oid[i + 2])
      BY <3>1 DEF Arcs2
    <3>3. all[i + 2] = oid[i + 2]
      BY <1>1, <1>2, <3>1
    <3> QED BY <1>6, <2>1, <3>1, <3>2, <3>3
  <2> QED BY <2>2, <2>3
<1>8. Arcs2(all) = Append(Arcs2(oid), ArcOctets(arc))
  <2> HIDE DEF n
  <2> QED BY <1>5, <1>6, <1>7, SeqEqual
<1>9. FlattenSeq(Arcs2(all)) = FlattenSeq(Arcs2(oid)) \o ArcOctets(arc)
  BY <1>4, <1>5, <1>8, FlattenAppend
<1>10. OidContent(oid) = <<root>> \o FlattenSeq(Arcs2(oid))
  BY Zenon DEF OidContent, Arcs2
<1>11. OidContent(all) = <<root>> \o FlattenSeq(Arcs2(all))
  BY <1>3, Zenon DEF OidContent, Arcs2
<1>12. FlattenSeq(Arcs2(oid)) \in Seq(Nat)
  BY <1>5, FlattenType
<1>13. <<root>> \in Seq(Nat)
  <2>1. oid[1] \in Word /\ oid[2] \in Word
    BY <1>2, ElementOfSeq
  <2>2. oid[1][4] \in 0 .. 255 /\ oid[2][4] \in 0 .. 255
    BY <2>1, WordOctets
  <2>3. \A p, q \in 0 .. 255 : (p * 40 + q) % 256 \in Nat
    OBVIOUS
  <2>4. root \in Nat
    BY <2>2, <2>3, ZenonT(60)
  <2> HIDE DEF root
  <2> QED BY <2>4
<1> HIDE DEF root
<1>14. (<<root>> \o FlattenSeq(Arcs2(oid))) \o ArcOctets(arc)
         = <<root>> \o (FlattenSeq(Arcs2(oid)) \o ArcOctets(arc))
  <2> DEFINE s == <<root>>
             t == FlattenSeq(Arcs2(oid))
             u == ArcOctets(arc)
  <2>1. s \in Seq(Nat) /\ t \in Seq(Nat) /\ u \in Seq(Nat)
    BY <1>4, <1>12, <1>13
  <2> HIDE DEF s, t, u
  <2>2. (s \o t) \o u = s \o (t \o u)
    BY <2>1, NumbersAssociate
  <2> QED BY <2>2 DEF s, t, u
<1> QED BY <1>9, <1>10, <1>11, <1>14, Zenon DEF all

\* Of the i octets so far as many are left for the arc in progress, at seven
\* bits each, as the arcs before it do not need.
ArcsFit(walk, i) ==
  walk.ok => /\ Len(OidContent(walk.oid)) <= i
             /\ Vanish(walk.arc, i - Len(OidContent(walk.oid)))

LEMMA ZeroVanishes ==
  ASSUME NEW k \in Nat
  PROVE  Vanish(Zero, k)
<1>1. Zero = <<0, 0, 0, 0>>
  <2>1. Zero = WordOf(0) /\ 0 \in 0 .. 255
    BY DEF Zero
  <2> QED BY <2>1, WordOfType
<1>2. Groups(Zero) = <<0, 0, 0, 0, 0>>
  <2>1. \A a, b, c, d : <<a, b, c, d>>[1] = a /\ <<a, b, c, d>>[2] = b
                        /\ <<a, b, c, d>>[3] = c /\ <<a, b, c, d>>[4] = d
    OBVIOUS
  <2>2. 0 \div 16 = 0 /\ (0 % 16) * 8 + 0 \div 32 = 0 /\ (0 % 32) * 4 + 0 \div 64 = 0
        /\ (0 % 64) * 2 + 0 \div 128 = 0 /\ 0 % 128 = 0
    OBVIOUS
  <2>3. Zero[1] = 0 /\ Zero[2] = 0 /\ Zero[3] = 0 /\ Zero[4] = 0
    BY <1>1
  <2>4. Groups(Zero) = <<0 \div 16, (0 % 16) * 8 + 0 \div 32, (0 % 32) * 4 + 0 \div 64,
                         (0 % 64) * 2 + 0 \div 128, 0 % 128>>
    BY <2>3, Zenon DEF Groups
  <2> QED BY <2>2, <2>4, Zenon
<1>3. ASSUME NEW g \in 1 .. 5 - k PROVE Groups(Zero)[g] = 0
  <2>1. g \in 1 .. 5
    OBVIOUS
  <2> QED BY <1>2, <2>1
<1> QED BY <1>3 DEF Vanish

LEMMA NextArcFits ==
  ASSUME NEW walk \in ArcWalks, NEW b \in Octet, NEW i \in Nat, ArcsFit(walk, i)
  PROVE  ArcsFit(NextArcOctet(walk, b), i + 1)
<1> DEFINE arc == ShiftIn7(walk.arc, b)
           final == b < 128
           next == NextArcOctet(walk, b)
<1>1. walk.ok \in BOOLEAN /\ walk.arc \in Word /\ walk.oid \in Seq(Word) /\ Len(walk.oid) >= 2
  <2>1. walk.ok \in BOOLEAN /\ walk.arc \in Word /\ walk.oid \in RootedOids
    BY DEF ArcWalks
  <2>2. walk.oid \in Seq(Word) /\ Len(walk.oid) >= 2
    BY <2>1, OidsLong, Zenon DEF RootedOids
  <2> QED BY <2>1, <2>2, Zenon
<1>2. arc \in Word
  BY <1>1, ShiftIn7Type
<1>3. CASE ~walk.ok \/ walk.arc[1] >= 2 \/ (final /\ Len(walk.oid) >= MaxOidLen)
  <2>1. next = [walk EXCEPT !.ok = FALSE]
    BY <1>3, Zenon DEF NextArcOctet
  <2>2. ~next.ok
    BY <2>1 DEF ArcWalks
  <2> QED BY <2>2, Zenon DEF ArcsFit
<1>4. CASE ~(~walk.ok \/ walk.arc[1] >= 2 \/ (final /\ Len(walk.oid) >= MaxOidLen))
  <2> DEFINE oid == IF final THEN Append(walk.oid, arc) ELSE walk.oid
             used == Len(OidContent(walk.oid))
  <2>1. next = [ok |-> TRUE, open |-> ~final, arc |-> IF final THEN Zero ELSE arc, oid |-> oid]
    BY <1>4, Zenon DEF NextArcOctet
  <2>2. next.arc = (IF final THEN Zero ELSE arc) /\ next.oid = oid
    <3> HIDE DEF next, oid, arc, final
    <3> QED BY <2>1
  <2>3. used \in Nat /\ OidContent(walk.oid) \in Seq(Nat)
    BY <1>1, OidContentType
  <2>4. used <= i /\ Vanish(walk.arc, i - used)
    BY <1>4, Zenon DEF ArcsFit
  <2>5. walk.arc[1] < 2
    <3>1. walk.arc[1] \in 0 .. 255
      BY <1>1, WordOctets
    <3>2. \A o \in 0 .. 255 : ~(o >= 2) => o < 2
      OBVIOUS
    <3> QED BY <1>4, <3>1, <3>2, Zenon
  <2> HIDE DEF used
  <2>6. i - used \in Nat /\ (i - used) + 1 = (i + 1) - used /\ (i + 1) - used \in Nat
        /\ (i + 1) - used >= 1 /\ used <= i + 1
    BY <2>3, <2>4
  <2>7. Vanish(arc, (i + 1) - used)
    <3>1. Vanish(arc, (i - used) + 1)
      BY <1>1, <2>4, <2>5, <2>6, VanishShift
    <3> QED BY <2>6, <3>1, Zenon
  <2>8. CASE final
    <3>1. OidContent(Append(walk.oid, arc)) = OidContent(walk.oid) \o ArcOctets(arc)
      BY <1>1, <1>2, OidContentAppend
    <3> HIDE DEF arc
    <3>2. ArcOctets(arc) \in Seq(Nat) /\ Len(ArcOctets(arc)) \in Nat
          /\ Len(ArcOctets(arc)) <= (i + 1) - used
      BY <1>2, <2>6, <2>7, ArcLength
    <3>3. Len(OidContent(walk.oid) \o ArcOctets(arc)) = used + Len(ArcOctets(arc))
      BY <2>3, <3>2, ConcatProperties DEF used
    <3>4. Len(OidContent(next.oid)) = used + Len(ArcOctets(arc)) /\ next.arc = Zero
      BY <2>2, <2>8, <3>1, <3>3, Zenon
    <3>5. used + Len(ArcOctets(arc)) \in Nat /\ used + Len(ArcOctets(arc)) <= i + 1
          /\ (i + 1) - (used + Len(ArcOctets(arc))) \in Nat
      BY <2>3, <3>2
    <3> HIDE DEF next
    <3>6. Vanish(Zero, (i + 1) - (used + Len(ArcOctets(arc))))
      BY <3>5, ZeroVanishes
    <3>7. Len(OidContent(next.oid)) <= i + 1
      BY <3>4, <3>5, Zenon
    <3>8. Vanish(next.arc, (i + 1) - Len(OidContent(next.oid)))
      BY <3>4, <3>6, Zenon
    <3>9. ArcsFit(next, i + 1)
      BY <3>7, <3>8, Zenon DEF ArcsFit
    <3> QED BY <3>9, Zenon DEF next
  <2>9. CASE ~final
    <3>1. next.oid = walk.oid /\ next.arc = arc
      BY <2>2, <2>9, Zenon
    <3> QED BY <2>6, <2>7, <3>1, Zenon DEF ArcsFit, used
  <2> QED BY <2>8, <2>9, Zenon
<1> QED BY <1>3, <1>4, Zenon

\* An OID.
LEMMA OidCosts ==
  ASSUME NEW tlv \in Tlvs, DecodeOid(tlv).ok
  PROVE  Len(OidContent(DecodeOid(tlv).value)) <= Len(tlv.content)
<1> DEFINE content == tlv.content
           n == Len(content)
           walk == ArcWalk(content)
           S == {i \in 1 .. n : ArcsFit(walk[i], i)}
<1>1. DecodeOid(tlv) = IF content # <<>> /\ walk[n].ok /\ ~walk[n].open
                       THEN Yields(walk[n].oid) ELSE Fails
  BY Zenon DEF DecodeOid, ArcWalk
<1>2. content # <<>> /\ walk[n].ok /\ DecodeOid(tlv).value = walk[n].oid
  BY <1>1 DEF Fails, Yields
<1>3. content \in Seq(Octet)
  BY DEF Tlvs
<1>4. n \in Nat /\ n \in 1 .. n /\ 1 \in 1 .. n
  <2>1. n \in Nat /\ n # 0
    BY <1>2, <1>3, EmptySeq
  <2> QED BY <2>1
<1>5. /\ \A i \in 1 .. n : walk[i] \in ArcWalks
      /\ walk[1] = ArcStart(content[1])
      /\ \A i \in 2 .. n : walk[i] = NextArcOctet(walk[i - 1], content[i])
  BY <1>2, <1>3, ArcWalkIs
<1>6. \A i \in 1 .. n : content[i] \in Octet
  BY <1>3, ElementOfSeq
<1> HIDE DEF walk, n, content
<1>7. 1 \in S
  <2>1. walk[1].arc = Zero /\ walk[1].oid = <<WordOf(content[1] \div 40), WordOf(content[1] % 40)>>
    BY <1>5 DEF ArcStart
  <2>2. walk[1].oid \in Seq(Word)
    BY <1>4, <1>5 DEF ArcWalks, RootedOids, Oids
  <2>3. Len(walk[1].oid) = 2
    BY <2>1
  <2>4. FlattenSeq(Arcs2(walk[1].oid)) = <<>>
    <3>1. Arcs2(walk[1].oid) \in Seq(Seq(Nat)) /\ Len(Arcs2(walk[1].oid)) = 0
      <4> DEFINE oid == walk[1].oid
      <4>1. oid \in Seq(Word) /\ Len(oid) = 2
        BY <2>2, <2>3
      <4> HIDE DEF oid
      <4>2. Len(oid) >= 2 /\ Len(oid) - 2 = 0
        BY <4>1
      <4>3. Arcs2(oid) \in Seq(Seq(Nat)) /\ Len(Arcs2(oid)) = 0
        BY <4>1, <4>2, Arcs2Type
      <4> QED BY <4>3 DEF oid
    <3>2. Arcs2(walk[1].oid) = <<>>
      BY <3>1, EmptySeq
    <3> QED BY <3>1, <3>2, EmptySeq, Zenon DEF FlattenSeq
  <2>5. OidContent(walk[1].oid)
          = <<(walk[1].oid[1][4] * 40 + walk[1].oid[2][4]) % 256>> \o <<>>
    BY <2>4, Zenon DEF OidContent, Arcs2
  <2>6. Len(OidContent(walk[1].oid)) = 1
    BY <2>5
  <2>7. ArcsFit(walk[1], 1)
    <3>1. Vanish(Zero, 1 - 1) /\ 1 <= 1
      <4>1. 1 - 1 \in Nat /\ 1 <= 1
        OBVIOUS
      <4> QED BY <4>1, ZeroVanishes
    <3> QED BY <2>1, <2>6, <3>1, Zenon DEF ArcsFit
  <2> QED BY <1>4, <2>7
<1>8. ASSUME NEW i \in 2 .. n, i - 1 \in S PROVE i \in S
  <2>1. i \in 1 .. n /\ i - 1 \in 1 .. n /\ i - 1 \in Nat /\ (i - 1) + 1 = i
    BY <1>4
  <2>2. ArcsFit(NextArcOctet(walk[i - 1], content[i]), (i - 1) + 1)
    BY <1>5, <1>6, <1>8, <2>1, NextArcFits
  <2> QED BY <1>5, <2>1, <2>2
<1>9. \A i \in 1 .. n : i \in S
  <2> HIDE DEF S
  <2> QED BY <1>4, <1>7, <1>8, InductFromOne
<1>10. ArcsFit(walk[n], n)
  BY <1>4, <1>9
<1> QED BY <1>2, <1>10, Zenon DEF ArcsFit, n, content

-----------------------------------------------------------------------------
(* Values and varbinds. *)
LEMMA DecodeTlvOk ==
  ASSUME NEW d
  PROVE  DecodeTlv(d).ok \/ DecodeTlv(d) = NoTlv
<1> DEFINE length == DecodeLength(Tail(d))
           header == 1 + length.size
           end == header + length.value
           found == [ok |-> TRUE, tag |-> d[1], content |-> SubSeq(d, header + 1, end),
                     rest |-> SubSeq(d, end + 1, Len(d))]
<1>1. DecodeTlv(d) = NoTlv \/ DecodeTlv(d) = found
  BY Zenon DEF DecodeTlv
<1>2. found.ok
  OBVIOUS
<1> HIDE DEF found
<1> QED BY <1>1, <1>2, Zenon

LEMMA ExpectOk ==
  ASSUME NEW d, NEW tag
  PROVE  Expect(d, tag).ok \/ Expect(d, tag) = NoTlv
  BY DecodeTlvOk, Zenon DEF Expect

LEMMA NoTlvFails ==
  ~NoTlv.ok /\ ~DecodeOid(NoTlv).ok /\ ~DecodeInteger(NoTlv).ok /\ ~DecodeValue(NoTlv).ok
<1>1. ~NoTlv.ok /\ NoTlv.content = <<>> /\ NoTlv.tag = 0 /\ ~Fails.ok /\ Len(<<>>) = 0
  BY DEF NoTlv, Fails
<1>2. DecodeOid(NoTlv) = Fails
  BY <1>1, Zenon DEF DecodeOid
<1>3. DecodeInteger(NoTlv) = Fails
  <2>1. 0 \notin 1 .. 4
    OBVIOUS
  <2> QED BY <1>1, <2>1, Zenon DEF DecodeInteger
<1>4. DecodeValue(NoTlv) = Fails
  <2>1. 0 \notin {Tag.integer, Tag.counter64, Tag.oid} /\ 0 \notin UnsignedTags \cup ByteTags \cup NullTags
    BY TagValues
  <2> QED BY <1>1, <2>1, DecodeByTag
<1> QED BY <1>1, <1>2, <1>3, <1>4, Zenon

\* The element of a value is a sequence of numbers.
LEMMA EncodeValueType ==
  ASSUME NEW vb \in Varbinds
  PROVE  EncodeValue(vb) \in Seq(Nat)
<1>1. vb.value \in ValuesOf(vb.tag)
      /\ (\/ vb.tag \in {Tag.integer, Tag.counter64, Tag.oid}
          \/ vb.tag \in UnsignedTags \cup ByteTags \cup NullTags)
  BY VarbindFields
<1>2. vb.tag \in Nat
  BY <1>1, TagsAreNumbers
<1>3. ASSUME NEW c \in Seq(Nat) PROVE EncodeTlv(vb.tag, c) \in Seq(Nat)
  BY <1>2, ElementsAgree
<1>4. CASE vb.tag = Tag.integer
  <2>1. vb.value \in Word
    BY <1>1, <1>4, ValuesByTag
  <2> QED BY <1>3, <1>4, <2>1, IntegersAgree, ContentByTag, Zenon
<1>5. CASE vb.tag \in UnsignedTags \cup {Tag.counter64}
  <2>1. vb.value \in Word \/ vb.value \in Word64
    BY <1>1, <1>5, ValuesByTag
  <2>2. UnsignedContent(vb.value) \in Seq(Nat)
    <3>1. 4 \in {4, 8} /\ 8 \in {4, 8}
      OBVIOUS
    <3> QED BY <2>1, <3>1, UnsignedsAgree, Zenon DEF Word, Word64
  <2> QED BY <1>3, <1>5, <2>2, ContentByTag, Zenon
<1>6. CASE vb.tag = Tag.oid
  <2>1. vb.value \in Oids
    BY <1>1, <1>6, ValuesByTag
  <2>2. OidContent(vb.value) \in Seq(Nat)
    BY <2>1, OidsLong, OidContentType
  <2> QED BY <1>3, <1>6, <2>2, ContentByTag, Zenon
<1>7. CASE vb.tag \in ByteTags
  <2>1. vb.value \in Seq(Nat)
    BY <1>1, <1>7, ValuesByTag, OctetsAreNumbers DEF OctetStrings
  <2> QED BY <1>3, <1>7, <2>1, ContentByTag, Zenon
<1>8. CASE vb.tag \in NullTags
  <2>1. <<>> \in Seq(Nat)
    OBVIOUS
  <2> QED BY <1>3, <1>8, <2>1, ContentByTag, Zenon
<1> QED BY <1>1, <1>4, <1>5, <1>6, <1>7, <1>8

LEMMA EncodeOidType ==
  ASSUME NEW oid \in Oids
  PROVE  /\ OidContent(oid) \in Seq(Nat) /\ EncodeOid(oid) \in Seq(Nat)
         /\ Len(EncodeOid(oid)) = TlvLen(Len(OidContent(oid)))
<1>1. OidContent(oid) \in Seq(Nat)
  BY OidsLong, OidContentType
<1>2. EncodeTlv(Tag.oid, OidContent(oid)) \in Seq(Nat)
      /\ Len(EncodeTlv(Tag.oid, OidContent(oid))) = TlvLen(Len(OidContent(oid)))
  BY <1>1, ElementsAgree, EncodedLength, TagsAreNumbers
<1> QED BY <1>1, <1>2, Zenon DEF EncodeOid

LEMMA EncodeVarbindType ==
  ASSUME NEW vb \in Varbinds
  PROVE  /\ EncodeVarbind(vb) \in Seq(Nat)
         /\ Len(EncodeVarbind(vb)) = TlvLen(Len(EncodeOid(vb.oid)) + Len(EncodeValue(vb)))
<1> DEFINE body == EncodeOid(vb.oid) \o EncodeValue(vb)
<1>1. EncodeOid(vb.oid) \in Seq(Nat) /\ EncodeValue(vb) \in Seq(Nat)
  BY VarbindFields, EncodeOidType, EncodeValueType
<1>2. body \in Seq(Nat) /\ Len(body) = Len(EncodeOid(vb.oid)) + Len(EncodeValue(vb))
  BY <1>1, ConcatProperties
<1> HIDE DEF body
<1>3. EncodeTlv(Tag.sequence, body) \in Seq(Nat)
      /\ Len(EncodeTlv(Tag.sequence, body)) = TlvLen(Len(body))
  BY <1>2, ElementsAgree, EncodedLength, TagsAreNumbers
<1> QED BY <1>2, <1>3, Zenon DEF EncodeVarbind, body

\* A value.
LEMMA ValueCosts ==
  ASSUME NEW tlv \in Tlvs, DecodeValue(tlv).ok, NEW vb, vb.tag = tlv.tag,
         vb.value = DecodeValue(tlv).value, ~Padded(vb)
  PROVE  Len(EncodeValue(vb)) <= TlvLen(Len(tlv.content))
<1> DEFINE n == Len(tlv.content)
<1>1. /\ tlv.tag \in Nat /\ n \in Nat /\ tlv.content \in Seq(Octet)
      /\ ~Fails.ok
  <2>1. tlv.tag \in Octet /\ tlv.content \in Seq(Octet)
    BY DEF Tlvs
  <2>2. Octet \subseteq Nat /\ ~Fails.ok
    BY DEF Octet, Fails
  <2> QED BY <2>1, <2>2, LenProperties
<1> HIDE DEF n
<1>2. ASSUME NEW c \in Seq(Nat), Len(c) <= n, EncodeValue(vb) = EncodeTlv(vb.tag, c)
      PROVE  Len(EncodeValue(vb)) <= TlvLen(n)
  <2>1. Len(EncodeValue(vb)) = TlvLen(Len(c))
    BY <1>1, <1>2, EncodedLength
  <2>2. Len(c) \in Nat
    BY LenProperties
  <2> QED BY <1>1, <1>2, <2>1, <2>2, TlvLenGrows
<1>3. CASE tlv.tag = Tag.integer
  <2>1. DecodeValue(tlv) = DecodeInteger(tlv)
    BY <1>3, DecodeByTag
  <2>2. vb.value \in Word /\ Len(IntegerContent(vb.value)) <= n
    BY <2>1, IntegerCosts, Zenon DEF n
  <2>3. EncodeValue(vb) = EncodeTlv(vb.tag, IntegerContent(vb.value))
    BY <1>3, ContentByTag, Zenon
  <2>4. IntegerContent(vb.value) \in Seq(Nat)
    BY <2>2, IntegersAgree
  <2> QED BY <1>2, <2>2, <2>3, <2>4 DEF n
<1>4. ASSUME NEW width \in {4, 8}, DecodeValue(tlv) = DecodeUnsigned(tlv, width),
             tlv.tag \in UnsignedTags \cup {Tag.counter64}
      PROVE  Len(EncodeValue(vb)) <= TlvLen(n)
  <2>1. ~(Len(ShortestPositive(vb.value)) > 1 /\ ShortestPositive(vb.value)[1] = 0)
    BY <1>4, Zenon DEF Padded
  <2>2. vb.value \in [1 .. width -> Octet] /\ Len(UnsignedContent(vb.value)) <= n
    BY <1>4, <2>1, UnsignedCosts, Zenon DEF n
  <2>3. EncodeValue(vb) = EncodeTlv(vb.tag, UnsignedContent(vb.value))
    BY <1>4, ContentByTag, Zenon
  <2>4. UnsignedContent(vb.value) \in Seq(Nat)
    BY <2>2, UnsignedsAgree
  <2> QED BY <1>2, <2>2, <2>3, <2>4
<1>5. CASE tlv.tag \in UnsignedTags \cup {Tag.counter64}
  <2>1. 4 \in {4, 8} /\ 8 \in {4, 8}
    OBVIOUS
  <2> QED BY <1>4, <1>5, <2>1, DecodeByTag DEF n
<1>6. CASE tlv.tag = Tag.oid
  <2>1. DecodeValue(tlv) = DecodeOid(tlv)
    BY <1>6, DecodeByTag
  <2>2. vb.value \in Oids /\ Len(OidContent(vb.value)) <= n
    BY <2>1, OidCosts, DecodeOidType DEF n, RootedOids
  <2>3. EncodeValue(vb) = EncodeTlv(vb.tag, OidContent(vb.value))
    BY <1>6, ContentByTag, Zenon
  <2> QED BY <1>2, <2>2, <2>3, EncodeOidType DEF n
<1>7. CASE tlv.tag \in ByteTags
  <2>1. DecodeValue(tlv) = DecodeOctets(tlv, MaxOctets)
    BY <1>7, DecodeByTag
  <2>2. DecodeOctets(tlv, MaxOctets) = Yields(tlv.content)
    BY <1>1, <2>1, Zenon DEF DecodeOctets
  <2>3. vb.value = tlv.content
    BY <2>1, <2>2 DEF Yields
  <2>4. EncodeValue(vb) = EncodeTlv(vb.tag, tlv.content)
    BY <1>7, <2>3, ContentByTag, Zenon
  <2>5. tlv.content \in Seq(Nat) /\ n <= n
    BY <1>1, OctetsAreNumbers
  <2> QED BY <1>2, <2>4, <2>5, Zenon DEF n
<1>8. CASE tlv.tag \in NullTags
  <2>1. EncodeValue(vb) = EncodeTlv(vb.tag, <<>>)
    BY <1>8, ContentByTag, Zenon
  <2>2. <<>> \in Seq(Nat) /\ Len(<<>>) <= n
    BY <1>1
  <2> QED BY <1>2, <2>1, <2>2, Zenon DEF n
<1>9. tlv.tag \in {Tag.integer, Tag.counter64, Tag.oid} \cup UnsignedTags \cup ByteTags \cup NullTags
  BY <1>1, DecodeByTag, Zenon
<1> QED BY <1>3, <1>5, <1>6, <1>7, <1>8, <1>9

\* A varbind.
LEMMA VarbindCosts ==
  ASSUME NEW content \in Seq(Octet), DecodeVarbind(content).ok,
         ~Padded(DecodeVarbind(content).value)
  PROVE  Len(EncodeVarbind(DecodeVarbind(content).value)) <= TlvLen(Len(content))
<1> DEFINE name == Expect(content, Tag.oid)
           oid == DecodeOid(name)
           tlv == DecodeTlv(name.rest)
           value == DecodeValue(tlv)
           vb == [oid |-> oid.value, tag |-> tlv.tag, value |-> value.value]
<1>1. DecodeVarbind(content) = IF oid.ok /\ value.ok THEN Yields(vb) ELSE Fails
  BY Zenon DEF DecodeVarbind
<1>2. oid.ok /\ value.ok /\ DecodeVarbind(content) = Yields(vb)
  <2>1. ~Fails.ok
    BY DEF Fails
  <2> QED BY <1>1, <2>1, Zenon
<1>3. DecodeVarbind(content).value = vb /\ vb \in Varbinds
  <2>1. vb \in RootedVarbinds
    <3> HIDE DEF vb
    <3>1. DecodeVarbind(content).value = vb
      BY <1>2 DEF Yields
    <3> QED BY <1>2, <3>1, DecodeVarbindType, Zenon DEF Gives
  <2> HIDE DEF vb
  <2> QED BY <1>2, <2>1 DEF Yields, RootedVarbinds
<1>4. name.ok /\ name \in Tlvs
  BY <1>2, ExpectOk, ExpectType, NoTlvFails, Zenon
<1>5. name.content \in Seq(Octet) /\ name.rest \in Seq(Octet)
      /\ TlvLen(Len(name.content)) + Len(name.rest) <= Len(content)
  BY <1>4, ExpectCosts, Zenon
<1>6. tlv.ok /\ tlv \in Tlvs
  BY <1>2, <1>5, DecodeTlvOk, DecodeTlvType, NoTlvFails, Zenon
<1>7. TlvLen(Len(tlv.content)) + Len(tlv.rest) <= Len(name.rest)
  BY <1>5, <1>6, ElementCosts, Zenon
<1>8. vb.oid = oid.value /\ vb.tag = tlv.tag /\ vb.value = value.value
  OBVIOUS
<1> HIDE DEF vb
<1>9. Len(EncodeOid(vb.oid)) <= TlvLen(Len(name.content))
  <2>1. Len(OidContent(vb.oid)) <= Len(name.content)
    BY <1>2, <1>4, <1>8, OidCosts, Zenon
  <2>2. vb.oid \in Oids
    BY <1>3, VarbindFields
  <2>3. Len(OidContent(vb.oid)) \in Nat /\ Len(EncodeOid(vb.oid)) = TlvLen(Len(OidContent(vb.oid)))
    BY <2>2, EncodeOidType, LenProperties
  <2>4. Len(name.content) \in Nat
    BY <1>5, LenProperties
  <2> HIDE DEF name
  <2> QED BY <2>1, <2>3, <2>4, TlvLenGrows
<1>10. Len(EncodeValue(vb)) <= TlvLen(Len(tlv.content))
  BY <1>2, <1>3, <1>6, <1>8, ValueCosts, Zenon
<1>11. Len(EncodeVarbind(vb)) = TlvLen(Len(EncodeOid(vb.oid)) + Len(EncodeValue(vb)))
  BY <1>3, EncodeVarbindType
<1>12. /\ Len(EncodeOid(vb.oid)) \in Nat /\ Len(EncodeValue(vb)) \in Nat /\ Len(content) \in Nat
       /\ Len(name.rest) \in Nat /\ Len(tlv.rest) \in Nat
       /\ TlvLen(Len(name.content)) \in Nat /\ TlvLen(Len(tlv.content)) \in Nat
  <2>1. EncodeOid(vb.oid) \in Seq(Nat) /\ EncodeValue(vb) \in Seq(Nat)
    BY <1>3, VarbindFields, EncodeOidType, EncodeValueType
  <2>2. tlv.content \in Seq(Octet) /\ tlv.rest \in Seq(Octet)
    <3> HIDE DEF tlv
    <3> QED BY <1>6 DEF Tlvs
  <2> HIDE DEF tlv, name
  <2> QED BY <1>5, <2>1, <2>2, LenProperties, TlvLenType
<1> HIDE DEF tlv, name
<1>13. Len(EncodeOid(vb.oid)) + Len(EncodeValue(vb)) \in Nat
       /\ Len(EncodeOid(vb.oid)) + Len(EncodeValue(vb)) <= Len(content)
  BY <1>5, <1>7, <1>9, <1>10, <1>12, SMTT(30)
<1> QED BY <1>3, <1>11, <1>12, <1>13, TlvLenGrows

Encoded(vbs) == [i \in DOMAIN vbs |-> EncodeVarbind(vbs[i])]
Unpadded(vbs) == \A i \in DOMAIN vbs : ~Padded(vbs[i])

LEMMA EncodedType ==
  ASSUME NEW vbs \in Seq(Varbinds)
  PROVE  Encoded(vbs) \in Seq(Seq(Nat)) /\ Len(Encoded(vbs)) = Len(vbs)
<1> DEFINE n == Len(vbs)
<1>1. n \in Nat /\ DOMAIN vbs = 1 .. n /\ \A i \in 1 .. n : vbs[i] \in Varbinds
  BY ElementOfSeq, LenProperties
<1>2. Encoded(vbs) = [i \in 1 .. n |-> EncodeVarbind(vbs[i])]
  BY <1>1, Zenon DEF Encoded
<1>3. \A i \in 1 .. n : EncodeVarbind(vbs[i]) \in Seq(Nat)
  BY <1>1, EncodeVarbindType
<1> HIDE DEF n
<1>4. Encoded(vbs) \in Seq(Seq(Nat)) /\ Len(Encoded(vbs)) = n
  BY <1>1, <1>2, <1>3
<1> QED BY <1>4 DEF n

LEMMA EncodedAppend ==
  ASSUME NEW vbs \in Seq(Varbinds), NEW vb \in Varbinds
  PROVE  /\ FlattenSeq(Encoded(Append(vbs, vb))) = FlattenSeq(Encoded(vbs)) \o EncodeVarbind(vb)
         /\ FlattenSeq(Encoded(vbs)) \in Seq(Nat)
<1> DEFINE all == Append(vbs, vb)
           n == Len(vbs)
           longer == Append(Encoded(vbs), EncodeVarbind(vb))
<1>1. all \in Seq(Varbinds) /\ Len(all) = n + 1 /\ all[n + 1] = vb
      /\ \A i \in 1 .. n : all[i] = vbs[i]
  BY AppendProperties
<1>2. n \in Nat /\ DOMAIN vbs = 1 .. n
  BY LenProperties
<1> HIDE DEF all
<1>3. DOMAIN all = 1 .. n + 1
  BY <1>1, LenProperties
<1>4. EncodeVarbind(vb) \in Seq(Nat)
  BY EncodeVarbindType
<1>5. Encoded(vbs) \in Seq(Seq(Nat)) /\ Len(Encoded(vbs)) = n
      /\ Encoded(all) \in Seq(Seq(Nat)) /\ Len(Encoded(all)) = n + 1
  BY <1>1, EncodedType
<1>6. longer \in Seq(Seq(Nat)) /\ Len(longer) = n + 1 /\ longer[n + 1] = EncodeVarbind(vb)
      /\ \A i \in 1 .. n : longer[i] = Encoded(vbs)[i]
  BY <1>4, <1>5, AppendProperties
<1> HIDE DEF longer, n
<1>7. ASSUME NEW i \in 1 .. n + 1 PROVE Encoded(all)[i] = longer[i]
  <2>1. Encoded(all)[i] = EncodeVarbind(all[i])
    BY <1>3 DEF Encoded
  <2>2. CASE i = n + 1
    BY <1>1, <1>6, <2>1, <2>2
  <2>3. CASE i # n + 1
    <3>1. i \in 1 .. n
      BY <1>2, <2>3
    <3>2. Encoded(vbs)[i] = EncodeVarbind(vbs[i])
      BY <1>2, <3>1 DEF Encoded
    <3> QED BY <1>1, <1>6, <2>1, <3>1, <3>2
  <2> QED BY <2>2, <2>3
<1>8. Encoded(all) = longer
  BY <1>5, <1>6, <1>7, SeqEqual
<1>9. FlattenSeq(longer) = FlattenSeq(Encoded(vbs)) \o EncodeVarbind(vb)
  BY <1>4, <1>5, FlattenAppend DEF longer
<1>10. FlattenSeq(Encoded(vbs)) \in Seq(Nat)
  BY <1>5, FlattenType
<1> QED BY <1>8, <1>9, <1>10, Zenon DEF all

\* What the loop over the varbinds has taken, encoded again, and what is left.
ListFits(walk, all) ==
  Unpadded(walk.vbs) => Len(FlattenSeq(Encoded(walk.vbs))) + Len(walk.rest) <= all

LEMMA NextListFits ==
  ASSUME NEW walk \in VarbindWalks, NEW all \in Nat, ListFits(walk, all)
  PROVE  ListFits(NextVarbind(walk), all)
<1> DEFINE element == Expect(walk.rest, Tag.sequence)
           vb == DecodeVarbind(element.content)
           next == NextVarbind(walk)
<1>1. walk.rest \in Seq(Octet) /\ walk.vbs \in Seq(Varbinds)
  <2>1. walk.rest \in Seq(Octet) /\ walk.vbs \in Seq(RootedVarbinds)
    BY DEF VarbindWalks
  <2>2. RootedVarbinds \subseteq Varbinds
    BY DEF RootedVarbinds
  <2> QED BY <2>1, <2>2, SeqMonotonic
<1>2. CASE ~(walk.rest # <<>> /\ element.ok /\ vb.ok)
  <2>1. next = walk
    BY <1>2, Zenon DEF NextVarbind
  <2> QED BY <2>1
<1>3. CASE walk.rest # <<>> /\ element.ok /\ vb.ok
  <2>1. next = [rest |-> element.rest, vbs |-> Append(walk.vbs, vb.value)]
    BY <1>3, Zenon DEF NextVarbind
  <2>2. next.rest = element.rest /\ next.vbs = Append(walk.vbs, vb.value)
    <3> HIDE DEF next, element, vb
    <3> QED BY <2>1
  <2>3. element.content \in Seq(Octet) /\ element.rest \in Seq(Octet)
        /\ TlvLen(Len(element.content)) + Len(element.rest) <= Len(walk.rest)
    BY <1>1, <1>3, ExpectCosts, Zenon
  <2>4. vb.value \in Varbinds
    <3>1. vb.value \in RootedVarbinds
      BY <1>3, <2>3, DecodeVarbindType, Zenon DEF Gives
    <3> HIDE DEF vb
    <3> QED BY <3>1 DEF RootedVarbinds
  <2> HIDE DEF next, element
  <2>5. SUFFICES ASSUME Unpadded(next.vbs)
                 PROVE  Len(FlattenSeq(Encoded(next.vbs))) + Len(next.rest) <= all
    BY Zenon DEF ListFits, next
  <2>6. Unpadded(walk.vbs) /\ ~Padded(vb.value)
    <3> HIDE DEF vb
    <3> DEFINE n == Len(walk.vbs)
    <3>1. /\ n \in Nat /\ DOMAIN walk.vbs = 1 .. n
          /\ next.vbs[n + 1] = vb.value
          /\ next.vbs \in Seq(Varbinds) /\ Len(next.vbs) = n + 1
          /\ \A i \in 1 .. n : next.vbs[i] = walk.vbs[i]
      BY <1>1, <2>2, <2>4, AppendProperties, LenProperties
    <3>2. DOMAIN next.vbs = 1 .. n + 1
      BY <3>1, LenProperties
    <3> HIDE DEF n
    <3>3. n + 1 \in 1 .. n + 1 /\ \A i \in 1 .. n : i \in 1 .. n + 1
      BY <3>1
    <3> QED BY <2>5, <3>1, <3>2, <3>3, Zenon DEF Unpadded
  <2>7. Len(EncodeVarbind(vb.value)) <= TlvLen(Len(element.content))
    BY <1>3, <2>3, <2>6, VarbindCosts, Zenon
  <2>8. Len(FlattenSeq(Encoded(walk.vbs))) + Len(walk.rest) <= all
    BY <2>6, Zenon DEF ListFits
  <2> HIDE DEF vb
  <2>9. /\ FlattenSeq(Encoded(next.vbs)) = FlattenSeq(Encoded(walk.vbs)) \o EncodeVarbind(vb.value)
        /\ FlattenSeq(Encoded(walk.vbs)) \in Seq(Nat)
    BY <1>1, <2>2, <2>4, EncodedAppend
  <2>10. EncodeVarbind(vb.value) \in Seq(Nat)
    BY <2>4, EncodeVarbindType
  <2>11. Len(FlattenSeq(Encoded(next.vbs)))
           = Len(FlattenSeq(Encoded(walk.vbs))) + Len(EncodeVarbind(vb.value))
    BY <2>9, <2>10, ConcatProperties
  <2>12. /\ Len(FlattenSeq(Encoded(walk.vbs))) \in Nat /\ Len(EncodeVarbind(vb.value)) \in Nat
         /\ Len(walk.rest) \in Nat /\ Len(element.rest) \in Nat
         /\ TlvLen(Len(element.content)) \in Nat
    BY <1>1, <2>3, <2>9, <2>10, LenProperties, TlvLenType
  <2> DEFINE before == Len(FlattenSeq(Encoded(walk.vbs)))
             added == Len(EncodeVarbind(vb.value))
             cost == TlvLen(Len(element.content))
             left == Len(walk.rest)
             rest == Len(element.rest)
  <2>13. /\ before \in Nat /\ added \in Nat /\ cost \in Nat /\ left \in Nat /\ rest \in Nat
         /\ before + left <= all /\ added <= cost /\ cost + rest <= left
         /\ Len(FlattenSeq(Encoded(next.vbs))) = before + added
         /\ Len(next.rest) = rest
    BY <2>2, <2>3, <2>7, <2>8, <2>11, <2>12, Zenon
  <2> HIDE DEF before, added, cost, left, rest
  <2>14. before + added + rest <= all
    BY <2>13
  <2> QED BY <2>13, <2>14, Zenon
<1> QED BY <1>2, <1>3

\* All the varbinds.
LEMMA ListCosts ==
  ASSUME NEW d \in Seq(Octet), DecodeVarbinds(d).ok, Unpadded(DecodeVarbinds(d).value)
  PROVE  Len(EncodeVarbinds(DecodeVarbinds(d).value)) <= TlvLen(Len(d))
<1> DEFINE N == MaxVarbinds
           walk == VarbindWalk(d)
           all == Len(d)
           S == {i \in 0 .. N : ListFits(walk[i], all)}
           end == walk[N]
<1>1. N \in Nat /\ all \in Nat
  BY CodecAssumption, LenProperties
<1>2. /\ \A i \in 0 .. N : walk[i] \in VarbindWalks
      /\ walk[0] = [rest |-> d, vbs |-> <<>>]
      /\ \A i \in 1 .. N : walk[i] = NextVarbind(walk[i - 1])
  BY VarbindWalkIs
<1>3. DecodeVarbinds(d) = IF end.rest = <<>> THEN Yields(end.vbs) ELSE Fails
  BY Zenon DEF DecodeVarbinds, VarbindWalk
<1> HIDE DEF walk
<1>4. 0 \in S
  <2>1. walk[0].rest = d /\ walk[0].vbs = <<>>
    BY <1>2
  <2>2. Encoded(<<>>) = <<>> /\ FlattenSeq(<<>>) = <<>> /\ Len(<<>>) = 0
    <3>1. FlattenSeq(<<>>) = <<>>
      BY EmptySeq DEF FlattenSeq
    <3>2. Encoded(<<>>) \in Seq(Seq(Nat)) /\ Len(Encoded(<<>>)) = 0
      <4>1. <<>> \in Seq(Varbinds) /\ Len(<<>>) = 0
        BY EmptySeq
      <4> QED BY <4>1, EncodedType, Zenon
    <3>3. Encoded(<<>>) = <<>>
      BY <3>2, EmptySeq
    <3> QED BY <3>1, <3>3
  <2>3. Len(FlattenSeq(Encoded(walk[0].vbs))) = 0 /\ Len(walk[0].rest) = all
    BY <2>1, <2>2, Zenon
  <2>4. 0 \in 0 .. N /\ 0 + all <= all
    BY <1>1
  <2> HIDE DEF all
  <2>5. ListFits(walk[0], all)
    BY <2>3, <2>4 DEF ListFits
  <2> QED BY <2>4, <2>5
<1>5. ASSUME NEW i \in 0 .. N - 1, i \in S PROVE i + 1 \in S
  <2>1. i + 1 \in 1 .. N /\ (i + 1) - 1 = i /\ i \in 0 .. N /\ i + 1 \in 0 .. N
    BY <1>1
  <2>2. walk[i + 1] = NextVarbind(walk[i])
    BY <1>2, <2>1
  <2>3. ListFits(walk[i], all) /\ walk[i] \in VarbindWalks
    BY <1>2, <1>5, <2>1
  <2> HIDE DEF all
  <2>4. ListFits(NextVarbind(walk[i]), all)
    BY <1>1, <2>3, NextListFits
  <2> QED BY <2>1, <2>2, <2>4
<1>6. ListFits(end, all)
  <2>1. \A i \in 0 .. N : i \in S
    <3> HIDE DEF S, N
    <3> QED BY <1>1, <1>4, <1>5, Induct
  <2>2. N \in 0 .. N
    BY <1>1
  <2> QED BY <2>1, <2>2, Zenon
<1>7. end.rest = <<>> /\ DecodeVarbinds(d).value = end.vbs
  <2>1. ~Fails.ok /\ \A value : Yields(value).value = value
    BY DEF Fails, Yields
  <2> QED BY <1>3, <2>1, Zenon
<1>8. end.vbs \in Seq(Varbinds)
  <2>1. end \in VarbindWalks
    <3>1. N \in 0 .. N
      BY <1>1
    <3> QED BY <1>2, <3>1, Zenon
  <2>2. end.vbs \in Seq(RootedVarbinds)
    <3> HIDE DEF end
    <3> QED BY <2>1 DEF VarbindWalks
  <2>3. RootedVarbinds \subseteq Varbinds
    BY DEF RootedVarbinds
  <2> QED BY <2>2, <2>3, SeqMonotonic
<1> DEFINE content == FlattenSeq(Encoded(end.vbs))
<1>9. content \in Seq(Nat)
  BY <1>8, EncodedType, FlattenType
<1>10. Len(content) \in Nat /\ Len(content) <= all
  <2>1. Len(content) + Len(end.rest) <= all /\ Len(end.rest) = 0
    <3>1. Len(<<>>) = 0
      OBVIOUS
    <3> QED BY <1>6, <1>7, <3>1, Zenon DEF ListFits
  <2>2. Len(content) \in Nat
    BY <1>9, LenProperties
  <2> HIDE DEF content, all
  <2> QED BY <1>1, <2>1, <2>2
<1>11. EncodeVarbinds(end.vbs) = EncodeTlv(Tag.sequence, content)
  BY Zenon DEF EncodeVarbinds, Encoded
<1>12. Len(EncodeVarbinds(end.vbs)) = TlvLen(Len(content))
  <2>1. Tag.sequence \in Nat
    BY TagsAreNumbers
  <2> HIDE DEF content
  <2> QED BY <1>9, <1>11, <2>1, EncodedLength
<1> HIDE DEF content
<1> QED BY <1>1, <1>7, <1>10, <1>12, TlvLenGrows, Zenon

\* An integer is an element of its content, and a small one of one octet.
LEMMA EncodeIntegerType ==
  ASSUME NEW w \in Word
  PROVE  /\ EncodeInteger(w) \in Seq(Nat) /\ Len(IntegerContent(w)) \in Nat
         /\ Len(EncodeInteger(w)) = TlvLen(Len(IntegerContent(w)))
<1>1. IntegerContent(w) \in Seq(Nat)
  BY IntegersAgree
<1>2. EncodeTlv(Tag.integer, IntegerContent(w)) \in Seq(Nat)
      /\ Len(EncodeTlv(Tag.integer, IntegerContent(w))) = TlvLen(Len(IntegerContent(w)))
  BY <1>1, ElementsAgree, EncodedLength, TagsAreNumbers
<1> QED BY <1>1, <1>2, LenProperties, Zenon DEF EncodeInteger

LEMMA SmallInteger ==
  ASSUME NEW n \in 0 .. 127
  PROVE  WordOf(n) \in Word /\ Len(EncodeInteger(WordOf(n))) = TlvLen(1)
<1> DEFINE w == WordOf(n)
           S == {k \in 1 .. 4 : Signed(LastOctets(w, k)) = w}
<1>1. w \in Word /\ w = <<0, 0, 0, n>>
  <2>1. n \in 0 .. 255
    OBVIOUS
  <2> QED BY <2>1, WordOfType
<1>2. w[1] = 0 /\ w[2] = 0 /\ w[3] = 0 /\ Fill(w[4]) = 0
  BY <1>1 DEF Fill
<1> HIDE DEF w
<1>3. 1 \in S
  <2>1. 1 \in 1 .. 4 /\ 5 - 1 = 4 /\ \A i \in 1 .. 4 - 1 : i = 1 \/ i = 2 \/ i = 3
    OBVIOUS
  <2>2. \A i \in 1 .. 4 - 1 : w[i] = Fill(w[5 - 1])
    BY <1>2, <2>1, Zenon
  <2>3. Signed(LastOctets(w, 1)) = w
    BY <1>1, <2>1, <2>2, SignedIs, ZenonT(60)
  <2> QED BY <2>1, <2>3
<1>4. Min(S) = 1
  <2>1. S \subseteq Nat /\ S \subseteq 1 .. 4
    OBVIOUS
  <2> HIDE DEF S
  <2>2. Min(S) \in S /\ Min(S) <= 1
    BY <1>3, <2>1, MinAtMost
  <2>3. \A m \in 1 .. 4 : m <= 1 => m = 1
    OBVIOUS
  <2> QED BY <2>1, <2>2, <2>3, Zenon
<1>5. IntegerContent(w) = LastOctets(w, Min(S))
  BY <1>1, IntegersAgree, Zenon DEF ShortestSigned, S
<1>6. Len(LastOctets(w, 1)) = 1
  <2>1. w \in Seq(Nat) /\ Len(w) = 4
    BY <1>1, WordIsSeq DEF Word
  <2>2. 1 \in 1 .. Len(w)
    BY <2>1
  <2> QED BY <2>1, <2>2, LastOctetsType
<1>7. Len(IntegerContent(w)) = 1
  BY <1>4, <1>5, <1>6, Zenon
<1> QED BY <1>1, <1>7, EncodeIntegerType, Zenon DEF w

LEMMA EncodeVarbindsType ==
  ASSUME NEW vbs \in Seq(Varbinds)
  PROVE  EncodeVarbinds(vbs) \in Seq(Nat)
<1> DEFINE content == FlattenSeq(Encoded(vbs))
<1>1. content \in Seq(Nat)
  BY EncodedType, FlattenType
<1>2. EncodeVarbinds(vbs) = EncodeTlv(Tag.sequence, content)
  BY Zenon DEF EncodeVarbinds, Encoded
<1> HIDE DEF content
<1> QED BY <1>1, <1>2, ElementsAgree, TagsAreNumbers

LEMMA PduLength ==
  ASSUME NEW tag \in Nat, NEW numbers \in [1 .. 3 -> Word], NEW vbs \in Seq(Varbinds)
  PROVE  /\ EncodePdu(tag, numbers, vbs) \in Seq(Nat)
         /\ Len(EncodePdu(tag, numbers, vbs))
              = TlvLen(((Len(EncodeInteger(numbers[1])) + Len(EncodeInteger(numbers[2])))
                          + Len(EncodeInteger(numbers[3]))) + Len(EncodeVarbinds(vbs)))
<1> DEFINE number(i) == EncodeInteger(numbers[i])
           all == [i \in 1 .. 3 |-> number(i)]
           bindings == EncodeVarbinds(vbs)
<1>1. number(1) \in Seq(Nat) /\ number(2) \in Seq(Nat) /\ number(3) \in Seq(Nat)
  BY EncodeIntegerType
<1> HIDE DEF number
<1>2. all = <<number(1), number(2), number(3)>>
  <2>1. \A i \in 1 .. 3 : i = 1 \/ i = 2 \/ i = 3
    OBVIOUS
  <2> QED BY <2>1
<1> HIDE DEF all
<1>3. FlattenSeq(all) = (number(1) \o number(2)) \o number(3)
  <2>1. FlattenSeq(<<number(1), number(2), number(3)>>) = number(1) \o number(2) \o number(3)
    BY <1>1, FlattenThree, Zenon
  <2> QED BY <1>2, <2>1, Zenon
<1>4. /\ number(1) \o number(2) \in Seq(Nat)
      /\ Len(number(1) \o number(2)) = Len(number(1)) + Len(number(2))
  BY <1>1, ConcatProperties
<1>5. /\ (number(1) \o number(2)) \o number(3) \in Seq(Nat)
      /\ Len((number(1) \o number(2)) \o number(3))
           = (Len(number(1)) + Len(number(2))) + Len(number(3))
  BY <1>1, <1>4, ConcatProperties
<1>6. bindings \in Seq(Nat)
  BY EncodeVarbindsType
<1>7. EncodePdu(tag, numbers, vbs) = EncodeTlv(tag, FlattenSeq(all) \o bindings)
  BY Zenon DEF EncodePdu, all, number
<1> HIDE DEF bindings
<1> DEFINE body == FlattenSeq(all) \o bindings
<1>8. /\ body \in Seq(Nat)
      /\ Len(body) = ((Len(number(1)) + Len(number(2))) + Len(number(3))) + Len(bindings)
  BY <1>3, <1>5, <1>6, ConcatProperties
<1> HIDE DEF body
<1>9. EncodeTlv(tag, body) \in Seq(Nat) /\ Len(EncodeTlv(tag, body)) = TlvLen(Len(body))
  BY <1>8, ElementsAgree, EncodedLength
<1> QED BY <1>7, <1>8, <1>9, Zenon DEF body, number, bindings

\* Three integers and the varbinds, of which the second and the third integer
\* now take one octet each.
LEMMA SumCosts ==
  ASSUME NEW a \in Nat, NEW b \in Nat, NEW c \in Nat, NEW ra \in Nat, NEW rb \in Nat,
         NEW rc \in Nat, NEW rd \in Nat, NEW d \in Nat, NEW all \in Nat, NEW x \in Nat,
         NEW y \in Nat, NEW z \in Nat, NEW v \in Nat,
         a + ra <= all, b + rb <= ra, c + rc <= rb, d + rd <= rc,
         x <= a, y <= b, z <= c, v <= d
  PROVE  ((x + y) + z) + v <= all /\ ((x + y) + z) + v \in Nat
  OBVIOUS

\* The elements that are expected one after the other.
Chain(d, tags, tlv) ==
  /\ tlv[0].rest = d
  /\ \A i \in 1 .. Len(tags) :
       /\ tlv[i] \in Tlvs /\ tlv[i].content \in Seq(Octet) /\ tlv[i].rest \in Seq(Octet)
       /\ tlv[i] = Expect(tlv[i - 1].rest, tags[i])
       /\ tlv[i].ok => TlvLen(Len(tlv[i].content)) + Len(tlv[i].rest) <= Len(tlv[i - 1].rest)

LEMMA ExpectAllCosts ==
  ASSUME NEW d \in Seq(Octet), NEW tags, Len(tags) \in Nat
  PROVE  Chain(d, tags, ExpectAll(d, tags))
<1> DEFINE n == Len(tags)
           tlv == ExpectAll(d, tags)
<1>1. tlv[0].rest = d /\ \A i \in 1 .. n : tlv[i] \in Tlvs /\ tlv[i] = Expect(tlv[i - 1].rest, tags[i])
  <2>1. /\ ExpectAll(d, tags)[0].rest = d
        /\ \A i \in 1 .. n : /\ ExpectAll(d, tags)[i] \in Tlvs
                            /\ ExpectAll(d, tags)[i] = Expect(ExpectAll(d, tags)[i - 1].rest, tags[i])
    BY ExpectAllIs
  <2> QED BY <2>1
<1> HIDE DEF tlv
<1>2. \A i \in 1 .. n : tlv[i].content \in Seq(Octet) /\ tlv[i].rest \in Seq(Octet)
  <2> HIDE DEF n
  <2> QED BY <1>1 DEF Tlvs
<1>3. ASSUME NEW i \in 1 .. n, tlv[i].ok
      PROVE  TlvLen(Len(tlv[i].content)) + Len(tlv[i].rest) <= Len(tlv[i - 1].rest)
  <2>1. i - 1 = 0 \/ i - 1 \in 1 .. n
    OBVIOUS
  <2> HIDE DEF n
  <2>2. tlv[i - 1].rest \in Seq(Octet)
    BY <1>1, <1>2, <2>1, Zenon
  <2>3. Expect(tlv[i - 1].rest, tags[i]) = tlv[i]
    BY <1>1, Zenon
  <2>4. Expect(tlv[i - 1].rest, tags[i]).ok
    BY <1>3, <2>3, Zenon
  <2>5. TlvLen(Len(Expect(tlv[i - 1].rest, tags[i]).content))
          + Len(Expect(tlv[i - 1].rest, tags[i]).rest) <= Len(tlv[i - 1].rest)
    BY <2>2, <2>4, ExpectCosts, Zenon
  <2> QED BY <2>3, <2>5, Zenon
<1>4. Chain(d, tags, tlv)
  BY <1>1, <1>2, <1>3, Zenon DEF Chain
<1> QED BY <1>4 DEF tlv

LEMMA RequestPduCosts ==
  ASSUME NEW d \in Seq(Octet), DecodeRequestPdu(d).ok, Unpadded(DecodeRequestPdu(d).vbs),
         NEW numbers \in [1 .. 3 -> Word], numbers[1] = DecodeRequestPdu(d).numbers[1],
         Len(EncodeInteger(numbers[2])) = TlvLen(1), Len(EncodeInteger(numbers[3])) = TlvLen(1)
  PROVE  /\ EncodePdu(Tag.response, numbers, DecodeRequestPdu(d).vbs) \in Seq(Nat)
         /\ Len(EncodePdu(Tag.response, numbers, DecodeRequestPdu(d).vbs)) <= Len(d)
<1> DEFINE tags == <<Tag.integer, Tag.integer, Tag.integer, Tag.sequence>>
           element == DecodeTlv(d)
           tlv == ExpectAll(element.content, tags)
           decoded == [f \in 1 .. 3 |-> DecodeInteger(tlv[f])]
           vbs == DecodeVarbinds(tlv[4].content)
           pdu == DecodeRequestPdu(d)
           values == [f \in 1 .. 3 |-> decoded[f].value]
           Cost(i) == TlvLen(Len(tlv[i].content))
<1>1. Len(tags) = 4 /\ tags[4] = Tag.sequence
  OBVIOUS
<1>2. DecodeRequestPdu(d) =
        IF tlv[4].ok THEN RequestPdu(element.tag, decoded, vbs) ELSE NoPdu
  BY Zenon DEF DecodeRequestPdu
<1> HIDE DEF tags
<1>3. ~NoPdu.ok
  BY DEF NoPdu
<1>4. tlv[4].ok /\ pdu = RequestPdu(element.tag, decoded, vbs)
  BY <1>2, <1>3, Zenon
<1>5. element.tag \in RequestTags /\ (\A f \in 1 .. 3 : decoded[f].ok) /\ vbs.ok
      /\ pdu = [ok |-> TRUE, tag |-> element.tag, numbers |-> values, vbs |-> vbs.value]
  BY <1>3, <1>4, Zenon DEF RequestPdu
<1>6. \A f \in 1 .. 3 : decoded[f] = DecodeInteger(tlv[f])
  OBVIOUS
<1>7. pdu.vbs = vbs.value /\ pdu.numbers[1] = decoded[1].value
  <2>1. pdu.vbs = vbs.value /\ pdu.numbers = values
    <3> HIDE DEF pdu, vbs, values
    <3> QED BY <1>5
  <2>2. values[1] = decoded[1].value
    <3> HIDE DEF decoded
    <3> QED OBVIOUS
  <2> QED BY <2>1, <2>2, Zenon
<1>8. element.content \in Seq(Octet)
  BY DecodeTlvType DEF Tlvs
<1>9. /\ tlv[0].rest = element.content
      /\ \A i \in 1 .. 4 :
           /\ tlv[i] \in Tlvs /\ tlv[i].content \in Seq(Octet) /\ tlv[i].rest \in Seq(Octet)
           /\ tlv[i] = Expect(tlv[i - 1].rest, tags[i])
           /\ tlv[i].ok => Cost(i) + Len(tlv[i].rest) <= Len(tlv[i - 1].rest)
  <2>1. Len(tags) \in Nat
    BY <1>1
  <2> HIDE DEF element
  <2>2. Chain(element.content, tags, tlv)
    BY <1>8, <2>1, ExpectAllCosts, Zenon
  <2> HIDE DEF tlv
  <2> QED BY <1>1, <2>2, Zenon DEF Chain
<1> HIDE DEF decoded, vbs, pdu, tlv
<1>10. \A i \in 1 .. 4 : tlv[i].content \in Seq(Octet) /\ tlv[i].rest \in Seq(Octet)
  BY <1>9
<1>11. tlv[1].ok /\ tlv[2].ok /\ tlv[3].ok
  <2>1. 1 \in 1 .. 3 /\ 2 \in 1 .. 3 /\ 3 \in 1 .. 3 /\ \A i \in 1 .. 3 : i \in 1 .. 4
    OBVIOUS
  <2>2. \A i \in 1 .. 3 : DecodeInteger(tlv[i]).ok
    BY <1>5, <1>6, Zenon
  <2>3. \A i \in 1 .. 3 : tlv[i] = Expect(tlv[i - 1].rest, tags[i])
    BY <1>9, <2>1, Zenon
  <2>4. \A i \in 1 .. 3 : tlv[i].ok \/ tlv[i] = NoTlv
    BY <2>3, ExpectOk, ZenonT(60)
  <2>5. \A i \in 1 .. 3 : tlv[i].ok
    BY <2>2, <2>4, NoTlvFails, Zenon
  <2> QED BY <2>1, <2>5, Zenon
<1>12. /\ Cost(1) + Len(tlv[1].rest) <= Len(element.content)
       /\ Cost(2) + Len(tlv[2].rest) <= Len(tlv[1].rest)
       /\ Cost(3) + Len(tlv[3].rest) <= Len(tlv[2].rest)
       /\ Cost(4) + Len(tlv[4].rest) <= Len(tlv[3].rest)
  <2>1. 1 \in 1 .. 4 /\ 2 \in 1 .. 4 /\ 3 \in 1 .. 4 /\ 4 \in 1 .. 4
        /\ 1 - 1 = 0 /\ 2 - 1 = 1 /\ 3 - 1 = 2 /\ 4 - 1 = 3
    OBVIOUS
  <2> QED BY <1>4, <1>9, <1>11, <2>1, Zenon
<1>13. /\ \A i \in 1 .. 3 : Len(tlv[i].content) >= 1
       /\ numbers[1] \in Word /\ Len(IntegerContent(numbers[1])) <= Len(tlv[1].content)
  <2>1. 1 \in 1 .. 3 /\ \A i \in 1 .. 3 : i \in 1 .. 4
    OBVIOUS
  <2>2. \A i \in 1 .. 3 : tlv[i] \in Tlvs /\ DecodeInteger(tlv[i]).ok
    BY <1>5, <1>6, <1>9, <2>1, Zenon
  <2>3. \A i \in 1 .. 3 : /\ Len(tlv[i].content) >= 1
                         /\ DecodeInteger(tlv[i]).value \in Word
                         /\ Len(IntegerContent(DecodeInteger(tlv[i]).value)) <= Len(tlv[i].content)
    BY <2>2, IntegerCosts, Zenon
  <2>4. numbers[1] = DecodeInteger(tlv[1]).value
    BY <1>6, <1>7, <2>1, Zenon DEF pdu
  <2> QED BY <2>1, <2>3, <2>4, Zenon
<1>14. \A i \in 1 .. 4 : Len(tlv[i].content) \in Nat /\ Len(tlv[i].rest) \in Nat /\ Cost(i) \in Nat
  BY <1>10, LenProperties, TlvLenType
<1>15. Len(EncodeInteger(numbers[1])) <= Cost(1)
       /\ Len(EncodeInteger(numbers[2])) <= Cost(2) /\ Len(EncodeInteger(numbers[3])) <= Cost(3)
  <2>1. 1 \in 1 .. 4 /\ 2 \in 1 .. 4 /\ 3 \in 1 .. 4 /\ 2 \in 1 .. 3 /\ 3 \in 1 .. 3 /\ 1 \in Nat
        /\ \A n \in Nat : n >= 1 => 1 <= n
    OBVIOUS
  <2>2. Len(EncodeInteger(numbers[1])) <= Cost(1)
    <3>1. Len(IntegerContent(numbers[1])) \in Nat
          /\ Len(EncodeInteger(numbers[1])) = TlvLen(Len(IntegerContent(numbers[1])))
      BY <1>13, EncodeIntegerType
    <3> QED BY <1>13, <1>14, <2>1, <3>1, TlvLenGrows, Zenon
  <2>3. TlvLen(1) <= Cost(2) /\ TlvLen(1) <= Cost(3)
    BY <1>13, <1>14, <2>1, TlvLenGrows, Zenon
  <2> QED BY <2>2, <2>3, Zenon
<1>16. Unpadded(vbs.value) /\ vbs.value \in Seq(Varbinds)
       /\ Len(EncodeVarbinds(vbs.value)) <= Cost(4)
  <2>1. 4 \in 1 .. 4
    OBVIOUS
  <2>2. Unpadded(vbs.value)
    BY <1>7, Zenon DEF pdu
  <2>3. vbs.value \in RootedLists
    BY <1>5, <1>10, <2>1, DecodeVarbindsType, Zenon DEF vbs, Gives
  <2>4. vbs.value \in Seq(Varbinds)
    BY <2>3, RootedListsType DEF Lists
  <2>5. Len(EncodeVarbinds(vbs.value)) <= Cost(4)
    BY <1>5, <1>10, <2>1, <2>2, ListCosts, Zenon DEF vbs
  <2> QED BY <2>2, <2>4, <2>5
<1> DEFINE x == Len(EncodeInteger(numbers[1]))
           y == Len(EncodeInteger(numbers[2]))
           z == Len(EncodeInteger(numbers[3]))
           v == Len(EncodeVarbinds(vbs.value))
           a == Cost(1)
           b == Cost(2)
           c == Cost(3)
           e == Cost(4)
           ra == Len(tlv[1].rest)
           rb == Len(tlv[2].rest)
           rc == Len(tlv[3].rest)
           rd == Len(tlv[4].rest)
           all == Len(element.content)
<1>17. /\ x \in Nat /\ y \in Nat /\ z \in Nat /\ v \in Nat /\ all \in Nat
       /\ a \in Nat /\ b \in Nat /\ c \in Nat /\ e \in Nat
       /\ ra \in Nat /\ rb \in Nat /\ rc \in Nat /\ rd \in Nat
  <2>1. 1 \in 1 .. 4 /\ 2 \in 1 .. 4 /\ 3 \in 1 .. 4 /\ 4 \in 1 .. 4
    OBVIOUS
  <2>2. \A f \in 1 .. 3 : EncodeInteger(numbers[f]) \in Seq(Nat)
    BY EncodeIntegerType
  <2>3. x \in Nat /\ y \in Nat /\ z \in Nat
    BY <2>2, LenProperties
  <2>4. v \in Nat /\ all \in Nat
    BY <1>8, <1>16, EncodeVarbindsType, LenProperties
  <2> HIDE DEF x, y, z, v, all
  <2> QED BY <1>14, <2>1, <2>3, <2>4, Zenon
<1>18. a + ra <= all /\ b + rb <= ra /\ c + rc <= rb /\ e + rd <= rc
       /\ x <= a /\ y <= b /\ z <= c /\ v <= e
  BY <1>12, <1>15, <1>16, Zenon
<1>19. ((x + y) + z) + v <= all /\ ((x + y) + z) + v \in Nat
  <2> HIDE DEF a, b, c, e, ra, rb, rc, rd, x, y, z, v, all, Cost
  <2> QED BY <1>17, <1>18, SumCosts
<1>20. /\ EncodePdu(Tag.response, numbers, vbs.value) \in Seq(Nat)
       /\ Len(EncodePdu(Tag.response, numbers, vbs.value)) = TlvLen(((x + y) + z) + v)
  BY <1>16, PduLength, TagsAreNumbers
<1>21. element.ok
  <2>1. element.tag \in RequestTags
    BY <1>5, Zenon
  <2>2. NoTlv.tag \notin RequestTags
    BY DEF NoTlv, RequestTags, Tag
  <2> QED BY <2>1, <2>2, DecodeTlvOk, Zenon
<1>22. TlvLen(all) + Len(element.rest) <= Len(d)
  BY <1>21, ElementCosts, Zenon
<1>23. Len(element.rest) \in Nat /\ Len(d) \in Nat /\ TlvLen(all) \in Nat
  <2>1. element.rest \in Seq(Octet)
    BY DecodeTlvType DEF Tlvs
  <2> HIDE DEF all
  <2> QED BY <1>17, <2>1, LenProperties, TlvLenType
<1>24. Len(EncodePdu(Tag.response, numbers, vbs.value)) <= Len(d)
  <2> DEFINE sum == ((x + y) + z) + v
             long == Len(EncodePdu(Tag.response, numbers, vbs.value))
  <2>1. long = TlvLen(sum) /\ sum \in Nat /\ sum <= all
    BY <1>19, <1>20, Zenon
  <2> HIDE DEF sum, all
  <2>2. TlvLen(sum) <= TlvLen(all) /\ TlvLen(sum) \in Nat
    BY <1>17, <2>1, TlvLenGrows, TlvLenType
  <2>3. long <= TlvLen(all) /\ long \in Nat
    BY <2>1, <2>2, Zenon
  <2> DEFINE left == Len(element.rest)
             most == TlvLen(all)
  <2>4. most + left <= Len(d) /\ left \in Nat /\ most \in Nat /\ long <= most
    BY <1>22, <1>23, <2>3, Zenon
  <2> HIDE DEF long, left, most
  <2>5. long <= Len(d)
    BY <1>23, <2>3, <2>4
  <2> QED BY <2>5 DEF long
<1>25. pdu.vbs = vbs.value
  BY <1>7, Zenon
<1> QED BY <1>20, <1>24, <1>25, Zenon DEF pdu

LEMMA MessageLength ==
  ASSUME NEW version \in Word, NEW community \in Seq(Octet), NEW pdu \in Seq(Nat)
  PROVE  /\ EncodeMessage(version, community, pdu) \in Seq(Nat)
         /\ Len(EncodeMessage(version, community, pdu))
              = TlvLen((Len(EncodeInteger(version)) + TlvLen(Len(community))) + Len(pdu))
<1> DEFINE number == EncodeInteger(version)
           name == EncodeTlv(Tag.octets, community)
           body == number \o name \o pdu
<1>1. number \in Seq(Nat)
  BY EncodeIntegerType
<1>2. name \in Seq(Nat) /\ Len(name) = TlvLen(Len(community))
  BY ElementsAgree, EncodedLength, OctetsAreNumbers, TagsAreNumbers
<1>3. EncodeMessage(version, community, pdu) = EncodeTlv(Tag.sequence, body)
  BY Zenon DEF EncodeMessage
<1> HIDE DEF number, name
<1>4. number \o name \in Seq(Nat) /\ Len(number \o name) = Len(number) + Len(name)
  BY <1>1, <1>2, ConcatProperties
<1>5. body \in Seq(Nat) /\ Len(body) = (Len(number) + Len(name)) + Len(pdu)
  BY <1>4, ConcatProperties
<1> HIDE DEF body
<1>6. /\ EncodeTlv(Tag.sequence, body) \in Seq(Nat)
      /\ Len(EncodeTlv(Tag.sequence, body)) = TlvLen(Len(body))
  BY <1>5, ElementsAgree, EncodedLength, TagsAreNumbers
<1> QED BY <1>2, <1>3, <1>5, <1>6, Zenon DEF number

\* A version, a community and a PDU, one after the other.
LEMMA EnvelopeSums ==
  ASSUME NEW a \in Nat, NEW b \in Nat, NEW ra \in Nat, NEW rb \in Nat, NEW all \in Nat,
         NEW x \in Nat, NEW y \in Nat, NEW z \in Nat,
         a + ra <= all, b + rb <= ra, x <= a, y <= b, z <= rb
  PROVE  (x + y) + z <= all /\ (x + y) + z \in Nat
  OBVIOUS

\* A request, answered with its own varbinds and two small integers, takes no
\* more octets than it came with (process_incoming, prepare_outgoing).
LEMMA EchoCosts ==
  ASSUME NEW d \in Seq(Octet), NEW status \in 0 .. 127, NEW index \in 0 .. 127,
         Incoming(d) \in Contexts, Unpadded(Incoming(d).vbs)
  PROVE  /\ Response(Handled(Incoming(d), WordOf(status), WordOf(index))) \in Seq(Nat)
         /\ Len(Response(Handled(Incoming(d), WordOf(status), WordOf(index)))) <= Len(d)
<1> DEFINE tags == <<Tag.integer, Tag.octets>>
           message == Expect(d, Tag.sequence)
           tlv == ExpectAll(message.content, tags)
           octets == DecodeOctets(tlv[2], MaxCommunity)
           sender == DecodeCommunity(d)
           version == DecodeVersion(d)
           pdu == DecodeRequestPdu(sender.rest)
           access == Access(sender.community)
           c == Incoming(d)
           h == Handled(c, WordOf(status), WordOf(index))
           Cost(i) == TlvLen(Len(tlv[i].content))
<1>1. /\ Supported(version) /\ sender.ok /\ pdu.ok
      /\ c = [ok |-> TRUE, version |-> version.value, community |-> sender.community,
              access |-> access, tag |-> pdu.tag, numbers |-> pdu.numbers, vbs |-> pdu.vbs]
  <2>1. c # Nothing
    BY DEF Contexts, Nothing
  <2>2. c = Accepted(version, sender, pdu)
    BY <2>1, Zenon DEF Incoming
  <2> QED BY <2>1, <2>2, Zenon DEF Accepted
<1>2. /\ c.version = version.value /\ c.community = sender.community
      /\ c.numbers = pdu.numbers /\ c.vbs = pdu.vbs
  <2> HIDE DEF c, version, sender, pdu, access
  <2> QED BY <1>1
<1>3. Len(tags) = 2 /\ tags[1] = Tag.integer
  OBVIOUS
<1>4. message \in Tlvs /\ message.content \in Seq(Octet) /\ (message.ok \/ message = NoTlv)
  BY ExpectType, ExpectOk DEF Tlvs
<1>5. DecodeCommunity(d) =
        IF tlv[2].ok /\ octets.ok
        THEN [ok |-> TRUE, community |-> CString(octets.value), rest |-> tlv[2].rest]
        ELSE [ok |-> FALSE]
  BY Zenon DEF DecodeCommunity
<1>6. DecodeVersion(d) = DecodeInteger(Expect(message.content, Tag.integer))
  BY Zenon DEF DecodeVersion
<1> HIDE DEF message, tags
<1>7. /\ tlv[0].rest = message.content
      /\ \A i \in 1 .. 2 :
           /\ tlv[i] \in Tlvs /\ tlv[i].content \in Seq(Octet) /\ tlv[i].rest \in Seq(Octet)
           /\ tlv[i] = Expect(tlv[i - 1].rest, tags[i])
           /\ tlv[i].ok => Cost(i) + Len(tlv[i].rest) <= Len(tlv[i - 1].rest)
  <2>1. Len(tags) \in Nat
    BY <1>3
  <2>2. Chain(message.content, tags, tlv)
    BY <1>4, <2>1, ExpectAllCosts, Zenon
  <2> HIDE DEF tlv
  <2> QED BY <1>3, <2>2, Zenon DEF Chain
<1> HIDE DEF tlv
<1>8. /\ tlv[1] = Expect(message.content, Tag.integer)
      /\ tlv[1] \in Tlvs /\ tlv[1].content \in Seq(Octet) /\ tlv[1].rest \in Seq(Octet)
      /\ tlv[2].content \in Seq(Octet) /\ tlv[2].rest \in Seq(Octet)
      /\ tlv[1].ok => Cost(1) + Len(tlv[1].rest) <= Len(message.content)
      /\ tlv[2].ok => Cost(2) + Len(tlv[2].rest) <= Len(tlv[1].rest)
  <2>1. 1 \in 1 .. 2 /\ 2 \in 1 .. 2 /\ 1 - 1 = 0 /\ 2 - 1 = 1
    OBVIOUS
  <2> QED BY <1>3, <1>7, <2>1, Zenon
<1>9. tlv[2].ok /\ octets.ok
      /\ sender = [ok |-> TRUE, community |-> CString(octets.value), rest |-> tlv[2].rest]
  <2>1. ~[ok |-> FALSE].ok
    OBVIOUS
  <2> QED BY <1>1, <1>5, <2>1, Zenon
<1>10. sender.community = CString(octets.value) /\ sender.rest = tlv[2].rest
  <2> HIDE DEF sender, octets
  <2> QED BY <1>9
<1>11. octets.value = tlv[2].content
  <2>1. octets = Yields(tlv[2].content)
    <3>1. ~Fails.ok
      BY DEF Fails
    <3> QED BY <1>9, <3>1, Zenon DEF DecodeOctets
  <2> HIDE DEF octets
  <2> QED BY <2>1 DEF Yields
<1>12. /\ sender.community \in Seq(Octet) /\ sender.rest \in Seq(Octet)
       /\ Len(sender.community) <= Len(tlv[2].content)
  BY <1>8, <1>10, <1>11, CStringType, Zenon
<1>13. version = DecodeInteger(tlv[1]) /\ version.ok
  BY <1>1, <1>6, <1>8, Zenon DEF Supported
<1>14. tlv[1].ok
  BY <1>8, <1>13, ExpectOk, NoTlvFails, Zenon
<1>15. /\ version.value \in Word
       /\ Len(IntegerContent(version.value)) <= Len(tlv[1].content) /\ Len(tlv[1].content) >= 1
  BY <1>8, <1>13, IntegerCosts, Zenon
<1>16. /\ Len(tlv[1].content) \in Nat /\ Len(tlv[1].rest) \in Nat /\ Cost(1) \in Nat
       /\ Len(tlv[2].content) \in Nat /\ Len(tlv[2].rest) \in Nat /\ Cost(2) \in Nat
       /\ Len(message.content) \in Nat
  BY <1>4, <1>8, LenProperties, TlvLenType
<1>17. message.ok
  <2>1. Len(message.content) # 0
    <3>1. Cost(1) >= Len(tlv[1].content) + 2
      BY <1>16, TlvLenType
    <3> HIDE DEF Cost
    <3> QED BY <1>8, <1>14, <1>15, <1>16, <3>1, SMTT(30)
  <2>2. NoTlv.content = <<>> /\ Len(<<>>) = 0
    BY DEF NoTlv
  <2> QED BY <1>4, <2>1, <2>2, Zenon
<1>18. TlvLen(Len(message.content)) <= Len(d)
  <2>1. /\ TlvLen(Len(message.content)) + Len(message.rest) <= Len(d)
        /\ message.rest \in Seq(Octet)
    BY <1>17, ExpectCosts, Zenon DEF message
  <2>2. Len(message.rest) \in Nat /\ Len(d) \in Nat /\ TlvLen(Len(message.content)) \in Nat
    BY <1>16, <2>1, LenProperties, TlvLenType
  <2> DEFINE most == TlvLen(Len(message.content))
             left == Len(message.rest)
  <2>3. most + left <= Len(d) /\ most \in Nat /\ left \in Nat /\ Len(d) \in Nat
    BY <2>1, <2>2, Zenon
  <2> HIDE DEF most, left
  <2>4. most <= Len(d)
    BY <2>3
  <2> QED BY <2>4 DEF most
<1>19. /\ h.version = c.version /\ h.community = c.community /\ h.tag = Tag.response
       /\ h.vbs = c.vbs /\ h.numbers \in [1 .. 3 -> Word] /\ h.numbers[1] = c.numbers[1]
       /\ h.numbers[2] = WordOf(status) /\ h.numbers[3] = WordOf(index)
  <2>1. WordOf(status) \in Word /\ WordOf(index) \in Word
    BY SmallInteger
  <2>2. c \in Contexts
    OBVIOUS
  <2> DEFINE s == WordOf(status)
             i == WordOf(index)
  <2> HIDE DEF c, s, i
  <2>3. h = Handled(c, s, i) /\ s \in Word /\ i \in Word
    BY <2>1 DEF s, i
  <2>4. /\ Handled(c, s, i).version = c.version /\ Handled(c, s, i).community = c.community
        /\ Handled(c, s, i).tag = Tag.response /\ Handled(c, s, i).vbs = c.vbs
        /\ Handled(c, s, i).numbers \in [1 .. 3 -> Word]
        /\ Handled(c, s, i).numbers[1] = c.numbers[1]
        /\ Handled(c, s, i).numbers[2] = s /\ Handled(c, s, i).numbers[3] = i
    BY <2>2, <2>3 DEF Contexts, Handled
  <2> QED BY <2>3, <2>4, Zenon DEF s, i
<1> DEFINE answer == EncodePdu(h.tag, h.numbers, h.vbs)
<1> HIDE DEF h, c, sender, version, octets, pdu, access
<1>20. answer \in Seq(Nat) /\ Len(answer) <= Len(sender.rest)
  <2>1. Len(EncodeInteger(h.numbers[2])) = TlvLen(1) /\ Len(EncodeInteger(h.numbers[3])) = TlvLen(1)
    BY <1>19, SmallInteger, Zenon
  <2>2. Unpadded(DecodeRequestPdu(sender.rest).vbs) /\ DecodeRequestPdu(sender.rest).ok
        /\ h.numbers[1] = DecodeRequestPdu(sender.rest).numbers[1]
        /\ h.vbs = DecodeRequestPdu(sender.rest).vbs
    BY <1>1, <1>2, <1>19, Zenon DEF pdu, c
  <2>3. /\ EncodePdu(Tag.response, h.numbers, DecodeRequestPdu(sender.rest).vbs) \in Seq(Nat)
        /\ Len(EncodePdu(Tag.response, h.numbers, DecodeRequestPdu(sender.rest).vbs))
             <= Len(sender.rest)
    BY <1>12, <1>19, <2>1, <2>2, RequestPduCosts
  <2> QED BY <1>19, <2>2, <2>3, Zenon
<1> HIDE DEF answer
<1> DEFINE x == Len(EncodeInteger(version.value))
           y == TlvLen(Len(sender.community))
           z == Len(answer)
           a == Cost(1)
           b == Cost(2)
           ra == Len(tlv[1].rest)
           rb == Len(tlv[2].rest)
           all == Len(message.content)
<1>21. x \in Nat /\ x <= a
  <2>1. /\ EncodeInteger(version.value) \in Seq(Nat)
        /\ Len(IntegerContent(version.value)) \in Nat
        /\ x = TlvLen(Len(IntegerContent(version.value)))
    BY <1>15, EncodeIntegerType
  <2> QED BY <1>15, <1>16, <2>1, TlvLenGrows, LenProperties, Zenon
<1>22. y \in Nat /\ y <= b /\ z \in Nat /\ z <= rb
  <2>1. Len(sender.community) \in Nat
    BY <1>12, LenProperties
  <2>2. y \in Nat /\ y <= b
    BY <1>12, <1>16, <2>1, TlvLenGrows, TlvLenType, Zenon
  <2> QED BY <1>10, <1>20, <2>2, LenProperties, Zenon
<1>23. a + ra <= all /\ b + rb <= ra
       /\ a \in Nat /\ b \in Nat /\ ra \in Nat /\ rb \in Nat /\ all \in Nat
  BY <1>8, <1>9, <1>14, <1>16, Zenon
<1> DEFINE sum == (x + y) + z
<1>24. sum <= all /\ sum \in Nat
  <2> HIDE DEF x, y, z, a, b, ra, rb, all
  <2> QED BY <1>21, <1>22, <1>23, EnvelopeSums
<1>25. Response(h) = EncodeMessage(version.value, sender.community, answer)
  BY <1>2, <1>19, Zenon DEF Response, answer
<1>26. Response(h) \in Seq(Nat) /\ Len(Response(h)) = TlvLen(sum)
  BY <1>12, <1>15, <1>20, <1>25, MessageLength
<1>27. Len(Response(h)) <= Len(d)
  <2> HIDE DEF sum
  <2>1. TlvLen(sum) <= TlvLen(all)
    BY <1>16, <1>24, TlvLenGrows, Zenon
  <2>2. TlvLen(sum) \in Nat /\ TlvLen(all) \in Nat /\ TlvLen(all) <= Len(d) /\ Len(d) \in Nat
    BY <1>16, <1>18, <1>24, TlvLenType, LenProperties, Zenon
  <2> DEFINE most == TlvLen(all)
             least == TlvLen(sum)
  <2>3. least <= most /\ most <= Len(d) /\ least \in Nat /\ most \in Nat /\ Len(d) \in Nat
    BY <2>1, <2>2, Zenon
  <2> HIDE DEF most, least
  <2>4. least <= Len(d)
    BY <2>3
  <2> QED BY <1>26, <2>4, Zenon DEF least
<1> QED BY <1>26, <1>27, Zenon DEF h, c

-----------------------------------------------------------------------------
(***************************************************************************)
(* The second invariant: what a handler has repeated fits wherever the     *)
(* request has fitted.                                                     *)
(***************************************************************************)
EchoInv ==
  /\ datagram \in Seq(Octet)
  /\ phase \in {"idle", "refused", "dispatched", "trap"} => ~echoed
  /\ phase = "dispatched" => \E d \in Seq(Octet) :
       context = Incoming(d) /\ Len(d) <= Len(datagram) /\ Len(d) <= PacketLen
  /\ phase \in {"handled", "sent", "silent"} /\ echoed /\ Unpadded(context.vbs) =>
       Len(Response(context)) <= Len(datagram) /\ Len(Response(context)) <= PacketLen

LEMMA InitEcho ==
  ASSUME Init
  PROVE  EchoInv
<1>1. phase = "idle" /\ echoed = FALSE /\ datagram \in Seq(Octet)
  BY DEF Init
<1> QED BY <1>1 DEF EchoInv

LEMMA ReceiveEcho ==
  ASSUME EchoInv, NEW m \in DOMAIN Messages, NEW form \in Forms,
         NEW damage \in {"none", "cut", "changed"}, Receive(m, form, damage)
  PROVE  EchoInv'
<1> DEFINE sent == Message(Messages[m], form)
<1>1. sent \in Seq(Octet)
  BY WireAssumption
<1>2. PICK d \in Arrivals(m, sent, damage) : Process(d)
  BY Zenon DEF Receive
<1> HIDE DEF sent
<1>3. d \in Seq(Octet)
  BY <1>1, ArrivalsType
<1> DEFINE kept == SubSeq(d, 1, Min({Len(d), PacketLen}))
<1>4. kept \in Seq(Octet) /\ Len(kept) <= Len(d) /\ Len(kept) <= PacketLen
  BY <1>3, KeptFits
<1>5. datagram' = d /\ context' = Incoming(kept)
      /\ phase' = IF context'.ok THEN "dispatched" ELSE "refused"
  BY <1>2, Zenon DEF Process
<1> HIDE DEF kept
<1>6. phase = "idle" /\ echoed' = echoed /\ phase' \in {"dispatched", "refused"}
  BY <1>5 DEF Receive
<1>7. ~echoed'
  BY <1>6 DEF EchoInv
<1>8. \E e \in Seq(Octet) : context' = Incoming(e) /\ Len(e) <= Len(datagram') /\ Len(e) <= PacketLen
  BY <1>4, <1>5, Zenon
<1>9. \A e : Incoming(e)' = Incoming(e)
  BY DEF Incoming, Accepted, Access
<1>10. datagram' \in Seq(Octet)
  BY <1>3, <1>5, Zenon
<1> QED BY <1>6, <1>7, <1>8, <1>9, <1>10 DEF EchoInv

LEMMA EchoEcho ==
  ASSUME WireInv, EchoInv, NEW status \in Statuses, NEW index \in Indices, Echo(status, index)
  PROVE  EchoInv'
<1>1. phase = "dispatched" /\ phase' = "handled" /\ datagram' = datagram
      /\ context' = Handled(context, WordOf(status), WordOf(index))
  BY Zenon DEF Echo, Handled
<1>2. status \in 0 .. 127 /\ index \in 0 .. 127
  BY DEF Statuses, Indices
<1>3. PICK d \in Seq(Octet) :
        context = Incoming(d) /\ Len(d) <= Len(datagram) /\ Len(d) <= PacketLen
  BY <1>1, Zenon DEF EchoInv
<1>4. context \in Contexts
  BY <1>1 DEF WireInv
<1>5. context'.vbs = context.vbs
  BY <1>1, <1>2, <1>4, SmallInteger, HandledIsContext, Zenon
<1>6. ASSUME Unpadded(context'.vbs)
      PROVE  Len(Response(context')) <= Len(datagram') /\ Len(Response(context')) <= PacketLen
  <2>1. Unpadded(Incoming(d).vbs) /\ Incoming(d) \in Contexts
    <3>1. context'.vbs = Incoming(d).vbs
      BY <1>3, <1>5, Zenon
    <3> QED BY <1>3, <1>4, <1>6, <3>1, Zenon
  <2>2. /\ Response(Handled(Incoming(d), WordOf(status), WordOf(index))) \in Seq(Nat)
        /\ Len(Response(Handled(Incoming(d), WordOf(status), WordOf(index)))) <= Len(d)
    BY <1>2, <2>1, EchoCosts, ZenonT(60)
  <2> DEFINE long == Len(Response(context'))
             sent == Len(datagram)
  <2>3. Response(context') \in Seq(Nat) /\ long <= Len(d)
    BY <1>1, <1>3, <2>2, Zenon
  <2>4. long \in Nat /\ Len(d) \in Nat /\ PacketLen \in Nat
    BY <2>3, LenProperties, WireAssumption
  <2>5. sent \in Nat /\ datagram' = datagram
    BY <1>1, LenProperties DEF EchoInv
  <2> HIDE DEF long
  <2>6. long <= sent /\ long <= PacketLen
    <3>1. Len(d) <= sent /\ Len(d) <= PacketLen
      BY <1>3, Zenon
    <3> HIDE DEF sent
    <3> QED BY <2>3, <2>4, <2>5, <3>1
  <2> QED BY <2>5, <2>6, Zenon DEF long, sent
<1>7. Response(context)' = Response(context') /\ Unpadded(context.vbs)' = Unpadded(context'.vbs)
  BY DEF Response, Unpadded
<1> QED BY <1>1, <1>6, <1>7 DEF EchoInv

LEMMA StepEcho ==
  ASSUME WireInv, EchoInv, [Next]_vars
  PROVE  EchoInv'
<1>1. ASSUME NEW a \in DOMAIN Answers, Answer(Answers[a]) PROVE EchoInv'
  <2>1. phase = "dispatched" /\ phase' = "handled" /\ echoed' = echoed /\ datagram' = datagram
    BY <1>1, Zenon DEF Answer
  <2> QED BY <2>1 DEF EchoInv
<1>2. ASSUME Reply PROVE EchoInv'
  <2>1. phase = "handled" /\ phase' \in {"sent", "silent"} /\ echoed' = echoed
        /\ datagram' = datagram /\ context' = context
    <3>1. phase' = "sent" \/ phase' = "silent"
      BY <1>2, Zenon DEF Reply
    <3> QED BY <1>2, <3>1, Zenon DEF Reply
  <2> QED BY <2>1 DEF EchoInv, Response, Unpadded
<1>3. ASSUME NEW t \in DOMAIN Traps, Trap(Traps[t]) PROVE EchoInv'
  <2>1. phase = "idle" /\ phase' = "trap" /\ echoed' = echoed /\ datagram' = datagram
    BY <1>3, Zenon DEF Trap
  <2> QED BY <2>1 DEF EchoInv
<1>4. ASSUME Continue PROVE EchoInv'
  <2>1. phase' = "idle" /\ echoed' = FALSE /\ datagram' = <<>>
    BY <1>4, Zenon DEF Continue
  <2>2. <<>> \in Seq(Octet)
    OBVIOUS
  <2> QED BY <2>1, <2>2 DEF EchoInv
<1>5. ASSUME UNCHANGED vars PROVE EchoInv'
  BY <1>5 DEF vars, EchoInv, Response, Unpadded
<1> QED BY <1>1, <1>2, <1>3, <1>4, <1>5, ReceiveEcho, EchoEcho, Zenon DEF Next

\* A response that repeats its request fits and is sent, whatever the request:
\* no decoded length, integer, arc, string or varbind takes more octets than
\* those it came from, so a SET that took effect is answered (set_commit_all,
\* prepare_outgoing, ber_encode.c, ber_decode.c).
THEOREM EchoesAreSent == Spec => []EchoNeverGrows
<1>1. ASSUME WireInv, EchoInv PROVE EchoNeverGrows
  <2> SUFFICES ASSUME phase \in {"sent", "silent"}, echoed, Repeatable,
                      \A i \in DOMAIN context.vbs : ~Padded(context.vbs[i])
               PROVE  phase = "sent" /\ Len(packet) <= Len(datagram)
    BY Zenon DEF EchoNeverGrows
  <2>1. /\ context \in Contexts /\ AllRooted(context.vbs)
        /\ phase = "sent" => packet = Response(context)
        /\ phase = "silent" => ~(EncodableVarbinds(context.vbs) /\ Len(Response(context)) <= PacketLen)
    BY <1>1 DEF WireInv
  <2>2. Len(Response(context)) <= Len(datagram) /\ Len(Response(context)) <= PacketLen
    <3>1. Unpadded(context.vbs)
      BY Zenon DEF Unpadded
    <3> QED BY <1>1, <3>1 DEF EchoInv
  <2>3. EncodableVarbinds(context.vbs)
    <3>1. context.vbs \in Seq(Varbinds)
      BY <2>1 DEF Contexts, Lists
    <3> QED BY <2>1, <3>1, NotEncodable, Zenon DEF Repeatable
  <2>4. phase = "sent"
    BY <2>1, <2>2, <2>3
  <2> QED BY <2>1, <2>2, <2>4, Zenon
<1>2. Spec => []EchoInv
  BY InitEcho, StepEcho, WireInvariant, PTL DEF Spec
<1> QED BY <1>1, <1>2, WireInvariant, PTL

-----------------------------------------------------------------------------
(***************************************************************************)
(* What a manager has encoded in any of the forms decodes to what it       *)
(* meant.  First the elements.                                             *)
(***************************************************************************)
LEMMA LengthValueTwo ==
  ASSUME NEW a \in Octet, NEW b \in Octet
  PROVE  LengthValue(<<a, b>>) = a * 256 + b
<1> DEFINE field == <<a, b>>
<1>1. field \in Seq(Octet) /\ Len(field) = 2 /\ field[1] = a /\ field[2] = b
  OBVIOUS
<1>2. 1 \in 1 .. Len(field) /\ 2 \in 1 .. Len(field) /\ 1 - 1 = 0 /\ 2 - 1 = 1 /\ Len(field) # 4
  BY <1>1
<1> HIDE DEF field
<1> DEFINE walk == LengthWalk(field)
<1>a. walk[0] = 0 /\ \A i \in 1 .. Len(field) : walk[i] = walk[i - 1] * 256 + field[i]
  BY <1>1, LengthWalkIs, ZenonT(60)
<1>4. LengthValue(field) = walk[2]
  BY <1>1, <1>2, LengthValueIs, Zenon
<1> HIDE DEF walk
<1>3. walk[0] = 0 /\ walk[1] = walk[0] * 256 + a /\ walk[2] = walk[1] * 256 + b
  BY <1>1, <1>2, <1>a
<1>5. a \in Nat /\ b \in Nat
  BY DEF Octet
<1>6. walk[1] = a
  BY <1>3, <1>5
<1> QED BY <1>3, <1>4, <1>6, Zenon DEF field

LEMMA LengthValueFour ==
  ASSUME NEW a \in Octet, NEW b \in Octet
  PROVE  LengthValue(<<0, 0, a, b>>) = a * 256 + b
<1> DEFINE field == <<0, 0, a, b>>
<1>1. /\ field \in Seq(Octet) /\ Len(field) = 4
      /\ field[1] = 0 /\ field[2] = 0 /\ field[3] = a /\ field[4] = b
  BY DEF Octet
<1>2. /\ 1 \in 1 .. Len(field) /\ 2 \in 1 .. Len(field) /\ 3 \in 1 .. Len(field)
      /\ 4 \in 1 .. Len(field) /\ 1 - 1 = 0 /\ 2 - 1 = 1 /\ 3 - 1 = 2 /\ 4 - 1 = 3
  BY <1>1
<1> HIDE DEF field
<1> DEFINE walk == LengthWalk(field)
<1>a. walk[0] = 0 /\ \A i \in 1 .. Len(field) : walk[i] = walk[i - 1] * 256 + field[i]
  BY <1>1, LengthWalkIs, ZenonT(60)
<1>4. LengthValue(field) = walk[4]
  BY <1>1, LengthValueIs, Zenon
<1> HIDE DEF walk
<1>3. /\ walk[0] = 0 /\ walk[1] = walk[0] * 256 + 0 /\ walk[2] = walk[1] * 256 + 0
      /\ walk[3] = walk[2] * 256 + a /\ walk[4] = walk[3] * 256 + b
  BY <1>1, <1>2, <1>a
<1>5. a \in Nat /\ b \in Nat
  BY DEF Octet
<1>6. walk[1] = 0
  BY <1>3
<1>7. walk[2] = 0
  BY <1>3, <1>6
<1>8. walk[3] = a
  BY <1>3, <1>5, <1>7
<1> QED BY <1>3, <1>4, <1>8, Zenon DEF field

\* What two octets can tell.
Short(n) == n \in Nat /\ n \div 256 < 256

\* A length is its first octet, or that and as many as it says.
LengthIs(field, n) ==
  \E first \in Octet, more \in Seq(Octet) :
    /\ field = <<first>> \o more
    /\ \/ first < 128 /\ more = <<>> /\ first = n
       \/ first - 128 \in 1 .. 4 /\ Len(more) = first - 128 /\ LengthValue(more) = n

LEMMA Halves ==
  ASSUME NEW n \in Nat
  PROVE  n \div 256 \in Nat /\ n % 256 \in 0 .. 255 /\ (n \div 256) * 256 + (n % 256) = n
<1>1. n \div 256 \in Int /\ n % 256 \in 0 .. 255
  OBVIOUS
<1>2. n = 256 * (n \div 256) + (n % 256)
  OBVIOUS
<1>3. n \div 256 >= 0
  OBVIOUS
<1> DEFINE a == n \div 256
           b == n % 256
<1>4. a \in Int /\ b \in 0 .. 255 /\ n = 256 * a + b /\ a >= 0
  BY <1>1, <1>2, <1>3
<1> HIDE DEF a, b
<1>5. a \in Nat /\ a * 256 + b = n
  BY <1>4
<1> QED BY <1>1, <1>5 DEF a, b

LEMMA OneAnd ==
  ASSUME NEW o \in Octet, NEW t \in Seq(Octet), NEW u \in Seq(Octet), Len(u) = 1 + Len(t),
         u[1] = o, \A i \in 1 .. Len(t) : u[1 + i] = t[i]
  PROVE  <<o>> \o t = u
<1> DEFINE s == <<o>>
<1>1. s \in Seq(Octet) /\ Len(s) = 1 /\ s[1] = o /\ Len(t) \in Nat
  BY LenProperties
<1> HIDE DEF s
<1>2. s \o t \in Seq(Octet) /\ Len(s \o t) = Len(s) + Len(t)
      /\ \A i \in 1 .. Len(s) + Len(t) : (s \o t)[i] = IF i <= Len(s) THEN s[i] ELSE t[i - Len(s)]
  BY <1>1, ConcatProperties
<1>3. ASSUME NEW i \in 1 .. Len(s \o t) PROVE (s \o t)[i] = u[i]
  <2>1. i \in 1 .. 1 + Len(t)
        /\ (s \o t)[i] = IF i <= 1 THEN s[i] ELSE t[i - 1]
    BY <1>1, <1>2
  <2>2. CASE i = 1
    BY <1>1, <2>1, <2>2
  <2>3. CASE i # 1
    <3>1. i - 1 \in 1 .. Len(t) /\ 1 + (i - 1) = i /\ ~(i <= 1)
      BY <1>1, <2>1, <2>3
    <3>2. u[1 + (i - 1)] = t[i - 1]
      BY <3>1
    <3> QED BY <2>1, <3>1, <3>2
  <2> QED BY <2>2, <2>3
<1>4. s \o t = u
  BY <1>1, <1>2, <1>3, SeqEqual
<1> QED BY <1>4 DEF s

LEMMA OneAndTwo ==
  ASSUME NEW o \in Octet, NEW a \in Octet, NEW b \in Octet
  PROVE  <<o>> \o <<a, b>> = <<o, a, b>>
<1> DEFINE t == <<a, b>>
           u == <<o, a, b>>
<1>1. /\ t \in Seq(Octet) /\ u \in Seq(Octet) /\ Len(u) = 1 + Len(t) /\ u[1] = o
      /\ \A i \in 1 .. Len(t) : u[1 + i] = t[i]
  OBVIOUS
<1> HIDE DEF t, u
<1>2. <<o>> \o t = u
  BY <1>1, OneAnd
<1> QED BY <1>2 DEF t, u

LEMMA OneAndFour ==
  ASSUME NEW o \in Octet, NEW a \in Octet, NEW b \in Octet, NEW c \in Octet, NEW d \in Octet
  PROVE  <<o>> \o <<a, b, c, d>> = <<o, a, b, c, d>>
<1> DEFINE t == <<a, b, c, d>>
           u == <<o, a, b, c, d>>
<1>1. /\ t \in Seq(Octet) /\ u \in Seq(Octet) /\ Len(u) = 1 + Len(t) /\ u[1] = o
      /\ \A i \in 1 .. Len(t) : u[1 + i] = t[i]
  OBVIOUS
<1> HIDE DEF t, u
<1>2. <<o>> \o t = u
  BY <1>1, OneAnd
<1> QED BY <1>2 DEF t, u

LEMMA LengthForms ==
  ASSUME NEW n, Short(n), NEW form \in Forms
  PROVE  LengthIs(Length(n, form), n)
<1>1. /\ n \div 256 \in Octet /\ n % 256 \in Octet /\ (n \div 256) * 256 + (n % 256) = n
      /\ 132 \in Octet /\ 130 \in Octet /\ 129 \in Octet /\ 0 \in Octet /\ n \in Nat
      /\ (n < 256 => n \in Octet)
  BY Halves DEF Octet, Short
<1>2. CASE form = "wide"
  <2> DEFINE more == <<0, 0, n \div 256, n % 256>>
  <2>1. Length(n, form) = <<132, 0, 0, n \div 256, n % 256>>
    BY <1>2, Zenon DEF Length
  <2>2. <<132>> \o more = <<132, 0, 0, n \div 256, n % 256>>
    BY <1>1, OneAndFour
  <2>3. more \in Seq(Octet) /\ Len(more) = 132 - 128 /\ 132 - 128 \in 1 .. 4
    BY <1>1
  <2>4. LengthValue(more) = n
    <3>1. LengthValue(more) = (n \div 256) * 256 + (n % 256)
      BY <1>1, LengthValueFour
    <3> QED BY <1>1, <3>1, ZenonT(60)
  <2> DEFINE first == 132
  <2>5. /\ first \in Octet /\ Length(n, form) = <<first>> \o more
        /\ Len(more) = first - 128 /\ first - 128 \in 1 .. 4
    BY <1>1, <2>1, <2>2, <2>3
  <2> HIDE DEF more, first
  <2> QED BY <2>3, <2>4, <2>5, Zenon DEF LengthIs
<1>3. CASE form # "wide" /\ n < 128
  <2>1. Length(n, form) = <<n>> /\ <<n>> = <<n>> \o <<>> /\ <<>> \in Seq(Octet)
    BY <1>3 DEF Length
  <2>2. n \in Octet
    BY <1>1, <1>3
  <2> QED BY <1>3, <2>1, <2>2, Zenon DEF LengthIs
<1>4. CASE form # "wide" /\ ~(n < 128) /\ n < 256
  <2>1. Length(n, form) = <<129, n>> /\ <<129, n>> = <<129>> \o <<n>>
    BY <1>4 DEF Length
  <2>2. n \in Octet
    BY <1>1, <1>4
  <2>3. <<n>> \in Seq(Octet) /\ Len(<<n>>) = 129 - 128 /\ 129 - 128 \in 1 .. 4
        /\ Len(<<n>>) = 1 /\ <<n>>[1] = n
    BY <2>2
  <2>4. LengthValue(<<n>>) = n
    BY <2>3, LengthValueOne, Zenon
  <2> DEFINE first == 129
             more == <<n>>
  <2>5. /\ first \in Octet /\ Length(n, form) = <<first>> \o more /\ more \in Seq(Octet)
        /\ Len(more) = first - 128 /\ first - 128 \in 1 .. 4 /\ LengthValue(more) = n
    <3>1. first \in Octet /\ Length(n, form) = <<first>> \o more
      BY <1>1, <2>1, Zenon
    <3> QED BY <2>3, <2>4, <3>1, Zenon
  <2> HIDE DEF more, first
  <2> QED BY <2>5, Zenon DEF LengthIs
<1>5. CASE form # "wide" /\ ~(n < 128) /\ ~(n < 256)
  <2> DEFINE more == <<n \div 256, n % 256>>
  <2>1. Length(n, form) = <<130, n \div 256, n % 256>>
    BY <1>5, ZenonT(60) DEF Length
  <2>2. <<130>> \o more = <<130, n \div 256, n % 256>>
    BY <1>1, OneAndTwo
  <2>3. more \in Seq(Octet) /\ Len(more) = 130 - 128 /\ 130 - 128 \in 1 .. 4
    BY <1>1
  <2>4. LengthValue(more) = n
    <3>1. LengthValue(more) = (n \div 256) * 256 + (n % 256)
      BY <1>1, LengthValueTwo
    <3> QED BY <1>1, <3>1, ZenonT(60)
  <2> DEFINE first == 130
  <2>5. /\ first \in Octet /\ Length(n, form) = <<first>> \o more
        /\ Len(more) = first - 128 /\ first - 128 \in 1 .. 4
    BY <1>1, <2>1, <2>2, <2>3
  <2> HIDE DEF more, first
  <2> QED BY <2>3, <2>4, <2>5, Zenon DEF LengthIs
<1> QED BY <1>2, <1>3, <1>4, <1>5, Zenon

LEMMA PrefixIs ==
  ASSUME NEW S, NEW s \in Seq(S), NEW j \in 0 .. Len(s)
  PROVE  /\ SubSeq(s, 1, j) \in Seq(S) /\ Len(SubSeq(s, 1, j)) = j
         /\ \A i \in 1 .. j : SubSeq(s, 1, j)[i] = s[i]
<1>1. j \in Int /\ (IF 1 <= j THEN j - 1 + 1 ELSE 0) = j /\ j - 1 + 1 = j
      /\ \A i \in 1 .. j : i \in 1 .. Len(s) /\ 1 + i - 1 = i
  BY LenProperties
<1>2. \A i \in 1 .. j : s[i] \in S
  BY <1>1, ElementOfSeq
<1> DEFINE cut == SubSeq(s, 1, j)
<1>3. /\ cut \in Seq(S) /\ Len(cut) = IF 1 <= j THEN j - 1 + 1 ELSE 0
      /\ \A i \in 1 .. j - 1 + 1 : cut[i] = s[1 + i - 1]
  BY <1>1, <1>2, SubSeqProperties
<1> HIDE DEF cut
<1>4. \A i \in 1 .. j : cut[i] = s[1 + i - 1]
  BY <1>1, <1>3
<1>5. \A i \in 1 .. j : cut[i] = s[i]
  BY <1>1, <1>4
<1> QED BY <1>1, <1>3, <1>5, Zenon DEF cut

\* A cut that holds what it should.
LEMMA CutIs ==
  ASSUME NEW S, NEW all \in Seq(S), NEW t \in Seq(S), NEW a \in Nat, a + Len(t) <= Len(all),
         \A i \in 1 .. Len(t) : all[a + i] = t[i]
  PROVE  SubSeq(all, a + 1, a + Len(t)) = t
<1> DEFINE b == Len(t)
           m == a + 1
           n == a + b
           cut == SubSeq(all, m, n)
<1>1. b \in Nat /\ Len(all) \in Nat
  BY LenProperties
<1>2. /\ m \in Int /\ n \in Int /\ (IF m <= n THEN n - m + 1 ELSE 0) = b /\ n - m + 1 = b
      /\ \A i \in m .. n : i \in 1 .. Len(all)
      /\ \A i \in 1 .. b : m + i - 1 = a + i
  BY <1>1
<1>3. \A i \in m .. n : all[i] \in S
  BY <1>2, ElementOfSeq
<1> HIDE DEF m, n, b
<1>4. /\ cut \in Seq(S)
      /\ Len(cut) = IF m <= n THEN n - m + 1 ELSE 0
      /\ \A i \in 1 .. n - m + 1 : cut[i] = all[m + i - 1]
  BY <1>2, <1>3, SubSeqProperties
<1>5. \A i \in 1 .. b : cut[i] = t[i]
  <2>1. \A i \in 1 .. b : cut[i] = all[m + i - 1]
    BY <1>2, <1>4
  <2>2. \A i \in 1 .. b : cut[i] = all[a + i]
    BY <1>2, <2>1
  <2> QED BY <2>2, Zenon DEF b
<1>6. Len(cut) = Len(t)
  BY <1>2, <1>4 DEF b
<1> HIDE DEF cut
<1>7. cut = t
  BY <1>4, <1>5, <1>6, SeqEqual DEF b
<1> QED BY <1>7, Zenon DEF cut, m, n, b

\* What stands between, and what follows.
LEMMA Middle ==
  ASSUME NEW S, NEW s \in Seq(S), NEW t \in Seq(S), NEW u \in Seq(S)
  PROVE  LET all == (s \o t) \o u
         IN  /\ all \in Seq(S) /\ Len(all) = (Len(s) + Len(t)) + Len(u)
             /\ SubSeq(all, Len(s) + 1, Len(s) + Len(t)) = t
             /\ SubSeq(all, (Len(s) + Len(t)) + 1, Len(all)) = u
<1> DEFINE all == (s \o t) \o u
           a == Len(s)
           b == Len(t)
           c == Len(u)
<1>1. a \in Nat /\ b \in Nat /\ c \in Nat
  BY LenProperties
<1>2. s \o t \in Seq(S) /\ Len(s \o t) = a + b
      /\ \A i \in 1 .. a + b : (s \o t)[i] = IF i <= a THEN s[i] ELSE t[i - a]
  BY ConcatProperties
<1>3. all \in Seq(S) /\ Len(all) = (a + b) + c
      /\ \A i \in 1 .. (a + b) + c :
           all[i] = IF i <= a + b THEN (s \o t)[i] ELSE u[i - (a + b)]
  BY <1>2, ConcatProperties
<1> HIDE DEF all
<1>4. ASSUME NEW i \in 1 .. b PROVE all[a + i] = t[i]
  <2> HIDE DEF a, b, c
  <2>1. /\ a + i \in 1 .. (a + b) + c /\ a + i <= a + b
        /\ a + i \in 1 .. a + b /\ ~(a + i <= a) /\ (a + i) - a = i
    BY <1>1
  <2> QED BY <1>2, <1>3, <2>1, Zenon
<1>5. ASSUME NEW i \in 1 .. c PROVE all[(a + b) + i] = u[i]
  <2> HIDE DEF a, b, c
  <2>1. /\ (a + b) + i \in 1 .. (a + b) + c
        /\ ~((a + b) + i <= a + b) /\ ((a + b) + i) - (a + b) = i
    BY <1>1
  <2> QED BY <1>3, <2>1, Zenon
<1>6. a + b <= Len(all) /\ (a + b) + c <= Len(all) /\ a + b \in Nat
  BY <1>1, <1>3
<1>7. SubSeq(all, a + 1, a + b) = t
  BY <1>1, <1>3, <1>4, <1>6, CutIs
<1>8. SubSeq(all, (a + b) + 1, (a + b) + c) = u
  BY <1>1, <1>3, <1>5, <1>6, CutIs
<1>9. SubSeq(all, (a + b) + 1, Len(all)) = u
  BY <1>3, <1>8, Zenon
<1> QED BY <1>3, <1>7, <1>9, Zenon DEF all

LEMMA Prefixed ==
  ASSUME NEW S, NEW o \in S, NEW s \in Seq(S)
  PROVE  /\ <<o>> \o s \in Seq(S) /\ Len(<<o>> \o s) = 1 + Len(s) /\ <<o>> \o s # <<>>
         /\ (<<o>> \o s)[1] = o /\ Tail(<<o>> \o s) = s
<1> DEFINE h == <<o>>
           all == h \o s
<1>1. h \in Seq(S) /\ Len(h) = 1 /\ h[1] = o /\ Len(s) \in Nat
  BY LenProperties
<1> HIDE DEF h
<1>2. /\ all \in Seq(S) /\ Len(all) = Len(h) + Len(s)
      /\ \A i \in 1 .. Len(h) + Len(s) : all[i] = IF i <= Len(h) THEN h[i] ELSE s[i - Len(h)]
  BY <1>1, ConcatProperties
<1> HIDE DEF all
<1>3. Len(all) = 1 + Len(s) /\ all # <<>> /\ all[1] = o
  <2>1. 1 \in 1 .. Len(h) + Len(s) /\ 1 <= Len(h) /\ Len(all) # 0
    BY <1>1, <1>2
  <2>2. Len(<<>>) = 0
    OBVIOUS
  <2> QED BY <1>1, <1>2, <2>1, <2>2, Zenon
<1>4. /\ Tail(all) \in Seq(S) /\ Len(Tail(all)) = Len(s)
      /\ \A i \in 1 .. Len(s) : Tail(all)[i] = all[i + 1]
  <2>1. /\ Tail(all) \in Seq(S) /\ Len(Tail(all)) = Len(all) - 1
        /\ \A i \in 1 .. Len(Tail(all)) : Tail(all)[i] = all[i + 1]
    BY <1>2, <1>3, HeadTailProperties
  <2>2. Len(Tail(all)) = Len(s)
    BY <1>1, <1>3, <2>1
  <2> QED BY <2>1, <2>2, Zenon
<1>5. ASSUME NEW i \in 1 .. Len(s) PROVE all[i + 1] = s[i]
  <2>1. i + 1 \in 1 .. Len(h) + Len(s) /\ ~(i + 1 <= Len(h)) /\ (i + 1) - Len(h) = i
    BY <1>1
  <2>2. all[i + 1] = IF i + 1 <= Len(h) THEN h[i + 1] ELSE s[(i + 1) - Len(h)]
    BY <1>2, <2>1, Zenon
  <2> QED BY <2>1, <2>2, Zenon
<1>6. Tail(all) = s
  BY <1>4, <1>5, SeqEqual
<1> QED BY <1>2, <1>3, <1>6, Zenon DEF all, h

LEMMA LengthDecodes ==
  ASSUME NEW n, NEW field, LengthIs(field, n), NEW t \in Seq(Octet)
  PROVE  /\ field \in Seq(Octet) /\ Len(field) \in 1 .. 5
         /\ DecodeLength(field \o t) = [ok |-> TRUE, value |-> n, size |-> Len(field)]
<1>1. PICK first \in Octet, more \in Seq(Octet) :
        /\ field = <<first>> \o more
        /\ \/ first < 128 /\ more = <<>> /\ first = n
           \/ first - 128 \in 1 .. 4 /\ Len(more) = first - 128 /\ LengthValue(more) = n
  BY Zenon DEF LengthIs
<1> DEFINE s == <<first>>
           d == field \o t
<1>2. s \in Seq(Octet) /\ Len(s) = 1 /\ s[1] = first /\ first \in 0 .. 255
  BY DEF Octet
<1> HIDE DEF s
<1>3. Len(more) \in 0 .. 4 /\ Len(t) \in Nat
  <2>1. Len(<<>>) = 0
    OBVIOUS
  <2>2. CASE more = <<>>
    BY <2>1, <2>2, LenProperties
  <2>3. CASE first - 128 \in 1 .. 4 /\ Len(more) = first - 128
    BY <2>3, LenProperties
  <2> QED BY <1>1, <2>2, <2>3
<1>4. /\ d \in Seq(Octet) /\ Len(d) = (1 + Len(more)) + Len(t)
      /\ SubSeq(d, 1 + 1, 1 + Len(more)) = more
  BY <1>1, <1>2, Middle DEF s
<1>5. field \in Seq(Octet) /\ Len(field) = 1 + Len(more) /\ field[1] = first
  BY <1>1, Prefixed
<1>6. d[1] = first /\ d # <<>>
  <2>1. \A i \in 1 .. Len(field) + Len(t) : d[i] = IF i <= Len(field) THEN field[i] ELSE t[i - Len(field)]
    BY <1>5, ConcatProperties
  <2>2. 1 \in 1 .. Len(field) + Len(t) /\ 1 <= Len(field) /\ Len(d) # 0
    BY <1>3, <1>4, <1>5
  <2> QED BY <1>5, <2>1, <2>2
<1> HIDE DEF d
<1>7. CASE first < 128
  <2>1. DecodeLength(d) = [ok |-> TRUE, value |-> first, size |-> 1]
    BY <1>6, <1>7 DEF DecodeLength
  <2>2. more = <<>> /\ first = n
    <3>1. ~(first - 128 \in 1 .. 4)
      BY <1>2, <1>7
    <3> QED BY <1>1, <3>1, Zenon
  <2>3. Len(field) = 1 /\ Len(field) \in 1 .. 5
    BY <1>5, <2>2
  <2> QED BY <1>3, <1>5, <2>1, <2>2, <2>3, Zenon DEF d
<1>8. CASE ~(first < 128)
  <2>1. first - 128 \in 1 .. 4 /\ Len(more) = first - 128 /\ LengthValue(more) = n
    BY <1>1, <1>8, Zenon
  <2>2. Len(field) \in 1 .. 5 /\ Len(field) = 1 + (first - 128) /\ ~(Len(d) < 1 + (first - 128))
        /\ 1 + 1 = 2
    <3> DEFINE f == Len(field)
               g == Len(more)
               h == Len(d)
               e == Len(t)
               k == first - 128
    <3>1. k \in 1 .. 4 /\ g = k /\ e \in Nat /\ h = (1 + g) + e /\ f = 1 + g
      BY <1>3, <1>4, <1>5, <2>1, Zenon
    <3> HIDE DEF f, g, h, e, k
    <3>2. f \in 1 .. 5 /\ f = 1 + k /\ ~(h < 1 + k) /\ 1 + 1 = 2
      BY <3>1
    <3> QED BY <3>2, Zenon DEF f, g, h, e, k
  <2>3. DecodeLength(d)
          = [ok |-> TRUE, value |-> LengthValue(SubSeq(d, 2, 1 + (first - 128))),
             size |-> 1 + (first - 128)]
    BY <1>6, <1>8, <2>1, <2>2 DEF DecodeLength
  <2>4. SubSeq(d, 2, 1 + (first - 128)) = more
    BY <1>4, <2>1, <2>2, Zenon
  <2> QED BY <1>5, <2>1, <2>2, <2>3, <2>4, Zenon DEF d
<1> QED BY <1>7, <1>8, Zenon

\* A length that has been cut does not decode.
LEMMA LengthCut ==
  ASSUME NEW n, NEW field, LengthIs(field, n), NEW k \in 1 .. Len(field) - 1
  PROVE  ~DecodeLength(SubSeq(field, 1, k)).ok
<1>1. PICK first \in Octet, more \in Seq(Octet) :
        /\ field = <<first>> \o more
        /\ \/ first < 128 /\ more = <<>> /\ first = n
           \/ first - 128 \in 1 .. 4 /\ Len(more) = first - 128 /\ LengthValue(more) = n
  BY Zenon DEF LengthIs
<1> DEFINE d == SubSeq(field, 1, k)
<1>2. first \in 0 .. 255 /\ Len(more) \in Nat
  BY LenProperties DEF Octet
<1>3. field \in Seq(Octet) /\ Len(field) = 1 + Len(more) /\ field[1] = first
  BY <1>1, Prefixed
<1>4. Len(d) = k /\ d[1] = first /\ d # <<>>
  <2>1. \A i \in 1 .. k : field[i] \in Octet
    <3>1. \A i \in 1 .. k : i \in 1 .. Len(field)
      BY <1>2, <1>3
    <3> QED BY <1>3, <3>1, ElementOfSeq
  <2>2. k \in Int /\ 1 <= k /\ k - 1 + 1 = k /\ 1 \in 1 .. k - 1 + 1 /\ 1 + 1 - 1 = 1
    BY <1>2, <1>3
  <2>3. /\ Len(d) = IF 1 <= k THEN k - 1 + 1 ELSE 0
        /\ \A i \in 1 .. k - 1 + 1 : d[i] = field[1 + i - 1]
    BY <2>1, <2>2, SubSeqProperties
  <2>4. Len(d) = k /\ d[1] = first
    BY <1>3, <2>2, <2>3
  <2> QED BY <2>2, <2>4
<1> HIDE DEF d
<1>5. CASE first < 128
  <2>1. more = <<>>
    <3>1. ~(first - 128 \in 1 .. 4)
      BY <1>2, <1>5
    <3> QED BY <1>1, <3>1, Zenon
  <2> QED BY <1>3, <2>1
<1>6. CASE ~(first < 128)
  <2>1. Len(more) = first - 128
    BY <1>1, <1>6, Zenon
  <2>2. Len(d) < 1 + (first - 128)
    BY <1>2, <1>3, <1>4, <2>1
  <2>3. DecodeLength(d) = [ok |-> FALSE]
    BY <1>4, <1>6, <2>2 DEF DecodeLength
  <2> QED BY <2>3 DEF d
<1> QED BY <1>5, <1>6, Zenon

\* What is kept of two sequences, one behind the other.
\* Concatenation under a name of its own: parts may be joined from either end.
Join(s, t) == s \o t

LEMMA JoinAssociates ==
  ASSUME NEW s \in Seq(Nat), NEW t \in Seq(Nat), NEW u \in Seq(Nat)
  PROVE  Join(s, t) \in Seq(Nat) /\ Join(Join(s, t), u) = Join(s, Join(t, u))
<1>1. s \o t \in Seq(Nat)
  BY ConcatProperties
<1>2. (s \o t) \o u = s \o (t \o u)
  BY NumbersAssociate
<1> QED BY <1>1, <1>2, Zenon DEF Join

LEMMA CutOfConcat ==
  ASSUME NEW S, NEW s \in Seq(S), NEW t \in Seq(S), NEW j \in 0 .. Len(s) + Len(t)
  PROVE  SubSeq(s \o t, 1, j)
           = IF j < Len(s) THEN SubSeq(s, 1, j) ELSE s \o SubSeq(t, 1, j - Len(s))
<1> DEFINE all == s \o t
           a == Len(s)
           b == Len(t)
<1>1. a \in Nat /\ b \in Nat /\ j \in Nat
  BY LenProperties
<1>2. all \in Seq(S) /\ Len(all) = a + b
      /\ \A i \in 1 .. a + b : all[i] = IF i <= a THEN s[i] ELSE t[i - a]
  BY ConcatProperties
<1> HIDE DEF all
<1>3. CASE j < a
  <2> DEFINE u == SubSeq(s, 1, j)
  <2>1. u \in Seq(S) /\ Len(u) = j /\ \A i \in 1 .. j : u[i] = s[i]
    BY <1>1, <1>3, PrefixIs
  <2> HIDE DEF u
  <2>2. \A i \in 1 .. j : all[0 + i] = u[i]
    <3>1. \A i \in 1 .. j : i \in 1 .. a + b /\ i <= a /\ 0 + i = i
      BY <1>1, <1>3
    <3> QED BY <1>2, <2>1, <3>1, Zenon
  <2>3. 0 + Len(u) <= Len(all) /\ 0 \in Nat /\ 0 + Len(u) = j /\ 0 + 1 = 1
    BY <1>1, <1>2, <2>1
  <2>4. SubSeq(all, 0 + 1, 0 + Len(u)) = u
    BY <1>2, <2>1, <2>2, <2>3, CutIs
  <2>5. SubSeq(all, 1, j) = u
    BY <2>3, <2>4, Zenon
  <2> QED BY <1>3, <2>5, Zenon DEF u, all
<1>4. CASE ~(j < a)
  <2> DEFINE r == SubSeq(t, 1, j - a)
             u == s \o r
  <2>1. j - a \in 0 .. b
    BY <1>1, <1>4
  <2>2. r \in Seq(S) /\ Len(r) = j - a /\ \A i \in 1 .. j - a : r[i] = t[i]
    BY <2>1, PrefixIs
  <2> HIDE DEF r
  <2>3. u \in Seq(S) /\ Len(u) = a + Len(r)
        /\ \A i \in 1 .. a + Len(r) : u[i] = IF i <= a THEN s[i] ELSE r[i - a]
    BY <2>2, ConcatProperties
  <2> HIDE DEF u
  <2>4. ASSUME NEW i \in 1 .. j PROVE all[0 + i] = u[i]
    <3>1. i \in 1 .. a + b /\ i \in 1 .. a + Len(r) /\ 0 + i = i /\ (i <= a \/ i - a \in 1 .. j - a)
      BY <1>1, <1>4, <2>2
    <3> QED BY <1>2, <2>2, <2>3, <3>1, Zenon
  <2>5. 0 + Len(u) <= Len(all) /\ 0 \in Nat /\ 0 + Len(u) = j /\ 0 + 1 = 1 /\ Len(u) = j
    BY <1>1, <1>2, <1>4, <2>2, <2>3
  <2>6. SubSeq(all, 0 + 1, 0 + Len(u)) = u
    BY <1>2, <2>3, <2>4, <2>5, CutIs
  <2>7. SubSeq(all, 1, j) = u
    BY <2>5, <2>6, Zenon
  <2> QED BY <1>4, <2>7, Zenon DEF u, r, all
<1> QED BY <1>3, <1>4, Zenon

\* An element in any form is decoded to what was put into it, whatever follows.
LEMMA ElementDecodes ==
  ASSUME NEW tag \in Octet, NEW content \in Seq(Octet), Short(Len(content)), NEW form \in Forms,
         NEW rest \in Seq(Octet)
  PROVE  /\ Element(tag, content, form) \in Seq(Octet)
         /\ Len(content) < Len(Element(tag, content, form))
         /\ DecodeTlv(Element(tag, content, form) \o rest)
              = [ok |-> TRUE, tag |-> tag, content |-> content, rest |-> rest]
<1> DEFINE n == Len(content)
           field == Length(n, form)
           head == <<tag>> \o field
           after == content \o rest
           d == (head \o content) \o rest
<1>1. n \in Nat /\ after \in Seq(Octet) /\ Len(rest) \in Nat
  BY ConcatProperties, LenProperties
<1>2. /\ field \in Seq(Octet) /\ Len(field) \in 1 .. 5
      /\ DecodeLength(field \o after) = [ok |-> TRUE, value |-> n, size |-> Len(field)]
  BY <1>1, LengthForms, LengthDecodes
<1> HIDE DEF field, n
<1>3. head \in Seq(Octet) /\ Len(head) = 1 + Len(field) /\ head[1] = tag
  BY <1>2, Prefixed
<1>4. Element(tag, content, form) = head \o content
  BY Zenon DEF Element, field, n
<1>5. /\ head \o content \in Seq(Octet) /\ Len(head \o content) = Len(head) + n
  BY <1>3, ConcatProperties DEF n
<1>6. /\ d \in Seq(Octet) /\ Len(d) = (Len(head) + n) + Len(rest)
      /\ SubSeq(d, Len(head) + 1, Len(head) + n) = content
      /\ SubSeq(d, (Len(head) + n) + 1, Len(d)) = rest
  BY <1>3, Middle DEF n
<1>7. d = <<tag>> \o (field \o after)
  <2>1. <<tag>> \in Seq(Nat) /\ field \in Seq(Nat) /\ content \in Seq(Nat) /\ rest \in Seq(Nat)
        /\ head \in Seq(Nat) /\ after \in Seq(Nat)
    <3>1. <<tag>> \in Seq(Octet)
      OBVIOUS
    <3> HIDE DEF head, after
    <3> QED BY <1>1, <1>2, <1>3, <3>1, OctetsAreNumbers
  <2> DEFINE one == <<tag>>
  <2>2. head = Join(one, field) /\ after = Join(content, rest) /\ d = Join(Join(head, content), rest)
    BY Zenon DEF Join
  <2>3. one \in Seq(Nat)
    BY <2>1
  <2> HIDE DEF one, head, after, d
  <2>4. Join(Join(head, content), rest) = Join(head, Join(content, rest))
    BY <2>1, JoinAssociates
  <2>5. Join(Join(one, field), after) = Join(one, Join(field, after))
    BY <2>1, <2>3, JoinAssociates
  <2>6. d = Join(one, Join(field, after))
    BY <2>2, <2>4, <2>5, Zenon
  <2> QED BY <2>6, Zenon DEF Join, one
<1>8. d[1] = tag /\ Tail(d) = field \o after
  <2>1. field \o after \in Seq(Octet)
    BY <1>1, <1>2, ConcatProperties
  <2> QED BY <1>7, <2>1, Prefixed, SMTT(30)
<1> HIDE DEF d, head, after
<1>9. DecodeTlv(d) = [ok |-> TRUE, tag |-> tag, content |-> content, rest |-> rest]
  <2> DEFINE length == DecodeLength(Tail(d))
             header == 1 + length.size
             end == header + length.value
  <2>1. length.ok /\ length.value = n /\ length.size = Len(field)
    <3>1. length = [ok |-> TRUE, value |-> n, size |-> Len(field)]
      BY <1>2, <1>8, Zenon
    <3> HIDE DEF length
    <3> QED BY <3>1
  <2> HIDE DEF length
  <2>2. header = Len(head) /\ end = Len(head) + n
    BY <1>3, <2>1
  <2>3. ~(Len(d) < 2) /\ ~(Len(d) < end)
    BY <1>1, <1>2, <1>3, <1>6, <2>2
  <2>4. DecodeTlv(d) = [ok |-> TRUE, tag |-> d[1], content |-> SubSeq(d, header + 1, end),
                        rest |-> SubSeq(d, end + 1, Len(d))]
    BY <2>1, <2>3, Zenon DEF DecodeTlv, length
  <2> HIDE DEF header, end
  <2> QED BY <1>6, <1>8, <2>2, <2>4, Zenon
<1>10. n < Len(head \o content)
  BY <1>1, <1>2, <1>3, <1>5
<1> QED BY <1>4, <1>5, <1>9, <1>10, Zenon DEF d, n

LEMMA ExpectElement ==
  ASSUME NEW tag \in Octet, NEW content \in Seq(Octet), Short(Len(content)), NEW form \in Forms,
         NEW rest \in Seq(Octet)
  PROVE  /\ Element(tag, content, form) \in Seq(Octet)
         /\ Element(tag, content, form) \o rest \in Seq(Octet)
         /\ Expect(Element(tag, content, form) \o rest, tag)
              = [ok |-> TRUE, tag |-> tag, content |-> content, rest |-> rest]
<1> DEFINE element == Element(tag, content, form)
           d == element \o rest
<1>1. /\ element \in Seq(Octet)
      /\ DecodeTlv(d) = [ok |-> TRUE, tag |-> tag, content |-> content, rest |-> rest]
  BY ElementDecodes
<1> HIDE DEF element
<1>2. d \in Seq(Octet)
  BY <1>1, ConcatProperties
<1> HIDE DEF d
<1>3. DecodeTlv(d).tag = tag
  BY <1>1
<1>4. Expect(d, tag) = DecodeTlv(d)
  BY <1>3, Zenon DEF Expect
<1> QED BY <1>1, <1>2, <1>4, Zenon DEF element, d

LEMMA LoneElement ==
  ASSUME NEW tag \in Octet, NEW content \in Seq(Octet), Short(Len(content)), NEW form \in Forms
  PROVE  LET read == [ok |-> TRUE, tag |-> tag, content |-> content, rest |-> <<>>]
         IN  /\ Element(tag, content, form) \in Seq(Octet)
             /\ DecodeTlv(Element(tag, content, form)) = read
             /\ Expect(Element(tag, content, form), tag) = read
<1> DEFINE x == Element(tag, content, form)
           read == [ok |-> TRUE, tag |-> tag, content |-> content, rest |-> <<>>]
<1>1. <<>> \in Seq(Octet)
  BY EmptySeq
<1>2. x \in Seq(Octet) /\ DecodeTlv(x \o <<>>) = read
  BY <1>1, ElementDecodes
<1>3. Expect(x \o <<>>, tag) = read
  BY <1>1, ExpectElement
<1> HIDE DEF x
<1>4. x \o <<>> = x
  BY <1>2, ConcatEmptySeq
<1> QED BY <1>2, <1>3, <1>4, Zenon DEF x

\* A cut element does not.
LEMMA ElementCut ==
  ASSUME NEW tag \in Octet, NEW content \in Seq(Octet), Short(Len(content)), NEW form \in Forms,
         NEW k \in 0 .. Len(Element(tag, content, form)) - 1
  PROVE  DecodeTlv(SubSeq(Element(tag, content, form), 1, k)) = NoTlv
<1> DEFINE n == Len(content)
           field == Length(n, form)
           after == field \o content
           whole == <<tag>> \o after
           d == SubSeq(whole, 1, k)
<1>1. n \in Nat /\ <<>> \in Seq(Octet)
  BY LenProperties
<1>2. LengthIs(field, n)
  BY LengthForms, Zenon
<1>3. field \in Seq(Octet) /\ Len(field) \in 1 .. 5
  BY <1>1, <1>2, LengthDecodes, Zenon
<1> HIDE DEF field, n
<1>4. after \in Seq(Octet) /\ Len(after) = Len(field) + n
      /\ \A i \in 1 .. Len(field) + n : after[i] = IF i <= Len(field) THEN field[i] ELSE content[i - Len(field)]
  BY <1>3, ConcatProperties DEF n
<1>5. whole \in Seq(Octet) /\ Len(whole) = 1 + Len(after) /\ whole[1] = tag /\ Tail(whole) = after
  BY <1>4, Prefixed, SMTT(30)
<1>6. Element(tag, content, form) = whole
  <2>1. <<tag>> \in Seq(Nat) /\ field \in Seq(Nat) /\ content \in Seq(Nat)
    <3>1. <<tag>> \in Seq(Octet)
      OBVIOUS
    <3> QED BY <1>3, <3>1, OctetsAreNumbers
  <2>2. Element(tag, content, form) = (<<tag>> \o field) \o content
    BY Zenon DEF Element, field, n
  <2> DEFINE one == <<tag>>
  <2>3. Join(Join(one, field), content) = Join(one, Join(field, content))
    <3> HIDE DEF one
    <3> QED BY <2>1, JoinAssociates, ZenonT(60) DEF one
  <2> QED BY <2>2, <2>3, Zenon DEF Join
<1> HIDE DEF whole, after
<1>7. k \in 0 .. Len(whole) - 1 /\ k \in 0 .. Len(whole) /\ k \in Nat
  BY <1>3, <1>4, <1>5, <1>6
<1>8. d \in Seq(Octet) /\ Len(d) = k
  <2>1. Len(d) = IF 1 <= k THEN k - 1 + 1 ELSE 0
    BY <1>5, <1>7, CutType
  <2> QED BY <1>5, <1>7, <2>1, CutType
<1>9. CASE k < 2
  BY <1>6, <1>8, <1>9 DEF DecodeTlv
<1>10. CASE ~(k < 2)
  <2> DEFINE j == k - 1
             cut == SubSeq(after, 1, j)
  <2>1. j \in 1 .. Len(after) /\ j \in Nat /\ j \in 0 .. Len(after) /\ ~(k < 1) /\ k \in 0 .. 1 + Len(after)
        /\ Len(after) \in Nat
    BY <1>1, <1>3, <1>4, <1>5, <1>7, <1>10
  <2>2. cut \in Seq(Octet)
    BY <1>4, <2>1, CutType
  <2>3. d = <<tag>> \o cut
    <3>1. <<tag>> \in Seq(Octet) /\ Len(<<tag>>) = 1
      OBVIOUS
    <3>2. SubSeq(<<tag>> \o after, 1, k)
            = IF k < 1 THEN SubSeq(<<tag>>, 1, k) ELSE <<tag>> \o SubSeq(after, 1, k - 1)
      BY <1>4, <2>1, <3>1, CutOfConcat
    <3> QED BY <2>1, <3>2, Zenon DEF whole
  <2>4. Tail(d) = cut
    BY <2>2, <2>3, Prefixed
  <2> HIDE DEF cut, j
  <2>5. CASE j < Len(field)
    <3>1. j \in 0 .. Len(field) + n /\ j < Len(field) /\ j \in 1 .. Len(field) - 1
      BY <1>1, <1>3, <2>1, <2>5
    <3>2. cut = SubSeq(field, 1, j)
      <4>1. SubSeq(field \o content, 1, j)
              = IF j < Len(field) THEN SubSeq(field, 1, j)
                ELSE field \o SubSeq(content, 1, j - Len(field))
        BY <1>3, <3>1, CutOfConcat DEF n
      <4> QED BY <3>1, <4>1, Zenon DEF cut, after
    <3>3. ~DecodeLength(Tail(d)).ok
      BY <1>2, <2>4, <3>1, <3>2, LengthCut, Zenon
    <3> QED BY <1>6, <1>8, <3>3, Zenon DEF DecodeTlv
  <2>6. CASE ~(j < Len(field))
    <3> DEFINE more == SubSeq(content, 1, j - Len(field))
    <3>1. j \in 0 .. Len(field) + n /\ j - Len(field) \in 0 .. n
      BY <1>1, <1>3, <1>4, <2>1, <2>6
    <3>2. more \in Seq(Octet)
      BY <3>1, CutType DEF n
    <3>3. cut = field \o more
      <4>1. SubSeq(field \o content, 1, j)
              = IF j < Len(field) THEN SubSeq(field, 1, j) ELSE field \o more
        BY <1>3, <3>1, CutOfConcat DEF n
      <4> QED BY <2>6, <4>1, Zenon DEF cut, after
    <3> HIDE DEF more
    <3>4. DecodeLength(Tail(d)) = [ok |-> TRUE, value |-> n, size |-> Len(field)]
      BY <1>2, <2>4, <3>2, <3>3, LengthDecodes, Zenon
    <3>5. DecodeLength(Tail(d)).value = n /\ DecodeLength(Tail(d)).size = Len(field)
      BY <3>4
    <3>6. Len(d) < (1 + Len(field)) + n
      BY <1>1, <1>3, <1>4, <1>5, <1>7, <1>8, SMTT(30)
    <3>7. Len(d) < (1 + DecodeLength(Tail(d)).size) + DecodeLength(Tail(d)).value
      BY <3>5, <3>6, Zenon
    <3> QED BY <1>6, <1>8, <3>7, Zenon DEF DecodeTlv
  <2> QED BY <2>5, <2>6, Zenon
<1> QED BY <1>9, <1>10, Zenon

-----------------------------------------------------------------------------
(* Numbers. *)
LEMMA LastOctetsAreOctets ==
  ASSUME NEW w \in Seq(Octet), NEW n \in 1 .. Len(w)
  PROVE  /\ LastOctets(w, n) \in Seq(Octet) /\ Len(LastOctets(w, n)) = n
         /\ \A i \in 1 .. n : LastOctets(w, n)[i] = w[Len(w) - n + i]
<1>1. Len(w) \in Nat /\ Len(w) + 1 - n \in Nat \ {0} /\ Len(w) \in 0 .. Len(w)
  BY LenProperties
<1>2. LastOctets(w, n) \in Seq(Octet)
  BY <1>1, CutType DEF LastOctets
<1>3. w \in Seq(Nat)
  BY OctetsAreNumbers
<1> QED BY <1>2, <1>3, LastOctetsType

\* The octets are the word but for copies of its sign.
Signs(content, w) ==
  /\ content \in Seq(Octet) /\ Len(content) \in 1 .. 4
  /\ \A i \in 1 .. Len(content) : content[i] = w[4 - Len(content) + i]
  /\ \A i \in 1 .. 4 - Len(content) : w[i] = Fill(content[1])

LEMMA SignsDecode ==
  ASSUME NEW w \in Word, NEW tlv, Signs(tlv.content, w)
  PROVE  DecodeInteger(tlv) = Yields(w)
<1> DEFINE content == tlv.content
           n == Len(content)
           fill == Fill(content[1])
           v == ShiftIn(4, fill, content)
<1>1. /\ content \in Seq(Octet) /\ n \in 1 .. 4 /\ n >= 1
      /\ \A i \in 1 .. n : content[i] = w[4 - n + i]
      /\ \A i \in 1 .. 4 - n : w[i] = fill
  <2>1. \A k \in 1 .. 4 : k >= 1
    OBVIOUS
  <2> QED BY <2>1, Zenon DEF Signs
<1>2. DecodeInteger(tlv) = Yields(v)
  BY <1>1, Zenon DEF DecodeInteger, Fill
<1>3. fill \in Octet /\ 4 \in {4, 8}
  BY DEF Fill, Octet
<1> HIDE DEF fill, content
<1>4. v \in [1 .. 4 -> Octet]
  BY <1>1, <1>3, ShiftInType
<1>5. ASSUME NEW i \in 1 .. 4 PROVE v[i] = w[i]
  <2>1. v[i] = IF n + i <= 4 THEN fill ELSE content[n + i - 4]
    BY <1>1, <1>3, ShiftInIs
  <2>2. CASE n + i <= 4
    <3>1. i \in 1 .. 4 - n
      BY <1>1, <2>2
    <3> QED BY <1>1, <2>1, <2>2, <3>1, Zenon
  <2>3. CASE ~(n + i <= 4)
    <3>1. n + i - 4 \in 1 .. n /\ 4 - n + (n + i - 4) = i
      BY <1>1, <2>3
    <3>2. content[n + i - 4] = w[4 - n + (n + i - 4)]
      BY <1>1, <3>1, Zenon
    <3> QED BY <2>1, <2>3, <3>1, <3>2, Zenon
  <2> QED BY <2>2, <2>3, Zenon
<1> HIDE DEF v
<1>6. v = w
  BY <1>4, <1>5 DEF Word
<1> QED BY <1>2, <1>6, Zenon

LEMMA IntegerSigns ==
  ASSUME NEW w \in Word
  PROVE  Signs(w, w) /\ Signs(ShortestSigned(w), w)
<1>1. w \in Seq(Octet) /\ w \in Seq(Nat) /\ Len(w) = 4
  BY WordIsSeq DEF Word
<1>2. Signs(w, w)
  <2>1. 4 \in 1 .. 4 /\ \A i \in 1 .. 4 : 4 - 4 + i = i
    OBVIOUS
  <2>2. 1 .. 4 - 4 = {}
    OBVIOUS
  <2> QED BY <1>1, <2>1, <2>2 DEF Signs
<1> DEFINE S == {k \in 1 .. 4 : Signed(LastOctets(w, k)) = w}
           n == Min(S)
           content == LastOctets(w, n)
<1>3. S \subseteq Nat /\ S \subseteq 1 .. 4 /\ 4 \in S
  <2>1. 4 \in 1 .. 4 /\ 1 .. 4 - 4 = {} /\ S \subseteq 1 .. 4 /\ 1 .. 4 \subseteq Nat
    OBVIOUS
  <2>2. Signed(LastOctets(w, 4)) = w
    BY <2>1, SignedIs
  <2> QED BY <2>1, <2>2
<1>4. n \in S
  <2> HIDE DEF S
  <2> QED BY <1>3, MinAtMost
<1>5. ShortestSigned(w) = content
  BY Zenon DEF ShortestSigned
<1>6. n \in 1 .. 4 /\ Signed(content) = w
  BY <1>4
<1> HIDE DEF n
<1>7. \A i \in 1 .. 4 - n : w[i] = Fill(w[5 - n])
  BY <1>6, SignedIs
<1>8. content \in Seq(Octet) /\ Len(content) = n /\ \A i \in 1 .. n : content[i] = w[4 - n + i]
  <2>1. n \in 1 .. Len(w)
    BY <1>1, <1>6
  <2>2. content \in Seq(Octet) /\ Len(content) = n
        /\ \A i \in 1 .. n : content[i] = w[Len(w) - n + i]
    BY <1>1, <2>1, LastOctetsAreOctets, Zenon
  <2> QED BY <1>1, <2>2, Zenon
<1>9. content[1] = w[5 - n]
  <2>1. 1 \in 1 .. n /\ 4 - n + 1 = 5 - n
    BY <1>6
  <2> QED BY <1>8, <2>1
<1> HIDE DEF content
<1>10. Signs(content, w)
  BY <1>6, <1>7, <1>8, <1>9, Zenon DEF Signs
<1> QED BY <1>2, <1>5, <1>10, Zenon

\* The octets are the word but for zeros in front, and one more perhaps.
Pads(content, w, n) ==
  /\ content \in Seq(Octet) /\ Len(content) \in 1 .. n + 1
  /\ \A i \in 1 .. n : w[i] = IF Len(content) + i <= n THEN 0 ELSE content[Len(content) + i - n]

LEMMA PadsDecode ==
  ASSUME NEW n \in {4, 8}, NEW w \in [1 .. n -> Octet], NEW tlv, Pads(tlv.content, w, n)
  PROVE  DecodeUnsigned(tlv, n) = Yields(w)
<1> DEFINE content == tlv.content
           v == ShiftIn(n, 0, content)
<1>1. /\ content \in Seq(Octet) /\ Len(content) \in 1 .. n + 1
      /\ \A i \in 1 .. n : w[i] = IF Len(content) + i <= n THEN 0 ELSE content[Len(content) + i - n]
  BY DEF Pads
<1>2. DecodeUnsigned(tlv, n) = Yields(v)
  BY <1>1, Zenon DEF DecodeUnsigned
<1>3. 0 \in Octet /\ Len(content) >= 1
  BY <1>1 DEF Octet
<1> HIDE DEF content
<1>4. v \in [1 .. n -> Octet]
  BY <1>1, <1>3, ShiftInType
<1>5. ASSUME NEW i \in 1 .. n PROVE v[i] = w[i]
  <2>1. v[i] = IF Len(content) + i <= n THEN 0 ELSE content[Len(content) + i - n]
    BY <1>1, <1>3, ShiftInIs
  <2> QED BY <1>1, <2>1, Zenon
<1> HIDE DEF v
<1>6. v = w
  BY <1>4, <1>5
<1> QED BY <1>2, <1>6, Zenon

LEMMA UnsignedPads ==
  ASSUME NEW n \in {4, 8}, NEW w \in [1 .. n -> Octet]
  PROVE  Pads(w, w, n) /\ Pads(<<0>> \o w, w, n) /\ Pads(ShortestPositive(w), w, n)
<1>1. w \in Seq(Octet) /\ Len(w) = n /\ n \in Nat /\ n >= 1 /\ 0 \in Octet
  <2>1. w \in Seq(Octet) /\ Len(w) = n
    BY WordIsSeq
  <2> QED BY <2>1 DEF Octet
<1>2. Pads(w, w, n)
  <2>1. n \in 1 .. n + 1 /\ \A i \in 1 .. n : ~(n + i <= n) /\ n + i - n = i
    BY <1>1
  <2> QED BY <1>1, <2>1, Zenon DEF Pads
<1> DEFINE positive == <<0>> \o w
           Fits(k) == /\ LastOctets(positive, k)[1] < 128
                      /\ \A i \in 1 .. Len(positive) - k : positive[i] = 0
           S == {k \in 1 .. Len(positive) : Fits(k)}
           m == Min(S)
           content == LastOctets(positive, m)
<1>3. /\ positive \in Seq(Octet) /\ Len(positive) = n + 1 /\ positive[1] = 0
      /\ \A i \in 1 .. n : positive[i + 1] = w[i]
  <2>1. /\ positive \in Seq(Octet) /\ Len(positive) = 1 + Len(w) /\ positive # <<>>
        /\ positive[1] = 0 /\ Tail(positive) = w
    BY <1>1, Prefixed
  <2> HIDE DEF positive
  <2>2. \A i \in 1 .. Len(Tail(positive)) : Tail(positive)[i] = positive[i + 1]
    BY <2>1, HeadTailProperties
  <2>3. Len(positive) = n + 1
    BY <1>1, <2>1
  <2> QED BY <1>1, <2>1, <2>2, <2>3, Zenon
<1>4. ShortestPositive(w) = content
  BY Zenon DEF ShortestPositive
<1> HIDE DEF positive
<1>5. Pads(positive, w, n)
  <2>1. n + 1 \in 1 .. n + 1 /\ \A i \in 1 .. n : ~((n + 1) + i <= n) /\ (n + 1) + i - n = i + 1
    BY <1>1
  <2> QED BY <1>3, <2>1, Zenon DEF Pads
<1>6. S \subseteq Nat /\ S \subseteq 1 .. n + 1 /\ n + 1 \in S
  <2>1. n + 1 \in 1 .. n + 1 /\ (n + 1) - (n + 1) = 0 /\ 1 .. 0 = {} /\ 1 \in 1 .. n + 1
        /\ (n + 1) - (n + 1) + 1 = 1 /\ 1 .. n + 1 \subseteq Nat
    BY <1>1
  <2>2. LastOctets(positive, n + 1)[1] = positive[(n + 1) - (n + 1) + 1]
    <3>1. n + 1 \in 1 .. Len(positive)
      BY <1>3, <2>1
    <3>2. \A i \in 1 .. n + 1 : LastOctets(positive, n + 1)[i] = positive[Len(positive) - (n + 1) + i]
      BY <1>3, <3>1, LastOctetsAreOctets, Zenon
    <3> QED BY <1>3, <2>1, <3>2, Zenon
  <2>3. LastOctets(positive, n + 1)[1] < 128
    BY <1>3, <2>1, <2>2
  <2> QED BY <1>3, <2>1, <2>3
<1>7. m \in S
  <2> HIDE DEF S
  <2> QED BY <1>6, MinAtMost
<1>8. m \in 1 .. n + 1 /\ \A i \in 1 .. (n + 1) - m : positive[i] = 0
  BY <1>3, <1>6, <1>7
<1> HIDE DEF m
<1>9. content \in Seq(Octet) /\ Len(content) = m
      /\ \A i \in 1 .. m : content[i] = positive[(n + 1) - m + i]
  BY <1>3, <1>8, LastOctetsAreOctets, SMTT(30)
<1> HIDE DEF content
<1>10. ASSUME NEW i \in 1 .. n PROVE w[i] = IF m + i <= n THEN 0 ELSE content[m + i - n]
  <2>1. w[i] = positive[i + 1]
    BY <1>3
  <2>2. CASE m + i <= n
    <3>1. i + 1 \in 1 .. (n + 1) - m
      BY <1>1, <1>8, <2>2
    <3> QED BY <1>8, <2>1, <2>2, <3>1, Zenon
  <2>3. CASE ~(m + i <= n)
    <3>1. m + i - n \in 1 .. m /\ (n + 1) - m + (m + i - n) = i + 1
      BY <1>1, <1>8, <2>3
    <3> QED BY <1>9, <2>1, <2>3, <3>1, Zenon
  <2> QED BY <2>2, <2>3, Zenon
<1>11. Pads(content, w, n)
  BY <1>8, <1>9, <1>10, Zenon DEF Pads
<1> QED BY <1>2, <1>4, <1>5, <1>11, Zenon DEF positive

-----------------------------------------------------------------------------
(* OIDs: an arc of n octets is right after as many steps of the loop. *)
\* Of the n groups of w the first i have been shifted in.
Shifted(arc, w, n, i) ==
  /\ arc \in Word
  /\ \A g \in 1 .. 5 : Groups(arc)[g] = IF g + i <= 5 THEN 0 ELSE Groups(w)[g + i - n]

LEMMA ShiftedNext ==
  ASSUME NEW w \in Word, NEW n \in 1 .. 5, NEW i \in 0 .. n - 1, NEW arc, Shifted(arc, w, n, i),
         NEW o \in Octet, o % 128 = Groups(w)[5 - n + (i + 1)]
  PROVE  ~(arc[1] >= 2) /\ Shifted(ShiftIn7(arc, o), w, n, i + 1)
<1> DEFINE next == ShiftIn7(arc, o)
<1>1. /\ arc \in Word
      /\ \A g \in 1 .. 5 : Groups(arc)[g] = IF g + i <= 5 THEN 0 ELSE Groups(w)[g + i - n]
  BY DEF Shifted
<1>2. Groups(arc)[1] = 0 /\ Groups(arc)[2] \in 0 .. 15
  <2>1. 1 \in 1 .. 5 /\ 1 + i <= 5 /\ 2 \in 1 .. 5 /\ (2 + i <= 5 \/ 2 + i - n = 1)
    OBVIOUS
  <2>2. Groups(w)[1] \in 0 .. 15 /\ 0 \in 0 .. 15
    BY GroupsType
  <2> QED BY <1>1, <2>1, <2>2, Zenon
<1>3. arc[1] \in 0 .. 1
  <2> DEFINE a == Groups(arc)[1]
             b == Groups(arc)[2]
             c == Groups(arc)[3]
             d == Groups(arc)[4]
             e == Groups(arc)[5]
  <2>1. arc = Regroup(a, b, c, d, e)
    BY <1>1, RegroupGroups, Zenon
  <2> HIDE DEF a, b, c, d, e
  <2>2. Regroup(a, b, c, d, e)[1] = b \div 8 + 16 * a
    BY DEF Regroup
  <2>3. a = 0 /\ b \in 0 .. 15
    BY <1>2, Zenon DEF a, b
  <2>4. \A x \in 0 .. 15 : x \div 8 + 16 * 0 \in 0 .. 1
    OBVIOUS
  <2> QED BY <2>1, <2>2, <2>3, <2>4, Zenon
<1>4. arc[1] < 2 /\ ~(arc[1] >= 2)
  BY <1>3
<1>5. /\ \A g \in 1 .. 4 : Groups(next)[g] = Groups(arc)[g + 1]
      /\ Groups(next)[5] = o % 128
  BY <1>1, <1>4, ShiftInGroups, Zenon
<1>6. next \in Word
  BY <1>1, ShiftIn7Type
<1> HIDE DEF next
<1>7. ASSUME NEW g \in 1 .. 5
      PROVE  Groups(next)[g] = IF g + (i + 1) <= 5 THEN 0 ELSE Groups(w)[g + (i + 1) - n]
  <2>1. CASE g = 5
    <3>1. ~(g + (i + 1) <= 5) /\ g + (i + 1) - n = 5 - n + (i + 1)
      BY <2>1
    <3> QED BY <1>5, <2>1, <3>1, Zenon
  <2>2. CASE g # 5
    <3>1. g \in 1 .. 4 /\ g + 1 \in 1 .. 5 /\ (g + 1) + i = g + (i + 1)
      BY <2>2
    <3>2. Groups(arc)[g + 1] = IF (g + 1) + i <= 5 THEN 0 ELSE Groups(w)[(g + 1) + i - n]
      BY <1>1, <3>1, Zenon
    <3>3. Groups(next)[g] = Groups(arc)[g + 1]
      BY <1>5, <3>1, Zenon
    <3> HIDE DEF next
    <3> QED BY <3>1, <3>2, <3>3
  <2> QED BY <2>1, <2>2
<1> QED BY <1>4, <1>6, <1>7, Zenon DEF Shifted, next

LEMMA ShiftedAll ==
  ASSUME NEW w \in Word, NEW n \in 1 .. 5, Vanish(w, n), NEW arc, Shifted(arc, w, n, n)
  PROVE  arc = w
<1>1. /\ arc \in Word
      /\ \A g \in 1 .. 5 : Groups(arc)[g] = IF g + n <= 5 THEN 0 ELSE Groups(w)[g + n - n]
  BY DEF Shifted
<1>2. ASSUME NEW g \in 1 .. 5 PROVE Groups(arc)[g] = Groups(w)[g]
  <2>1. g + n - n = g /\ (g + n <= 5 => g \in 1 .. 5 - n)
    OBVIOUS
  <2>2. g \in 1 .. 5 - n => Groups(w)[g] = 0
    BY Zenon DEF Vanish
  <2> QED BY <1>1, <2>1, <2>2, Zenon
<1>3. /\ Groups(arc)[1] = Groups(w)[1] /\ Groups(arc)[2] = Groups(w)[2]
      /\ Groups(arc)[3] = Groups(w)[3] /\ Groups(arc)[4] = Groups(w)[4]
      /\ Groups(arc)[5] = Groups(w)[5]
  <2>1. 1 \in 1 .. 5 /\ 2 \in 1 .. 5 /\ 3 \in 1 .. 5 /\ 4 \in 1 .. 5 /\ 5 \in 1 .. 5
    OBVIOUS
  <2> QED BY <1>2, <2>1, Zenon
<1>4. /\ arc = Regroup(Groups(arc)[1], Groups(arc)[2], Groups(arc)[3], Groups(arc)[4], Groups(arc)[5])
      /\ w = Regroup(Groups(w)[1], Groups(w)[2], Groups(w)[3], Groups(w)[4], Groups(w)[5])
  BY <1>1, RegroupGroups, Zenon
<1> QED BY <1>3, <1>4, Zenon

\* The octets of an arc.
ArcIs(octets, w, n) ==
  /\ Vanish(w, n) /\ octets \in Seq(Octet) /\ Len(octets) = n
  /\ \A i \in 1 .. n : /\ octets[i] % 128 = Groups(w)[5 - n + i]
                       /\ octets[i] < 128 <=> i = n

LEMMA ArcShape ==
  ASSUME NEW w \in Word
  PROVE  \E n \in 1 .. 5 : ArcIs(ArcOctets(w), w, n)
<1> DEFINE S == {k \in 1 .. 5 : \A g \in 1 .. 5 - k : Groups(w)[g] = 0}
           n == Min(S)
           ids == SubIdentifier(w)
<1>1. S \subseteq Nat /\ S \subseteq 1 .. 5 /\ 5 \in S
  <2>1. 1 .. 5 - 5 = {}
    OBVIOUS
  <2> QED BY <2>1
<1> HIDE DEF S
<1>2. n \in S
  <2>1. PICK k \in S : \A j \in S : k <= j
    BY <1>1, Least
  <2>2. Min(S) = k
    BY <1>1, <2>1, MinIs
  <2> QED BY <2>1, <2>2, Zenon
<1>3. n \in 1 .. 5 /\ Vanish(w, n)
  BY <1>1, <1>2, Zenon DEF Vanish, S
<1>4. ids = [i \in 1 .. n |-> Groups(w)[5 - n + i] + IF i < n THEN 128 ELSE 0]
  BY Zenon DEF SubIdentifier, n, S
<1>5. ArcOctets(w) = ids
  BY ArcsAgree
<1> HIDE DEF n, ids
<1>6. ASSUME NEW i \in 1 .. n
      PROVE  ids[i] \in 0 .. 255 /\ ids[i] % 128 = Groups(w)[5 - n + i] /\ (ids[i] < 128 <=> i = n)
  <2> DEFINE group == Groups(w)[5 - n + i]
  <2>1. ids[i] = group + IF i < n THEN 128 ELSE 0
    BY <1>4
  <2>2. group \in 0 .. 127
    <3>1. Groups(w) \in [1 .. 5 -> SevenBits]
      BY GroupsType
    <3>2. 5 - n + i \in 1 .. 5
      BY <1>3
    <3> QED BY <3>1, <3>2 DEF SevenBits
  <2>3. i < n <=> i # n
    BY <1>3
  <2> HIDE DEF group

  <2>5. CASE i = n
    <3>1. ids[i] = group + 0
      BY <2>1, <2>3, <2>5, Zenon
    <3> DEFINE o == ids[i]
    <3> HIDE DEF o
    <3>2. o \in 0 .. 255 /\ o % 128 = group /\ o < 128
      BY <2>2, <3>1 DEF o
    <3> USE DEF o
    <3> QED BY <2>5, <3>2, Zenon DEF group
  <2>6. CASE i # n
    <3>1. ids[i] = group + 128
      BY <2>1, <2>3, <2>6, Zenon
    <3> DEFINE o == ids[i]
    <3> HIDE DEF o
    <3>2. o \in 0 .. 255 /\ o % 128 = group /\ ~(o < 128)
      BY <2>2, <3>1 DEF o
    <3> USE DEF o
    <3> QED BY <2>6, <3>2, Zenon DEF group
  <2> QED BY <2>5, <2>6
<1>7. ids \in Seq(Octet) /\ Len(ids) = n
  <2>1. n \in Nat
    BY <1>3
  <2>2. ids = [i \in 1 .. n |-> ids[i]] /\ \A i \in 1 .. n : ids[i] \in Octet
    BY <1>4, <1>6 DEF Octet
  <2> QED BY <2>1, <2>2
<1> QED BY <1>3, <1>5, <1>6, <1>7, Zenon DEF ArcIs

\* The loop between two arcs, and within one.
Done(oid) == [ok |-> TRUE, open |-> FALSE, arc |-> Zero, oid |-> oid]
Amid(walk, oid, w, n, i) ==
  walk.ok /\ walk.oid = oid /\ Shifted(walk.arc, w, n, i)

\* What the loop makes of the OID so far.
Reads(walk, oid) == IF Len(oid) <= 20 THEN walk = Done(oid) ELSE ~walk.ok

LEMMA NextWithin ==
  ASSUME NEW w \in Word, NEW n \in 1 .. 5, NEW oid, NEW i \in 0 .. n - 1,
         NEW walk, Amid(walk, oid, w, n, i),
         NEW o \in Octet, o % 128 = Groups(w)[5 - n + (i + 1)], ~(o < 128)
  PROVE  Amid(NextArcOctet(walk, o), oid, w, n, i + 1)
<1> DEFINE next == NextArcOctet(walk, o)
           arc == ShiftIn7(walk.arc, o)
<1>1. walk.ok /\ walk.oid = oid /\ Shifted(walk.arc, w, n, i)
  BY DEF Amid
<1> DEFINE before == walk.arc
<1>2. ~(before[1] >= 2) /\ Shifted(ShiftIn7(before, o), w, n, i + 1)
  <2>1. Shifted(before, w, n, i)
    BY <1>1
  <2> HIDE DEF before
  <2> QED BY <2>1, ShiftedNext
<1>3. next = [ok |-> TRUE, open |-> TRUE, arc |-> arc, oid |-> walk.oid]
  BY <1>1, <1>2, Zenon DEF NextArcOctet
<1> HIDE DEF next, arc
<1>4. next.ok /\ next.oid = walk.oid /\ next.arc = arc
  BY <1>3
<1> QED BY <1>1, <1>2, <1>4, Zenon DEF Amid, next, arc

LEMMA NextAtEnd ==
  ASSUME NEW w \in Word, NEW n \in 1 .. 5, NEW oid \in Oids, Vanish(w, n),
         NEW walk \in ArcWalks, Amid(walk, oid, w, n, n - 1),
         NEW o \in Octet, o % 128 = Groups(w)[5 - n + n], o < 128
  PROVE  Reads(NextArcOctet(walk, o), Append(oid, w))
<1> DEFINE next == NextArcOctet(walk, o)
           arc == ShiftIn7(walk.arc, o)
           before == walk.arc
           all == Append(oid, w)
<1>1. walk.ok /\ walk.oid = oid /\ Shifted(before, w, n, n - 1)
  BY DEF Amid
<1>2. ~(before[1] >= 2) /\ ShiftIn7(before, o) = w
  <2> HIDE DEF before
  <2>0. n - 1 \in 0 .. n - 1 /\ (n - 1) + 1 = n
    OBVIOUS
  <2>1. ~(before[1] >= 2) /\ Shifted(ShiftIn7(before, o), w, n, (n - 1) + 1)
    <3>1. o % 128 = Groups(w)[5 - n + ((n - 1) + 1)]
      BY <2>0, Zenon
    <3> QED BY <1>1, <2>0, <3>1, ShiftedNext
  <2>2. Shifted(ShiftIn7(before, o), w, n, n)
    BY <2>0, <2>1, Zenon
  <2> QED BY <2>1, <2>2, ShiftedAll
<1>3. Len(oid) \in 2 .. 20 /\ oid \in Seq(Word)
  BY OidsLong
<1>4. Len(all) = Len(oid) + 1
  BY <1>3, AppendProperties
<1> HIDE DEF all
<1>5. CASE Len(oid) >= 20
  <2>1. next = [walk EXCEPT !.ok = FALSE]
    <3>1. Len(walk.oid) >= MaxOidLen
      BY <1>1, <1>5 DEF MaxOidLen
    <3> QED BY <3>1, Zenon DEF NextArcOctet
  <2>2. ~next.ok
    <3> HIDE DEF next
    <3> QED BY <2>1 DEF ArcWalks
  <2>3. ~(Len(all) <= 20)
    BY <1>3, <1>4, <1>5
  <2> QED BY <2>2, <2>3, Zenon DEF Reads, all
<1>6. CASE ~(Len(oid) >= 20)
  <2>1. next = [ok |-> TRUE, open |-> FALSE, arc |-> Zero, oid |-> all]
    <3>1. ~(Len(walk.oid) >= MaxOidLen)
      BY <1>1, <1>6 DEF MaxOidLen
    <3>2. NextArcOctet(walk, o) = [ok |-> TRUE, open |-> ~(o < 128),
              arc |-> IF o < 128 THEN Zero ELSE ShiftIn7(before, o),
              oid |-> IF o < 128 THEN Append(walk.oid, ShiftIn7(before, o)) ELSE walk.oid]
      BY <1>1, <1>2, <3>1, Zenon DEF NextArcOctet
    <3> DEFINE put == Append(walk.oid, ShiftIn7(before, o))
    <3>3. put = all
      BY <1>1, <1>2, Zenon DEF all
    <3> HIDE DEF put, before
    <3>4. NextArcOctet(walk, o) = [ok |-> TRUE, open |-> FALSE, arc |-> Zero, oid |-> put]
      BY <3>2, Zenon DEF put
    <3> QED BY <3>3, <3>4, Zenon
  <2>3. Len(all) <= 20
    BY <1>3, <1>4, <1>6
  <2> QED BY <2>1, <2>3, Zenon DEF Reads, Done, all
<1> QED BY <1>5, <1>6

LEMMA StaysWrong ==
  ASSUME NEW content \in Seq(Octet), NEW a \in 1 .. Len(content), ~ArcWalk(content)[a].ok,
         NEW n \in Nat, a + n <= Len(content)
  PROVE  ~ArcWalk(content)[a + n].ok
<1> DEFINE walk == ArcWalk(content)
           T == {i \in 0 .. n : ~walk[a + i].ok}
<1>1. /\ content # <<>> /\ a + 0 = a /\ 0 \in 0 .. n /\ n \in 0 .. n /\ Len(content) \in Nat
      /\ a \in Nat
  BY EmptySeq, LenProperties
<1>2. /\ \A i \in 1 .. Len(content) : walk[i] \in ArcWalks
      /\ \A i \in 2 .. Len(content) : walk[i] = NextArcOctet(walk[i - 1], content[i])
  BY <1>1, ArcWalkIs
<1> HIDE DEF walk
<1>3. 0 \in T
  BY <1>1 DEF walk
<1>4. ASSUME NEW i \in 0 .. n - 1, i \in T PROVE i + 1 \in T
  <2> DEFINE before == walk[a + i]
             j == a + (i + 1)
  <2>1. /\ i + 1 \in 0 .. n /\ j \in 2 .. Len(content) /\ j - 1 = a + i
        /\ a + i \in 1 .. Len(content)
    BY <1>1
  <2>2. walk[j] = NextArcOctet(before, content[j]) /\ before \in ArcWalks /\ ~before.ok
    BY <1>2, <1>4, <2>1
  <2> HIDE DEF before, j
  <2>3. walk[j] = [before EXCEPT !.ok = FALSE]
    BY <2>2, Zenon DEF NextArcOctet
  <2>4. ~walk[j].ok
    BY <2>2, <2>3 DEF ArcWalks
  <2> QED BY <2>1, <2>4 DEF j
<1>5. \A i \in 0 .. n : i \in T
  <2> HIDE DEF T
  <2> QED BY <1>3, <1>4, Induct
<1> QED BY <1>1, <1>5 DEF walk

LEMMA ArcReads ==
  ASSUME NEW content \in Seq(Octet), NEW a \in 1 .. Len(content),
         NEW oid \in Seq(Word), Len(oid) >= 2, Reads(ArcWalk(content)[a], oid),
         NEW w \in Word, a + Len(ArcOctets(w)) <= Len(content),
         \A i \in 1 .. Len(ArcOctets(w)) : content[a + i] = ArcOctets(w)[i]
  PROVE  Reads(ArcWalk(content)[a + Len(ArcOctets(w))], Append(oid, w))
<1> DEFINE walk == ArcWalk(content)
           octets == ArcOctets(w)
<1>1. PICK n \in 1 .. 5 : ArcIs(octets, w, n)
  BY ArcShape
<1>2. /\ Vanish(w, n) /\ Len(octets) = n /\ octets \in Seq(Octet)
      /\ \A i \in 1 .. n : /\ octets[i] % 128 = Groups(w)[5 - n + i]
                           /\ octets[i] < 128 <=> i = n
  BY <1>1, Zenon DEF ArcIs
<1>3. a + n <= Len(content) /\ \A i \in 1 .. n : content[a + i] = octets[i] /\ octets[i] \in Octet
  BY <1>2, ElementOfSeq
<1> HIDE DEF octets
<1>4. content # <<>> /\ a + 0 = a /\ Len(content) \in Nat /\ a \in Nat /\ n \in Nat
  BY EmptySeq, LenProperties
<1>5. /\ \A i \in 1 .. Len(content) : walk[i] \in ArcWalks
      /\ \A i \in 2 .. Len(content) : walk[i] = NextArcOctet(walk[i - 1], content[i])
  BY <1>4, ArcWalkIs
<1>6. CASE ~(Len(oid) <= 20)
  <2>1. ~walk[a].ok
    BY <1>6, Zenon DEF Reads
  <2>2. ~walk[a + n].ok
    BY <1>3, <1>4, <2>1, StaysWrong
  <2>3. ~(Len(Append(oid, w)) <= 20)
    <3>1. Len(Append(oid, w)) = Len(oid) + 1 /\ Len(oid) \in Nat
      BY AppendProperties, LenProperties
    <3> HIDE DEF walk
    <3> QED BY <1>6, <3>1
  <2> QED BY <1>2, <2>2, <2>3, Zenon DEF Reads, octets
<1>7. CASE Len(oid) <= 20
  <2> DEFINE T == {i \in 0 .. n - 1 : Amid(walk[a + i], oid, w, n, i)}
  <2>1. oid \in Oids
    <3>1. Len(oid) \in Nat
      BY LenProperties
    <3>2. \A k \in Nat : k >= 2 /\ k <= 20 => k \in 2 .. 20
      OBVIOUS
    <3>3. Len(oid) \in 2 .. 20
      BY <1>7, <3>1, <3>2, Zenon
    <3> QED BY <3>3, Zenon DEF Oids, MaxOidLen
  <2>2. walk[a] = Done(oid)
    BY <1>7, Zenon DEF Reads
  <2> HIDE DEF walk
  <2>3. 0 \in T
    <3>1. Shifted(Zero, w, n, 0)
      <4>1. \A g \in 1 .. 5 : g \in 1 .. 5 - 0 /\ g + 0 <= 5
        OBVIOUS
      <4>2. Vanish(Zero, 0)
        BY ZeroVanishes
      <4>3. \A g \in 1 .. 5 : Groups(Zero)[g] = IF g + 0 <= 5 THEN 0 ELSE Groups(w)[g + 0 - n]
        BY <4>1, <4>2, Zenon DEF Vanish
      <4> QED BY <4>3, ZeroType, Zenon DEF Shifted
    <3>2. Done(oid).ok /\ Done(oid).oid = oid /\ Done(oid).arc = Zero
      BY DEF Done
    <3>3. Amid(walk[a + 0], oid, w, n, 0)
      BY <1>4, <2>2, <3>1, <3>2, Zenon DEF Amid
    <3>4. 0 \in 0 .. n - 1
      OBVIOUS
    <3> QED BY <3>3, <3>4
  <2>4. ASSUME NEW i \in 0 .. (n - 1) - 1, i \in T PROVE i + 1 \in T
    <3> DEFINE j == a + (i + 1)
               before == walk[a + i]
               o == content[j]
    <3>1. /\ i + 1 \in 0 .. n - 1 /\ i \in 0 .. n - 1 /\ i + 1 \in 1 .. n /\ i + 1 # n
          /\ j \in 2 .. Len(content) /\ j - 1 = a + i
      BY <1>3, <1>4
    <3>2. walk[j] = NextArcOctet(before, o) /\ Amid(before, oid, w, n, i)
      BY <1>5, <2>4, <3>1
    <3>3. o = octets[i + 1] /\ o \in Octet
      BY <1>3, <3>1
    <3>4. o % 128 = Groups(w)[5 - n + (i + 1)] /\ ~(o < 128)
      BY <1>2, <3>1, <3>3, Zenon
    <3> HIDE DEF before, o, j
    <3>5. Amid(NextArcOctet(before, o), oid, w, n, i + 1)
      BY <3>1, <3>2, <3>3, <3>4, NextWithin
    <3>6. Amid(walk[j], oid, w, n, i + 1)
      BY <3>2, <3>5, Zenon
    <3> QED BY <3>1, <3>6 DEF j
  <2>5. \A i \in 0 .. n - 1 : i \in T
    <3> HIDE DEF T
    <3>1. n - 1 \in Nat
      OBVIOUS
    <3> QED BY <2>3, <2>4, <3>1, Induct
  <2> DEFINE j == a + n
             before == walk[a + (n - 1)]
             o == content[j]
  <2>6. /\ n - 1 \in 0 .. n - 1 /\ j \in 2 .. Len(content) /\ j - 1 = a + (n - 1)
        /\ n \in 1 .. n /\ a + (n - 1) \in 1 .. Len(content)
    BY <1>3, <1>4
  <2>7. walk[j] = NextArcOctet(before, o) /\ before \in ArcWalks /\ Amid(before, oid, w, n, n - 1)
    BY <1>5, <2>5, <2>6
  <2>8. o = octets[n] /\ o \in Octet
    BY <1>3, <2>6
  <2>9. o % 128 = Groups(w)[5 - n + n] /\ o < 128
    BY <1>2, <2>6, <2>8, ZenonT(60)
  <2> HIDE DEF before, o, j, T
  <2>10. Reads(NextArcOctet(before, o), Append(oid, w))
    BY <1>2, <2>1, <2>7, <2>8, <2>9, NextAtEnd
  <2>11. Reads(walk[j], Append(oid, w))
    BY <2>7, <2>10, Zenon
  <2> QED BY <1>2, <2>11, Zenon DEF j, octets, walk
<1> QED BY <1>6, <1>7

LEMMA NameParts ==
  ASSUME NEW oid \in Names
  PROVE  /\ oid \in Seq(Word) /\ Len(oid) >= 2 /\ Len(oid) \in Nat /\ Len(oid) - 2 \in Nat
         /\ \A i \in 1 .. Len(oid) : oid[i] \in Word
         /\ oid[1][4] \in 0 .. 2 /\ oid[2][4] \in 0 .. 39
         /\ oid[1] = <<0, 0, 0, oid[1][4]>> /\ oid[2] = <<0, 0, 0, oid[2][4]>>
<1>1. oid \in Seq(Word) /\ Len(oid) >= 2 /\ Below(oid[1], 3) /\ Below(oid[2], 40)
  BY Zenon DEF Names
<1>2. /\ Len(oid) \in Nat /\ Len(oid) - 2 \in Nat /\ 1 \in 1 .. Len(oid) /\ 2 \in 1 .. Len(oid)
      /\ \A i \in 1 .. Len(oid) : oid[i] \in Word
  BY <1>1, ElementOfSeq, LenProperties
<1>3. oid[1] \in Word /\ oid[2] \in Word
  BY <1>2
<1>4. oid[1][4] \in 0 .. 255 /\ oid[2][4] \in 0 .. 255
  BY <1>3, WordOctets
<1> DEFINE a == oid[1][4]
           b == oid[2][4]
<1>5. a < 3 /\ b < 40
  BY <1>1, Zenon DEF Below
<1>6. a \in 0 .. 2 /\ b \in 0 .. 39
  <2>1. a \in 0 .. 255 /\ b \in 0 .. 255
    BY <1>4
  <2> HIDE DEF a, b
  <2> QED BY <1>5, <2>1
<1>7. oid[1] = <<0, 0, 0, a>> /\ oid[2] = <<0, 0, 0, b>>
  <2>1. \A w \in Word : w = <<w[1], w[2], w[3], w[4]>>
    BY WordOctets
  <2>2. oid[1][1] = 0 /\ oid[1][2] = 0 /\ oid[1][3] = 0 /\ oid[2][1] = 0 /\ oid[2][2] = 0
        /\ oid[2][3] = 0
    BY <1>1, Zenon DEF Below
  <2> QED BY <1>3, <2>1, <2>2, Zenon
<1> QED BY <1>1, <1>2, <1>6, <1>7, Zenon

\* The first octet, and the loop after it.
LEMMA RootReads ==
  ASSUME NEW oid \in Names, Len(oid) = 2, NEW rest \in Seq(Octet)
  PROVE  /\ OidContent(oid) \in Seq(Octet) /\ Len(OidContent(oid)) = 1
         /\ Reads(ArcWalk(OidContent(oid) \o rest)[1], oid)
<1> DEFINE a == oid[1][4]
           b == oid[2][4]
           first == (a * 40 + b) % 256
           head == <<first>>
           all == head \o rest
<1>1. /\ oid \in Seq(Word) /\ a \in 0 .. 2 /\ b \in 0 .. 39
      /\ oid[1] = <<0, 0, 0, a>> /\ oid[2] = <<0, 0, 0, b>>
  BY NameParts
<1>2. OidContent(oid) = head
  <2>1. Len(oid) - 2 = 0 /\ Len(oid) >= 2
    OBVIOUS
  <2>2. FlattenSeq(Arcs2(oid)) = <<>>
    <3>1. Arcs2(oid) \in Seq(Seq(Nat)) /\ Len(Arcs2(oid)) = 0
      BY <1>1, <2>1, Arcs2Type
    <3>2. Arcs2(oid) = <<>>
      BY <3>1, EmptySeq
    <3>3. Len(<<>>) = 0
      BY EmptySeq
    <3> QED BY <3>2, <3>3, Zenon DEF FlattenSeq
  <2>3. OidContent(oid) = head \o FlattenSeq(Arcs2(oid))
    BY Zenon DEF OidContent, Arcs2
  <2>4. first \in Nat
    <3> HIDE DEF a, b
    <3> QED BY <1>1
  <2> HIDE DEF first
  <2>5. head \in Seq(Nat)
    BY <2>4
  <2>6. head \o <<>> = head
    BY <2>5, ConcatEmptySeq
  <2> QED BY <2>2, <2>3, <2>6, Zenon
<1>3. first \in 0 .. 119 /\ first \div 40 = a /\ first % 40 = b
  <2> HIDE DEF a, b
  <2> DEFINE z == a * 40 + b
  <2>0. a \in 0 .. 2 /\ b \in 0 .. 39
    BY <1>1
  <2>1. z \in 0 .. 119 /\ z % 256 = z /\ a \in 0 .. 2 /\ b \in 0 .. 39
    BY <2>0
  <2>2. z \div 40 = a /\ z % 40 = b
    <3>1. CASE a = 0
      BY <2>1, <3>1
    <3>2. CASE a = 1
      BY <2>1, <3>2
    <3>3. CASE a = 2
      BY <2>1, <3>3
    <3> QED BY <2>1, <3>1, <3>2, <3>3
  <2> QED BY <2>1, <2>2
<1> HIDE DEF first
<1>4. head \in Seq(Octet) /\ Len(head) = 1 /\ first \in Octet
  BY <1>3 DEF Octet
<1>5. all \in Seq(Octet) /\ all # <<>> /\ all[1] = first
  BY <1>4, Prefixed
<1>6. WordOf(a) = oid[1] /\ WordOf(b) = oid[2]
  <2> HIDE DEF a, b
  <2>1. a \in 0 .. 255 /\ b \in 0 .. 255
    BY <1>1
  <2> QED BY <1>1, <2>1, WordOfType
<1>7. oid = <<oid[1], oid[2]>>
  BY <1>1
<1> HIDE DEF all, a, b
<1>8. ArcWalk(all)[1] = ArcStart(first)
  BY <1>5, ArcWalkIs, Zenon
<1>9. ArcStart(first) = Done(oid)
  BY <1>3, <1>6, <1>7, Zenon DEF ArcStart, Done
<1>10. Len(oid) <= 20
  OBVIOUS
<1>11. Reads(ArcWalk(all)[1], oid)
  BY <1>8, <1>9, <1>10, Zenon DEF Reads
<1> QED BY <1>2, <1>4, <1>11, Zenon DEF all

LEMMA OidReads ==
  ASSUME NEW oid \in Names
  PROVE  /\ OidContent(oid) = OidOctets(oid)
         /\ OidContent(oid) \in Seq(Octet)
         /\ Len(OidContent(oid)) \in Nat \ {0}
         /\ Reads(ArcWalk(OidContent(oid))[Len(OidContent(oid))], oid)
<1> DEFINE n == Len(oid)
           part(k) == SubSeq(oid, 1, k)
           c(k) == OidContent(part(k))
           P(k) == /\ c(k) \in Seq(Octet) /\ Len(c(k)) \in Nat \ {0}
                   /\ \A r \in Seq(Octet) : Reads(ArcWalk(c(k) \o r)[Len(c(k))], part(k))
           T == {i \in 0 .. n - 2 : P(i + 2)}
<1>1. /\ oid \in Seq(Word) /\ n >= 2 /\ n \in Nat /\ n - 2 \in Nat
      /\ \A i \in 1 .. n : oid[i] \in Word
      /\ Below(oid[1], 3) /\ Below(oid[2], 40)
  BY NameParts DEF Names
<1>2. ASSUME NEW k \in 2 .. n
      PROVE  part(k) \in Names /\ Len(part(k)) = k /\ part(k) \in Seq(Word)
  <2>1. k \in 0 .. Len(oid) /\ 1 \in 1 .. k /\ 2 \in 1 .. k /\ k >= 2
    BY <1>1
  <2>2. /\ part(k) \in Seq(Word) /\ Len(part(k)) = k
        /\ \A i \in 1 .. k : part(k)[i] = oid[i]
    BY <1>1, <2>1, PrefixIs
  <2> HIDE DEF part
  <2>3. Below(part(k)[1], 3) /\ Below(part(k)[2], 40)
    BY <1>1, <2>1, <2>2, Zenon
  <2>4. Len(part(k)) >= 2
    BY <2>1, <2>2
  <2> QED BY <2>2, <2>3, <2>4, Zenon DEF Names
<1>3. ASSUME NEW k \in 2 .. n - 1
      PROVE  part(k + 1) = Append(part(k), oid[k + 1])
  <2>1. k \in 2 .. n /\ k + 1 \in 2 .. n /\ k + 1 \in 1 .. n /\ k \in 0 .. n /\ k + 1 \in 0 .. n
    BY <1>1
  <2> DEFINE p == part(k)
             q == part(k + 1)
             r == Append(p, oid[k + 1])
  <2>2. /\ p \in Seq(Word) /\ Len(p) = k /\ \A i \in 1 .. k : p[i] = oid[i]
        /\ q \in Seq(Word) /\ Len(q) = k + 1 /\ \A i \in 1 .. k + 1 : q[i] = oid[i]
    BY <1>1, <2>1, PrefixIs
  <2>3. oid[k + 1] \in Word
    BY <1>1, <2>1
  <2> HIDE DEF p, q
  <2>4. /\ r \in Seq(Word) /\ Len(r) = k + 1 /\ r[k + 1] = oid[k + 1]
        /\ \A i \in 1 .. k : r[i] = p[i]
    BY <2>2, <2>3, AppendProperties
  <2> HIDE DEF r
  <2>5. \A i \in 1 .. k + 1 : q[i] = r[i]
    <3>1. \A i \in 1 .. k + 1 : i # k + 1 => i \in 1 .. k
      BY <2>1
    <3> QED BY <2>2, <2>4, <3>1, Zenon
  <2>6. q = r
    BY <2>2, <2>4, <2>5, SeqEqual, Zenon
  <2> QED BY <2>6 DEF p, q, r
<1>4. 0 \in T
  <2>1. 0 \in 0 .. n - 2 /\ 0 + 2 = 2 /\ 2 \in 2 .. n
    BY <1>1
  <2> DEFINE p == part(2)
  <2>2. p \in Names /\ Len(p) = 2
    BY <1>2, <2>1
  <2> HIDE DEF part
  <2> HIDE DEF p
  <2>3. ASSUME NEW r \in Seq(Octet)
        PROVE  /\ OidContent(p) \in Seq(Octet) /\ Len(OidContent(p)) = 1
               /\ Reads(ArcWalk(OidContent(p) \o r)[1], p)
    BY <2>2, RootReads
  <2>4. <<>> \in Seq(Octet) /\ 1 \in Nat \ {0}
    BY EmptySeq
  <2>5. P(2)
    BY <2>3, <2>4, Zenon DEF p
  <2> QED BY <2>1, <2>5, Zenon
<1>5. ASSUME NEW i \in 0 .. (n - 2) - 1, i \in T PROVE i + 1 \in T
  <2> DEFINE k == i + 2
             p == part(k)
             w == oid[k + 1]
             s == c(k)
             t == ArcOctets(w)
  <2>1. /\ k \in 2 .. n - 1 /\ i + 1 \in 0 .. n - 2 /\ (i + 1) + 2 = k + 1 /\ k + 1 \in 1 .. n
        /\ k \in 2 .. n
    BY <1>1
  <2>2. part(k + 1) = Append(p, w) /\ w \in Word /\ p \in Names /\ p \in Seq(Word) /\ Len(p) = k
    BY <1>1, <1>2, <1>3, <2>1
  <2>3. P(k)
    BY <1>5
  <2>4. Len(p) >= 2
    BY <2>1, <2>2
  <2> HIDE DEF part, k
  <2>5. c(k + 1) = s \o t
    BY <2>2, <2>4, OidContentAppend
  <2>6. PICK m \in 1 .. 5 : ArcIs(t, w, m)
    BY <2>2, ArcShape
  <2>7. t \in Seq(Octet) /\ Len(t) = m
    BY <2>6, Zenon DEF ArcIs
  <2>8. s \in Seq(Octet) /\ Len(s) \in Nat \ {0}
    BY <2>3
  <2>9. s \o t \in Seq(Octet) /\ Len(s \o t) = Len(s) + Len(t) /\ Len(s \o t) \in Nat \ {0}
    <3> HIDE DEF s, t
    <3>1. s \o t \in Seq(Octet) /\ Len(s \o t) = Len(s) + Len(t)
      BY <2>7, <2>8, ConcatProperties
    <3> QED BY <2>7, <2>8, <3>1
  <2>10. ASSUME NEW r \in Seq(Octet)
         PROVE  Reads(ArcWalk((s \o t) \o r)[Len(s \o t)], Append(p, w))
    <3> DEFINE u == t \o r
               all == s \o u
    <3>1. Reads(ArcWalk(all)[Len(s)], p)
      <4>1. u \in Seq(Octet)
        <5> HIDE DEF t
        <5> QED BY <2>7, ConcatProperties
      <4> HIDE DEF u
      <4> QED BY <2>3, <4>1
    <3> HIDE DEF s, t
    <3>2. (s \o t) \o r = all
      <4>1. s \in Seq(Nat) /\ t \in Seq(Nat) /\ r \in Seq(Nat)
        BY <2>7, <2>8, OctetsAreNumbers
      <4>2. Join(Join(s, t), r) = Join(s, Join(t, r))
        BY <4>1, JoinAssociates
      <4> QED BY <4>2, Zenon DEF Join
    <3>3. /\ u \in Seq(Octet) /\ Len(u) = Len(t) + Len(r) /\ Len(r) \in Nat
          /\ \A j \in 1 .. Len(t) + Len(r) : u[j] = IF j <= Len(t) THEN t[j] ELSE r[j - Len(t)]
      BY <2>7, ConcatProperties, LenProperties
    <3> HIDE DEF u
    <3>4. /\ all \in Seq(Octet) /\ Len(all) = Len(s) + Len(u)
          /\ \A j \in 1 .. Len(s) + Len(u) : all[j] = IF j <= Len(s) THEN s[j] ELSE u[j - Len(s)]
      BY <2>8, <3>3, ConcatProperties
    <3> HIDE DEF all
    <3> DEFINE a == Len(s)
               b == Len(t)
               d == Len(r)
    <3>5. a \in Nat \ {0} /\ b \in 1 .. 5 /\ d \in Nat /\ Len(u) = b + d /\ Len(all) = a + (b + d)
      BY <2>7, <2>8, <3>3, <3>4
    <3> HIDE DEF a, b, d
    <3>6. a \in 1 .. Len(all) /\ a + b <= Len(all)
      BY <3>5
    <3>7. ASSUME NEW j \in 1 .. b PROVE all[a + j] = t[j]
      <4>1. a + j \in 1 .. a + (b + d) /\ ~(a + j <= a) /\ (a + j) - a = j /\ j \in 1 .. b + d
            /\ j <= b
        BY <3>5
      <4>2. all[a + j] = IF a + j <= a THEN s[a + j] ELSE u[(a + j) - a]
        BY <3>4, <3>5, <4>1, Zenon DEF a
      <4>3. u[j] = IF j <= b THEN t[j] ELSE r[j - b]
        BY <3>3, <4>1, Zenon DEF b, d
      <4> QED BY <4>1, <4>2, <4>3, Zenon
    <3>8. Reads(ArcWalk(all)[a], p)
      BY <3>1 DEF a
    <3>9. a + Len(ArcOctets(w)) <= Len(all)
          /\ \A j \in 1 .. Len(ArcOctets(w)) : all[a + j] = ArcOctets(w)[j]
      BY <3>6, <3>7 DEF b, t
    <3> HIDE DEF p, w
    <3>10. Reads(ArcWalk(all)[a + Len(ArcOctets(w))], Append(p, w))
      BY <2>2, <2>4, <3>4, <3>6, <3>8, <3>9, ArcReads
    <3>11. a + Len(ArcOctets(w)) = Len(s \o t)
      BY <2>9 DEF a, t
    <3> QED BY <3>2, <3>10, <3>11, Zenon
  <2> HIDE DEF s, t, p
  <2>11. P(k + 1)
    BY <2>2, <2>5, <2>9, <2>10, Zenon
  <2> QED BY <2>1, <2>11, Zenon
<1>6. P(n)
  <2> HIDE DEF P
  <2>1. \A i \in 0 .. n - 2 : i \in T
    <3> HIDE DEF T
    <3> QED BY <1>1, <1>4, <1>5, Induct
  <2>2. n - 2 \in 0 .. n - 2 /\ (n - 2) + 2 = n
    BY <1>1
  <2>3. P((n - 2) + 2)
    BY <2>1, <2>2
  <2> QED BY <2>2, <2>3, Zenon
<1>7. part(n) = oid
  <2>1. n \in 0 .. n
    BY <1>1
  <2>2. part(n) \in Seq(Word) /\ Len(part(n)) = n /\ \A i \in 1 .. n : part(n)[i] = oid[i]
    BY <1>1, <2>1, PrefixIs
  <2> HIDE DEF part
  <2> QED BY <1>1, <2>2, SeqEqual, Zenon
<1> HIDE DEF part
<1>8. /\ OidContent(oid) \in Seq(Octet) /\ Len(OidContent(oid)) \in Nat \ {0}
      /\ \A r \in Seq(Octet) : Reads(ArcWalk(OidContent(oid) \o r)[Len(OidContent(oid))], oid)
  BY <1>6, <1>7, Zenon
<1>9. Reads(ArcWalk(OidContent(oid))[Len(OidContent(oid))], oid)
  <2>1. OidContent(oid) \o <<>> = OidContent(oid) /\ <<>> \in Seq(Octet)
    BY <1>8, ConcatEmptySeq, EmptySeq
  <2> QED BY <1>8, <2>1, Zenon
<1>10. OidContent(oid) = OidOctets(oid)
  <2> DEFINE m == n - 2
             arcs == [i \in 1 .. m |-> ArcOctets(oid[i + 2])]
             ids == [i \in 1 .. m |-> SubIdentifier(oid[i + 2])]
             first == (oid[1][4] * 40 + oid[2][4]) % 256
  <2>1. \A i \in 1 .. m : ArcOctets(oid[i + 2]) = SubIdentifier(oid[i + 2])
    <3>1. \A i \in 1 .. m : oid[i + 2] \in Word
      BY <1>1
    <3> QED BY <3>1, ArcsAgree, Zenon
  <2> HIDE DEF m
  <2>2. arcs = ids
    BY <2>1, Zenon
  <2>3. first = 40 * oid[1][4] + oid[2][4]
    <3>1. \A p \in 0 .. 2, q \in 0 .. 39 : (p * 40 + q) % 256 = 40 * p + q
      OBVIOUS
    <3> QED BY <3>1, NameParts, ZenonT(60)
  <2>4. OidContent(oid) = <<first>> \o FlattenSeq(arcs)
    BY Zenon DEF OidContent, m
  <2>5. OidOctets(oid) = <<40 * oid[1][4] + oid[2][4]>> \o FlattenSeq(ids)
    BY Zenon DEF OidOctets, m
  <2> HIDE DEF arcs, ids, first
  <2> QED BY <2>2, <2>3, <2>4, <2>5, Zenon
<1> QED BY <1>8, <1>9, <1>10, Zenon

LEMMA OidDecodes ==
  ASSUME NEW oid \in Names, NEW tlv, tlv.content = OidOctets(oid)
  PROVE  DecodeOid(tlv) = IF Len(oid) <= 20 THEN Yields(oid) ELSE Fails
<1> DEFINE content == OidContent(oid)
           end == ArcWalk(content)[Len(content)]
<1>1. /\ content = OidOctets(oid) /\ content \in Seq(Octet) /\ Len(content) \in Nat \ {0}
      /\ Reads(end, oid)
  BY OidReads
<1>2. content # <<>>
  <2> HIDE DEF content
  <2> QED BY <1>1, EmptySeq
<1>3. DecodeOid(tlv) = IF content # <<>> /\ end.ok /\ ~end.open THEN Yields(end.oid) ELSE Fails
  <2>1. tlv.content = content
    BY <1>1
  <2> DEFINE last == ArcWalk(tlv.content)[Len(tlv.content)]
  <2>2. DecodeOid(tlv)
          = IF tlv.content # <<>> /\ last.ok /\ ~last.open THEN Yields(last.oid) ELSE Fails
    BY Zenon DEF DecodeOid, ArcWalk
  <2>3. last = end
    BY <2>1, Zenon
  <2> HIDE DEF content, last, end
  <2> QED BY <2>1, <2>2, <2>3, Zenon
<1> HIDE DEF end, content
<1>4. CASE Len(oid) <= 20
  <2>1. end = Done(oid)
    BY <1>1, <1>4, Zenon DEF Reads
  <2>2. end.ok /\ ~end.open /\ end.oid = oid
    BY <2>1 DEF Done
  <2> QED BY <1>2, <1>3, <1>4, <2>2, Zenon
<1>5. CASE ~(Len(oid) <= 20)
  <2>1. ~end.ok
    BY <1>1, <1>5, Zenon DEF Reads
  <2> QED BY <1>3, <1>5, <2>1, Zenon
<1> QED BY <1>4, <1>5

-----------------------------------------------------------------------------
(* Values and varbinds. *)
LEMMA ShortLess ==
  ASSUME NEW n, Short(n), NEW m \in Nat, m <= n
  PROVE  Short(m)
<1>1. n \in Nat /\ n \div 256 < 256
  BY DEF Short
<1>2. \A j, k \in Nat : j <= k => j \div 256 <= k \div 256 /\ j \div 256 \in Int /\ k \div 256 \in Int
  OBVIOUS
<1>3. \A i, j \in Int : i <= j /\ j < 256 => i < 256
  OBVIOUS
<1>4. m \div 256 < 256
  BY <1>1, <1>2, <1>3
<1> QED BY <1>4, Zenon DEF Short

\* Whatever its length, the content is shorter than its element.
LEMMA ElementLong ==
  ASSUME NEW tag \in Nat, NEW content \in Seq(Nat), NEW form \in Forms
  PROVE  /\ Element(tag, content, form) \in Seq(Nat)
         /\ Len(content) \in Nat /\ Len(content) < Len(Element(tag, content, form))
<1> DEFINE n == Len(content)
           field == Length(n, form)
           head == <<tag>> \o field
<1>1. n \in Nat
  BY LenProperties
<1>2. field \in Seq(Nat)
  <2>1. n \div 256 \in Nat /\ n % 256 \in Nat
    <3> HIDE DEF n
    <3>1. n \div 256 \in Nat /\ n % 256 \in 0 .. 255
      BY <1>1, Halves
    <3>2. \A x \in 0 .. 255 : x \in Nat
      OBVIOUS
    <3> QED BY <3>1, <3>2, Zenon
  <2> HIDE DEF n
  <2>2. /\ <<132, 0, 0, n \div 256, n % 256>> \in Seq(Nat) /\ <<n>> \in Seq(Nat)
        /\ <<129, n>> \in Seq(Nat) /\ <<130, n \div 256, n % 256>> \in Seq(Nat)
    BY <1>1, <2>1
  <2> QED BY <2>2, Zenon DEF Length
<1>3. Element(tag, content, form) = head \o content
  BY Zenon DEF Element
<1> HIDE DEF field, n
<1>4. head \in Seq(Nat) /\ Len(head) = 1 + Len(field) /\ Len(field) \in Nat
  BY <1>2, Prefixed, LenProperties
<1> HIDE DEF head
<1>5. head \o content \in Seq(Nat) /\ Len(head \o content) = Len(head) + n
  BY <1>4, ConcatProperties DEF n
<1>6. n < Len(head \o content)
  BY <1>1, <1>4, <1>5
<1> QED BY <1>1, <1>3, <1>5, <1>6, Zenon DEF n

\* An element that is made of octets has room for its length.
LEMMA ElementShort ==
  ASSUME NEW tag \in Nat, NEW content \in Seq(Nat), NEW form \in Forms,
         Element(tag, content, form) \in Seq(Octet)
  PROVE  Short(Len(content))
<1> DEFINE n == Len(content)
           field == Length(n, form)
           head == <<tag>> \o field
           all == head \o content
           hi == n \div 256
<1>1. n \in Nat /\ hi \in Nat /\ n % 256 \in Nat
  <2>1. n \in Nat
    BY LenProperties
  <2> HIDE DEF n
  <2>2. hi \in Nat /\ n % 256 \in 0 .. 255
    BY <2>1, Halves
  <2> QED BY <2>1, <2>2
<1>2. all \in Seq(Octet)
  BY Zenon DEF Element
<1>3. CASE n < 256
  <2>1. hi = 0
    <3> HIDE DEF n
    <3> QED BY <1>1, <1>3
  <2>2. 0 < 256
    OBVIOUS
  <2> HIDE DEF n
  <2> QED BY <1>1, <2>1, <2>2 DEF Short, n
<1>4. CASE ~(n < 256)
  <2>1. \E i \in 1 .. Len(field) : field[i] = hi
    <3> HIDE DEF n
    <3>1. ~(n < 128)
      BY <1>1, <1>4
    <3>2. CASE form = "wide"
      <4>1. field = <<132, 0, 0, hi, n % 256>>
        BY <3>2, Zenon DEF Length
      <4> HIDE DEF field, hi
      <4> QED BY <4>1
    <3>3. CASE form # "wide"
      <4>1. field = <<130, hi, n % 256>>
        BY <1>4, <3>1, <3>3, Zenon DEF Length
      <4> HIDE DEF field, hi
      <4> QED BY <4>1
    <3> QED BY <3>2, <3>3
  <2>2. PICK i \in 1 .. Len(field) : field[i] = hi
    BY <2>1
  <2>3. field \in Seq(Nat)
    <3> HIDE DEF n
    <3> DEFINE low == n % 256
               wide == <<132, 0, 0, hi, low>>
               long == <<130, hi, low>>
    <3>1. n \in Nat /\ hi \in Nat /\ low \in Nat
      BY <1>1
    <3>2. wide \in Seq(Nat) /\ long \in Seq(Nat) /\ <<n>> \in Seq(Nat) /\ <<129, n>> \in Seq(Nat)
      <4> HIDE DEF hi, low
      <4> QED BY <3>1
    <3>3. field = IF form = "wide" THEN wide ELSE IF n < 128 THEN <<n>>
                  ELSE IF n < 256 THEN <<129, n>> ELSE long
      BY Zenon DEF Length
    <3> HIDE DEF wide, long, field
    <3> QED BY <3>2, <3>3
  <2> HIDE DEF field
  <2>4. /\ head \in Seq(Nat) /\ Len(head) = 1 + Len(field) /\ Len(field) \in Nat
        /\ \A j \in 1 .. 1 + Len(field) : head[j] = IF j <= 1 THEN tag ELSE field[j - 1]
    <3>1. <<tag>> \in Seq(Nat) /\ Len(<<tag>>) = 1 /\ <<tag>>[1] = tag
      OBVIOUS
    <3> DEFINE h == <<tag>>
    <3> HIDE DEF h
    <3>2. /\ h \o field \in Seq(Nat) /\ Len(h \o field) = 1 + Len(field) /\ Len(field) \in Nat
          /\ \A j \in 1 .. 1 + Len(field) : (h \o field)[j] = IF j <= 1 THEN h[j] ELSE field[j - 1]
      BY <2>3, <3>1, ConcatProperties, LenProperties DEF h
    <3>3. \A j \in 1 .. 1 + Len(field) : j <= 1 => j = 1
      BY <3>2
    <3> QED BY <3>1, <3>2, <3>3 DEF h
  <2>5. head[1 + i] = hi /\ 1 + i \in 1 .. Len(head)
    <3>1. 1 + i \in 1 .. 1 + Len(field) /\ ~(1 + i <= 1) /\ (1 + i) - 1 = i
      BY <2>4
    <3> HIDE DEF head
    <3> QED BY <2>2, <2>4, <3>1
  <2> HIDE DEF head
  <2>6. /\ Len(all) = Len(head) + n
        /\ \A j \in 1 .. Len(head) + n : all[j] = IF j <= Len(head) THEN head[j] ELSE content[j - Len(head)]
    BY <2>4, ConcatProperties
  <2> DEFINE j == 1 + i
  <2> HIDE DEF n, all, j
  <2>7. j \in 1 .. Len(all) /\ j <= Len(head) /\ j \in 1 .. Len(head) + n
    BY <1>1, <2>4, <2>5, <2>6 DEF j
  <2>8. all[j] = hi
    BY <2>5, <2>6, <2>7, Zenon DEF j
  <2>9. all[j] \in Octet
    BY <1>2, <2>7, ElementOfSeq
  <2>10. hi < 256
    <3>1. \A o \in Octet : o < 256
      BY DEF Octet
    <3> QED BY <2>8, <2>9, <3>1, Zenon
  <2> QED BY <1>1, <2>10, Zenon DEF Short, n
<1> QED BY <1>3, <1>4

\* The kinds of values, and the ones that the context has room for.
Kind(vb) ==
  \/ vb.tag = Tag.integer /\ vb.value \in Word
  \/ vb.tag \in UnsignedTags /\ vb.value \in Word
  \/ vb.tag = Tag.counter64 /\ vb.value \in Word64
  \/ vb.tag = Tag.oid /\ vb.value \in Names
  \/ vb.tag \in ByteTags /\ vb.value \in Seq(Octet)
  \/ vb.tag \in NullTags /\ vb.value = <<>>

LEMMA SendableFields ==
  ASSUME NEW vb \in Sendable
  PROVE  /\ vb.oid \in Names /\ vb.tag \in Octet /\ Kind(vb)
         /\ vb = [oid |-> vb.oid, tag |-> vb.tag, value |-> vb.value]
<1>1. \/ vb \in [oid : Names, tag : UnsignedTags \cup {Tag.integer}, value : Word]
      \/ vb \in [oid : Names, tag : {Tag.counter64}, value : Word64]
      \/ vb \in [oid : Names, tag : {Tag.oid}, value : Names]
      \/ vb \in [oid : Names, tag : ByteTags, value : Seq(Octet)]
      \/ vb \in [oid : Names, tag : NullTags, value : {<<>>}]
  BY Zenon DEF Sendable
<1>2. vb.oid \in Names /\ Kind(vb)
  BY <1>1 DEF Kind
<1>3. vb.tag \in Octet
  BY <1>2, TagValues DEF Octet, Kind
<1>4. vb = [oid |-> vb.oid, tag |-> vb.tag, value |-> vb.value]
  BY <1>1
<1> QED BY <1>2, <1>3, <1>4, Zenon

Fits(vb) ==
  /\ vb.tag = Tag.oid => Len(vb.value) <= 20
  /\ vb.tag \in ByteTags => Len(vb.value) <= MaxOctets

Means(content, vb) ==
  \A tlv : tlv.tag = vb.tag /\ tlv.content = content
           => DecodeValue(tlv) = IF Fits(vb) THEN Yields(vb.value) ELSE Fails

ValueIs(vb, form, content) ==
  content \in Seq(Octet) /\ Value(vb, form) = Element(vb.tag, content, form) /\ Means(content, vb)

\* What the reference chooses by the tag.
LEMMA ValueByTag ==
  ASSUME NEW vb, NEW form \in Forms
  PROVE  /\ vb.tag = Tag.integer =>
              Value(vb, form) = Element(vb.tag, IF form = "wide" THEN vb.value
                                                ELSE ShortestSigned(vb.value), form)
         /\ vb.tag \in UnsignedTags \cup {Tag.counter64} =>
              \E content \in {ShortestPositive(vb.value), <<0>> \o vb.value, vb.value} :
                Value(vb, form) = Element(vb.tag, content, form)
         /\ vb.tag = Tag.oid => Value(vb, form) = Element(vb.tag, OidOctets(vb.value), form)
         /\ vb.tag \in ByteTags \cup NullTags => Value(vb, form) = Element(vb.tag, vb.value, form)
<1>1. UnsignedTags \cup {Tag.counter64}
        = {Tag.counter32, Tag.gauge32, Tag.timeTicks, Tag.counter64}
  BY DEF UnsignedTags
<1>2. form \in {"shortest", "wide", "bare"}
  BY DEF Forms
<1>3. ASSUME NEW tag, NEW w
      PROVE  \E content \in {ShortestPositive(w), <<0>> \o w, w} :
               Positive(tag, w, form) = Element(tag, content, form)
  <2>1. CASE form = "shortest"
    BY <2>1 DEF Positive
  <2>2. CASE form = "wide"
    BY <2>2 DEF Positive
  <2>3. CASE form = "bare"
    BY <2>3 DEF Positive
  <2> QED BY <1>2, <2>1, <2>2, <2>3
<1>4. vb.tag = Tag.integer => Value(vb, form) = Number(vb.value, form)
  BY <1>1, TagsApart DEF Value
<1>5. vb.tag \in UnsignedTags \cup {Tag.counter64}
      => Value(vb, form) = Positive(vb.tag, vb.value, form)
  BY <1>1, TagsApart DEF Value
<1>6. vb.tag = Tag.oid => Value(vb, form) = Element(vb.tag, OidOctets(vb.value), form)
  BY <1>1, TagsApart DEF Value
<1>7. vb.tag \in ByteTags \cup NullTags => Value(vb, form) = Element(vb.tag, vb.value, form)
  BY <1>1, TagsApart DEF Value
<1> QED BY <1>3, <1>4, <1>5, <1>6, <1>7, Zenon DEF Number

LEMMA ValueMeans ==
  ASSUME NEW vb \in Sendable, NEW form \in Forms
  PROVE  \E content : ValueIs(vb, form, content)
<1>1. Kind(vb)
  BY SendableFields
<1> USE DEF Kind
<1> DEFINE w == vb.value
           always(result) == IF Fits(vb) THEN Yields(w) ELSE Fails
<1>2. vb.tag # Tag.oid /\ vb.tag \notin ByteTags => Fits(vb)
  BY Zenon DEF Fits
<1>3. CASE vb.tag = Tag.integer
  <2>1. w \in Word /\ Fits(vb)
    BY <1>1, <1>2, <1>3, TagsApart
  <2> DEFINE content == IF form = "wide" THEN w ELSE ShortestSigned(w)
  <2>2. Signs(content, w)
    BY <2>1, IntegerSigns
  <2>3. Value(vb, form) = Element(vb.tag, content, form)
    BY <1>3, ValueByTag
  <2> HIDE DEF content
  <2>4. ASSUME NEW tlv, tlv.tag = vb.tag, tlv.content = content
        PROVE  DecodeValue(tlv) = Yields(w)
    <3>1. DecodeValue(tlv) = DecodeInteger(tlv)
      BY <1>3, <2>4, DecodeByTag
    <3>2. Signs(tlv.content, w)
      BY <2>2, <2>4
    <3>3. DecodeInteger(tlv) = Yields(w)
      BY <2>1, <3>2, SignsDecode
    <3> QED BY <3>1, <3>3, Zenon
  <2>5. Means(content, vb)
    BY <2>1, <2>4, Zenon DEF Means
  <2>6. content \in Seq(Octet)
    BY <2>2, Zenon DEF Signs
  <2> QED BY <2>3, <2>5, <2>6, Zenon DEF ValueIs
<1>4. ASSUME NEW n \in {4, 8}, w \in [1 .. n -> Octet], vb.tag \in UnsignedTags \cup {Tag.counter64},
             \A tlv : tlv.tag = vb.tag => DecodeValue(tlv) = DecodeUnsigned(tlv, n)
      PROVE  \E content : ValueIs(vb, form, content)
  <2>1. Fits(vb)
    BY <1>2, <1>4, TagsApart
  <2>2. PICK content \in {ShortestPositive(w), <<0>> \o w, w} :
          Value(vb, form) = Element(vb.tag, content, form)
    BY <1>4, ValueByTag, Zenon
  <2>3. Pads(content, w, n)
    BY <1>4, <2>2, UnsignedPads
  <2>4. ASSUME NEW tlv, tlv.tag = vb.tag, tlv.content = content
        PROVE  DecodeValue(tlv) = Yields(w)
    <3>1. DecodeValue(tlv) = DecodeUnsigned(tlv, n)
      BY <1>4, <2>4, Zenon
    <3>2. Pads(tlv.content, w, n)
      BY <2>3, <2>4
    <3>3. DecodeUnsigned(tlv, n) = Yields(w)
      BY <1>4, <3>2, PadsDecode
    <3> QED BY <3>1, <3>3, Zenon
  <2>5. Means(content, vb)
    BY <2>1, <2>4, Zenon DEF Means
  <2>6. content \in Seq(Octet)
    BY <2>3, Zenon DEF Pads
  <2> QED BY <2>2, <2>5, <2>6, Zenon DEF ValueIs
<1>5. CASE vb.tag \in UnsignedTags
  <2>1. w \in [1 .. 4 -> Octet] /\ 4 \in {4, 8}
    BY <1>1, <1>5, TagsApart DEF Word
  <2>2. \A tlv : tlv.tag = vb.tag => DecodeValue(tlv) = DecodeUnsigned(tlv, 4)
    BY <1>5, DecodeByTag
  <2> QED BY <1>4, <1>5, <2>1, <2>2
<1>6. CASE vb.tag = Tag.counter64
  <2>1. w \in [1 .. 8 -> Octet] /\ 8 \in {4, 8}
    BY <1>1, <1>6, TagsApart DEF Word64
  <2>2. \A tlv : tlv.tag = vb.tag => DecodeValue(tlv) = DecodeUnsigned(tlv, 8)
    BY <1>6, DecodeByTag
  <2> QED BY <1>4, <1>6, <2>1, <2>2
<1>7. CASE vb.tag = Tag.oid
  <2> DEFINE content == OidOctets(w)
  <2>1. w \in Names /\ (Fits(vb) <=> Len(w) <= 20)
    <3>1. vb.tag \notin ByteTags /\ w \in Names
      BY <1>1, <1>7, TagsApart
    <3> QED BY <1>7, <3>1, Zenon DEF Fits
  <2>2. Value(vb, form) = Element(vb.tag, content, form)
    BY <1>7, ValueByTag
  <2>3. content \in Seq(Octet)
    BY <2>1, OidReads
  <2> HIDE DEF content
  <2>4. ASSUME NEW tlv, tlv.tag = vb.tag, tlv.content = content
        PROVE  DecodeValue(tlv) = IF Fits(vb) THEN Yields(w) ELSE Fails
    <3>1. DecodeValue(tlv) = DecodeOid(tlv)
      BY <1>7, <2>4, DecodeByTag
    <3>2. tlv.content = OidOctets(w)
      BY <2>4 DEF content
    <3>3. DecodeOid(tlv) = IF Len(w) <= 20 THEN Yields(w) ELSE Fails
      BY <2>1, <3>2, OidDecodes
    <3> QED BY <2>1, <3>1, <3>3, Zenon
  <2>5. Means(content, vb)
    BY <2>4, Zenon DEF Means
  <2> QED BY <2>2, <2>3, <2>5, Zenon DEF ValueIs
<1>8. CASE vb.tag \in ByteTags
  <2>1. w \in Seq(Octet) /\ (Fits(vb) <=> Len(w) <= MaxOctets)
    <3>1. vb.tag # Tag.oid /\ w \in Seq(Octet)
      BY <1>1, <1>8, TagsApart
    <3> QED BY <1>8, <3>1, Zenon DEF Fits
  <2>2. Value(vb, form) = Element(vb.tag, w, form)
    BY <1>8, ValueByTag
  <2>3. Len(w) \in Nat /\ MaxOctets \in Nat
    BY <2>1, LenProperties, CodecAssumption
  <2>4. ASSUME NEW tlv, tlv.tag = vb.tag, tlv.content = w
        PROVE  DecodeValue(tlv) = IF Fits(vb) THEN Yields(w) ELSE Fails
    <3>1. DecodeValue(tlv) = DecodeOctets(tlv, MaxOctets)
      BY <1>8, <2>4, DecodeByTag
    <3>2. DecodeOctets(tlv, MaxOctets) = IF Len(w) > MaxOctets THEN Fails ELSE Yields(w)
      BY <2>4, Zenon DEF DecodeOctets
    <3>3. Len(w) > MaxOctets <=> ~(Len(w) <= MaxOctets)
      BY <2>3
    <3> QED BY <2>1, <3>1, <3>2, <3>3, Zenon
  <2>5. Means(w, vb)
    BY <2>4, Zenon DEF Means
  <2> QED BY <2>1, <2>2, <2>5, Zenon DEF ValueIs
<1>9. CASE vb.tag \in NullTags
  <2>1. w = <<>> /\ Fits(vb) /\ <<>> \in Seq(Octet)
    BY <1>1, <1>2, <1>9, TagsApart, EmptySeq
  <2>2. Value(vb, form) = Element(vb.tag, w, form)
    BY <1>9, ValueByTag
  <2>4. ASSUME NEW tlv, tlv.tag = vb.tag, tlv.content = w
        PROVE  DecodeValue(tlv) = Yields(w)
    <3>1. DecodeValue(tlv) = DecodeNull(tlv)
      BY <1>9, <2>4, DecodeByTag
    <3>2. DecodeNull(tlv) = Yields(<<>>)
      BY <2>1, <2>4, Zenon DEF DecodeNull
    <3> QED BY <2>1, <3>1, <3>2, Zenon
  <2>5. Means(w, vb)
    BY <2>1, <2>4, Zenon DEF Means
  <2> QED BY <2>1, <2>2, <2>5, Zenon DEF ValueIs
<1> QED BY <1>1, <1>3, <1>5, <1>6, <1>7, <1>8, <1>9

Pair(vb, form) == Element(Tag.oid, OidOctets(vb.oid), form) \o Value(vb, form)

Good(vb) == Len(vb.oid) <= 20 /\ Fits(vb)

\* A part of a sequence is no longer than it.
LEMMA PartsLong ==
  ASSUME NEW s \in Seq(Nat), NEW t \in Seq(Nat)
  PROVE  /\ s \o t \in Seq(Nat) /\ Len(s) \in Nat /\ Len(t) \in Nat /\ Len(s \o t) = Len(s) + Len(t)
         /\ Len(s) <= Len(s \o t) /\ Len(t) <= Len(s \o t)
<1>1. s \o t \in Seq(Nat) /\ Len(s) \in Nat /\ Len(t) \in Nat /\ Len(s \o t) = Len(s) + Len(t)
  BY ConcatProperties, LenProperties
<1> DEFINE a == Len(s)
           b == Len(t)
           c == Len(s \o t)
<1> HIDE DEF a, b, c
<1>2. a <= c /\ b <= c
  BY <1>1 DEF a, b, c
<1> QED BY <1>1, <1>2 DEF a, b, c

LEMMA TagsAreOctets ==
  /\ Tag.oid \in Octet /\ Tag.sequence \in Octet /\ Tag.integer \in Octet /\ Tag.octets \in Octet
  /\ Octet \subseteq Nat
  BY DEF Tag, Octet

LEMMA PairLong ==
  ASSUME NEW vb \in Sendable, NEW form \in Forms
  PROVE  Pair(vb, form) \in Seq(Nat)
<1>1. vb.oid \in Names /\ vb.tag \in Nat
  BY SendableFields, TagsAreOctets
<1>2. OidOctets(vb.oid) \in Seq(Nat)
  BY <1>1, OidReads, OctetsAreNumbers
<1>3. Element(Tag.oid, OidOctets(vb.oid), form) \in Seq(Nat)
  BY <1>2, ElementLong, TagsAreOctets
<1>4. PICK content : ValueIs(vb, form, content)
  BY ValueMeans
<1>5. content \in Seq(Nat) /\ Value(vb, form) = Element(vb.tag, content, form)
  BY <1>4, OctetsAreNumbers DEF ValueIs
<1>6. Value(vb, form) \in Seq(Nat)
  BY <1>1, <1>5, ElementLong
<1> QED BY <1>3, <1>6, ConcatProperties DEF Pair

LEMMA PairDecodes ==
  ASSUME NEW vb \in Sendable, NEW form \in Forms, Short(Len(Pair(vb, form)))
  PROVE  /\ Pair(vb, form) \in Seq(Octet)
         /\ DecodeVarbind(Pair(vb, form)) = IF Good(vb) THEN Yields(vb) ELSE Fails
<1> DEFINE octets == OidOctets(vb.oid)
           first == Element(Tag.oid, octets, form)
           second == Value(vb, form)
           all == first \o second
<1>0. all = Pair(vb, form)
  BY Zenon DEF Pair
<1>1. vb.oid \in Names /\ vb.tag \in Octet /\ vb.tag \in Nat
  BY SendableFields, TagsAreOctets
<1>2. octets \in Seq(Octet) /\ octets \in Seq(Nat)
  BY <1>1, OidReads, OctetsAreNumbers
<1>3. PICK content : ValueIs(vb, form, content)
  BY ValueMeans
<1>4. /\ content \in Seq(Octet) /\ content \in Seq(Nat)
      /\ second = Element(vb.tag, content, form) /\ Means(content, vb)
  BY <1>3, OctetsAreNumbers DEF ValueIs
<1>5. /\ first \in Seq(Nat) /\ Len(octets) \in Nat /\ Len(octets) < Len(first)
      /\ second \in Seq(Nat) /\ Len(content) \in Nat /\ Len(content) < Len(second)
  <2>1. first \in Seq(Nat) /\ Len(octets) \in Nat /\ Len(octets) < Len(first)
    <3> HIDE DEF octets
    <3> QED BY <1>2, ElementLong, TagsAreOctets
  <2>2. second \in Seq(Nat) /\ Len(content) \in Nat /\ Len(content) < Len(second)
    BY <1>1, <1>4, ElementLong
  <2> QED BY <2>1, <2>2
<1>6. Short(Len(octets)) /\ Short(Len(content))
  <2> HIDE DEF octets, first, second
  <2>1. /\ Len(first) \in Nat /\ Len(second) \in Nat
        /\ Len(first) <= Len(all) /\ Len(second) <= Len(all)
    BY <1>5, PartsLong
  <2>2. Short(Len(all))
    BY <1>0
  <2> HIDE DEF all
  <2> DEFINE a == Len(octets)
             b == Len(content)
             c == Len(all)
  <2>3. Len(all) \in Nat
    BY <2>2 DEF Short
  <2>4. a \in Nat /\ b \in Nat /\ a <= c /\ b <= c
    BY <1>5, <2>1, <2>3
  <2> HIDE DEF a, b, c
  <2>5. Short(c)
    BY <2>2 DEF c
  <2>6. Short(a) /\ Short(b)
    BY <2>4, <2>5, ShortLess
  <2> QED BY <2>6 DEF a, b
<1>7. second \in Seq(Octet) /\ DecodeTlv(second)
        = [ok |-> TRUE, tag |-> vb.tag, content |-> content, rest |-> <<>>]
  BY <1>1, <1>4, <1>6, LoneElement, Zenon
<1> HIDE DEF second, octets
<1>8. /\ first \in Seq(Octet)
      /\ DecodeTlv(all) = [ok |-> TRUE, tag |-> Tag.oid, content |-> octets, rest |-> second]
  <2>1. Tag.oid \in Octet
    BY TagsAreOctets
  <2> QED BY <1>2, <1>6, <1>7, <2>1, ElementDecodes
<1>9. all \in Seq(Octet)
  <2> HIDE DEF first
  <2> QED BY <1>7, <1>8, ConcatProperties
<1> HIDE DEF all, first
<1> DEFINE name == Expect(all, Tag.oid)
           oid == DecodeOid(name)
           tlv == DecodeTlv(name.rest)
           value == DecodeValue(tlv)
<1>10. name = [ok |-> TRUE, tag |-> Tag.oid, content |-> octets, rest |-> second]
  <2>1. DecodeTlv(all).tag = Tag.oid
    BY <1>8
  <2> QED BY <1>8, <2>1, Zenon DEF Expect
<1>11. DecodeVarbind(all)
         = IF oid.ok /\ value.ok
           THEN Yields([oid |-> oid.value, tag |-> tlv.tag, value |-> value.value])
           ELSE Fails
  BY Zenon DEF DecodeVarbind
<1> HIDE DEF name
<1>12. name.content = octets /\ name.rest = second
  BY <1>10
<1>13. oid = IF Len(vb.oid) <= 20 THEN Yields(vb.oid) ELSE Fails
  <2>1. name.content = OidOctets(vb.oid)
    BY <1>12 DEF octets
  <2> QED BY <1>1, <2>1, OidDecodes
<1>14. tlv = [ok |-> TRUE, tag |-> vb.tag, content |-> content, rest |-> <<>>]
  BY <1>7, <1>12, Zenon
<1> HIDE DEF tlv, oid
<1>15. tlv.tag = vb.tag /\ tlv.content = content
  BY <1>14
<1>16. value = IF Fits(vb) THEN Yields(vb.value) ELSE Fails
  BY <1>4, <1>15, Zenon DEF Means
<1> HIDE DEF value
<1>17. ~Fails.ok /\ \A v : Yields(v).ok /\ Yields(v).value = v
  BY DEF Fails, Yields
<1>18. CASE Good(vb)
  <2>1. oid = Yields(vb.oid) /\ value = Yields(vb.value)
    BY <1>13, <1>16, <1>18, Zenon DEF Good
  <2>2. oid.ok /\ value.ok /\ oid.value = vb.oid /\ value.value = vb.value
    BY <1>17, <2>1, Zenon
  <2>3. vb = [oid |-> vb.oid, tag |-> vb.tag, value |-> vb.value]
    BY SendableFields
  <2>4. DecodeVarbind(all) = Yields([oid |-> vb.oid, tag |-> vb.tag, value |-> vb.value])
    BY <1>11, <1>15, <2>2, Zenon
  <2> QED BY <1>0, <1>9, <1>18, <2>3, <2>4, Zenon
<1>19. CASE ~Good(vb)
  <2>1. oid = Fails \/ value = Fails
    BY <1>13, <1>16, <1>19, Zenon DEF Good
  <2>2. DecodeVarbind(all) = Fails
    BY <1>11, <1>17, <2>1, Zenon
  <2> QED BY <1>0, <1>9, <1>19, <2>2, Zenon
<1> QED BY <1>18, <1>19

-----------------------------------------------------------------------------
(* Lists of varbinds. *)
LEMMA PrefixAppend ==
  ASSUME NEW S, NEW s \in Seq(S), NEW k \in 0 .. Len(s) - 1
  PROVE  /\ SubSeq(s, 1, k) \in Seq(S) /\ Len(SubSeq(s, 1, k)) = k /\ s[k + 1] \in S
         /\ SubSeq(s, 1, k + 1) = Append(SubSeq(s, 1, k), s[k + 1])
<1> DEFINE p == SubSeq(s, 1, k)
           q == SubSeq(s, 1, k + 1)
           r == Append(p, s[k + 1])
<1>1. k \in Nat /\ k + 1 \in 1 .. Len(s) /\ k \in 0 .. Len(s) /\ k + 1 \in 0 .. Len(s)
  BY LenProperties
<1>2. /\ p \in Seq(S) /\ Len(p) = k /\ \A i \in 1 .. k : p[i] = s[i]
      /\ q \in Seq(S) /\ Len(q) = k + 1 /\ \A i \in 1 .. k + 1 : q[i] = s[i]
  BY <1>1, PrefixIs
<1>3. s[k + 1] \in S
  BY <1>1, ElementOfSeq
<1> HIDE DEF p, q
<1>4. /\ r \in Seq(S) /\ Len(r) = k + 1 /\ r[k + 1] = s[k + 1]
      /\ \A i \in 1 .. k : r[i] = p[i]
  BY <1>2, <1>3, AppendProperties
<1> HIDE DEF r
<1>5. \A i \in 1 .. k + 1 : q[i] = r[i]
  <2>1. \A i \in 1 .. k + 1 : i # k + 1 => i \in 1 .. k
    BY <1>1
  <2> QED BY <1>2, <1>4, <2>1, Zenon
<1>6. q = r
  BY <1>2, <1>4, <1>5, SeqEqual, Zenon
<1> QED BY <1>2, <1>3, <1>6, Zenon DEF p, q, r

LEMMA WholePrefix ==
  ASSUME NEW S, NEW s \in Seq(S)
  PROVE  SubSeq(s, 1, Len(s)) = s
<1> DEFINE n == Len(s)
           p == SubSeq(s, 1, n)
<1>1. n \in Nat /\ n \in 0 .. n
  BY LenProperties
<1>2. p \in Seq(S) /\ Len(p) = n /\ \A i \in 1 .. n : p[i] = s[i]
  BY <1>1, PrefixIs
<1> HIDE DEF p
<1>3. p = s
  BY <1>2, SeqEqual, Zenon
<1> QED BY <1>3 DEF p

LEMMA NoPrefix ==
  ASSUME NEW S, NEW s \in Seq(S)
  PROVE  SubSeq(s, 1, 0) = <<>>
<1>1. 0 \in 0 .. Len(s)
  BY LenProperties
<1>2. SubSeq(s, 1, 0) \in Seq(S) /\ Len(SubSeq(s, 1, 0)) = 0
  BY <1>1, PrefixIs
<1> QED BY <1>2, EmptySeq

\* The first k sequences put together.
Flat(seqs, k) == FlattenSeq(SubSeq(seqs, 1, k))

LEMMA FlatNext ==
  ASSUME NEW S, NEW seqs \in Seq(Seq(S)), NEW k \in 0 .. Len(seqs) - 1
  PROVE  /\ Flat(seqs, k) \in Seq(S) /\ seqs[k + 1] \in Seq(S)
         /\ Flat(seqs, k + 1) = Flat(seqs, k) \o seqs[k + 1]
<1> DEFINE p == SubSeq(seqs, 1, k)
           s == seqs[k + 1]
<1>1. p \in Seq(Seq(S)) /\ s \in Seq(S) /\ SubSeq(seqs, 1, k + 1) = Append(p, s)
  BY PrefixAppend
<1> HIDE DEF p, s
<1>2. FlattenSeq(p) \in Seq(S) /\ FlattenSeq(Append(p, s)) = FlattenSeq(p) \o s
  BY <1>1, FlattenType, FlattenAppend
<1> QED BY <1>1, <1>2, Zenon DEF Flat, p, s

LEMMA FlatEnds ==
  ASSUME NEW S, NEW seqs \in Seq(Seq(S))
  PROVE  Flat(seqs, 0) = <<>> /\ Flat(seqs, Len(seqs)) = FlattenSeq(seqs)
<1>1. SubSeq(seqs, 1, 0) = <<>> /\ SubSeq(seqs, 1, Len(seqs)) = seqs
  BY NoPrefix, WholePrefix
<1>2. FlattenSeq(<<>>) = <<>>
  <2>1. Len(<<>>) = 0
    BY EmptySeq
  <2> QED BY <2>1, Zenon DEF FlattenSeq
<1> QED BY <1>1, <1>2, Zenon DEF Flat

LEMMA FlatSplit ==
  ASSUME NEW S, S \subseteq Nat, NEW seqs \in Seq(Seq(S)), NEW k \in 0 .. Len(seqs) - 1
  PROVE  \E r \in Seq(S) : FlattenSeq(seqs) = Flat(seqs, k) \o (seqs[k + 1] \o r)
<1> DEFINE n == Len(seqs)
           m == n - (k + 1)
           p == Flat(seqs, k)
           s == seqs[k + 1]
           T == {i \in 0 .. m : \E r \in Seq(S) : Flat(seqs, k + 1 + i) = p \o (s \o r)}
<1>1. n \in Nat /\ m \in Nat /\ k \in Nat /\ 0 \in 0 .. m /\ m \in 0 .. m /\ k + 1 + m = n
      /\ k + 1 + 0 = k + 1
  BY LenProperties
<1>2. p \in Seq(S) /\ s \in Seq(S) /\ Flat(seqs, k + 1) = p \o s
  BY FlatNext
<1>3. Seq(S) \subseteq Seq(Nat)
  BY SeqMonotonic
<1> HIDE DEF m, p, s, n
<1>4. 0 \in T
  <2>1. s \o <<>> = s /\ <<>> \in Seq(S)
    BY <1>2, ConcatEmptySeq, EmptySeq
  <2> QED BY <1>1, <1>2, <2>1, Zenon
<1>5. ASSUME NEW i \in 0 .. m - 1, i \in T PROVE i + 1 \in T
  <2> DEFINE j == k + 1 + i
             t == seqs[j + 1]
  <2>1. i + 1 \in 0 .. m /\ j \in 0 .. n - 1 /\ k + 1 + (i + 1) = j + 1
    BY <1>1
  <2>2. PICK r \in Seq(S) : Flat(seqs, j) = p \o (s \o r)
    BY <1>5
  <2>3. t \in Seq(S) /\ Flat(seqs, j + 1) = Flat(seqs, j) \o t
    BY <2>1, FlatNext DEF n
  <2> HIDE DEF t, j
  <2>4. (p \o (s \o r)) \o t = p \o (s \o (r \o t))
    <3> DEFINE u == s \o r
    <3>1. /\ p \in Seq(Nat) /\ s \in Seq(Nat) /\ r \in Seq(Nat) /\ t \in Seq(Nat) /\ u \in Seq(Nat)
      <4>1. p \in Seq(Nat) /\ s \in Seq(Nat) /\ r \in Seq(Nat) /\ t \in Seq(Nat)
        BY <1>2, <1>3, <2>3
      <4> QED BY <4>1, ConcatProperties
    <3>2. u = Join(s, r)
      BY Zenon DEF Join
    <3> HIDE DEF u
    <3>3. Join(Join(p, u), t) = Join(p, Join(u, t))
      BY <3>1, JoinAssociates
    <3>4. Join(Join(s, r), t) = Join(s, Join(r, t))
      BY <3>1, JoinAssociates
    <3>5. Join(Join(p, Join(s, r)), t) = Join(p, Join(s, Join(r, t)))
      BY <3>2, <3>3, <3>4, Zenon
    <3> QED BY <3>5, Zenon DEF Join
  <2>5. r \o t \in Seq(S)
    BY <2>3, ConcatProperties
  <2>6. Flat(seqs, k + 1 + (i + 1)) = p \o (s \o (r \o t))
    BY <2>1, <2>2, <2>3, <2>4, Zenon
  <2> QED BY <2>1, <2>5, <2>6
<1>6. \A i \in 0 .. m : i \in T
  <2> HIDE DEF T
  <2> QED BY <1>1, <1>4, <1>5, Induct
<1>7. \E r \in Seq(S) : Flat(seqs, n) = p \o (s \o r)
  <2>1. m \in T
    BY <1>1, <1>6
  <2>2. \E r \in Seq(S) : Flat(seqs, k + 1 + m) = p \o (s \o r)
    BY <2>1
  <2> QED BY <1>1, <2>2, Zenon
<1>8. Flat(seqs, n) = FlattenSeq(seqs)
  BY FlatEnds DEF n
<1> QED BY <1>7, <1>8, Zenon DEF p, s

Item(vb, form) == Element(Tag.sequence, Pair(vb, form), form)
Items(vbs, form) == [i \in DOMAIN vbs |-> Item(vbs[i], form)]

LEMMA BindingsAre ==
  ASSUME NEW vbs, NEW form
  PROVE  Bindings(vbs, form) = Element(Tag.sequence, FlattenSeq(Items(vbs, form)), form)
BY Zenon DEF Bindings, Items, Item, Pair

LEMMA ItemsType ==
  ASSUME NEW S, NEW vbs \in Seq(Sendable), NEW form,
         \A i \in 1 .. Len(vbs) : Item(vbs[i], form) \in Seq(S)
  PROVE  /\ Items(vbs, form) \in Seq(Seq(S)) /\ Len(Items(vbs, form)) = Len(vbs)
         /\ \A i \in 1 .. Len(vbs) : Items(vbs, form)[i] = Item(vbs[i], form)
<1>1. DOMAIN vbs = 1 .. Len(vbs) /\ Len(vbs) \in Nat
  BY LenProperties
<1>2. Items(vbs, form) = [i \in 1 .. Len(vbs) |-> Item(vbs[i], form)]
  BY <1>1, Zenon DEF Items
<1> QED BY <1>1, <1>2

LEMMA ItemsLong ==
  ASSUME NEW vbs \in Seq(Sendable), NEW form \in Forms
  PROVE  /\ Items(vbs, form) \in Seq(Seq(Nat)) /\ FlattenSeq(Items(vbs, form)) \in Seq(Nat)
         /\ \A i \in 1 .. Len(vbs) :
              /\ Len(Pair(vbs[i], form)) \in Nat
              /\ Len(Pair(vbs[i], form)) <= Len(FlattenSeq(Items(vbs, form)))
<1> DEFINE items == Items(vbs, form)
           all == FlattenSeq(items)
<1>1. ASSUME NEW i \in 1 .. Len(vbs)
      PROVE  /\ Item(vbs[i], form) \in Seq(Nat) /\ Len(Pair(vbs[i], form)) \in Nat
             /\ Len(Pair(vbs[i], form)) < Len(Item(vbs[i], form))
  <2> DEFINE pair == Pair(vbs[i], form)
  <2>1. vbs[i] \in Sendable
    BY ElementOfSeq
  <2>2. pair \in Seq(Nat)
    BY <2>1, PairLong
  <2> HIDE DEF pair
  <2>3. /\ Element(Tag.sequence, pair, form) \in Seq(Nat)
        /\ Len(pair) \in Nat /\ Len(pair) < Len(Element(Tag.sequence, pair, form))
    BY <2>2, ElementLong, TagsAreOctets
  <2> QED BY <2>3 DEF Item, pair
<1>2. /\ items \in Seq(Seq(Nat)) /\ Len(items) = Len(vbs)
      /\ \A i \in 1 .. Len(vbs) : items[i] = Item(vbs[i], form)
  BY <1>1, ItemsType
<1> HIDE DEF items
<1>3. all \in Seq(Nat)
  BY <1>2, FlattenType
<1> HIDE DEF all
<1>4. ASSUME NEW i \in 1 .. Len(vbs)
      PROVE  Len(Pair(vbs[i], form)) \in Nat /\ Len(Pair(vbs[i], form)) <= Len(all)
  <2> DEFINE k == i - 1
             item == Item(vbs[i], form)
             p == Flat(items, k)
             a == Len(Pair(vbs[i], form))
             b == Len(item)
             c == Len(all)
  <2>1. k \in 0 .. Len(items) - 1 /\ k + 1 = i
    BY <1>2, LenProperties
  <2>2. items[k + 1] = item
    BY <1>2, <2>1
  <2>3. PICK r \in Seq(Nat) : all = p \o (item \o r)
    <3>1. Nat \subseteq Nat
      OBVIOUS
    <3>2. \E r \in Seq(Nat) : FlattenSeq(items) = Flat(items, k) \o (items[k + 1] \o r)
      <4> HIDE DEF k
      <4> QED BY <1>2, <2>1, <3>1, FlatSplit, Zenon
    <3> QED BY <2>2, <3>2, Zenon DEF all
  <2>4. p \in Seq(Nat) /\ item \in Seq(Nat)
    BY <1>1, <1>2, <2>1, FlatNext
  <2>5. a \in Nat /\ a < b
    BY <1>1
  <2> HIDE DEF item, p
  <2> DEFINE u == item \o r
  <2>6. u \in Seq(Nat) /\ Len(u) \in Nat /\ Len(item) \in Nat /\ Len(item) <= Len(u)
    <3>1. u \in Seq(Nat) /\ Len(item) \in Nat /\ Len(item) <= Len(u)
      BY <2>4, PartsLong
    <3> HIDE DEF u
    <3> QED BY <3>1, LenProperties
  <2> HIDE DEF u
  <2>7. Len(u) <= Len(p \o u) /\ p \o u = all
    BY <2>3, <2>4, <2>6, PartsLong DEF u
  <2>8. c \in Nat
    BY <1>3, LenProperties
  <2>9. b \in Nat /\ b <= Len(u) /\ Len(u) <= c /\ Len(u) \in Nat
    BY <2>6, <2>7
  <2> HIDE DEF a, b, c
  <2>10. a <= c
    BY <2>5, <2>8, <2>9
  <2> QED BY <2>5, <2>10 DEF a, c
<1> QED BY <1>2, <1>3, <1>4 DEF items, all

\* One turn of the loop that succeeds.
LEMMA ItemReads ==
  ASSUME NEW vb \in Sendable, NEW form \in Forms, Short(Len(Pair(vb, form))), NEW r \in Seq(Octet),
         NEW vbs
  PROVE  /\ Item(vb, form) \in Seq(Octet) /\ Item(vb, form) \o r # <<>>
         /\ NextVarbind([rest |-> Item(vb, form) \o r, vbs |-> vbs])
              = IF Good(vb) THEN [rest |-> r, vbs |-> Append(vbs, vb)]
                ELSE [rest |-> Item(vb, form) \o r, vbs |-> vbs]
<1> DEFINE pair == Pair(vb, form)
           item == Item(vb, form)
           rest == item \o r
           walk == [rest |-> rest, vbs |-> vbs]
           element == Expect(walk.rest, Tag.sequence)
           got == DecodeVarbind(element.content)
<1>1. pair \in Seq(Octet) /\ DecodeVarbind(pair) = IF Good(vb) THEN Yields(vb) ELSE Fails
  BY PairDecodes
<1>2. Short(Len(pair)) /\ item = Element(Tag.sequence, pair, form)
  BY Zenon DEF Item
<1> HIDE DEF pair, item
<1>3. /\ item \in Seq(Octet) /\ Len(pair) < Len(item)
      /\ DecodeTlv(rest) = [ok |-> TRUE, tag |-> Tag.sequence, content |-> pair, rest |-> r]
  BY <1>1, <1>2, ElementDecodes, TagsAreOctets, ZenonT(60)
<1>4. rest # <<>>
  <2>1. Len(rest) = Len(item) + Len(r) /\ Len(item) \in Nat /\ Len(r) \in Nat /\ Len(pair) \in Nat
    BY <1>1, <1>3, ConcatProperties, LenProperties
  <2>2. Len(rest) # 0
    <3> HIDE DEF rest
    <3> QED BY <1>3, <2>1
  <2>3. Len(<<>>) = 0
    BY EmptySeq
  <2> HIDE DEF rest
  <2> QED BY <2>2, <2>3
<1> HIDE DEF rest
<1>5. walk.rest = rest /\ walk.vbs = vbs
  OBVIOUS
<1>6. element = [ok |-> TRUE, tag |-> Tag.sequence, content |-> pair, rest |-> r]
  <2>1. DecodeTlv(rest).tag = Tag.sequence
    BY <1>3
  <2> HIDE DEF walk
  <2> QED BY <1>3, <1>5, <2>1, Zenon DEF Expect
<1>7. NextVarbind(walk)
        = IF walk.rest # <<>> /\ element.ok /\ got.ok
          THEN [rest |-> element.rest, vbs |-> Append(walk.vbs, got.value)] ELSE walk
  <2> HIDE DEF walk
  <2> QED BY Zenon DEF NextVarbind
<1> HIDE DEF walk, element
<1>8. element.ok /\ element.content = pair /\ element.rest = r
  BY <1>6
<1>9. got = IF Good(vb) THEN Yields(vb) ELSE Fails
  BY <1>1, <1>8, Zenon
<1> HIDE DEF got
<1>10. ~Fails.ok /\ Yields(vb).ok /\ Yields(vb).value = vb
  BY DEF Fails, Yields
<1>11. NextVarbind(walk) = IF Good(vb) THEN [rest |-> r, vbs |-> Append(vbs, vb)] ELSE walk
  <2>1. CASE Good(vb)
    BY <1>4, <1>5, <1>7, <1>8, <1>9, <1>10, <2>1, Zenon
  <2>2. CASE ~Good(vb)
    BY <1>4, <1>5, <1>7, <1>8, <1>9, <1>10, <2>2, Zenon
  <2> QED BY <2>1, <2>2
<1> QED BY <1>3, <1>4, <1>11, Zenon DEF walk, rest, item

\* Where the loop stays once, it stays.
LEMMA StaysPut ==
  ASSUME NEW d \in Seq(Octet), NEW k \in 0 .. MaxVarbinds,
         k < MaxVarbinds => NextVarbind(VarbindWalk(d)[k]) = VarbindWalk(d)[k]
  PROVE  VarbindWalk(d)[MaxVarbinds] = VarbindWalk(d)[k]
<1> DEFINE walk == VarbindWalk(d)
           m == MaxVarbinds - k
           T == {i \in 0 .. m : walk[k + i] = walk[k]}
<1>1. MaxVarbinds \in Nat
  BY CodecAssumption
<1>2. m \in Nat /\ k + 0 = k /\ 0 \in 0 .. m /\ m \in 0 .. m /\ k + m = MaxVarbinds
  BY <1>1
<1>3. \A i \in 1 .. MaxVarbinds : walk[i] = NextVarbind(walk[i - 1])
  BY VarbindWalkIs
<1> HIDE DEF m
<1>4. 0 \in T
  BY <1>2
<1>5. ASSUME NEW i \in 0 .. m - 1, i \in T PROVE i + 1 \in T
  <2>1. /\ i + 1 \in 0 .. m /\ k + (i + 1) \in 1 .. MaxVarbinds /\ (k + (i + 1)) - 1 = k + i
        /\ k < MaxVarbinds
    BY <1>1 DEF m
  <2>2. walk[k + (i + 1)] = NextVarbind(walk[k + i])
    BY <1>3, <2>1
  <2>3. walk[k + i] = walk[k]
    BY <1>5
  <2> QED BY <2>1, <2>2, <2>3
<1>6. \A i \in 0 .. m : i \in T
  <2> HIDE DEF T
  <2> QED BY <1>2, <1>4, <1>5, Induct
<1>7. walk[k + m] = walk[k]
  <2>1. m \in T
    BY <1>2, <1>6
  <2> QED BY <2>1
<1> QED BY <1>2, <1>7, Zenon

AllShort(vbs, form) == \A i \in 1 .. Len(vbs) : Short(Len(Pair(vbs[i], form)))

LEMMA ItemsRead ==
  ASSUME NEW vbs \in Seq(Sendable), NEW form \in Forms, AllShort(vbs, form),
         NEW k \in 0 .. Len(vbs), k <= MaxVarbinds, \A i \in 1 .. k : Good(vbs[i])
  PROVE  /\ Items(vbs, form) \in Seq(Seq(Octet))
         /\ \A r \in Seq(Octet) :
              VarbindWalk(Flat(Items(vbs, form), k) \o r)[k]
                = [rest |-> r, vbs |-> SubSeq(vbs, 1, k)]
<1> DEFINE items == Items(vbs, form)
           c(i) == Flat(items, i)
           part(i) == SubSeq(vbs, 1, i)
           P(i) == \A r \in Seq(Octet) :
                     VarbindWalk(c(i) \o r)[i] = [rest |-> r, vbs |-> part(i)]
           T == {i \in 0 .. k : P(i)}
<1>1. /\ Len(vbs) \in Nat /\ k \in Nat /\ MaxVarbinds \in Nat /\ 0 \in 0 .. k /\ k \in 0 .. k
      /\ \A i \in 1 .. Len(vbs) : vbs[i] \in Sendable
  BY LenProperties, ElementOfSeq, CodecAssumption
<1>2. ASSUME NEW i \in 1 .. Len(vbs) PROVE Item(vbs[i], form) \in Seq(Octet)
  <2>1. vbs[i] \in Sendable /\ <<>> \in Seq(Octet) /\ Short(Len(Pair(vbs[i], form)))
    BY <1>1, EmptySeq DEF AllShort
  <2> QED BY <2>1, ItemReads
<1>3. /\ items \in Seq(Seq(Octet)) /\ Len(items) = Len(vbs)
      /\ \A i \in 1 .. Len(vbs) : items[i] = Item(vbs[i], form)
  BY <1>2, ItemsType
<1> HIDE DEF items
<1>4. 0 \in T
  <2>1. c(0) = <<>> /\ part(0) = <<>>
    BY <1>3, FlatEnds, NoPrefix
  <2> HIDE DEF c, part
  <2>2. ASSUME NEW r \in Seq(Octet)
        PROVE  VarbindWalk(c(0) \o r)[0] = [rest |-> r, vbs |-> part(0)]
    <3>1. <<>> \o r = r
      BY ConcatEmptySeq
    <3>2. VarbindWalk(r)[0] = [rest |-> r, vbs |-> <<>>]
      BY VarbindWalkIs
    <3> QED BY <2>1, <3>1, <3>2, Zenon
  <2> QED BY <1>1, <2>2
<1>5. ASSUME NEW i \in 0 .. k - 1, i \in T PROVE i + 1 \in T
  <2> DEFINE vb == vbs[i + 1]
             item == items[i + 1]
  <2>1. /\ i + 1 \in 0 .. k /\ i + 1 \in 1 .. k /\ i + 1 \in 1 .. Len(vbs)
        /\ i \in 0 .. Len(vbs) - 1 /\ i + 1 \in 1 .. MaxVarbinds /\ (i + 1) - 1 = i
    BY <1>1
  <2>2. vb \in Sendable /\ Good(vb) /\ Short(Len(Pair(vb, form))) /\ item = Item(vb, form)
    BY <1>1, <1>3, <2>1, Zenon DEF AllShort
  <2>3. c(i) \in Seq(Octet) /\ item \in Seq(Octet) /\ c(i + 1) = c(i) \o item
    BY <1>3, <2>1, FlatNext
  <2>4. part(i + 1) = Append(part(i), vb)
    BY <2>1, PrefixAppend
  <2>5. P(i)
    BY <1>5
  <2> HIDE DEF c, part, vb, item
  <2>6. ASSUME NEW r \in Seq(Octet)
        PROVE  VarbindWalk(c(i + 1) \o r)[i + 1] = [rest |-> r, vbs |-> part(i + 1)]
    <3> DEFINE u == item \o r
               d == c(i) \o u
    <3>1. u \in Seq(Octet)
      BY <2>3, ConcatProperties
    <3>2. c(i + 1) \o r = d
      <4>1. c(i) \in Seq(Nat) /\ item \in Seq(Nat) /\ r \in Seq(Nat)
        BY <2>3, OctetsAreNumbers
      <4>2. Join(Join(c(i), item), r) = Join(c(i), Join(item, r))
        BY <4>1, JoinAssociates
      <4> QED BY <2>3, <4>2, Zenon DEF Join
    <3>3. VarbindWalk(d)[i] = [rest |-> u, vbs |-> part(i)]
      <4> HIDE DEF u
      <4> QED BY <2>5, <3>1
    <3>4. d \in Seq(Octet)
      <4> HIDE DEF u
      <4> QED BY <2>3, <3>1, ConcatProperties
    <3> DEFINE v == part(i)
    <3> HIDE DEF d, v
    <3>5. VarbindWalk(d)[i + 1] = NextVarbind(VarbindWalk(d)[i])
      BY <2>1, <3>4, VarbindWalkIs
    <3>6. NextVarbind([rest |-> Item(vb, form) \o r, vbs |-> v]) = [rest |-> r, vbs |-> Append(v, vb)]
      BY <2>2, ItemReads, ZenonT(60)
    <3> QED BY <2>2, <2>4, <3>2, <3>3, <3>5, <3>6, Zenon DEF v
  <2> QED BY <2>1, <2>6
<1>6. P(k)
  <2>1. \A i \in 0 .. k : i \in T
    <3> HIDE DEF T
    <3> QED BY <1>1, <1>4, <1>5, Induct
  <2>2. k \in T
    BY <1>1, <2>1
  <2> HIDE DEF P
  <2> QED BY <2>2
<1> QED BY <1>3, <1>6, Zenon DEF items

LEMMA VarbindsDecode ==
  ASSUME NEW vbs \in Seq(Sendable), NEW form \in Forms,
         Short(Len(FlattenSeq(Items(vbs, form))))
  PROVE  /\ FlattenSeq(Items(vbs, form)) \in Seq(Octet)
         /\ DecodeVarbinds(FlattenSeq(Items(vbs, form)))
              = IF Len(vbs) <= MaxVarbinds /\ \A i \in 1 .. Len(vbs) : Good(vbs[i])
                THEN Yields(vbs) ELSE Fails
<1> DEFINE items == Items(vbs, form)
           d == FlattenSeq(items)
           n == Len(vbs)
           end == VarbindWalk(d)[MaxVarbinds]
           fine == n <= MaxVarbinds /\ \A i \in 1 .. n : Good(vbs[i])
<1>1. AllShort(vbs, form)
  <2>1. \A i \in 1 .. n : Len(Pair(vbs[i], form)) \in Nat /\ Len(Pair(vbs[i], form)) <= Len(d)
    BY ItemsLong
  <2> HIDE DEF d
  <2>2. \A i \in 1 .. n : Short(Len(Pair(vbs[i], form)))
    <3>1. Short(Len(d))
      BY DEF d
    <3> QED BY <2>1, <3>1, ShortLess
  <2> QED BY <2>2, Zenon DEF AllShort
<1>2. n \in Nat /\ MaxVarbinds \in Nat /\ 0 \in 0 .. n /\ 0 <= MaxVarbinds /\ n \in 0 .. n
  BY LenProperties, CodecAssumption
<1>3. /\ items \in Seq(Seq(Octet)) /\ Len(items) = n
      /\ \A i \in 1 .. n : items[i] = Item(vbs[i], form)
  <2>1. ASSUME NEW i \in 1 .. n PROVE Item(vbs[i], form) \in Seq(Octet)
    <3>1. vbs[i] \in Sendable /\ <<>> \in Seq(Octet) /\ Short(Len(Pair(vbs[i], form)))
      BY <1>1, EmptySeq, ElementOfSeq DEF AllShort
    <3> QED BY <3>1, ItemReads
  <2> QED BY <2>1, ItemsType
<1>4. d \in Seq(Octet)
  <2> HIDE DEF items
  <2> QED BY <1>3, FlattenType
<1>5. DecodeVarbinds(d) = IF end.rest = <<>> THEN Yields(end.vbs) ELSE Fails
  <2> HIDE DEF d
  <2> QED BY Zenon DEF DecodeVarbinds, VarbindWalk
<1>6. ASSUME NEW k \in 0 .. n, k <= MaxVarbinds, \A i \in 1 .. k : Good(vbs[i])
      PROVE  \A r \in Seq(Octet) :
               VarbindWalk(Flat(items, k) \o r)[k] = [rest |-> r, vbs |-> SubSeq(vbs, 1, k)]
  BY <1>1, <1>6, ItemsRead
<1> HIDE DEF items, d, end
<1>7. CASE fine
  <2>1. VarbindWalk(Flat(items, n) \o <<>>)[n] = [rest |-> <<>>, vbs |-> SubSeq(vbs, 1, n)]
    <3>1. <<>> \in Seq(Octet)
      BY EmptySeq
    <3>2. n <= MaxVarbinds /\ \A i \in 1 .. n : Good(vbs[i])
      BY <1>7
    <3> HIDE DEF n
    <3> QED BY <1>2, <1>6, <3>1, <3>2, Zenon
  <2>2. Flat(items, n) \o <<>> = d /\ SubSeq(vbs, 1, n) = vbs
    <3>1. Flat(items, n) = d
      BY <1>3, FlatEnds DEF d
    <3>2. d \o <<>> = d
      BY <1>4, ConcatEmptySeq
    <3> QED BY <3>1, <3>2, WholePrefix, Zenon
  <2> DEFINE walk == VarbindWalk(d)[n]
  <2>3. walk = [rest |-> <<>>, vbs |-> vbs]
    BY <2>1, <2>2, Zenon
  <2>4. end = walk
    <3>1. NextVarbind(walk) = walk
      <4> HIDE DEF walk
      <4>1. walk.rest = <<>>
        BY <2>3
      <4> QED BY <4>1, Zenon DEF NextVarbind
    <3>2. n \in 0 .. MaxVarbinds
      BY <1>2, <1>7
    <3> QED BY <1>4, <3>1, <3>2, StaysPut DEF end
  <2> HIDE DEF walk
  <2>5. end.rest = <<>> /\ end.vbs = vbs
    BY <2>3, <2>4
  <2> QED BY <1>4, <1>5, <1>7, <2>5, Zenon DEF d, items
<1>8. CASE ~fine
  <2> DEFINE Bad == {k \in 0 .. n - 1 : k = MaxVarbinds \/ ~Good(vbs[k + 1])}
  <2>1. Bad # {} /\ Bad \subseteq Nat
    <3>1. CASE ~(n <= MaxVarbinds)
      <4>1. MaxVarbinds \in 0 .. n - 1
        <5> HIDE DEF n
        <5> QED BY <1>2, <3>1
      <4> QED BY <4>1, SMTT(30)
    <3>2. CASE n <= MaxVarbinds
      <4>1. PICK i \in 1 .. n : ~Good(vbs[i])
        BY <1>8, <3>2
      <4>2. i - 1 \in 0 .. n - 1 /\ (i - 1) + 1 = i
        <5> HIDE DEF n
        <5> QED BY <1>2
      <4> HIDE DEF n
      <4>3. i - 1 \in Bad
        BY <4>1, <4>2
      <4> QED BY <4>3
    <3> QED BY <3>1, <3>2
  <2>2. PICK k \in Bad : \A j \in Bad : k <= j
    <3> HIDE DEF Bad
    <3> QED BY <2>1, Least
  <2> HIDE DEF n
  <2>3. k \in 0 .. n - 1 /\ (k = MaxVarbinds \/ ~Good(vbs[k + 1]))
    OBVIOUS
  <2>4. k \in 0 .. n /\ k <= MaxVarbinds /\ k \in 0 .. MaxVarbinds /\ k \in Nat
    <3>1. MaxVarbinds \in 0 .. n - 1 => MaxVarbinds \in Bad
      OBVIOUS
    <3>2. MaxVarbinds \in 0 .. n - 1 => k <= MaxVarbinds
      BY <2>2, <3>1
    <3> QED BY <1>2, <2>3, <3>2
  <2>5. \A i \in 1 .. k : Good(vbs[i])
    <3> SUFFICES ASSUME NEW i \in 1 .. k, ~Good(vbs[i]) PROVE FALSE
      OBVIOUS
    <3>1. i - 1 \in 0 .. n - 1 /\ (i - 1) + 1 = i /\ ~(k <= i - 1)
      BY <1>2, <2>3, <2>4
    <3>2. i - 1 \in Bad
      BY <3>1
    <3> QED BY <2>2, <3>1, <3>2
  <2> HIDE DEF Bad
  <2> DEFINE vb == vbs[k + 1]
             item == items[k + 1]
  <2>6. k + 1 \in 1 .. n /\ k \in 0 .. Len(items) - 1
    BY <1>2, <1>3, <2>3
  <2>7. vb \in Sendable /\ Short(Len(Pair(vb, form))) /\ item = Item(vb, form)
    <3>1. vb \in Sendable
      BY <2>6, ElementOfSeq DEF n
    <3>2. item = Item(vbs[k + 1], form)
      BY <1>3, <2>6
    <3> QED BY <1>1, <2>6, <3>1, <3>2, Zenon DEF AllShort, n
  <2>8. PICK r \in Seq(Octet) : d = Flat(items, k) \o (item \o r)
    BY <1>3, <2>6, FlatSplit, TagsAreOctets DEF d
  <2> HIDE DEF vb, item
  <2> DEFINE u == item \o r
             v == SubSeq(vbs, 1, k)
             walk == VarbindWalk(d)[k]
  <2>9. u \in Seq(Octet) /\ u # <<>>
        /\ (~Good(vb) => NextVarbind([rest |-> u, vbs |-> v]) = [rest |-> u, vbs |-> v])
    <3>1. item \in Seq(Octet)
      BY <1>3, <2>6, ElementOfSeq DEF item
    <3>2. item \o r \in Seq(Octet)
      BY <3>1, ConcatProperties
    <3> HIDE DEF v
    <3>3. Item(vb, form) \o r # <<>>
          /\ (~Good(vb) => NextVarbind([rest |-> Item(vb, form) \o r, vbs |-> v])
                = [rest |-> Item(vb, form) \o r, vbs |-> v])
      BY <2>7, ItemReads, ZenonT(60)
    <3> QED BY <2>7, <3>2, <3>3, Zenon
  <2> HIDE DEF u
  <2>10. walk = [rest |-> u, vbs |-> v]
    <3>1. \A s \in Seq(Octet) :
            VarbindWalk(Flat(items, k) \o s)[k] = [rest |-> s, vbs |-> SubSeq(vbs, 1, k)]
      BY <1>6, <2>4, <2>5
    <3>2. VarbindWalk(Flat(items, k) \o u)[k] = [rest |-> u, vbs |-> v]
      BY <2>9, <3>1
    <3>3. Flat(items, k) \o u = d
      BY <2>8 DEF u
    <3> QED BY <3>2, <3>3, Zenon
  <2> HIDE DEF v
  <2>11. k < MaxVarbinds => NextVarbind(walk) = walk
    <3>1. k < MaxVarbinds => ~Good(vb)
      <4>1. k < MaxVarbinds => k # MaxVarbinds
        BY <1>2, <2>4
      <4> QED BY <2>3, <4>1, Zenon DEF vb
    <3> HIDE DEF walk
    <3> QED BY <2>9, <2>10, <3>1, Zenon
  <2>12. end = walk
    BY <1>4, <2>4, <2>11, StaysPut DEF end
  <2> HIDE DEF walk
  <2>13. end.rest = u
    BY <2>10, <2>12
  <2>14. DecodeVarbinds(d) = Fails
    BY <1>5, <2>9, <2>13, Zenon
  <2> QED BY <1>4, <1>8, <2>14, Zenon DEF d, items, n
<1> QED BY <1>7, <1>8

-----------------------------------------------------------------------------
(* The PDU and the envelope. *)
LEMMA NumberReads ==
  ASSUME NEW w \in Word, NEW form \in Forms, NEW rest \in Seq(Octet)
  PROVE  LET d == Number(w, form) \o rest
             tlv == Expect(d, Tag.integer)
         IN  /\ Number(w, form) \in Seq(Octet) /\ d \in Seq(Octet)
             /\ tlv.ok /\ tlv.rest = rest /\ DecodeInteger(tlv) = Yields(w)
<1> DEFINE content == IF form = "wide" THEN w ELSE ShortestSigned(w)
           d == Number(w, form) \o rest
           tlv == Expect(d, Tag.integer)
<1>1. Signs(content, w) /\ Number(w, form) = Element(Tag.integer, content, form)
  BY IntegerSigns DEF Number
<1> HIDE DEF content
<1>2. content \in Seq(Octet) /\ Len(content) \in 1 .. 4
  BY <1>1, Zenon DEF Signs
<1>3. Short(Len(content))
  <2>1. \A n \in 1 .. 4 : n \in Nat /\ n \div 256 < 256
    OBVIOUS
  <2> QED BY <1>2, <2>1, Zenon DEF Short
<1>4. /\ Number(w, form) \in Seq(Octet) /\ d \in Seq(Octet)
      /\ tlv = [ok |-> TRUE, tag |-> Tag.integer, content |-> content, rest |-> rest]
  <2> DEFINE e == Element(Tag.integer, content, form)
  <2>1. /\ e \in Seq(Octet) /\ e \o rest \in Seq(Octet)
        /\ Expect(e \o rest, Tag.integer)
             = [ok |-> TRUE, tag |-> Tag.integer, content |-> content, rest |-> rest]
    BY <1>2, <1>3, ExpectElement, TagsAreOctets
  <2>2. Number(w, form) = e
    BY <1>1
  <2> HIDE DEF e
  <2> QED BY <2>1, <2>2, Zenon
<1> HIDE DEF d, tlv
<1>5. tlv.ok /\ tlv.content = content /\ tlv.rest = rest
  BY <1>4
<1>6. DecodeInteger(tlv) = Yields(w)
  <2>1. Signs(tlv.content, w)
    BY <1>1, <1>5
  <2> QED BY <2>1, SignsDecode
<1> QED BY <1>4, <1>5, <1>6, Zenon DEF d, tlv

LEMMA BindingsLong ==
  ASSUME NEW vbs \in Seq(Sendable), NEW form \in Forms
  PROVE  /\ Bindings(vbs, form) \in Seq(Nat)
         /\ Len(FlattenSeq(Items(vbs, form))) \in Nat
         /\ Len(FlattenSeq(Items(vbs, form))) < Len(Bindings(vbs, form))
<1> DEFINE content == FlattenSeq(Items(vbs, form))
<1>1. content \in Seq(Nat)
  BY ItemsLong
<1>2. Bindings(vbs, form) = Element(Tag.sequence, content, form)
  BY BindingsAre
<1> HIDE DEF content
<1>3. /\ Element(Tag.sequence, content, form) \in Seq(Nat)
      /\ Len(content) \in Nat /\ Len(content) < Len(Element(Tag.sequence, content, form))
  BY <1>1, ElementLong, TagsAreOctets
<1> QED BY <1>2, <1>3 DEF content

PduContent(numbers, vbs, form) ==
  Number(numbers[1], form) \o Number(numbers[2], form)
    \o Number(numbers[3], form) \o Bindings(vbs, form)

AllGood(vbs) == Len(vbs) <= MaxVarbinds /\ \A i \in 1 .. Len(vbs) : Good(vbs[i])

LEMMA PduContentLong ==
  ASSUME NEW numbers \in [1 .. 3 -> Word], NEW vbs \in Seq(Sendable), NEW form \in Forms
  PROVE  /\ PduContent(numbers, vbs, form) \in Seq(Nat)
         /\ Len(Bindings(vbs, form)) \in Nat
         /\ Len(Bindings(vbs, form)) <= Len(PduContent(numbers, vbs, form))
         /\ PduContent(numbers, vbs, form)
              = Number(numbers[1], form) \o (Number(numbers[2], form)
                  \o (Number(numbers[3], form) \o Bindings(vbs, form)))
<1> DEFINE a == Number(numbers[1], form)
           b == Number(numbers[2], form)
           c == Number(numbers[3], form)
           e == Bindings(vbs, form)
<1>1. \A f \in 1 .. 3 : Number(numbers[f], form) \in Seq(Nat)
  <2>1. ASSUME NEW f \in 1 .. 3 PROVE Number(numbers[f], form) \in Seq(Nat)
    <3> DEFINE w == numbers[f]
    <3>1. w \in Word /\ <<>> \in Seq(Octet)
      BY EmptySeq
    <3> HIDE DEF w
    <3>2. Number(w, form) \in Seq(Octet)
      BY <3>1, NumberReads
    <3> QED BY <3>2, OctetsAreNumbers DEF w
  <2> QED BY <2>1
<1>2. a \in Seq(Nat) /\ b \in Seq(Nat) /\ c \in Seq(Nat)
  <2>1. 1 \in 1 .. 3 /\ 2 \in 1 .. 3 /\ 3 \in 1 .. 3
    OBVIOUS
  <2> QED BY <1>1, <2>1, Zenon
<1>3. e \in Seq(Nat)
  BY BindingsLong
<1> DEFINE abc == Join(Join(a, b), c)
           bce == Join(b, Join(c, e))
<1>4. PduContent(numbers, vbs, form) = Join(abc, e)
  BY Zenon DEF PduContent, Join
<1>5. Number(numbers[1], form) \o (Number(numbers[2], form)
        \o (Number(numbers[3], form) \o Bindings(vbs, form))) = Join(a, bce)
  BY Zenon DEF Join
<1> HIDE DEF a, b, c, e
<1>6. Join(a, b) \in Seq(Nat) /\ Join(c, e) \in Seq(Nat) /\ abc \in Seq(Nat)
  BY <1>2, <1>3, JoinAssociates
<1>7. Join(abc, e) = Join(a, bce)
  <2>1. Join(abc, e) = Join(Join(a, b), Join(c, e))
    BY <1>2, <1>3, <1>6, JoinAssociates
  <2>2. Join(Join(a, b), Join(c, e)) = Join(a, bce)
    BY <1>2, <1>6, JoinAssociates
  <2> QED BY <2>1, <2>2, Zenon
<1> HIDE DEF abc, bce
<1>8. abc \o e \in Seq(Nat) /\ Len(e) \in Nat /\ Len(e) <= Len(abc \o e)
  BY <1>3, <1>6, PartsLong
<1>9. PduContent(numbers, vbs, form) = abc \o e
  BY <1>4, Zenon DEF Join
<1> QED BY <1>4, <1>5, <1>7, <1>8, <1>9, Zenon DEF e

PduRead(tag, numbers, vbs) ==
  IF tag \in RequestTags /\ AllGood(vbs)
  THEN [ok |-> TRUE, tag |-> tag, numbers |-> numbers, vbs |-> vbs]
  ELSE NoPdu

LEMMA PduDecodes ==
  ASSUME NEW tag \in Octet, NEW numbers \in [1 .. 3 -> Word], NEW vbs \in Seq(Sendable),
         NEW form \in Forms, Short(Len(PduContent(numbers, vbs, form)))
  PROVE  /\ Pdu(tag, numbers, vbs, form) \in Seq(Octet)
         /\ DecodeRequestPdu(Pdu(tag, numbers, vbs, form)) = PduRead(tag, numbers, vbs)
<1> DEFINE all == PduContent(numbers, vbs, form)
           list == FlattenSeq(Items(vbs, form))
           e == Bindings(vbs, form)
           s3 == Number(numbers[3], form) \o e
           s2 == Number(numbers[2], form) \o s3
           s1 == Number(numbers[1], form) \o s2
           d == Pdu(tag, numbers, vbs, form)
           tags == <<Tag.integer, Tag.integer, Tag.integer, Tag.sequence>>
           pdu == DecodeTlv(d)
           tlv == ExpectAll(pdu.content, tags)
<1>1. all = s1 /\ all \in Seq(Nat) /\ Len(e) \in Nat /\ Len(e) <= Len(all)
  BY PduContentLong
<1>2. e = Element(Tag.sequence, list, form) /\ Len(list) \in Nat /\ Len(list) < Len(e)
  BY BindingsAre, BindingsLong
<1>3. d = Element(tag, all, form)
  BY Zenon DEF Pdu, PduContent
<1>4. Short(Len(all))
  OBVIOUS
<1> HIDE DEF all, e
<1>5. Short(Len(list))
  <2> HIDE DEF list
  <2>1. Len(all) \in Nat
    BY <1>4 DEF Short
  <2>2. Len(list) <= Len(all)
    BY <1>1, <1>2, <2>1
  <2> QED BY <1>2, <1>4, <2>2, ShortLess
<1>6. list \in Seq(Octet) /\ DecodeVarbinds(list) = IF AllGood(vbs) THEN Yields(vbs) ELSE Fails
  BY <1>5, VarbindsDecode, Zenon DEF AllGood
<1> HIDE DEF list
<1>7. /\ e \in Seq(Octet)
      /\ Expect(e, Tag.sequence)
           = [ok |-> TRUE, tag |-> Tag.sequence, content |-> list, rest |-> <<>>]
  <2>1. Tag.sequence \in Octet
    BY TagsAreOctets
  <2> QED BY <1>2, <1>5, <1>6, <2>1, LoneElement, Zenon
<1>8. ASSUME NEW f \in 1 .. 3, NEW rest \in Seq(Octet)
      PROVE  LET x == Number(numbers[f], form) \o rest
                 y == Expect(x, Tag.integer)
             IN  x \in Seq(Octet) /\ y.rest = rest /\ DecodeInteger(y) = Yields(numbers[f])
  <2> DEFINE w == numbers[f]
  <2>1. w \in Word
    OBVIOUS
  <2> HIDE DEF w
  <2>2. LET x == Number(w, form) \o rest
            y == Expect(x, Tag.integer)
        IN  x \in Seq(Octet) /\ y.rest = rest /\ DecodeInteger(y) = Yields(w)
    BY <2>1, NumberReads
  <2> QED BY <2>2 DEF w
<1>9. 1 \in 1 .. 3 /\ 2 \in 1 .. 3 /\ 3 \in 1 .. 3
  OBVIOUS
<1> DEFINE y3 == Expect(s3, Tag.integer)
           y2 == Expect(s2, Tag.integer)
           y1 == Expect(s1, Tag.integer)
<1>10. s3 \in Seq(Octet) /\ y3.rest = e /\ DecodeInteger(y3) = Yields(numbers[3])
  BY <1>7, <1>8, <1>9, Zenon
<1> HIDE DEF s3, y3
<1>11. s2 \in Seq(Octet) /\ y2.rest = s3 /\ DecodeInteger(y2) = Yields(numbers[2])
  BY <1>8, <1>9, <1>10, Zenon
<1> HIDE DEF s2, y2
<1>12. s1 \in Seq(Octet) /\ y1.rest = s2 /\ DecodeInteger(y1) = Yields(numbers[1])
  BY <1>8, <1>9, <1>11, Zenon
<1> HIDE DEF s1, y1, d
<1>13. /\ d \in Seq(Octet)
       /\ pdu = [ok |-> TRUE, tag |-> tag, content |-> s1, rest |-> <<>>]
  <2>1. Short(Len(s1)) /\ d = Element(tag, s1, form)
    BY <1>1, <1>3, <1>4
  <2> QED BY <1>12, <2>1, LoneElement, Zenon
<1> HIDE DEF pdu
<1>14. pdu.tag = tag /\ pdu.content = s1
  BY <1>13
<1>15. /\ tags[1] = Tag.integer /\ tags[2] = Tag.integer /\ tags[3] = Tag.integer
       /\ tags[4] = Tag.sequence /\ Len(tags) = 4
  OBVIOUS
<1>16. DecodeRequestPdu(d)
         = IF tlv[4].ok
           THEN RequestPdu(pdu.tag, [f \in 1 .. 3 |-> DecodeInteger(tlv[f])],
                           DecodeVarbinds(tlv[4].content))
           ELSE NoPdu
  BY Zenon DEF DecodeRequestPdu, pdu
<1> HIDE DEF tags
<1>17. tlv[0].rest = s1 /\ \A i \in 1 .. 4 : tlv[i] = Expect(tlv[i - 1].rest, tags[i])
  <2>1. LET x == ExpectAll(s1, tags)
        IN  /\ x[0].rest = s1
            /\ \A i \in 1 .. Len(tags) : x[i] \in Tlvs /\ x[i] = Expect(x[i - 1].rest, tags[i])
    <3>1. Len(tags) \in Nat
      BY <1>15
    <3> QED BY <1>12, <3>1, ExpectAllIs
  <2> QED BY <1>14, <1>15, <2>1, Zenon
<1> HIDE DEF tlv
<1>18. /\ 1 \in 1 .. 4 /\ 2 \in 1 .. 4 /\ 3 \in 1 .. 4 /\ 4 \in 1 .. 4
       /\ 1 - 1 = 0 /\ 2 - 1 = 1 /\ 3 - 1 = 2 /\ 4 - 1 = 3
  OBVIOUS
<1>19. tlv[1] = y1
  BY <1>15, <1>17, <1>18, Zenon DEF y1
<1>20. tlv[2] = y2
  BY <1>12, <1>15, <1>17, <1>18, <1>19, Zenon DEF y2
<1>5a. tlv[3] = y3
  BY <1>11, <1>15, <1>17, <1>18, <1>20, Zenon DEF y3
<1>22. tlv[4] = [ok |-> TRUE, tag |-> Tag.sequence, content |-> list, rest |-> <<>>]
  BY <1>7, <1>10, <1>15, <1>17, <1>18, <1>5a, Zenon
<1>23. tlv[4].ok /\ tlv[4].content = list
  BY <1>22
<1> DEFINE read == [f \in 1 .. 3 |-> DecodeInteger(tlv[f])]
           got == DecodeVarbinds(list)
<1>24. ASSUME NEW f \in 1 .. 3 PROVE read[f].ok /\ read[f].value = numbers[f]
  <2>1. f = 1 \/ f = 2 \/ f = 3
    OBVIOUS
  <2>2. DecodeInteger(tlv[f]) = Yields(numbers[f])
    BY <1>10, <1>11, <1>12, <1>19, <1>20, <1>5a, <2>1
  <2>3. Yields(numbers[f]).ok /\ Yields(numbers[f]).value = numbers[f]
    BY DEF Yields
  <2> QED BY <2>2, <2>3
<1>25. DecodeRequestPdu(d) = RequestPdu(tag, read, got)
  BY <1>14, <1>16, <1>23, Zenon
<1> HIDE DEF read
<1>26. [f \in 1 .. 3 |-> read[f].value] = numbers
  BY <1>24
<1>27. got = IF AllGood(vbs) THEN Yields(vbs) ELSE Fails
  BY <1>6
<1>28. ~Fails.ok /\ Yields(vbs).ok /\ Yields(vbs).value = vbs
  BY DEF Fails, Yields
<1> HIDE DEF got
<1>29. RequestPdu(tag, read, got)
         = IF tag \in RequestTags /\ AllGood(vbs)
           THEN [ok |-> TRUE, tag |-> tag, numbers |-> numbers, vbs |-> vbs]
           ELSE NoPdu
  <2>1. \A f \in 1 .. 3 : read[f].ok
    BY <1>24
  <2>2. CASE AllGood(vbs)
    <3>1. got.ok /\ got.value = vbs
      BY <1>27, <1>28, <2>2, Zenon
    <3> QED BY <1>26, <2>1, <2>2, <3>1, Zenon DEF RequestPdu
  <2>3. CASE ~AllGood(vbs)
    <3>1. ~got.ok
      BY <1>27, <1>28, <2>3, Zenon
    <3> QED BY <2>3, <3>1, Zenon DEF RequestPdu
  <2> QED BY <2>2, <2>3
<1> QED BY <1>13, <1>25, <1>29, Zenon DEF d, PduRead

-----------------------------------------------------------------------------
(* The message around the PDU. *)
\* What MessageAssumption says of a message.
Intended(m) ==
  /\ m.version \in Word /\ m.community \in Seq(1 .. 255)
  /\ m.tag \in Octet /\ m.numbers \in [1 .. 3 -> Word]
  /\ m.vbs \in Seq(Sendable)

PduOf(m, form) == Pdu(m.tag, m.numbers, m.vbs, form)
ContentOf(m, form) ==
  Number(m.version, form) \o Element(Tag.octets, m.community, form) \o PduOf(m, form)

\* C takes a string without a NUL for what it is.
LEMMA WholeString ==
  ASSUME NEW octets \in Seq(1 .. 255)
  PROVE  octets \in Seq(Octet) /\ CString(octets) = octets
<1> DEFINE nuls == {i \in DOMAIN octets : octets[i] = 0}
           first == CHOOSE i \in nuls : \A j \in nuls : i <= j
<1>1. octets \in Seq(Octet)
  <2>1. 1 .. 255 \subseteq Octet
    BY DEF Octet
  <2> QED BY <2>1, SeqMonotonic
<1>2. \A i \in DOMAIN octets : octets[i] # 0
  <2>1. DOMAIN octets = 1 .. Len(octets)
    BY LenProperties
  <2>2. \A i \in 1 .. Len(octets) : octets[i] \in 1 .. 255
    BY ElementOfSeq
  <2>3. 0 \notin 1 .. 255
    OBVIOUS
  <2> QED BY <2>1, <2>2, <2>3, Zenon
<1>3. nuls = {}
  BY <1>2, Zenon
<1> HIDE DEF nuls
<1>4. CString(octets) = SubSeq(octets, 1, IF nuls = {} THEN Len(octets) ELSE first - 1)
  BY Zenon DEF CString, nuls
<1> QED BY <1>1, <1>3, <1>4, WholePrefix, Zenon

\* As long as the message is made of octets its parts have lengths of at most
\* two octets.
LEMMA MessageParts ==
  ASSUME NEW m, Intended(m), NEW form \in Forms, Message(m, form) \in Seq(Octet)
  PROVE  /\ Message(m, form) = Element(Tag.sequence, ContentOf(m, form), form)
         /\ ContentOf(m, form)
              = Number(m.version, form) \o (Element(Tag.octets, m.community, form) \o PduOf(m, form))
         /\ Short(Len(ContentOf(m, form))) /\ Short(Len(m.community))
         /\ Short(Len(PduContent(m.numbers, m.vbs, form)))
<1> DEFINE number == Number(m.version, form)
           name == Element(Tag.octets, m.community, form)
           inner == PduContent(m.numbers, m.vbs, form)
           pdu == Element(m.tag, inner, form)
           head == number \o name
           tail == name \o pdu
           content == head \o pdu
<1>1. Message(m, form) = Element(Tag.sequence, ContentOf(m, form), form)
  BY Zenon DEF Message, Envelope, ContentOf, PduOf
<1>2. ContentOf(m, form) = content /\ PduOf(m, form) = pdu
  BY Zenon DEF ContentOf, PduOf, Pdu, PduContent
<1>3. /\ m.version \in Word /\ m.community \in Seq(Octet) /\ m.tag \in Nat
      /\ m.numbers \in [1 .. 3 -> Word] /\ m.vbs \in Seq(Sendable)
  BY WholeString, TagsAreOctets DEF Intended
<1>4. number \in Seq(Nat)
  <2>1. <<>> \in Seq(Octet)
    BY EmptySeq
  <2>2. number \in Seq(Octet)
    BY <1>3, <2>1, NumberReads
  <2> HIDE DEF number
  <2> QED BY <2>2, OctetsAreNumbers
<1>5. name \in Seq(Nat) /\ Len(m.community) \in Nat /\ Len(m.community) < Len(name)
  <2>1. m.community \in Seq(Nat) /\ Tag.octets \in Nat
    BY <1>3, OctetsAreNumbers, TagsAreOctets
  <2> QED BY <2>1, ElementLong
<1>6. pdu \in Seq(Nat) /\ Len(inner) \in Nat /\ Len(inner) < Len(pdu)
  <2>1. inner \in Seq(Nat)
    BY <1>3, PduContentLong
  <2> HIDE DEF inner
  <2> QED BY <1>3, <2>1, ElementLong
<1> HIDE DEF number, name, inner, pdu
<1>7. /\ head \in Seq(Nat) /\ Len(name) \in Nat /\ Len(head) \in Nat /\ Len(name) <= Len(head)
  BY <1>4, <1>5, PartsLong, LenProperties
<1>8. content = number \o tail
  <2>1. Join(Join(number, name), pdu) = Join(number, Join(name, pdu))
    BY <1>4, <1>5, <1>6, JoinAssociates
  <2> QED BY <2>1, Zenon DEF Join
<1> HIDE DEF head
<1>9. /\ content \in Seq(Nat) /\ Len(pdu) \in Nat /\ Len(content) \in Nat
      /\ Len(head) <= Len(content) /\ Len(pdu) <= Len(content)
  BY <1>6, <1>7, PartsLong, LenProperties
<1> HIDE DEF content, tail
<1>10. Short(Len(content))
  <2>1. Element(Tag.sequence, content, form) \in Seq(Octet) /\ Tag.sequence \in Nat
    BY <1>1, <1>2, TagsAreOctets
  <2> QED BY <1>9, <2>1, ElementShort
<1>11. Len(m.community) <= Len(content) /\ Len(inner) <= Len(content)
  <2> DEFINE a == Len(m.community)
             b == Len(name)
             c == Len(head)
             e == Len(inner)
             f == Len(pdu)
             g == Len(content)
  <2>1. /\ a \in Nat /\ b \in Nat /\ c \in Nat /\ a < b /\ b <= c /\ c <= g /\ g \in Nat
        /\ e \in Nat /\ f \in Nat /\ e < f /\ f <= g
    BY <1>5, <1>6, <1>7, <1>9, Zenon
  <2> HIDE DEF a, b, c, e, f, g
  <2>2. a <= g /\ e <= g
    BY <2>1
  <2> QED BY <2>2, Zenon DEF a, e, g
<1>12. Short(Len(m.community)) /\ Short(Len(inner))
  BY <1>5, <1>6, <1>10, <1>11, ShortLess
<1> QED BY <1>1, <1>2, <1>8, <1>10, <1>12, Zenon DEF number, name, inner, tail

LEMMA EnvelopeDecodes ==
  ASSUME NEW m, Intended(m), NEW form \in Forms, Message(m, form) \in Seq(Octet)
  PROVE  /\ Message(m, form) # <<>> /\ ContentOf(m, form) \in Seq(Octet)
         /\ DecodeVersion(Message(m, form)) = Yields(m.version)
         /\ DecodeCommunity(Message(m, form))
              = IF Len(m.community) <= MaxCommunity
                THEN [ok |-> TRUE, community |-> m.community, rest |-> PduOf(m, form)]
                ELSE [ok |-> FALSE]
         /\ DecodeRequestPdu(PduOf(m, form)) = PduRead(m.tag, m.numbers, m.vbs)
<1> DEFINE d == Message(m, form)
           pdu == PduOf(m, form)
           name == Element(Tag.octets, m.community, form)
           tail == name \o pdu
           all == Number(m.version, form) \o tail
           tags == <<Tag.integer, Tag.octets>>
           message == Expect(d, Tag.sequence)
           tlv == ExpectAll(message.content, tags)
           octets == DecodeOctets(tlv[2], MaxCommunity)
<1>1. /\ m.version \in Word /\ m.community \in Seq(Octet) /\ m.tag \in Octet
      /\ m.numbers \in [1 .. 3 -> Word] /\ m.vbs \in Seq(Sendable)
      /\ CString(m.community) = m.community
  BY WholeString DEF Intended
<1>2. /\ d = Element(Tag.sequence, all, form) /\ ContentOf(m, form) = all
      /\ Short(Len(all)) /\ Short(Len(m.community))
      /\ Short(Len(PduContent(m.numbers, m.vbs, form)))
  <2>1. /\ d = Element(Tag.sequence, ContentOf(m, form), form)
        /\ ContentOf(m, form) = all
        /\ Short(Len(ContentOf(m, form))) /\ Short(Len(m.community))
        /\ Short(Len(PduContent(m.numbers, m.vbs, form)))
    BY MessageParts, Zenon
  <2> HIDE DEF all, d
  <2> QED BY <2>1
<1>3. /\ pdu \in Seq(Octet)
      /\ DecodeRequestPdu(pdu) = PduRead(m.tag, m.numbers, m.vbs)
  <2> DEFINE numbers == m.numbers
             vbs == m.vbs
             tag == m.tag
  <2>1. tag \in Octet /\ numbers \in [1 .. 3 -> Word] /\ vbs \in Seq(Sendable)
        /\ Short(Len(PduContent(numbers, vbs, form)))
    BY <1>1, <1>2
  <2> HIDE DEF numbers, vbs, tag
  <2>2. /\ Pdu(tag, numbers, vbs, form) \in Seq(Octet)
        /\ DecodeRequestPdu(Pdu(tag, numbers, vbs, form)) = PduRead(tag, numbers, vbs)
    BY <2>1, PduDecodes
  <2> QED BY <2>2, Zenon DEF PduOf, tag, numbers, vbs
<1> HIDE DEF pdu
<1>4. /\ tail \in Seq(Octet)
      /\ Expect(tail, Tag.octets)
           = [ok |-> TRUE, tag |-> Tag.octets, content |-> m.community, rest |-> pdu]
  BY <1>1, <1>2, <1>3, ExpectElement, TagsAreOctets, ZenonT(60)
<1> HIDE DEF tail
<1> DEFINE first == Expect(all, Tag.integer)
<1>5. all \in Seq(Octet) /\ first.rest = tail /\ DecodeInteger(first) = Yields(m.version)
  <2> DEFINE w == m.version
  <2>1. w \in Word
    BY <1>1
  <2> HIDE DEF w
  <2>2. LET x == Number(w, form) \o tail
            y == Expect(x, Tag.integer)
        IN  x \in Seq(Octet) /\ y.rest = tail /\ DecodeInteger(y) = Yields(w)
    BY <1>4, <2>1, NumberReads
  <2> QED BY <2>2, Zenon DEF w
<1> HIDE DEF all, d
<1>5a. d # <<>>
  <2>1. all \in Seq(Nat)
    BY <1>5, OctetsAreNumbers
  <2>2. Len(all) \in Nat /\ Len(all) < Len(Element(Tag.sequence, all, form))
    BY <2>1, ElementLong, TagsAreOctets
  <2> QED BY <1>2, <2>2, EmptySeq
<1>6. message = [ok |-> TRUE, tag |-> Tag.sequence, content |-> all, rest |-> <<>>]
  <2>1. Tag.sequence \in Octet
    BY TagsAreOctets
  <2> QED BY <1>2, <1>5, <2>1, LoneElement, Zenon
<1>7. DecodeVersion(d) = DecodeInteger(Expect(message.content, Tag.integer))
  BY Zenon DEF DecodeVersion
<1>8. DecodeCommunity(d) =
        IF tlv[2].ok /\ octets.ok
        THEN [ok |-> TRUE, community |-> CString(octets.value), rest |-> tlv[2].rest]
        ELSE [ok |-> FALSE]
  BY Zenon DEF DecodeCommunity
<1> HIDE DEF message
<1>9. message.content = all
  BY <1>6
<1>10. DecodeVersion(d) = Yields(m.version)
  BY <1>5, <1>7, <1>9, Zenon DEF first
<1>11. Len(tags) = 2 /\ tags[1] = Tag.integer /\ tags[2] = Tag.octets
  OBVIOUS
<1> HIDE DEF tags
<1>12. tlv[0].rest = all /\ \A i \in 1 .. 2 : tlv[i] = Expect(tlv[i - 1].rest, tags[i])
  <2>1. LET x == ExpectAll(all, tags)
        IN  /\ x[0].rest = all
            /\ \A i \in 1 .. Len(tags) : x[i] \in Tlvs /\ x[i] = Expect(x[i - 1].rest, tags[i])
    <3>1. Len(tags) \in Nat
      BY <1>11
    <3> QED BY <1>5, <3>1, ExpectAllIs
  <2> QED BY <1>9, <1>11, <2>1, Zenon
<1> HIDE DEF tlv
<1>13. 1 \in 1 .. 2 /\ 2 \in 1 .. 2 /\ 1 - 1 = 0 /\ 2 - 1 = 1
  OBVIOUS
<1>14. tlv[1] = first
  BY <1>11, <1>12, <1>13, Zenon DEF first
<1>15. tlv[2] = [ok |-> TRUE, tag |-> Tag.octets, content |-> m.community, rest |-> pdu]
  BY <1>4, <1>5, <1>11, <1>12, <1>13, <1>14, Zenon
<1>16. tlv[2].ok /\ tlv[2].content = m.community /\ tlv[2].rest = pdu
  BY <1>15
<1>17. /\ Len(m.community) \in Nat /\ MaxCommunity \in Nat
       /\ \A a, b \in Nat : (a <= b) <=> ~(a > b)
  BY <1>1, LenProperties, CodecAssumption
<1>18. octets = IF Len(m.community) <= MaxCommunity THEN Yields(m.community) ELSE Fails
  BY <1>16, <1>17, Zenon DEF DecodeOctets
<1>19. ~Fails.ok /\ Yields(m.community).ok /\ Yields(m.community).value = m.community
  BY DEF Fails, Yields
<1> HIDE DEF octets
<1>20. DecodeCommunity(d)
         = IF Len(m.community) <= MaxCommunity
           THEN [ok |-> TRUE, community |-> m.community, rest |-> pdu]
           ELSE [ok |-> FALSE]
  <2>1. CASE Len(m.community) <= MaxCommunity
    <3>1. octets.ok /\ octets.value = m.community
      BY <1>18, <1>19, <2>1, Zenon
    <3> QED BY <1>1, <1>8, <1>16, <2>1, <3>1, Zenon
  <2>2. CASE ~(Len(m.community) <= MaxCommunity)
    <3>1. ~octets.ok
      BY <1>18, <1>19, <2>2, Zenon
    <3> QED BY <1>8, <2>2, <3>1, Zenon
  <2> QED BY <2>1, <2>2
<1> QED BY <1>2, <1>3, <1>5, <1>5a, <1>10, <1>20, Zenon DEF d, pdu

\* The limits of the arrays, as the decoder and as the reference state them.
LegalList(vbs) ==
  /\ Len(vbs) <= MaxVarbinds
  /\ AllOrdinary(vbs)
  /\ \A i \in DOMAIN vbs : vbs[i].tag \in ByteTags => Len(vbs[i].value) <= MaxOctets

LEMMA GoodIsLegal ==
  ASSUME NEW vbs \in Seq(Sendable)
  PROVE  AllGood(vbs) <=> LegalList(vbs)
<1>1. DOMAIN vbs = 1 .. Len(vbs)
  BY LenProperties
<1>2. ASSUME NEW oid \in Names PROVE Len(oid) <= 20 <=> Ordinary(oid)
  <2>1. Len(oid) \in Nat /\ Len(oid) >= 2 /\ Below(oid[1], 3) /\ Below(oid[2], 40)
    BY LenProperties DEF Names
  <2>2. Len(oid) \in 2 .. MaxOidLen <=> Len(oid) <= 20
    <3> DEFINE n == Len(oid)
    <3>1. n \in Nat /\ n >= 2
      BY <2>1
    <3> HIDE DEF n
    <3>2. n \in 2 .. 20 <=> n <= 20
      BY <3>1
    <3> QED BY <3>2 DEF MaxOidLen, n
  <2> QED BY <2>1, <2>2, Zenon DEF Ordinary
<1>3. ASSUME NEW i \in 1 .. Len(vbs)
      PROVE  Good(vbs[i])
               <=> /\ Ordinary(vbs[i].oid) /\ (vbs[i].tag = Tag.oid => Ordinary(vbs[i].value))
                   /\ vbs[i].tag \in ByteTags => Len(vbs[i].value) <= MaxOctets
  <2> DEFINE vb == vbs[i]
  <2>1. vb \in Sendable
    BY ElementOfSeq
  <2> HIDE DEF vb
  <2>2. vb.oid \in Names /\ (vb.tag = Tag.oid => vb.value \in Names)
    BY <2>1, SendableFields, TagsApart DEF Kind
  <2>3. Good(vb) <=> /\ Ordinary(vb.oid) /\ (vb.tag = Tag.oid => Ordinary(vb.value))
                     /\ vb.tag \in ByteTags => Len(vb.value) <= MaxOctets
    BY <1>2, <2>2, Zenon DEF Good, Fits
  <2> QED BY <2>3 DEF vb
<1> QED BY <1>1, <1>3, Zenon DEF AllGood, LegalList, AllOrdinary

LEMMA ConfiguredFits ==
  ASSUME NEW community \in {ReadCommunity, WriteCommunity}
  PROVE  Len(Configured(community)) <= MaxCommunity
<1> DEFINE n == Min({Len(community), MaxCommunity})
<1>1. community \in Seq(1 .. 255) /\ Len(community) \in Nat /\ MaxCommunity \in Nat
  BY MessageAssumption, CodecAssumption, LenProperties
<1>2. n \in {Len(community), MaxCommunity} /\ n <= Len(community) /\ n <= MaxCommunity
  BY <1>1, MinAtMost
<1> HIDE DEF n
<1>3. n \in 0 .. Len(community)
  BY <1>1, <1>2
<1>4. Len(SubSeq(community, 1, n)) = n
  BY <1>1, <1>3, PrefixIs
<1> QED BY <1>2, <1>4, Zenon DEF Configured, n

\* The context of a request that reaches its handler as its manager meant it.
Understood(m) ==
  [ok |-> TRUE, version |-> m.version, community |-> m.community,
   access |-> IF m.community = Configured(WriteCommunity) THEN "readwrite" ELSE "read",
   tag |-> m.tag, numbers |-> m.numbers, vbs |-> m.vbs]

\* Legal messages, and no others, arrive in any form as they were meant.
LEMMA IncomingIs ==
  ASSUME NEW m, Intended(m), NEW form \in Forms, Message(m, form) \in Seq(Octet)
  PROVE  Incoming(Message(m, form)) = IF Legal(m) THEN Understood(m) ELSE Nothing
<1> DEFINE d == Message(m, form)
           sender == DecodeCommunity(d)
           version == DecodeVersion(d)
           pdu == DecodeRequestPdu(sender.rest)
           access == Access(m.community)
           fits == Len(m.community) <= MaxCommunity
<1>1. /\ d # <<>> /\ version = Yields(m.version)
      /\ sender = IF fits
                  THEN [ok |-> TRUE, community |-> m.community, rest |-> PduOf(m, form)]
                  ELSE [ok |-> FALSE]
      /\ DecodeRequestPdu(PduOf(m, form)) = PduRead(m.tag, m.numbers, m.vbs)
  BY EnvelopeDecodes
<1>2. Incoming(d) = Accepted(version, sender, pdu)
  BY <1>1, Zenon DEF Incoming
<1> HIDE DEF d, sender, version
<1>3. version.ok /\ version.value = m.version
  BY <1>1 DEF Yields
<1>4. Supported(version) <=> m.version \in {V1, V2c}
  BY <1>3, Zenon DEF Supported
<1>5. /\ m.community = Configured(WriteCommunity) => access = "readwrite"
      /\ m.community # Configured(WriteCommunity) => access # "readwrite"
      /\ m.community \in {Configured(ReadCommunity), Configured(WriteCommunity)} => access # "none"
      /\ m.community \notin {Configured(ReadCommunity), Configured(WriteCommunity)} => access = "none"
      /\ m.community = Configured(ReadCommunity) /\ m.community # Configured(WriteCommunity)
           => access = "read"
  BY DEF Access
<1>6. m.community \in {Configured(ReadCommunity), Configured(WriteCommunity)} => fits
  BY ConfiguredFits, Zenon
<1>7. AllGood(m.vbs) <=> LegalList(m.vbs)
  BY GoodIsLegal DEF Intended
<1>8. Legal(m) <=> /\ m.version \in {V1, V2c}
                   /\ m.community \in {Configured(ReadCommunity), Configured(WriteCommunity)}
                   /\ m.tag \in RequestTags
                   /\ m.tag = Tag.set => m.community = Configured(WriteCommunity)
                   /\ LegalList(m.vbs)
  BY Zenon DEF Legal, LegalList
<1> HIDE DEF access
<1>9. CASE ~fits
  <2>1. ~sender.ok
    BY <1>1, <1>9
  <2>2. ~Legal(m)
    BY <1>6, <1>8, <1>9, Zenon
  <2> QED BY <1>2, <2>1, <2>2, Zenon DEF Accepted, d
<1>10. CASE fits
  <2>1. sender.ok /\ sender.community = m.community /\ sender.rest = PduOf(m, form)
    BY <1>1, <1>10
  <2>2. pdu = IF m.tag \in RequestTags /\ AllGood(m.vbs)
              THEN [ok |-> TRUE, tag |-> m.tag, numbers |-> m.numbers, vbs |-> m.vbs]
              ELSE NoPdu
    BY <1>1, <2>1, Zenon DEF PduRead
  <2> HIDE DEF pdu
  <2>3. CASE ~(m.tag \in RequestTags /\ AllGood(m.vbs))
    <3>1. ~pdu.ok
      BY <2>2, <2>3 DEF NoPdu
    <3>2. ~Legal(m)
      BY <1>7, <1>8, <2>3, Zenon
    <3> QED BY <1>2, <3>1, <3>2, Zenon DEF Accepted, d
  <2>4. CASE m.tag \in RequestTags /\ AllGood(m.vbs)
    <3>1. pdu.ok /\ pdu.tag = m.tag /\ pdu.numbers = m.numbers /\ pdu.vbs = m.vbs
      BY <2>2, <2>4
    <3>2. Access(sender.community) = access
      BY <2>1, Zenon DEF access
    <3>3. Accepted(version, sender, pdu)
            = IF Supported(version) /\ access # "none" /\ (m.tag = Tag.set => access = "readwrite")
              THEN [ok |-> TRUE, version |-> m.version, community |-> m.community,
                    access |-> access, tag |-> m.tag, numbers |-> m.numbers, vbs |-> m.vbs]
              ELSE Nothing
      BY <1>3, <2>1, <3>1, <3>2, Zenon DEF Accepted
    <3>4. CASE Legal(m)
      <4>1. /\ Supported(version) /\ access # "none" /\ (m.tag = Tag.set => access = "readwrite")
            /\ access = IF m.community = Configured(WriteCommunity) THEN "readwrite" ELSE "read"
        BY <1>4, <1>5, <1>8, <3>4, Zenon
      <4> QED BY <1>2, <3>3, <3>4, <4>1, Zenon DEF Understood, d
    <3>5. CASE ~Legal(m)
      <4>1. ~(Supported(version) /\ access # "none" /\ (m.tag = Tag.set => access = "readwrite"))
        BY <1>4, <1>5, <1>7, <1>8, <2>4, <3>5, Zenon
      <4> QED BY <1>2, <3>3, <3>5, <4>1, Zenon DEF d
    <3> QED BY <3>4, <3>5
  <2> QED BY <2>3, <2>4
<1> QED BY <1>9, <1>10

-----------------------------------------------------------------------------
(* A message that has lost its end. *)
LEMMA PrefixOfPrefix ==
  ASSUME NEW S, NEW s \in Seq(S), NEW n \in 0 .. Len(s), NEW k \in 0 .. n
  PROVE  SubSeq(SubSeq(s, 1, n), 1, k) = SubSeq(s, 1, k)
<1> DEFINE p == SubSeq(s, 1, n)
           q == SubSeq(p, 1, k)
           r == SubSeq(s, 1, k)
<1>1. k \in 0 .. Len(s) /\ \A i \in 1 .. k : i \in 1 .. n
  BY LenProperties
<1>2. p \in Seq(S) /\ Len(p) = n /\ \A i \in 1 .. n : p[i] = s[i]
  BY PrefixIs
<1>3. r \in Seq(S) /\ Len(r) = k /\ \A i \in 1 .. k : r[i] = s[i]
  BY <1>1, PrefixIs
<1> HIDE DEF p, r
<1>4. q \in Seq(S) /\ Len(q) = k /\ \A i \in 1 .. k : q[i] = p[i]
  BY <1>2, PrefixIs
<1> HIDE DEF q
<1>5. \A i \in 1 .. k : q[i] = r[i]
  BY <1>1, <1>2, <1>3, <1>4, Zenon
<1>6. q = r
  BY <1>3, <1>4, <1>5, SeqEqual, Zenon
<1> QED BY <1>6, Zenon DEF p, q, r

LEMMA IncomingCut ==
  ASSUME NEW m, Intended(m), NEW form \in Forms, Message(m, form) \in Seq(Octet),
         NEW k \in 0 .. Len(Message(m, form)) - 1
  PROVE  Incoming(SubSeq(Message(m, form), 1, k)) = Nothing
<1> DEFINE content == ContentOf(m, form)
           d == SubSeq(Message(m, form), 1, k)
<1>1. /\ Message(m, form) = Element(Tag.sequence, content, form)
      /\ Short(Len(content)) /\ content \in Seq(Octet)
  BY MessageParts, EnvelopeDecodes
<1> HIDE DEF content
<1>2. DecodeTlv(d) = NoTlv
  <2>1. k \in 0 .. Len(Element(Tag.sequence, content, form)) - 1
    BY <1>1
  <2>2. DecodeTlv(SubSeq(Element(Tag.sequence, content, form), 1, k)) = NoTlv
    BY <1>1, <2>1, ElementCut, TagsAreOctets
  <2> QED BY <1>1, <2>2
<1> HIDE DEF d
<1>3. Expect(d, Tag.sequence) = NoTlv
  BY <1>2, Zenon DEF Expect
<1>4. NoTlv.content = <<>>
  BY DEF NoTlv
<1>5. DecodeTlv(<<>>) = NoTlv
  <2>1. Len(<<>>) < 2
    BY EmptySeq
  <2> QED BY <2>1, Zenon DEF DecodeTlv
<1>6. Expect(NoTlv.content, Tag.integer) = NoTlv
  BY <1>4, <1>5, Zenon DEF Expect
<1>7. DecodeVersion(d) = DecodeInteger(NoTlv)
  BY <1>3, <1>6, Zenon DEF DecodeVersion
<1>8. ~Supported(DecodeVersion(d))
  BY <1>7, NoTlvFails, Zenon DEF Supported
<1>9. Incoming(d) = Nothing
  BY <1>8, Zenon DEF Incoming, Accepted
<1> QED BY <1>9, Zenon DEF d

\* What recvfrom keeps of a datagram.
Kept(d) == SubSeq(d, 1, Min({Len(d), PacketLen}))

LEMMA KeptLength ==
  ASSUME NEW n \in Nat
  PROVE  Min({n, PacketLen}) = IF n <= PacketLen THEN n ELSE PacketLen
<1> DEFINE least == Min({n, PacketLen})
<1>1. PacketLen \in Nat
  BY WireAssumption
<1>2. least \in {n, PacketLen} /\ least <= n /\ least <= PacketLen
  BY <1>1, MinAtMost
<1> HIDE DEF least
<1>3. least = IF n <= PacketLen THEN n ELSE PacketLen
  BY <1>1, <1>2
<1> QED BY <1>3 DEF least

LEMMA KeptWhole ==
  ASSUME NEW m, Intended(m), NEW form \in Forms, Message(m, form) \in Seq(Octet)
  PROVE  Incoming(Kept(Message(m, form)))
           = IF Legal(m) /\ Len(Message(m, form)) <= PacketLen THEN Understood(m) ELSE Nothing
<1> DEFINE d == Message(m, form)
           n == Len(d)
<1>1. n \in Nat /\ PacketLen \in Nat
  BY WireAssumption, LenProperties
<1>2. Min({n, PacketLen}) = IF n <= PacketLen THEN n ELSE PacketLen
  BY <1>1, KeptLength
<1>3. CASE n <= PacketLen
  <2>1. Kept(d) = SubSeq(d, 1, Len(d))
    BY <1>2, <1>3, Zenon DEF Kept
  <2>2. Kept(d) = d
    BY <2>1, WholePrefix
  <2>3. Incoming(d) = IF Legal(m) THEN Understood(m) ELSE Nothing
    BY IncomingIs
  <2> QED BY <1>3, <2>2, <2>3, Zenon
<1>4. CASE ~(n <= PacketLen)
  <2>1. PacketLen \in 0 .. n - 1
    <3> HIDE DEF n
    <3> QED BY <1>1, <1>4
  <2>2. Incoming(SubSeq(d, 1, PacketLen)) = Nothing
    BY <2>1, IncomingCut
  <2>3. Kept(d) = SubSeq(d, 1, PacketLen)
    BY <1>2, <1>4, Zenon DEF Kept
  <2> QED BY <1>4, <2>2, <2>3, Zenon
<1> QED BY <1>3, <1>4

LEMMA KeptCut ==
  ASSUME NEW m, Intended(m), NEW form \in Forms, Message(m, form) \in Seq(Octet),
         NEW k \in 0 .. Len(Message(m, form)) - 1
  PROVE  Incoming(Kept(SubSeq(Message(m, form), 1, k))) = Nothing
<1> DEFINE d == Message(m, form)
           cut == SubSeq(d, 1, k)
           j == IF k <= PacketLen THEN k ELSE PacketLen
<1>1. k \in Nat /\ PacketLen \in Nat /\ k \in 0 .. Len(d)
  BY WireAssumption, LenProperties
<1>2. Len(cut) = k
  BY <1>1, PrefixIs
<1>3. Min({k, PacketLen}) = j
  BY <1>1, KeptLength
<1>4. j \in 0 .. k /\ j \in 0 .. Len(d) - 1
  BY <1>1
<1>5. Kept(cut) = SubSeq(cut, 1, j)
  BY <1>2, <1>3, Zenon DEF Kept
<1> HIDE DEF j
<1>6. SubSeq(cut, 1, j) = SubSeq(d, 1, j)
  BY <1>1, <1>4, PrefixOfPrefix
<1>7. Incoming(SubSeq(d, 1, j)) = Nothing
  BY <1>4, IncomingCut
<1> QED BY <1>5, <1>6, <1>7, Zenon

LEMMA ReceiveUnderstands ==
  ASSUME NEW m \in DOMAIN Messages, NEW form \in Forms,
         NEW damage \in {"none", "cut", "changed"}, Receive(m, form, damage)
  PROVE  RequestsAreUnderstood'
<1> DEFINE meant == Messages[m]
           sent == Message(meant, form)
<1>1. sent \in Seq(Octet) /\ Intended(meant)
  BY WireAssumption, MessageAssumption, ZenonT(60) DEF Intended
<1>2. asked' = meant /\ fault' = damage /\ \E d \in Arrivals(m, sent, damage) : Process(d)
  BY Zenon DEF Receive
<1>3. PICK d \in Arrivals(m, sent, damage) : Process(d)
  BY <1>2, Zenon
<1>4. datagram' = d /\ context' = Incoming(Kept(d))
      /\ phase' = IF context'.ok THEN "dispatched" ELSE "refused"
  BY <1>3, Zenon DEF Process, Kept
<1> HIDE DEF sent
<1>5. CASE damage = "none"
  <2>1. d = sent
    BY <1>5 DEF Arrivals
  <2> HIDE DEF meant
  <2>2. context' = IF Legal(meant) /\ Len(sent) <= PacketLen THEN Understood(meant) ELSE Nothing
    BY <1>1, <1>4, <2>1, KeptWhole, Zenon DEF sent
  <2>3. Legal(asked)' <=> Legal(meant)
    BY <1>2 DEF Legal, AllOrdinary, Ordinary, Configured
  <2>4. ~Nothing.ok
    BY DEF Nothing
  <2>5. IF Legal(meant) /\ Len(datagram') <= PacketLen
        THEN context' = Understood(meant) ELSE phase' = "refused"
    BY <1>4, <2>1, <2>2, <2>4, Zenon
  <2>6. fault' # "cut"
    BY <1>2, <1>5
  <2>7. Understood(meant)
          = [ok |-> TRUE, version |-> asked'.version, community |-> asked'.community,
             access |-> IF asked'.community = Configured(WriteCommunity)
                        THEN "readwrite" ELSE "read",
             tag |-> asked'.tag, numbers |-> asked'.numbers, vbs |-> asked'.vbs]
    BY <1>2, Zenon DEF Understood
  <2>8. Configured(WriteCommunity)' = Configured(WriteCommunity)
    BY DEF Configured
  <2> QED BY <2>3, <2>5, <2>6, <2>7, <2>8, Zenon DEF RequestsAreUnderstood
<1>6. CASE damage = "cut"
  <2>1. PICK k \in 0 .. Len(sent) - 1 : d = SubSeq(sent, 1, k)
    <3>1. d \in Arrivals(m, sent, "cut")
      BY <1>6
    <3>2. \E k \in 0 .. Len(sent) - 1 : d = SubSeq(sent, 1, k)
      BY <3>1 DEF Arrivals
    <3> QED BY <3>2, Zenon
  <2> HIDE DEF meant
  <2>2. Incoming(Kept(d)) = Nothing
    BY <1>1, <2>1, KeptCut, Zenon DEF sent
  <2>3. ~Nothing.ok
    BY DEF Nothing
  <2>4. phase' # "dispatched"
    BY <1>4, <2>2, <2>3
  <2>5. fault' # "none"
    BY <1>2, <1>6
  <2> QED BY <2>4, <2>5, Zenon DEF RequestsAreUnderstood
<1>7. CASE damage = "changed"
  <2>1. fault' # "none" /\ fault' # "cut"
    BY <1>2, <1>7
  <2> QED BY <2>1, Zenon DEF RequestsAreUnderstood
<1> QED BY <1>5, <1>6, <1>7

\* A legal request reaches its handler as its manager meant it, in whichever
\* form of BER it was sent, with every version, community, number, name and
\* value; one that is not legal, or longer than a packet, is refused; and of
\* one that was cut short nothing is understood, wherever the cut is
\* (snmp_message_process, process_incoming, snmp_decode_request_pdu,
\* ber_decode.c).
THEOREM RequestsUnderstood == Spec => []RequestsAreUnderstood
<1>1. ASSUME Init PROVE RequestsAreUnderstood
  BY <1>1 DEF Init, RequestsAreUnderstood
<1>2. ASSUME RequestsAreUnderstood, [Next]_vars PROVE RequestsAreUnderstood'
  <2>1. ASSUME phase' \notin {"dispatched", "refused"} PROVE RequestsAreUnderstood'
    BY <2>1 DEF RequestsAreUnderstood
  <2>2. ASSUME NEW status \in Statuses, NEW index \in Indices, Echo(status, index)
        PROVE  RequestsAreUnderstood'
    <3>1. phase' = "handled"
      BY <2>2, Zenon DEF Echo
    <3> QED BY <2>1, <3>1
  <2>3. ASSUME NEW a \in DOMAIN Answers, Answer(Answers[a]) PROVE RequestsAreUnderstood'
    <3>1. phase' = "handled"
      BY <2>3, Zenon DEF Answer
    <3> QED BY <2>1, <3>1
  <2>4. ASSUME Reply PROVE RequestsAreUnderstood'
    <3>1. phase' = "sent" \/ phase' = "silent"
      BY <2>4, Zenon DEF Reply
    <3> QED BY <2>1, <3>1
  <2>5. ASSUME NEW t \in DOMAIN Traps, Trap(Traps[t]) PROVE RequestsAreUnderstood'
    <3>1. phase' = "trap"
      BY <2>5, Zenon DEF Trap
    <3> QED BY <2>1, <3>1
  <2>6. ASSUME Continue PROVE RequestsAreUnderstood'
    <3>1. phase' = "idle"
      BY <2>6, Zenon DEF Continue
    <3> QED BY <2>1, <3>1
  <2>7. ASSUME UNCHANGED vars PROVE RequestsAreUnderstood'
    BY <1>2, <2>7 DEF vars, RequestsAreUnderstood, Legal, AllOrdinary, Ordinary, Configured
  <2> QED BY <1>2, <2>2, <2>3, <2>4, <2>5, <2>6, <2>7, ReceiveUnderstands, Zenon DEF Next
<1> QED BY <1>1, <1>2, PTL DEF Spec

-----------------------------------------------------------------------------
(* The traps of the firmware fit their buffers. *)
LEMMA OneMore ==
  ASSUME NEW k \in Nat, NEW i \in Nat
  PROVE  k * (i + 1) = k * i + k /\ k * i \in Nat
  OBVIOUS

\* Of pieces of at most k octets each.
LEMMA FlattenBound ==
  ASSUME NEW S, NEW seqs \in Seq(Seq(S)), NEW k \in Nat,
         \A i \in 1 .. Len(seqs) : Len(seqs[i]) <= k
  PROVE  Len(FlattenSeq(seqs)) <= k * Len(seqs)
<1> DEFINE n == Len(seqs)
           flat == FlattenWalk(seqs)
           T == {i \in 1 .. n : flat[i] \in Seq(S) /\ Len(flat[i]) <= k * i}
<1>1. n \in Nat /\ \A i \in 1 .. n : seqs[i] \in Seq(S) /\ Len(seqs[i]) \in Nat
  BY ElementOfSeq, LenProperties
<1>2. CASE seqs = <<>>
  <2>1. n = 0
    BY <1>2, EmptySeq
  <2>2. FlattenSeq(seqs) = <<>>
    BY <1>2, <2>1, EmptySeq, Zenon DEF FlattenSeq
  <2> QED BY <2>1, <2>2
<1>3. CASE seqs # <<>>
  <2>1. 1 \in 1 .. n /\ n \in 1 .. n /\ k * 1 = k /\ \A i \in 2 .. n : i \in 1 .. n
    <3>1. n # 0
      BY <1>3, EmptySeq
    <3> QED BY <1>1, <3>1
  <2>2. FlattenSeq(seqs) = flat[n] /\ flat[1] = seqs[1]
        /\ \A i \in 2 .. n : flat[i] = flat[i - 1] \o seqs[i]
    BY <1>3, FlattenWalkIs
  <2> HIDE DEF flat
  <2>3. 1 \in T
    BY <1>1, <2>1, <2>2
  <2>4. ASSUME NEW i \in 2 .. n, i - 1 \in T PROVE i \in T
    <3> DEFINE a == Len(flat[i - 1])
               b == Len(seqs[i])
               p == k * (i - 1)
    <3>1. /\ flat[i - 1] \in Seq(S) /\ a <= p /\ seqs[i] \in Seq(S) /\ b <= k
          /\ flat[i] = flat[i - 1] \o seqs[i]
      BY <1>1, <2>1, <2>2, <2>4
    <3>2. flat[i] \in Seq(S) /\ Len(flat[i]) = a + b
      BY <3>1, ConcatProperties
    <3>3. k * i = p + k /\ p \in Nat
      <4>1. i - 1 \in Nat /\ (i - 1) + 1 = i
        BY <1>1
      <4> QED BY <4>1, OneMore
    <3>4. a \in Nat /\ b \in Nat
      BY <3>1, LenProperties
    <3> HIDE DEF a, b, p
    <3>5. Len(flat[i]) <= k * i
      BY <3>1, <3>2, <3>3, <3>4
    <3> QED BY <2>1, <3>2, <3>5
  <2>5. \A i \in 1 .. n : i \in T
    <3> HIDE DEF T
    <3> QED BY <1>1, <2>3, <2>4, InductFromOne
  <2> QED BY <2>1, <2>2, <2>5
<1> QED BY <1>2, <1>3

\* An OID none of whose arcs takes more than k octets.
LEMMA OidBound ==
  ASSUME NEW oid \in Oids, NEW k \in Nat, k >= 1,
         \A i \in 3 .. Len(oid) : Vanish(oid[i], k)
  PROVE  Len(OidContent(oid)) <= 1 + k * (Len(oid) - 2)
<1> DEFINE n == Len(oid) - 2
           root == (oid[1][4] * 40 + oid[2][4]) % 256
<1>1. oid \in Seq(Word) /\ Len(oid) \in 2 .. 20 /\ n \in Nat
  BY OidsLong
<1>2. Arcs2(oid) \in Seq(Seq(Nat)) /\ Len(Arcs2(oid)) = n
  BY OidsLong, Arcs2Type
<1>3. ASSUME NEW i \in 1 .. n PROVE Len(Arcs2(oid)[i]) <= k
  <2>1. i + 2 \in 1 .. Len(oid) /\ i + 2 \in 3 .. Len(oid)
    BY <1>1
  <2>2. oid[i + 2] \in Word /\ Vanish(oid[i + 2], k)
    BY <1>1, <2>1, ElementOfSeq
  <2>3. Arcs2(oid)[i] = ArcOctets(oid[i + 2])
    BY DEF Arcs2
  <2> QED BY <2>2, <2>3, ArcLength
<1> HIDE DEF n
<1>4. FlattenSeq(Arcs2(oid)) \in Seq(Nat) /\ Len(FlattenSeq(Arcs2(oid))) <= k * n
  BY <1>2, <1>3, FlattenType, FlattenBound
<1>5. OidContent(oid) = <<root>> \o FlattenSeq(Arcs2(oid))
  BY Zenon DEF OidContent, Arcs2, root
<1>6. Len(OidContent(oid)) = 1 + Len(FlattenSeq(Arcs2(oid)))
  <2>1. root \in Nat
    BY OidsLong, RootType
  <2> HIDE DEF root
  <2>2. <<root>> \in Seq(Nat) /\ Len(<<root>>) = 1
    BY <2>1
  <2> QED BY <1>4, <1>5, <2>2, ConcatProperties
<1>7. Len(FlattenSeq(Arcs2(oid))) \in Nat
  BY <1>4, LenProperties
<1>8. k * n \in Nat
  BY <1>1, OneMore
<1> DEFINE a == Len(FlattenSeq(Arcs2(oid)))
           p == k * n
<1>9. 1 + a <= 1 + p
  <2>1. a \in Nat /\ p \in Nat /\ a <= p
    BY <1>4, <1>7, <1>8
  <2> HIDE DEF a, p
  <2> QED BY <2>1
<1> QED BY <1>6, <1>9, Zenon DEF n

\* An arc below 128 takes one octet, and none takes more than five.
LEMMA SmallArc ==
  ASSUME NEW n \in 0 .. 127
  PROVE  Vanish(WordOf(n), 1)
<1> DEFINE w == WordOf(n)
<1>1. n \in 0 .. 255
  OBVIOUS
<1> HIDE DEF w
<1>2. w[1] = 0 /\ w[2] = 0 /\ w[3] = 0 /\ w[4] = n
  <2>1. w = <<0, 0, 0, n>>
    BY <1>1, WordOfType, Zenon DEF w
  <2> QED BY <2>1
<1>3. Groups(w) = <<0, 0, 0, 0, n % 128>>
  <2>1. /\ 0 \div 16 = 0 /\ (0 % 16) * 8 + 0 \div 32 = 0 /\ (0 % 32) * 4 + 0 \div 64 = 0
        /\ (0 % 64) * 2 + n \div 128 = 0
    OBVIOUS
  <2> QED BY <1>2, <2>1, ZenonT(60) DEF Groups
<1>4. \A g \in 1 .. 5 - 1 : Groups(w)[g] = 0
  BY <1>3
<1> QED BY <1>4 DEF Vanish, w

LEMMA AnyArc ==
  ASSUME NEW w
  PROVE  Vanish(w, 5)
<1>1. 1 .. 5 - 5 = {}
  OBVIOUS
<1> QED BY <1>1 DEF Vanish

LEMMA SmallOid ==
  ASSUME NEW arcs \in Seq(0 .. 127), OidOf(arcs) \in Oids
  PROVE  Len(OidContent(OidOf(arcs))) <= Len(arcs) - 1 /\ Len(arcs) \in 2 .. 20
<1> DEFINE oid == OidOf(arcs)
           n == Len(arcs)
<1>1. n \in Nat /\ DOMAIN arcs = 1 .. n /\ \A i \in 1 .. n : arcs[i] \in 0 .. 127
  BY ElementOfSeq, LenProperties
<1>2. DOMAIN oid = 1 .. n /\ \A i \in 1 .. n : oid[i] = WordOf(arcs[i])
  BY <1>1, Zenon DEF OidOf
<1>3. oid \in Seq(Word) /\ Len(oid) \in 2 .. 20
  BY OidsLong
<1> HIDE DEF oid
<1>4. Len(oid) = n
  BY <1>1, <1>2, <1>3, LenProperties
<1>5. \A i \in 3 .. n : Vanish(oid[i], 1)
  <2>1. \A i \in 3 .. n : i \in 1 .. n
    BY <1>1
  <2> QED BY <1>1, <1>2, <2>1, SmallArc, Zenon
<1>6. oid \in Oids
  BY DEF oid
<1>7. Len(OidContent(oid)) <= 1 + 1 * (Len(oid) - 2)
  <2>1. 1 \in Nat /\ 1 >= 1
    OBVIOUS
  <2> QED BY <1>4, <1>5, <1>6, <2>1, OidBound, Zenon
<1> HIDE DEF n
<1>8. 1 + 1 * (n - 2) = n - 1
  BY <1>1
<1>9. Len(OidContent(oid)) <= n - 1 /\ n \in 2 .. 20
  BY <1>3, <1>4, <1>7, <1>8, Zenon
<1> QED BY <1>9 DEF oid, n

LEMMA AnyOid ==
  ASSUME NEW oid \in Oids
  PROVE  Len(OidContent(oid)) <= 1 + 5 * (Len(oid) - 2)
<1>1. 5 \in Nat /\ 5 >= 1
  OBVIOUS
<1>2. \A i \in 3 .. Len(oid) : Vanish(oid[i], 5)
  BY AnyArc
<1> QED BY <1>1, <1>2, OidBound, Zenon

\* A word takes at most five octets, four if it has a sign.
LEMMA WordBound ==
  ASSUME NEW w \in Word
  PROVE  /\ IntegerContent(w) \in Seq(Nat) /\ Len(IntegerContent(w)) <= 5
         /\ UnsignedContent(w) \in Seq(Nat) /\ Len(UnsignedContent(w)) <= 5
<1>1. IntegerContent(w) \in Seq(Nat) /\ UnsignedContent(w) \in Seq(Nat)
  BY IntegersAgree, UnsignedsAgree DEF Word
<1>2. w \in Seq(Nat) /\ Len(w) = 4
  BY WordIsSeq DEF Word
<1>3. ASSUME NEW s \in 1 .. 4
      PROVE  SubSeq(w, s, 4) \in Seq(Nat) /\ Len(SubSeq(w, s, 4)) <= 4
                /\ Len(SubSeq(w, s, 4)) \in Nat
  <2>1. s \in Nat \ {0} /\ 4 \in 0 .. Len(w) /\ 4 - s + 1 <= 4 /\ s <= 4
    BY <1>2
  <2>2. Len(SubSeq(w, s, 4)) = 4 - s + 1 /\ SubSeq(w, s, 4) \in Seq(Nat)
    BY <1>2, <2>1, CutType
  <2> QED BY <2>1, <2>2
<1>4. IntegerStart(w) \in 1 .. 4 /\ UnsignedStart(w) \in 1 .. 4
  <2>1. UnsignedStart(w) \in 1 .. 4
    BY UnsignedStartIs DEF Word
  <2> QED BY <2>1, IntegerStartIs
<1>5. Len(IntegerContent(w)) <= 4 /\ Len(IntegerContent(w)) \in Nat
  BY <1>3, <1>4, Zenon DEF IntegerContent
<1> DEFINE tail == SubSeq(w, UnsignedStart(w), 4)
           pad == IF w[UnsignedStart(w)] >= 128 THEN <<0>> ELSE <<>>
<1>6. tail \in Seq(Nat) /\ Len(tail) <= 4 /\ Len(tail) \in Nat
  BY <1>3, <1>4, Zenon
<1>7. UnsignedContent(w) = pad \o tail
  BY <1>2, Zenon DEF UnsignedContent
<1>8. pad \in Seq(Nat) /\ Len(pad) <= 1 /\ Len(pad) \in Nat
  OBVIOUS
<1> HIDE DEF tail, pad
<1>9. Len(UnsignedContent(w)) = Len(pad) + Len(tail)
  BY <1>6, <1>7, <1>8, ConcatProperties
<1> QED BY <1>1, <1>5, <1>6, <1>8, <1>9

\* A name of at most n octets, and a value of at most m.
LEMMA VarbindBound ==
  ASSUME NEW vb \in Varbinds, NEW n \in Nat, NEW m \in Nat,
         Len(OidContent(vb.oid)) <= n, Len(EncodeValue(vb)) <= m
  PROVE  Len(EncodeVarbind(vb)) <= TlvLen(TlvLen(n) + m)
<1> DEFINE a == Len(OidContent(vb.oid))
           b == Len(EncodeValue(vb))
<1>1. vb.oid \in Oids /\ EncodeValue(vb) \in Seq(Nat)
  BY VarbindFields, EncodeValueType
<1>2. OidContent(vb.oid) \in Seq(Nat) /\ Len(EncodeOid(vb.oid)) = TlvLen(a)
  BY <1>1, EncodeOidType
<1>3. a \in Nat /\ b \in Nat
  BY <1>1, <1>2, LenProperties
<1>4. Len(EncodeVarbind(vb)) = TlvLen(TlvLen(a) + b)
  BY <1>2, EncodeVarbindType, Zenon
<1>5. a <= n /\ b <= m
  OBVIOUS
<1> HIDE DEF a, b
<1>6. TlvLen(a) \in Nat /\ TlvLen(n) \in Nat /\ TlvLen(a) <= TlvLen(n)
  BY <1>3, <1>5, TlvLenType, TlvLenGrows
<1>7. TlvLen(a) + b \in Nat /\ TlvLen(n) + m \in Nat /\ TlvLen(a) + b <= TlvLen(n) + m
  BY <1>3, <1>5, <1>6
<1> QED BY <1>4, <1>7, TlvLenGrows, Zenon

\* The value of a varbind, of what kind it may be.
LEMMA ValueBound ==
  ASSUME NEW vb \in Varbinds, NEW n \in Nat
  PROVE  /\ vb.tag \in {Tag.integer, Tag.timeTicks} => Len(EncodeValue(vb)) <= TlvLen(5)
         /\ vb.tag = Tag.oid /\ Len(OidContent(vb.value)) <= n
              => Len(EncodeValue(vb)) <= TlvLen(n)
<1>1. vb.value \in ValuesOf(vb.tag) /\ vb.tag \in Nat
  BY VarbindFields, TagsAreNumbers
<1>2. ASSUME NEW c \in Seq(Nat), NEW k \in Nat, Len(c) <= k
      PROVE  Len(EncodeTlv(vb.tag, c)) <= TlvLen(k)
  <2>1. Len(c) \in Nat
    BY LenProperties
  <2> QED BY <1>1, <1>2, <2>1, EncodedLength, TlvLenGrows, Zenon
<1>3. 5 \in Nat
  OBVIOUS
<1>4. CASE vb.tag = Tag.integer
  <2>1. vb.value \in Word
    BY <1>1, <1>4, ValuesByTag
  <2>2. vb.tag # Tag.oid
    BY <1>4, TagsApart
  <2> QED BY <1>2, <1>3, <1>4, <2>1, <2>2, WordBound, ContentByTag, Zenon
<1>5. CASE vb.tag = Tag.timeTicks
  <2>1. vb.tag \in UnsignedTags /\ vb.tag # Tag.oid
    BY <1>5 DEF UnsignedTags, Tag
  <2>2. vb.value \in Word
    BY <1>1, <2>1, ValuesByTag
  <2>3. EncodeValue(vb) = EncodeTlv(vb.tag, UnsignedContent(vb.value))
    BY <2>1, ContentByTag
  <2> QED BY <1>2, <1>3, <1>5, <2>1, <2>2, <2>3, WordBound, Zenon
<1>6. CASE vb.tag = Tag.oid
  <2>1. vb.value \in Oids
    BY <1>1, <1>6, ValuesByTag
  <2>2. OidContent(vb.value) \in Seq(Nat)
    BY <2>1, EncodeOidType
  <2>3. vb.tag # Tag.integer /\ vb.tag # Tag.timeTicks
    BY <1>6 DEF Tag
  <2> QED BY <1>2, <1>6, <2>2, <2>3, ContentByTag, Zenon
<1> QED BY <1>4, <1>5, <1>6, Zenon

\* A v2c message with these numbers of varbinds and octets.
LEMMA NoticeBound ==
  ASSUME NEW community \in Seq(Octet), Len(community) <= 31, NEW vbs \in Seq(Varbinds),
         NEW k \in Nat, \A i \in 1 .. Len(vbs) : Len(EncodeVarbind(vbs[i])) <= k
  PROVE  Len(EncodeMessage(V2c, community, EncodePdu(Tag.trapV2, <<Zero, Zero, Zero>>, vbs)))
           \in 2 .. TlvLen((3 + 33) + TlvLen(9 + TlvLen(k * Len(vbs))))
<1> DEFINE numbers == <<Zero, Zero, Zero>>
           content == FlattenSeq(Encoded(vbs))
           pdu == EncodePdu(Tag.trapV2, numbers, vbs)
           c == Len(content)
           p == k * Len(vbs)
           name == Len(community)
<1>1. Encoded(vbs) \in Seq(Seq(Nat)) /\ Len(Encoded(vbs)) = Len(vbs) /\ Len(vbs) \in Nat
  BY EncodedType, LenProperties
<1>2. \A i \in 1 .. Len(vbs) : Encoded(vbs)[i] = EncodeVarbind(vbs[i])
  <2>1. DOMAIN vbs = 1 .. Len(vbs)
    BY LenProperties
  <2> QED BY <2>1, Zenon DEF Encoded
<1>3. \A i \in 1 .. Len(Encoded(vbs)) : Len(Encoded(vbs)[i]) <= k
  BY <1>1, <1>2, Zenon
<1>4. content \in Seq(Nat) /\ c <= p
  <2>1. content \in Seq(Nat)
    BY <1>1, FlattenType
  <2>2. Len(FlattenSeq(Encoded(vbs))) <= k * Len(Encoded(vbs))
    BY <1>1, <1>3, FlattenBound
  <2> QED BY <1>1, <2>1, <2>2, Zenon
<1>5. c \in Nat /\ p \in Nat
  BY <1>1, <1>4, LenProperties, OneMore
<1>6. EncodeVarbinds(vbs) = EncodeTlv(Tag.sequence, content)
  BY Zenon DEF EncodeVarbinds, Encoded
<1> HIDE DEF content
<1>7. Len(EncodeVarbinds(vbs)) = TlvLen(c)
  BY <1>4, <1>6, EncodedLength, TagsAreNumbers
<1>8. /\ numbers \in [1 .. 3 -> Word] /\ numbers[1] = Zero /\ numbers[2] = Zero
      /\ numbers[3] = Zero
  <2> HIDE DEF c, p, pdu
  <2>1. Zero \in Word
    BY ZeroType
  <2> QED BY <2>1
<1>9. Len(EncodeInteger(Zero)) = 3 /\ Len(EncodeInteger(V2c)) = 3 /\ V2c \in Word
  <2>1. TlvLen(1) = 3
    BY DEF TlvLen
  <2>2. 0 \in 0 .. 127 /\ 1 \in 0 .. 127
    OBVIOUS
  <2> QED BY <2>1, <2>2, SmallInteger, Zenon DEF Zero, V2c
<1> HIDE DEF numbers
<1>10. Tag.trapV2 \in Nat
  BY DEF Tag
<1>11. /\ pdu \in Seq(Nat)
       /\ Len(pdu) = TlvLen(((Len(EncodeInteger(numbers[1])) + Len(EncodeInteger(numbers[2])))
                               + Len(EncodeInteger(numbers[3]))) + Len(EncodeVarbinds(vbs)))
  BY <1>8, <1>10, PduLength
<1>12. Len(pdu) = TlvLen(((3 + 3) + 3) + TlvLen(c))
  BY <1>7, <1>8, <1>9, <1>11, Zenon
<1> HIDE DEF pdu
<1>13. Len(EncodeMessage(V2c, community, pdu)) = TlvLen((3 + TlvLen(name)) + Len(pdu))
  BY <1>9, <1>11, MessageLength, Zenon
<1>14. name \in Nat /\ name <= 31
  BY LenProperties
<1> HIDE DEF c, p, name
<1>15. TlvLen(name) <= 33 /\ TlvLen(name) \in Nat
  BY <1>14 DEF TlvLen
<1>16. TlvLen(c) <= TlvLen(p) /\ TlvLen(c) \in Nat /\ TlvLen(p) \in Nat
  BY <1>4, <1>5, TlvLenGrows, TlvLenType
<1>17. TlvLen(((3 + 3) + 3) + TlvLen(c)) <= TlvLen(9 + TlvLen(p))
  <2>1. ((3 + 3) + 3) + TlvLen(c) \in Nat /\ 9 + TlvLen(p) \in Nat
        /\ ((3 + 3) + 3) + TlvLen(c) <= 9 + TlvLen(p)
    BY <1>16
  <2> QED BY <2>1, TlvLenGrows
<1> DEFINE x == Len(pdu)
           y == TlvLen(9 + TlvLen(p))
<1>18. x \in Nat /\ y \in Nat /\ x <= y
  <2>1. 9 + TlvLen(p) \in Nat
    BY <1>16
  <2> QED BY <1>11, <1>12, <1>17, <2>1, TlvLenType, LenProperties
<1> HIDE DEF x, y
<1>19. (3 + TlvLen(name)) + x \in Nat /\ (3 + 33) + y \in Nat
       /\ (3 + TlvLen(name)) + x <= (3 + 33) + y
  BY <1>15, <1>18
<1>20. TlvLen((3 + TlvLen(name)) + x) \in 2 .. TlvLen((3 + 33) + y)
  <2> DEFINE l == (3 + TlvLen(name)) + x
             m == (3 + 33) + y
  <2>1. l \in Nat /\ m \in Nat /\ l <= m
    BY <1>19
  <2> HIDE DEF l, m
  <2>2. /\ TlvLen(l) \in Nat /\ TlvLen(l) >= l + 2 /\ TlvLen(m) \in Nat
        /\ TlvLen(l) <= TlvLen(m)
    BY <2>1, TlvLenType, TlvLenGrows
  <2>3. TlvLen(l) \in 2 .. TlvLen(m)
    BY <2>1, <2>2
  <2> QED BY <2>3 DEF l, m
<1> QED BY <1>13, <1>20, Zenon DEF x, y, p, pdu, numbers

\* The two varbinds at the head of a trap whose name takes n octets.
LEMMA HeadBound ==
  ASSUME NEW uptime \in Word, NEW oid \in Oids, NEW n \in Nat, Len(OidContent(oid)) <= n, n >= 9,
         NEW first, first = [oid |-> SysUpTime, tag |-> Tag.timeTicks, value |-> uptime],
         NEW second, second = [oid |-> SnmpTrapOid, tag |-> Tag.oid, value |-> oid]
  PROVE  /\ first \in Varbinds /\ second \in Varbinds
         /\ Len(EncodeVarbind(first)) <= TlvLen(12 + TlvLen(n))
         /\ Len(EncodeVarbind(second)) <= TlvLen(12 + TlvLen(n))
<1>1. /\ first.oid = SysUpTime /\ first.tag = Tag.timeTicks /\ first.value = uptime
      /\ second.oid = SnmpTrapOid /\ second.tag = Tag.oid /\ second.value = oid
  OBVIOUS
<1>2. SysUpTime \in Oids /\ SnmpTrapOid \in Oids
  BY HeadNames DEF Encodes
<1>3. first \in Varbinds /\ second \in Varbinds
  <2>1. uptime \in ValuesOf(Tag.timeTicks) /\ oid \in ValuesOf(Tag.oid)
    <3>1. Tag.timeTicks \in UnsignedTags
      BY DEF UnsignedTags
    <3> QED BY <3>1, ValuesByTag
  <2> QED BY <1>2, <2>1, VarbindsByTag
<1>4. Len(OidContent(SysUpTime)) <= 10
  <2>1. <<1, 3, 6, 1, 2, 1, 1, 3, 0>> \in Seq(0 .. 127) /\ Len(<<1, 3, 6, 1, 2, 1, 1, 3, 0>>) - 1 = 8
    OBVIOUS
  <2>2. Len(OidContent(SysUpTime)) <= 8
    BY <1>2, <2>1, SmallOid DEF SysUpTime
  <2>3. Len(OidContent(SysUpTime)) \in Nat
    BY <1>2, EncodeOidType, LenProperties
  <2> QED BY <2>2, <2>3
<1>5. Len(OidContent(SnmpTrapOid)) <= 10
  <2>1. <<1, 3, 6, 1, 6, 3, 1, 1, 4, 1, 0>> \in Seq(0 .. 127)
        /\ Len(<<1, 3, 6, 1, 6, 3, 1, 1, 4, 1, 0>>) - 1 = 10
    OBVIOUS
  <2> QED BY <1>2, <2>1, SmallOid DEF SnmpTrapOid
<1>6. TlvLen(10) = 12 /\ TlvLen(n) \in Nat /\ TlvLen(5) <= TlvLen(n) /\ TlvLen(5) \in Nat
  BY TlvLenGrows DEF TlvLen
<1>7. Len(EncodeValue(first)) <= TlvLen(n)
  <2>1. Len(EncodeValue(first)) <= TlvLen(5)
    BY <1>1, <1>3, ValueBound
  <2>2. Len(EncodeValue(first)) \in Nat
    BY <1>3, EncodeValueType, LenProperties
  <2> QED BY <1>6, <2>1, <2>2
<1>8. Len(EncodeValue(second)) <= TlvLen(n)
  BY <1>1, <1>3, ValueBound
<1>9. 10 \in Nat
  OBVIOUS
<1> QED BY <1>1, <1>3, <1>4, <1>5, <1>6, <1>7, <1>8, <1>9, VarbindBound

LEMMA WespeLength ==
  ASSUME NEW arcs \in Seq(Nat), Wespe(arcs) \in Oids
  PROVE  Len(Wespe(arcs)) = 7 + Len(arcs)
<1> DEFINE root == <<1, 3, 6, 1, 4, 1, 99999>>
           all == root \o arcs
<1>1. root \in Seq(Nat) /\ Len(root) = 7
  OBVIOUS
<1>2. Wespe(arcs) = OidOf(all)
  BY DEF Wespe
<1> HIDE DEF root
<1>3. all \in Seq(Nat) /\ Len(all) = Len(root) + Len(arcs)
  BY <1>1, ConcatProperties
<1> HIDE DEF all
<1>4. DOMAIN all = 1 .. Len(all) /\ Len(all) \in Nat
  BY <1>3, LenProperties
<1>5. DOMAIN OidOf(all) = 1 .. Len(all)
  BY <1>4 DEF OidOf
<1>6. OidOf(all) \in Seq(Word)
  BY <1>2, OidsLong
<1>7. Len(OidOf(all)) = Len(all)
  BY <1>4, <1>5, <1>6, LenProperties
<1> QED BY <1>1, <1>2, <1>3, <1>7

\* The names of the firmware.
LEMMA OwnNames ==
  /\ ColdStart \in Oids => Len(OidContent(ColdStart)) <= 9
  /\ \A r \in Reports : \A i \in 1 .. 2 :
       r[i] \in Oids => Len(OidContent(r[i])) <= 41 /\ (i = 1 => Len(OidContent(r[i])) <= 36)
<1>1. ColdStart \in Oids => Len(OidContent(ColdStart)) <= 9
  <2>1. <<1, 3, 6, 1, 6, 3, 1, 1, 5, 1>> \in Seq(0 .. 127)
        /\ Len(<<1, 3, 6, 1, 6, 3, 1, 1, 5, 1>>) - 1 = 9
    OBVIOUS
  <2> QED BY <2>1, SmallOid DEF ColdStart
<1>3. ASSUME NEW arcs \in Seq(Nat), Wespe(arcs) \in Oids, Len(arcs) <= 3
      PROVE  /\ Len(OidContent(Wespe(arcs))) <= 41
             /\ Len(arcs) <= 2 => Len(OidContent(Wespe(arcs))) <= 36
  <2> DEFINE n == Len(OidContent(Wespe(arcs)))
             m == Len(arcs)
  <2>1. n \in Nat /\ m \in Nat /\ m <= 3
    BY <1>3, EncodeOidType, LenProperties
  <2>2. n <= 1 + 5 * ((7 + m) - 2)
    BY <1>3, WespeLength, AnyOid
  <2> HIDE DEF n, m
  <2>3. n <= 41 /\ (m <= 2 => n <= 36)
    BY <2>1, <2>2
  <2> QED BY <2>3 DEF n, m
<1>4. /\ <<3, 1>> \in Seq(Nat) /\ <<3, 2>> \in Seq(Nat)
      /\ <<2, 2, 0>> \in Seq(Nat) /\ <<2, 1, 0>> \in Seq(Nat)
      /\ Len(<<3, 1>>) = 2 /\ Len(<<3, 2>>) = 2
      /\ Len(<<2, 2, 0>>) = 3 /\ Len(<<2, 1, 0>>) = 3
  OBVIOUS
<1>5. ASSUME NEW trap \in Seq(Nat), Len(trap) = 2, NEW object \in Seq(Nat), Len(object) = 3,
             NEW i \in 1 .. 2, <<Wespe(trap), Wespe(object)>>[i] \in Oids
      PROVE  /\ Len(OidContent(<<Wespe(trap), Wespe(object)>>[i])) <= 41
             /\ i = 1 => Len(OidContent(<<Wespe(trap), Wespe(object)>>[i])) <= 36
  <2> DEFINE x == Wespe(trap)
             y == Wespe(object)
             r == <<x, y>>
  <2>1. Len(trap) <= 3 /\ Len(trap) <= 2 /\ Len(object) <= 3 /\ (i = 1 \/ (i = 2 /\ i # 1))
    BY <1>5
  <2>2. x \in Oids => Len(OidContent(x)) <= 41 /\ Len(OidContent(x)) <= 36
    BY <1>3, <2>1, Zenon
  <2>3. y \in Oids => Len(OidContent(y)) <= 41
    BY <1>3, <2>1, Zenon
  <2> HIDE DEF x, y
  <2>4. r[1] = x /\ r[2] = y
    OBVIOUS
  <2>5. r[i] \in Oids
    BY <1>5 DEF x, y
  <2> HIDE DEF r
  <2>6. Len(OidContent(r[i])) <= 41 /\ (i = 1 => Len(OidContent(r[i])) <= 36)
    BY <2>1, <2>2, <2>3, <2>4, <2>5, Zenon
  <2> QED BY <2>6 DEF r, x, y
<1>6. ASSUME NEW r \in Reports, NEW i \in 1 .. 2, r[i] \in Oids
      PROVE  Len(OidContent(r[i])) <= 41 /\ (i = 1 => Len(OidContent(r[i])) <= 36)
  <2>1. CASE r = <<Wespe(<<3, 1>>), Wespe(<<2, 2, 0>>)>>
    BY <1>4, <1>5, <1>6, <2>1, Zenon
  <2>2. CASE r = <<Wespe(<<3, 2>>), Wespe(<<2, 1, 0>>)>>
    BY <1>4, <1>5, <1>6, <2>2, Zenon
  <2> QED BY <2>1, <2>2 DEF Reports
<1> QED BY <1>1, <1>6

\* What snmp_trap_build makes of the calls of the firmware.
LEMMA OwnBuilt ==
  ASSUME MaxCommunity <= 31, MaxVarbinds >= 3,
         NEW t, Own(t), t.community \in Seq(Octet), t.uptime \in Word,
         t.oid \in Oids, Ordinary(t.oid), t.extra \in Seq(Varbinds), AllOrdinary(t.extra)
  PROVE  Built(t) # <<>> /\ Len(Built(t)) <= t.cap
<1> DEFINE first == [oid |-> SysUpTime, tag |-> Tag.timeTicks, value |-> t.uptime]
           second == [oid |-> SnmpTrapOid, tag |-> Tag.oid, value |-> t.oid]
           vbs == TrapVarbinds(t.uptime, t.oid, t.extra)
           built == EncodeMessage(V2c, t.community, EncodePdu(Tag.trapV2, <<Zero, Zero, Zero>>, vbs))
<1>1. /\ Encodable(t.oid) /\ Encodes(t.oid) /\ EncodableVarbinds(t.extra)
      /\ \A i \in 1 .. Len(t.extra) : Binds(t.extra[i])
  BY OrdinaryEncodes, OrdinaryBinds
<1>2. vbs \in Seq(Varbinds)
  BY <1>1, TrapVarbindsBind
<1>3. vbs = <<first, second>> \o t.extra
  BY Zenon DEF TrapVarbinds
<1>4. t.version = V2c /\ Len(t.community) <= 31
  <2>1. Len(t.community) \in Nat /\ MaxCommunity \in Nat
    BY LenProperties, CodecAssumption
  <2> QED BY <2>1 DEF Own
<1>5. Len(t.extra) <= 1 => Built(t) = built
  <2>1. Len(t.extra) \in Nat /\ MaxVarbinds \in Nat
    BY LenProperties, CodecAssumption
  <2>2. Len(t.extra) <= 1 => ~(Len(t.extra) + 2 > MaxVarbinds)
    BY <2>1
  <2> QED BY <1>1, <1>4, <2>2, Zenon DEF Built, BuildTrapV2c
<1>6. ASSUME NEW k \in Nat, \A i \in 1 .. Len(vbs) : Len(EncodeVarbind(vbs[i])) <= k
      PROVE  Len(built) \in 2 .. TlvLen((3 + 33) + TlvLen(9 + TlvLen(k * Len(vbs))))
  <2> HIDE DEF vbs
  <2> QED BY <1>2, <1>4, <1>6, NoticeBound
<1>7. ASSUME NEW n \in Nat, Len(OidContent(t.oid)) <= n, n >= 9
      PROVE  /\ first \in Varbinds /\ second \in Varbinds
             /\ Len(EncodeVarbind(first)) <= TlvLen(12 + TlvLen(n))
             /\ Len(EncodeVarbind(second)) <= TlvLen(12 + TlvLen(n))
  BY <1>7, HeadBound
<1> HIDE DEF first, second, vbs, built
<1>8. ASSUME NEW n \in Nat, Len(built) \in 2 .. n, n <= t.cap, t.cap \in Nat, Len(t.extra) <= 1
      PROVE  Built(t) # <<>> /\ Len(Built(t)) <= t.cap
  <2>1. Len(built) # 0 /\ Len(built) <= t.cap
    BY <1>8
  <2>2. Len(<<>>) = 0
    OBVIOUS
  <2> QED BY <1>5, <1>8, <2>1, <2>2, Zenon
<1>9. CASE t.oid = ColdStart /\ t.extra = <<>> /\ t.cap = 128
  <2>1. Len(OidContent(t.oid)) <= 9
    BY <1>9, OwnNames
  <2>2. TlvLen(9) = 11 /\ TlvLen(12 + 11) = 25 /\ TlvLen(50) = 52 /\ TlvLen(9 + 52) = 63
        /\ TlvLen((3 + 33) + 63) = 101 /\ 25 * 2 = 50
    BY DEF TlvLen
  <2>3. /\ first \in Varbinds /\ second \in Varbinds
        /\ Len(EncodeVarbind(first)) <= 25 /\ Len(EncodeVarbind(second)) <= 25
    <3>1. 9 \in Nat /\ 9 >= 9
      OBVIOUS
    <3> QED BY <1>7, <2>1, <2>2, <3>1
  <2>4. Len(vbs) = 2 /\ vbs[1] = first /\ vbs[2] = second
    BY <1>3, <1>9, <2>3
  <2>5. \A i \in 1 .. Len(vbs) : Len(EncodeVarbind(vbs[i])) <= 25
    <3>1. \A i \in 1 .. 2 : i = 1 \/ i = 2
      OBVIOUS
    <3> QED BY <2>3, <2>4, <3>1, Zenon
  <2>6. Len(built) \in 2 .. 101
    <3>1. 25 \in Nat
      OBVIOUS
    <3>2. Len(built) \in 2 .. TlvLen((3 + 33) + TlvLen(9 + TlvLen(25 * Len(vbs))))
      BY <1>6, <2>5, <3>1
    <3>3. TlvLen((3 + 33) + TlvLen(9 + TlvLen(25 * Len(vbs)))) = 101
      BY <2>2, <2>4
    <3> QED BY <3>2, <3>3, Zenon
  <2>7. 101 \in Nat /\ 101 <= t.cap /\ t.cap \in Nat /\ Len(t.extra) <= 1
    BY <1>9
  <2> QED BY <1>8, <2>6, <2>7
<1>10. CASE /\ Len(t.extra) = 1 /\ t.extra[1].tag = Tag.integer
            /\ <<t.oid, t.extra[1].oid>> \in Reports
            /\ t.cap = 256
  <2> DEFINE third == t.extra[1]
             r == <<t.oid, third.oid>>
  <2>1. third \in Varbinds /\ third.oid \in Oids
    <3>1. 1 \in 1 .. Len(t.extra)
      BY <1>10
    <3>2. third \in Varbinds
      BY <3>1, ElementOfSeq
    <3> QED BY <3>2, VarbindFields
  <2>2. t.extra = <<third>>
    BY <1>10
  <2> HIDE DEF third
  <2>3. r[1] = t.oid /\ r[2] = third.oid /\ 1 \in 1 .. 2 /\ 2 \in 1 .. 2
    OBVIOUS
  <2>4. r \in Reports
    BY <1>10 DEF third
  <2> HIDE DEF r
  <2>5. Len(OidContent(t.oid)) <= 36 /\ Len(OidContent(third.oid)) <= 41
    BY <2>1, <2>3, <2>4, OwnNames, Zenon
  <2>6. /\ TlvLen(36) = 38 /\ TlvLen(12 + 38) = 52 /\ TlvLen(41) = 43 /\ TlvLen(5) = 7
        /\ TlvLen(43 + 7) = 52 /\ TlvLen(156) = 159 /\ TlvLen(9 + 159) = 171
        /\ TlvLen((3 + 33) + 171) = 210 /\ 52 * 3 = 156
    BY DEF TlvLen
  <2>7. /\ first \in Varbinds /\ second \in Varbinds
        /\ Len(EncodeVarbind(first)) <= 52 /\ Len(EncodeVarbind(second)) <= 52
    <3>1. 36 \in Nat /\ 36 >= 9
      OBVIOUS
    <3> QED BY <1>7, <2>5, <2>6, <3>1, SMTT(30)
  <2>8. Len(EncodeVarbind(third)) <= 52
    <3>1. third.tag = Tag.integer
      BY <1>10 DEF third
    <3>2. Len(EncodeValue(third)) <= 7
      BY <2>1, <2>6, <3>1, ValueBound
    <3>3. 41 \in Nat /\ 7 \in Nat
      OBVIOUS
    <3> QED BY <2>1, <2>5, <2>6, <3>2, <3>3, VarbindBound, SMTT(30)
  <2>9. Len(vbs) = 3 /\ vbs[1] = first /\ vbs[2] = second /\ vbs[3] = third
    <3>1. vbs = <<first, second>> \o <<third>>
      BY <1>3, <2>2, Zenon
    <3> QED BY <3>1
  <2>10. \A i \in 1 .. Len(vbs) : Len(EncodeVarbind(vbs[i])) <= 52
    <3>1. \A i \in 1 .. 3 : i = 1 \/ i = 2 \/ i = 3
      OBVIOUS
    <3> QED BY <2>7, <2>8, <2>9, <3>1, Zenon
  <2>11. Len(built) \in 2 .. 210
    <3>1. 52 \in Nat
      OBVIOUS
    <3>2. Len(built) \in 2 .. TlvLen((3 + 33) + TlvLen(9 + TlvLen(52 * Len(vbs))))
      BY <1>6, <2>10, <3>1
    <3>3. TlvLen((3 + 33) + TlvLen(9 + TlvLen(52 * Len(vbs)))) = 210
      BY <2>6, <2>9
    <3> QED BY <3>2, <3>3, Zenon
  <2>12. 210 \in Nat /\ 210 <= t.cap /\ t.cap \in Nat /\ Len(t.extra) <= 1
    BY <1>10
  <2> QED BY <1>8, <2>11, <2>12
<1> QED BY <1>9, <1>10, Zenon DEF Own

\* The traps of the firmware always fit their buffers, whatever the uptime, the
\* reading and the community, as long as the agent's own copy of that holds it
\* (app_main, send_trap, snmp_trap_build): with SNMP_MAX_PRINCIPAL_LEN and
\* SNMP_MAX_VARBINDS as they are, or smaller and larger.
THEOREM OwnTrapsFit ==
  ASSUME MaxCommunity <= 31, MaxVarbinds >= 3
  PROVE  Spec => []OwnTrapsAreSent
<1>1. ASSUME WireInv PROVE OwnTrapsAreSent
  <2> SUFFICES ASSUME phase = "trap", Own(asked) PROVE packet # <<>>
    BY Zenon DEF OwnTrapsAreSent
  <2>1. PICK t \in DOMAIN Traps :
          /\ asked = Traps[t]
          /\ packet = IF Len(Built(asked)) <= asked.cap THEN Built(asked) ELSE <<>>
    BY <1>1, Zenon DEF WireInv
  <2>2. /\ asked.community \in Seq(Octet) /\ asked.uptime \in Word
        /\ asked.oid \in Oids /\ Ordinary(asked.oid)
        /\ asked.extra \in Seq(Varbinds) /\ AllOrdinary(asked.extra)
    BY <2>1, WireAssumption, Zenon
  <2>3. Built(asked) # <<>> /\ Len(Built(asked)) <= asked.cap
    BY <2>2, OwnBuilt
  <2> QED BY <2>1, <2>3, Zenon
<1> QED BY <1>1, WireInvariant, PTL
=============================================================================
