------------------------------ MODULE BerCodec ------------------------------
(***************************************************************************)
(* ber_encode.c and ber_decode.c.  A machine word is the sequence of its   *)
(* octets, the most significant first, as the encoder takes it apart; the  *)
(* 32 and 64 bits of the code are exact.  The encoder fills its buffer     *)
(* from the end, so it fails, part way, exactly when the whole is longer   *)
(* than the buffer; the callers compare the length with theirs.  Of a      *)
(* status every caller asks only whether it is BER_OK: `ok' of a result.   *)
(* The callers pass depths up to 4, so BER_MAX_NEST_DEPTH is never met.    *)
(***************************************************************************)
EXTENDS Integers, SequencesExt

Octet == 0 .. 255
Word == [1 .. 4 -> Octet]      \* int32_t, uint32_t
Word64 == [1 .. 8 -> Octet]    \* uint64_t

Tag ==
  [integer |-> 2, octets |-> 4, null |-> 5, oid |-> 6, sequence |-> 48,
   ipAddress |-> 64, counter32 |-> 65, gauge32 |-> 66, timeTicks |-> 67,
   opaque |-> 68, counter64 |-> 70,
   noSuchObject |-> 128, noSuchInstance |-> 129, endOfMibView |-> 130,
   get |-> 160, getNext |-> 161, response |-> 162, set |-> 163, trapV1 |-> 164,
   getBulk |-> 165, trapV2 |-> 167]

MaxOidLen == 20    \* BER_MAX_OID_LEN

\* A word that holds a number below 2^31.
WordOf(n) == <<n \div 2^24, (n \div 2^16) % 256, (n \div 256) % 256, n % 256>>

Zero == WordOf(0)

OidOf(arcs) == [i \in DOMAIN arcs |-> WordOf(arcs[i])]

\* The word is a number below `bound', itself at most 256.
Below(w, bound) == w[1] = 0 /\ w[2] = 0 /\ w[3] = 0 /\ w[4] < bound

-----------------------------------------------------------------------------
(***************************************************************************)
(* The encoder.                                                            *)
(***************************************************************************)

\* Mutant: the switch to the long form is one too late.
LengthOctetsLate(n) ==
  IF n <= 128 THEN <<n>>
  ELSE IF n <= 255 THEN <<129, n>>
  ELSE <<130, n \div 256, n % 256>>

\* ber_encode_prepend_tlv_header; a buffer has fewer than 2^16 octets.
LengthOctets(n) ==
  IF n <= 127 THEN <<n>>
  ELSE IF n <= 255 THEN <<129, n>>
  ELSE <<130, n \div 256, n % 256>>

EncodeTlv(tag, content) == <<tag>> \o LengthOctets(Len(content)) \o content

\* Dropping octet i leaves the sign of the number as it is.
Redundant(w, i) ==
  \/ w[i] = 0 /\ w[i + 1] < 128
  \/ w[i] = 255 /\ w[i + 1] >= 128

\* Mutant: nothing is redundant.
IntegerStartWhole(w) == 1

\* Where the loop over the redundant octets stops.
IntegerStart(w) ==
  CHOOSE s \in 1 .. 4 : /\ \A i \in 1 .. s - 1 : Redundant(w, i)
                        /\ s < 4 => ~Redundant(w, s)

\* ber_encode_integer: the content, one to four octets.
IntegerContent(w) == SubSeq(w, IntegerStart(w), 4)

UnsignedStart(w) ==
  CHOOSE s \in 1 .. Len(w) : /\ \A i \in 1 .. s - 1 : w[i] = 0 /\ w[i + 1] < 128
                             /\ s < Len(w) => w[s] # 0 \/ w[s + 1] >= 128

\* ber_encode_unsigned_tagged and ber_encode_unsigned64_tagged: a zero octet
\* in front of a number that would read as negative.
UnsignedContent(w) ==
  (IF w[UnsignedStart(w)] >= 128 THEN <<0>> ELSE <<>>) \o SubSeq(w, UnsignedStart(w), Len(w))

\* arc >> 7
ShiftRight7(w) ==
  [i \in 1 .. 4 |-> (w[i] \div 2^7) + 2 * (IF i = 1 THEN 0 ELSE w[i - 1] % 2^7)]

\* (arc << 7) | (b & 0x7F), of which 32 bits are kept.
ShiftIn7(w, b) ==
  [i \in 1 .. 4 |-> (w[i] % 2) * 2^7 + (IF i < 4 THEN w[i + 1] \div 2 ELSE b % 2^7)]

\* One arc: groups of seven bits, all but the last with the continuation bit.
ArcOctets(w) ==
  LET shifted[k \in 0 .. 5] == IF k = 0 THEN w ELSE ShiftRight7(shifted[k - 1])
      n == CHOOSE k \in 1 .. 5 : shifted[k] = Zero /\ (k > 1 => shifted[k - 1] # Zero)
  IN  [i \in 1 .. n |-> (shifted[n - i][4] % 2^7) + (IF i < n THEN 2^7 ELSE 0)]

\* Mutant: the two arcs are taken for one another.
EncodableSwapped(oid) ==
  /\ Len(oid) >= 2
  /\ Below(oid[2], 3)
  /\ Below(oid[2], 2) => Below(oid[1], 40)

\* ber_encode_oid refuses an OID whose first two arcs do not fit one octet,
\* though not every 2.x that does not.
Encodable(oid) ==
  /\ Len(oid) >= 2
  /\ Below(oid[1], 3)
  /\ Below(oid[1], 2) => Below(oid[2], 40)

\* The first octet is cut down to eight bits.
OidContent(oid) ==
  <<(oid[1][4] * 40 + oid[2][4]) % 256>>
    \o FlattenSeq([i \in 1 .. Len(oid) - 2 |-> ArcOctets(oid[i + 2])])

-----------------------------------------------------------------------------
(***************************************************************************)
(* The decoder.                                                            *)
(***************************************************************************)

\* A long length, beyond every datagram from 2^24 on.
LengthValue(field) ==
  LET value[i \in 0 .. Len(field)] == IF i = 0 THEN 0 ELSE value[i - 1] * 256 + field[i]
  IN  IF Len(field) = 4 /\ field[1] # 0 THEN 2^24 ELSE value[Len(field)]

\* decode_length: of at most four octets, not necessarily the shortest form.
DecodeLength(d) ==
  LET n == d[1] - 128
  IN  IF d = <<>> THEN [ok |-> FALSE]
      ELSE IF d[1] < 128 THEN [ok |-> TRUE, value |-> d[1], size |-> 1]
      ELSE IF n \notin 1 .. 4 \/ Len(d) < 1 + n THEN [ok |-> FALSE]
      ELSE [ok |-> TRUE, value |-> LengthValue(SubSeq(d, 2, 1 + n)), size |-> 1 + n]

NoTlv == [ok |-> FALSE, tag |-> 0, content |-> <<>>, rest |-> <<>>]

\* ber_decode_tlv: the first element of d, and what follows it.
DecodeTlv(d) ==
  LET length == DecodeLength(Tail(d))
      header == 1 + length.size
      end == header + length.value
  IN  IF Len(d) < 2 THEN NoTlv
      ELSE IF ~length.ok THEN NoTlv
      ELSE IF Len(d) < end THEN NoTlv
      ELSE [ok |-> TRUE, tag |-> d[1], content |-> SubSeq(d, header + 1, end),
            rest |-> SubSeq(d, end + 1, Len(d))]

\* ber_expect_tag
Expect(d, tag) ==
  LET tlv == DecodeTlv(d) IN IF tlv.tag = tag THEN tlv ELSE NoTlv

\* value = (value << 8) | octet for each octet: the last n octets remain.
ShiftIn(n, fill, content) ==
  LET all == [i \in 1 .. n |-> fill] \o content
  IN  SubSeq(all, Len(content) + 1, Len(content) + n)

Fails == [ok |-> FALSE, value |-> <<>>]
Yields(value) == [ok |-> TRUE, value |-> value]

\* Mutant: the first octet is not taken for a sign.
DecodeIntegerUnsigned(tlv) ==
  IF Len(tlv.content) \notin 1 .. 4 THEN Fails
  ELSE Yields(ShiftIn(4, 0, tlv.content))

\* ber_decode_integer
DecodeInteger(tlv) ==
  IF Len(tlv.content) \notin 1 .. 4 THEN Fails
  ELSE Yields(ShiftIn(4, IF tlv.content[1] >= 128 THEN 255 ELSE 0, tlv.content))

\* ber_decode_unsigned (width 4) and ber_decode_unsigned64 (width 8).  An
\* octet in front of the word is taken for padding, whatever it is.
DecodeUnsigned(tlv, width) ==
  IF Len(tlv.content) \notin 1 .. width + 1 THEN Fails
  ELSE Yields(ShiftIn(width, 0, tlv.content))

\* ber_decode_octet_string
DecodeOctets(tlv, cap) ==
  IF Len(tlv.content) > cap THEN Fails ELSE Yields(tlv.content)

\* ber_decode_null, and the exceptions of v2c
DecodeNull(tlv) == IF tlv.content # <<>> THEN Fails ELSE Yields(<<>>)

\* Mutant: the bound on the number of arcs is one too high.
NextArcOctetLate(walk, b) ==
  LET arc == ShiftIn7(walk.arc, b)
      final == b < 128
  IN  IF ~walk.ok \/ walk.arc[1] >= 2 \/ (final /\ Len(walk.oid) > MaxOidLen)
      THEN [walk EXCEPT !.ok = FALSE]
      ELSE [ok |-> TRUE, open |-> ~final,
            arc |-> IF final THEN Zero ELSE arc,
            oid |-> IF final THEN Append(walk.oid, arc) ELSE walk.oid]

\* One octet of the loop over the arcs.
NextArcOctet(walk, b) ==
  LET arc == ShiftIn7(walk.arc, b)
      final == b < 128
  IN  IF ~walk.ok \/ walk.arc[1] >= 2 \/ (final /\ Len(walk.oid) >= MaxOidLen)
      THEN [walk EXCEPT !.ok = FALSE]
      ELSE [ok |-> TRUE, open |-> ~final,
            arc |-> IF final THEN Zero ELSE arc,
            oid |-> IF final THEN Append(walk.oid, arc) ELSE walk.oid]

\* ber_decode_oid
DecodeOid(tlv) ==
  LET first == tlv.content[1]
      walk[i \in 1 .. Len(tlv.content)] ==
        IF i = 1
        THEN [ok |-> TRUE, open |-> FALSE, arc |-> Zero,
              oid |-> <<WordOf(first \div 40), WordOf(first % 40)>>]
        ELSE NextArcOctet(walk[i - 1], tlv.content[i])
      end == walk[Len(tlv.content)]
  IN  IF tlv.content # <<>> /\ end.ok /\ ~end.open THEN Yields(end.oid) ELSE Fails
=============================================================================
