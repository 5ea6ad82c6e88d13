----------------------------- MODULE WireFormat -----------------------------
(***************************************************************************)
(* The other end of the wire: a manager, or a receiver of traps, that      *)
(* follows X.690 and the PDUs of RFC 1157 and RFC 3416.  External to the   *)
(* repository and written from the numbers up, it shares with the codec    *)
(* the tags only.  Its forms are all legal BER: the shortest; one with     *)
(* long lengths and integers in full; and one that sends an unsigned word  *)
(* without the pad octet, as old managers do.                              *)
(***************************************************************************)
EXTENDS BerCodec

Forms == {"shortest", "wide", "bare"}

Length(n, form) ==
  IF form = "wide" THEN <<132, 0, 0, n \div 256, n % 256>>
  ELSE IF n < 128 THEN <<n>>
  ELSE IF n < 256 THEN <<129, n>>
  ELSE <<130, n \div 256, n % 256>>

Element(tag, content, form) == <<tag>> \o Length(Len(content), form) \o content

LastOctets(w, n) == SubSeq(w, Len(w) + 1 - n, Len(w))

\* The word that two's complement gives the octets s.
Signed(s) ==
  [i \in 1 .. 4 - Len(s) |-> IF s[1] >= 128 THEN 255 ELSE 0] \o s

ShortestSigned(w) == LastOctets(w, Min({n \in 1 .. 4 : Signed(LastOctets(w, n)) = w}))

\* The same of an unsigned word, which is positive.
ShortestPositive(w) ==
  LET positive == <<0>> \o w
      fits(n) == /\ LastOctets(positive, n)[1] < 128
                 /\ \A i \in 1 .. Len(positive) - n : positive[i] = 0
  IN  LastOctets(positive, Min({n \in 1 .. Len(positive) : fits(n)}))

\* The 32 bits of a word in groups of seven, of which the first has four.
Groups(w) ==
  <<w[1] \div 16,
    (w[1] % 16) * 8 + w[2] \div 32,
    (w[2] % 32) * 4 + w[3] \div 64,
    (w[3] % 64) * 2 + w[4] \div 128,
    w[4] % 128>>

SubIdentifier(w) ==
  LET n == Min({k \in 1 .. 5 : \A g \in 1 .. 5 - k : Groups(w)[g] = 0})
  IN  [i \in 1 .. n |-> Groups(w)[5 - n + i] + IF i < n THEN 128 ELSE 0]

\* Of an OID whose first two arcs share an octet.
OidOctets(oid) ==
  <<40 * oid[1][4] + oid[2][4]>>
    \o FlattenSeq([i \in 1 .. Len(oid) - 2 |-> SubIdentifier(oid[i + 2])])

-----------------------------------------------------------------------------
Number(w, form) ==
  Element(Tag.integer, IF form = "wide" THEN w ELSE ShortestSigned(w), form)

Positive(tag, w, form) ==
  Element(tag, CASE form = "shortest" -> ShortestPositive(w)
                 [] form = "wide" -> <<0>> \o w
                 [] form = "bare" -> w, form)

Value(vb, form) ==
  CASE vb.tag = Tag.integer -> Number(vb.value, form)
    [] vb.tag \in {Tag.counter32, Tag.gauge32, Tag.timeTicks, Tag.counter64} ->
         Positive(vb.tag, vb.value, form)
    [] vb.tag = Tag.oid -> Element(Tag.oid, OidOctets(vb.value), form)
    [] OTHER -> Element(vb.tag, vb.value, form)

Bindings(vbs, form) ==
  Element(Tag.sequence,
    FlattenSeq([i \in DOMAIN vbs |->
      Element(Tag.sequence,
              Element(Tag.oid, OidOctets(vbs[i].oid), form) \o Value(vbs[i], form), form)]),
    form)

Pdu(tag, numbers, vbs, form) ==
  Element(tag, Number(numbers[1], form) \o Number(numbers[2], form)
                 \o Number(numbers[3], form) \o Bindings(vbs, form), form)

Envelope(version, community, pdu, form) ==
  Element(Tag.sequence,
          Number(version, form) \o Element(Tag.octets, community, form) \o pdu, form)

\* A request or a response.
Message(m, form) ==
  Envelope(m.version, m.community, Pdu(m.tag, m.numbers, m.vbs, form), form)

\* A v1 trap of RFC 1157: its first words are an OID and an address.
TrapV1Pdu(enterprise, address, specific, uptime, vbs) ==
  Element(Tag.trapV1,
          Element(Tag.oid, OidOctets(enterprise), "shortest")
            \o Element(Tag.ipAddress, address, "shortest")
            \o Number(<<0, 0, 0, 6>>, "shortest") \o Number(specific, "shortest")
            \o Positive(Tag.timeTicks, uptime, "shortest") \o Bindings(vbs, "shortest"),
          "shortest")
=============================================================================
