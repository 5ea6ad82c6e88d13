----------------------------- MODULE SnmpCodec ------------------------------
(***************************************************************************)
(* snmp_codec.c, the envelope of snmp_security_community.c and the traps   *)
(* of snmp_pdu_trap.c, on top of the BER codec.  The value of a varbind is *)
(* a word, an OID or octets, as its tag says; encoding an encodable PDU is *)
(* a function, and decoding yields a result with `ok'.                     *)
(***************************************************************************)
EXTENDS BerCodec

CONSTANTS
  MaxVarbinds,   \* SNMP_MAX_VARBINDS
  MaxOctets,     \* SNMP_MAX_OCTETS_LEN
  MaxCommunity   \* SNMP_MAX_PRINCIPAL_LEN, less the terminating NUL

ASSUME CodecAssumption == {MaxVarbinds, MaxOctets, MaxCommunity} \subseteq Nat \ {0}

V1 == WordOf(0)
V2c == WordOf(1)
V3 == WordOf(3)

ByteTags == {Tag.octets, Tag.ipAddress, Tag.opaque}
UnsignedTags == {Tag.counter32, Tag.gauge32, Tag.timeTicks}
NullTags == {Tag.null, Tag.noSuchObject, Tag.noSuchInstance, Tag.endOfMibView}

RequestTags == {Tag.get, Tag.getNext, Tag.set, Tag.getBulk}

-----------------------------------------------------------------------------
(***************************************************************************)
(* Encoding.                                                               *)
(***************************************************************************)
EncodeInteger(w) == EncodeTlv(Tag.integer, IntegerContent(w))
EncodeOid(oid) == EncodeTlv(Tag.oid, OidContent(oid))

\* snmp_encode_value
EncodeValue(vb) ==
  EncodeTlv(vb.tag,
    CASE vb.tag = Tag.integer -> IntegerContent(vb.value)
      [] vb.tag \in UnsignedTags \cup {Tag.counter64} -> UnsignedContent(vb.value)
      [] vb.tag = Tag.oid -> OidContent(vb.value)
      [] vb.tag \in ByteTags -> vb.value
      [] vb.tag \in NullTags -> <<>>)

EncodeVarbind(vb) == EncodeTlv(Tag.sequence, EncodeOid(vb.oid) \o EncodeValue(vb))

\* snmp_encode_varbind_list, whose order is not that of the encoder's work.
EncodeVarbinds(vbs) ==
  EncodeTlv(Tag.sequence, FlattenSeq([i \in DOMAIN vbs |-> EncodeVarbind(vbs[i])]))

EncodableVarbinds(vbs) ==
  \A i \in DOMAIN vbs :
    /\ Encodable(vbs[i].oid)
    /\ vbs[i].tag = Tag.oid => Encodable(vbs[i].value)

\* snmp_encode_response_shaped_pdu: request-id, status and index in `numbers'.
EncodePdu(tag, numbers, vbs) ==
  EncodeTlv(tag, FlattenSeq([i \in 1 .. 3 |-> EncodeInteger(numbers[i])])
                   \o EncodeVarbinds(vbs))

\* The envelope: prepare_outgoing and encode_envelope_and_finish.
EncodeMessage(version, community, pdu) ==
  EncodeTlv(Tag.sequence,
            EncodeInteger(version) \o EncodeTlv(Tag.octets, community) \o pdu)

-----------------------------------------------------------------------------
(***************************************************************************)
(* Traps.                                                                  *)
(***************************************************************************)
SysUpTime == OidOf(<<1, 3, 6, 1, 2, 1, 1, 3, 0>>)
SnmpTrapOid == OidOf(<<1, 3, 6, 1, 6, 3, 1, 1, 4, 1, 0>>)

\* The two varbinds of a v2c trap, before those of its caller.
TrapVarbinds(uptime, trapOid, extra) ==
  <<[oid |-> SysUpTime, tag |-> Tag.timeTicks, value |-> uptime],
    [oid |-> SnmpTrapOid, tag |-> Tag.oid, value |-> trapOid]>> \o extra

EnterpriseSpecific == WordOf(6)

\* snmp_encode_v1_trap_pdu, with the last arc of the trap for specific-trap.
EncodeTrapV1(address, uptime, trapOid, extra) ==
  EncodeTlv(Tag.trapV1,
            EncodeOid(trapOid) \o EncodeTlv(Tag.ipAddress, address)
              \o EncodeInteger(EnterpriseSpecific)
              \o EncodeInteger(trapOid[Len(trapOid)])
              \o EncodeTlv(Tag.timeTicks, UnsignedContent(uptime))
              \o EncodeVarbinds(extra))

\* Mutant: the two varbinds of its own are forgotten in the check of the count.
BuildTrapV2cUnchecked(community, uptime, trapOid, extra) ==
  IF ~Encodable(trapOid) \/ ~EncodableVarbinds(extra) \/ Len(extra) > MaxVarbinds
  THEN <<>>
  ELSE EncodeMessage(V2c, community,
         EncodePdu(Tag.trapV2, <<Zero, Zero, Zero>>, TrapVarbinds(uptime, trapOid, extra)))

\* build_v2c_trap and build_v1_trap: nothing if there are too many varbinds
\* or an OID cannot be encoded.
BuildTrapV2c(community, uptime, trapOid, extra) ==
  IF ~Encodable(trapOid) \/ ~EncodableVarbinds(extra) \/ Len(extra) + 2 > MaxVarbinds
  THEN <<>>
  ELSE EncodeMessage(V2c, community,
         EncodePdu(Tag.trapV2, <<Zero, Zero, Zero>>, TrapVarbinds(uptime, trapOid, extra)))

BuildTrapV1(community, uptime, trapOid, address, extra) ==
  IF ~Encodable(trapOid) \/ ~EncodableVarbinds(extra) \/ Len(extra) > MaxVarbinds
  THEN <<>>
  ELSE EncodeMessage(V1, community, EncodeTrapV1(address, uptime, trapOid, extra))

-----------------------------------------------------------------------------
(***************************************************************************)
(* Decoding.                                                               *)
(***************************************************************************)

\* snmp_decode_value
DecodeValue(tlv) ==
  CASE tlv.tag = Tag.integer -> DecodeInteger(tlv)
    [] tlv.tag \in UnsignedTags -> DecodeUnsigned(tlv, 4)
    [] tlv.tag = Tag.counter64 -> DecodeUnsigned(tlv, 8)
    [] tlv.tag = Tag.oid -> DecodeOid(tlv)
    [] tlv.tag \in ByteTags -> DecodeOctets(tlv, MaxOctets)
    [] tlv.tag \in NullTags -> DecodeNull(tlv)
    [] OTHER -> Fails

\* decode_varbind_from_seq_tlv; what follows the value is not looked at.
DecodeVarbind(content) ==
  LET name == Expect(content, Tag.oid)
      oid == DecodeOid(name)
      tlv == DecodeTlv(name.rest)
      value == DecodeValue(tlv)
  IN  IF oid.ok /\ value.ok
      THEN Yields([oid |-> oid.value, tag |-> tlv.tag, value |-> value.value])
      ELSE Fails

\* The elements of these tags that d begins with.
ExpectAll(d, tags) ==
  LET tlv[i \in 0 .. Len(tags)] ==
        IF i = 0 THEN [ok |-> TRUE, rest |-> d] ELSE Expect(tlv[i - 1].rest, tags[i])
  IN  tlv

\* One turn of the loop of snmp_decode_varbind_list; where it fails it stays.
NextVarbind(walk) ==
  LET element == Expect(walk.rest, Tag.sequence)
      vb == DecodeVarbind(element.content)
  IN  IF walk.rest # <<>> /\ element.ok /\ vb.ok
      THEN [rest |-> element.rest, vbs |-> Append(walk.vbs, vb.value)]
      ELSE walk

DecodeVarbinds(d) ==
  LET walk[n \in 0 .. MaxVarbinds] ==
        IF n = 0 THEN [rest |-> d, vbs |-> <<>>] ELSE NextVarbind(walk[n - 1])
      end == walk[MaxVarbinds]
  IN  IF end.rest = <<>> THEN Yields(end.vbs) ELSE Fails

NoPdu == [ok |-> FALSE]

RequestPdu(tag, numbers, vbs) ==
  IF tag \in RequestTags /\ (\A f \in 1 .. 3 : numbers[f].ok) /\ vbs.ok
  THEN [ok |-> TRUE, tag |-> tag, numbers |-> [f \in 1 .. 3 |-> numbers[f].value],
        vbs |-> vbs.value]
  ELSE NoPdu

\* snmp_decode_request_pdu
DecodeRequestPdu(d) ==
  LET pdu == DecodeTlv(d)
      tlv == ExpectAll(pdu.content, <<Tag.integer, Tag.integer, Tag.integer, Tag.sequence>>)
  IN  IF tlv[4].ok
      THEN RequestPdu(pdu.tag, [f \in 1 .. 3 |-> DecodeInteger(tlv[f])],
                      DecodeVarbinds(tlv[4].content))
      ELSE NoPdu

\* What C takes for the string: up to the first NUL.
CString(octets) ==
  LET nuls == {i \in DOMAIN octets : octets[i] = 0}
  IN  SubSeq(octets, 1, IF nuls = {} THEN Len(octets)
                        ELSE (CHOOSE i \in nuls : \A j \in nuls : i <= j) - 1)

\* snmp_message_process, as far as the version.
DecodeVersion(d) == DecodeInteger(Expect(Expect(d, Tag.sequence).content, Tag.integer))

\* process_incoming of the community model, as far as the PDU; a string that
\* leaves no room for its NUL is refused.
DecodeCommunity(d) ==
  LET tlv == ExpectAll(Expect(d, Tag.sequence).content, <<Tag.integer, Tag.octets>>)
      octets == DecodeOctets(tlv[2], MaxCommunity)
  IN  IF tlv[2].ok /\ octets.ok
      THEN [ok |-> TRUE, community |-> CString(octets.value), rest |-> tlv[2].rest]
      ELSE [ok |-> FALSE]
=============================================================================
