------------------------------ MODULE SnmpPdu -------------------------------
(***************************************************************************)
(* The decoded PDU the handlers work on (snmp_pdu.h): its varbinds, and    *)
(* the octets they take in a message (snmp_codec.c).  A datagram buffer    *)
(* holds SNMP_MAX_PACKET_LEN of them, whichever way it goes.               *)
(***************************************************************************)
EXTENDS SnmpError, SequencesExt

Versions == {"v1", "v2c", "v3"}
VarbindTags == ValueTags \cup Exceptions \cup {"null"}

\* snmp_varbind_t.  The length of an octet string stands for the string.
Varbinds == [oid : Oid, tag : VarbindTags, val : Nat]

\* The octets a varbind takes: one for each arc, and those of its value.
ContentLen(vb) ==
  CASE vb.tag = "octets" -> vb.val
    [] vb.tag \in ValueTags \ {"octets"} -> 4
    [] OTHER -> 0

EncodedLen(vbs) ==
  FoldLeft(LAMBDA sum, vb : sum + Len(vb.oid) + ContentLen(vb), 0, vbs)

\* An exception value in place of the varbind's own.
Exceptional(vb, exception) == [vb EXCEPT !.tag = exception, !.val = 0]
=============================================================================
