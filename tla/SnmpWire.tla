------------------------------ MODULE SnmpWire ------------------------------
(***************************************************************************)
(* A datagram on its way through the agent, octet by octet: recvfrom of    *)
(* snmp_udp.c, snmp_message.c, snmp_security_community.c and the codec,    *)
(* and the traps of snmp_pdu_trap.c on their way out.  What the handlers   *)
(* do to the context is SnmpAgent's and GetBulk's; here they answer with   *)
(* any error or with any of a few lists of varbinds.                       *)
(***************************************************************************)
EXTENDS SnmpCodec, WireFormat

CONSTANTS
  PacketLen,       \* SNMP_MAX_PACKET_LEN, of the request and of the response
  ReadCommunity,   \* s_ro_community
  WriteCommunity,  \* s_rw_community
  Messages,        \* what managers send
  Answers,         \* lists of varbinds that handlers answer with
  Traps,           \* calls of snmp_trap_build
  Faults,          \* bound: the octets that a damaged octet turns into
  Damaged          \* bound: the messages that are cut or damaged

\* What the arrays of the context have room for, and the member of the union
\* `value' that the tag selects.
Oids == {oid \in Seq(Word) : Len(oid) \in 2 .. MaxOidLen}
OctetStrings == {octets \in Seq(Octet) : Len(octets) <= MaxOctets}
Communities == {octets \in Seq(Octet) : Len(octets) <= MaxCommunity}

Varbinds ==
  [oid : Oids, tag : UnsignedTags \cup {Tag.integer}, value : Word]
    \cup [oid : Oids, tag : {Tag.counter64}, value : Word64]
    \cup [oid : Oids, tag : {Tag.oid}, value : Oids]
    \cup [oid : Oids, tag : ByteTags, value : OctetStrings]
    \cup [oid : Oids, tag : NullTags, value : {<<>>}]

Lists == {vbs \in Seq(Varbinds) : Len(vbs) <= MaxVarbinds}

\* The second arc of an OID that has come out of one octet with the first: of
\* a request, or of the MIB.
Rooted(oid) == Below(oid[2], 40)
AllRooted(vbs) ==
  \A i \in DOMAIN vbs : Rooted(vbs[i].oid) /\ (vbs[i].tag = Tag.oid => Rooted(vbs[i].value))

\* The first two arcs share an octet.
Ordinary(oid) == Len(oid) \in 2 .. MaxOidLen /\ Below(oid[1], 3) /\ Below(oid[2], 40)
AllOrdinary(vbs) ==
  \A i \in DOMAIN vbs :
    Ordinary(vbs[i].oid) /\ (vbs[i].tag = Tag.oid => Ordinary(vbs[i].value))

\* A datagram is made of octets, the handlers and the callers of
\* snmp_trap_build fill arrays of these sizes, the OIDs of a trap are constants
\* of the firmware, and the buffers are no longer than a packet.
ASSUME WireAssumption ==
  /\ PacketLen \in Nat
  /\ Faults \subseteq Octet /\ Damaged \subseteq DOMAIN Messages
  /\ \A m \in DOMAIN Messages, form \in Forms : Message(Messages[m], form) \in Seq(Octet)
  /\ \A a \in DOMAIN Answers : Answers[a] \in Lists /\ AllRooted(Answers[a])
  /\ \A t \in DOMAIN Traps :
       /\ Traps[t].community \in Seq(Octet) /\ Traps[t].uptime \in Word
       /\ Traps[t].oid \in Oids /\ Ordinary(Traps[t].oid) /\ Traps[t].address \in Seq(Octet)
       /\ Traps[t].extra \in Seq(Varbinds) /\ AllOrdinary(Traps[t].extra)
       /\ Traps[t].cap \in 0 .. PacketLen

\* What a manager may send: names whose first two arcs share an octet, and
\* values of the type their tag says, whether the context has room or not.
Names == {oid \in Seq(Word) : Len(oid) >= 2 /\ Below(oid[1], 3) /\ Below(oid[2], 40)}

Sendable ==
  [oid : Names, tag : UnsignedTags \cup {Tag.integer}, value : Word]
    \cup [oid : Names, tag : {Tag.counter64}, value : Word64]
    \cup [oid : Names, tag : {Tag.oid}, value : Names]
    \cup [oid : Names, tag : ByteTags, value : Seq(Octet)]
    \cup [oid : Names, tag : NullTags, value : {<<>>}]

\* A community is a string of C: no octet of it is NUL.
ASSUME MessageAssumption ==
  /\ {ReadCommunity, WriteCommunity} \subseteq Seq(1 .. 255)
  /\ \A m \in DOMAIN Messages :
       /\ Messages[m].version \in Word /\ Messages[m].community \in Seq(1 .. 255)
       /\ Messages[m].tag \in Octet /\ Messages[m].numbers \in [1 .. 3 -> Word]
       /\ Messages[m].vbs \in Seq(Sendable)

VARIABLES
  phase,     \* how far snmp_message_process, or snmp_trap_build, has come
  asked,     \* history: what the manager, or the caller, meant
  fault,     \* history: what happened to the datagram on its way
  datagram,  \* in_buf
  context,   \* s_ctx
  echoed,    \* history: the handler left the varbinds alone
  packet     \* out_buf, or the caller's buffer

vars == <<phase, asked, fault, datagram, context, echoed, packet>>

Nothing == [ok |-> FALSE]

Contexts ==
  [ok : {TRUE}, version : {V1, V2c}, community : Communities, access : {"read", "readwrite"},
   tag : RequestTags \cup {Tag.response}, numbers : [1 .. 3 -> Word], vbs : Lists]

Init ==
  /\ phase = "idle"
  /\ asked = Nothing
  /\ fault = "none"
  /\ datagram = <<>>
  /\ context = Nothing
  /\ echoed = FALSE
  /\ packet = <<>>

-----------------------------------------------------------------------------
\* snmp_security_community_init cuts what its buffers do not hold.
Configured(community) == SubSeq(community, 1, Min({Len(community), MaxCommunity}))

\* The comparisons of process_incoming.
Access(community) ==
  IF community = Configured(WriteCommunity) THEN "readwrite"
  ELSE IF community = Configured(ReadCommunity) THEN "read"
  ELSE "none"

\* snmp_security_lookup of a model that accepts anything.
Supported(version) == version.ok /\ version.value \in {V1, V2c}

Accepted(version, sender, pdu) ==
  LET access == Access(sender.community)
  IN  IF Supported(version) /\ sender.ok /\ access # "none" /\ pdu.ok
         /\ (pdu.tag = Tag.set => access = "readwrite")
      THEN [ok |-> TRUE, version |-> version.value, community |-> sender.community,
            access |-> access, tag |-> pdu.tag, numbers |-> pdu.numbers, vbs |-> pdu.vbs]
      ELSE Nothing

\* The request up to its handler: a SET without write access is dropped by
\* snmp_dispatch_pdu, everything else that fails before it.
Incoming(d) ==
  LET sender == DecodeCommunity(d)
  IN  IF d = <<>> THEN Nothing
      ELSE Accepted(DecodeVersion(d), sender, DecodeRequestPdu(sender.rest))

\* recvfrom cuts what is too long; then snmp_message_process up to the handler.
Process(d) ==
  /\ datagram' = d
  /\ context' = Incoming(SubSeq(d, 1, Min({Len(d), PacketLen})))
  /\ phase' = IF context'.ok THEN "dispatched" ELSE "refused"

\* What may become of message m on its way.
Arrivals(m, sent, damage) ==
  IF damage = "none" THEN {sent}
  ELSE IF m \notin Damaged THEN {}
  ELSE IF damage = "cut" THEN {SubSeq(sent, 1, n) : n \in 0 .. Len(sent) - 1}
  ELSE {[sent EXCEPT ![i] = o] : i \in DOMAIN sent, o \in Faults}

Receive(m, form, damage) ==
  /\ phase = "idle"
  /\ asked' = Messages[m]
  /\ fault' = damage
  /\ \E d \in Arrivals(m, Message(Messages[m], form), damage) : Process(d)
  /\ UNCHANGED <<echoed, packet>>

\* The handler leaves the varbinds and reports an error at one of them ...
Echo(status, index) ==
  /\ phase = "dispatched"
  /\ phase' = "handled"
  /\ context' = [context EXCEPT !.tag = Tag.response, !.numbers[2] = WordOf(status),
                                !.numbers[3] = WordOf(index)]
  /\ echoed' = TRUE
  /\ UNCHANGED <<asked, fault, datagram, packet>>

\* ... or answers with others.
Answer(vbs) ==
  /\ phase = "dispatched"
  /\ phase' = "handled"
  /\ context' = [context EXCEPT !.tag = Tag.response, !.vbs = vbs,
                                !.numbers[2] = Zero, !.numbers[3] = Zero]
  /\ UNCHANGED <<asked, fault, datagram, echoed, packet>>

\* prepare_outgoing: a response that cannot be encoded or does not fit is not
\* sent.
Reply ==
  LET response == EncodeMessage(context.version, context.community,
                    EncodePdu(context.tag, context.numbers, context.vbs))
      sendable == EncodableVarbinds(context.vbs) /\ Len(response) <= PacketLen
  IN  /\ phase = "handled"
      /\ phase' = IF sendable THEN "sent" ELSE "silent"
      /\ packet' = IF sendable THEN response ELSE <<>>
      /\ UNCHANGED <<asked, fault, datagram, context, echoed>>

\* snmp_trap_build
Trap(t) ==
  LET built == IF t.version = V2c
               THEN BuildTrapV2c(t.community, t.uptime, t.oid, t.extra)
               ELSE BuildTrapV1(t.community, t.uptime, t.oid, t.address, t.extra)
  IN  /\ phase = "idle"
      /\ phase' = "trap"
      /\ asked' = t
      /\ packet' = IF Len(built) <= t.cap THEN built ELSE <<>>
      /\ UNCHANGED <<fault, datagram, context, echoed>>

Wespe(arcs) == OidOf(<<1, 3, 6, 1, 4, 1, 99999>> \o arcs)
ColdStart == OidOf(<<1, 3, 6, 1, 6, 3, 1, 1, 5, 1>>)

\* The traps of trap_monitor.c, and the object that each reports.
Reports ==
  {<<Wespe(<<3, 1>>), Wespe(<<2, 2, 0>>)>>, <<Wespe(<<3, 2>>), Wespe(<<2, 1, 0>>)>>}

\* The calls of snmp_trap_build that the firmware makes: one of app_main, two
\* of send_trap.
Own(t) ==
  /\ t.version = V2c
  /\ Len(t.community) <= MaxCommunity
  /\ \/ t.oid = ColdStart /\ t.extra = <<>> /\ t.cap = 128
     \/ /\ Len(t.extra) = 1 /\ t.extra[1].tag = Tag.integer
        /\ <<t.oid, t.extra[1].oid>> \in Reports
        /\ t.cap = 256

\* The task is back in recvfrom, with all that was here forgotten.
Continue ==
  /\ phase \in {"refused", "sent", "silent", "trap"}
  /\ phase' = "idle"
  /\ asked' = Nothing /\ fault' = "none" /\ datagram' = <<>>
  /\ context' = Nothing /\ echoed' = FALSE /\ packet' = <<>>

\* bound: of the statuses no, the second and the last error; and two indices.
Statuses == {0, 2, 5}
Indices == {0, 2}

Next ==
  \/ \E m \in DOMAIN Messages, form \in Forms, damage \in {"none", "cut", "changed"} :
       Receive(m, form, damage)
  \/ \E status \in Statuses, index \in Indices : Echo(status, index)
  \/ \E a \in DOMAIN Answers : Answer(Answers[a])
  \/ Reply
  \/ \E t \in DOMAIN Traps : Trap(Traps[t])
  \/ Continue

Spec == Init /\ [][Next]_vars

-----------------------------------------------------------------------------
(***************************************************************************)
(* Properties.                                                             *)
(***************************************************************************)
\* Whatever the datagram, what is decoded from it stays within the arrays of
\* the context: varbinds, arcs of an OID, octets of a string, the principal
\* with its NUL (snmp_pdu.h, mib_types.h); no packet exceeds its buffer.
TypeOK ==
  /\ phase \in {"idle", "dispatched", "refused", "handled", "sent", "silent", "trap"}
  /\ fault \in {"none", "cut", "changed"} /\ echoed \in BOOLEAN
  /\ context = Nothing \/ context \in Contexts
  /\ Len(packet) <= PacketLen

Legal(m) ==
  /\ m.version \in {V1, V2c}
  /\ m.community \in {Configured(ReadCommunity), Configured(WriteCommunity)}
  /\ m.tag \in RequestTags /\ (m.tag = Tag.set => m.community = Configured(WriteCommunity))
  /\ Len(m.vbs) <= MaxVarbinds
  /\ AllOrdinary(m.vbs)
  /\ \A i \in DOMAIN m.vbs :
       m.vbs[i].tag \in ByteTags => Len(m.vbs[i].value) <= MaxOctets

\* A request within the limits reaches its handler exactly as the manager
\* meant it, in any of the three forms of BER, and no other request does; the
\* communities are what snmp_security_community_init keeps of them.  Of a
\* datagram that was cut short nothing does (snmp_message_process,
\* process_incoming, snmp_decode_request_pdu).
RequestsAreUnderstood ==
  /\ fault = "none" /\ phase \in {"dispatched", "refused"} =>
       IF Legal(asked) /\ Len(datagram) <= PacketLen
       THEN context = [ok |-> TRUE, version |-> asked.version, community |-> asked.community,
                       access |-> IF asked.community = Configured(WriteCommunity)
                                  THEN "readwrite" ELSE "read",
                       tag |-> asked.tag, numbers |-> asked.numbers, vbs |-> asked.vbs]
       ELSE phase = "refused"
  /\ fault = "cut" => phase # "dispatched"

\* An OID whose first octet was 120 or more: it decodes to a first arc that
\* cannot be encoded again.
BeyondTwo(vb) == ~Below(vb.oid[1], 3) \/ (vb.tag = Tag.oid /\ ~Below(vb.value[1], 3))

Repeatable == \A i \in DOMAIN context.vbs : ~BeyondTwo(context.vbs[i])

\* The response is the one shortest encoding of what the handler left in the
\* context, for every value a varbind may have, and it is kept back only if
\* that does not fit or an OID has no encoding (prepare_outgoing).
ReplyIsCanonical ==
  /\ phase = "sent" => packet = Message(context, "shortest")
  /\ phase = "silent" => ~Repeatable \/ Len(Message(context, "shortest")) > PacketLen

\* An unsigned word that needs a pad octet.
Padded(vb) ==
  /\ vb.tag \in UnsignedTags \cup {Tag.counter64}
  /\ Len(ShortestPositive(vb.value)) > 1 /\ ShortestPositive(vb.value)[1] = 0

\* A response that repeats the varbinds of its request is never longer than
\* the request, so it always fits and is sent: a SET that took effect is
\* answered.  Only an unsigned word sent without its pad octet, which no
\* setter accepts, makes the response grow.
EchoNeverGrows ==
  /\ phase \in {"sent", "silent"} /\ echoed /\ Repeatable
  /\ \A i \in DOMAIN context.vbs : ~Padded(context.vbs[i])
  => phase = "sent" /\ Len(packet) <= Len(datagram)

TrapHead(t) ==
  <<[oid |-> OidOf(<<1, 3, 6, 1, 2, 1, 1, 3, 0>>), tag |-> Tag.timeTicks, value |-> t.uptime],
    [oid |-> OidOf(<<1, 3, 6, 1, 6, 3, 1, 1, 4, 1, 0>>), tag |-> Tag.oid, value |-> t.oid]>>

TrapMeant(t) ==
  IF t.version = V2c
  THEN Message([version |-> V2c, community |-> t.community, tag |-> Tag.trapV2,
                numbers |-> <<Zero, Zero, Zero>>, vbs |-> TrapHead(t) \o t.extra], "shortest")
  ELSE Envelope(V1, t.community,
         TrapV1Pdu(t.oid, t.address, t.oid[Len(t.oid)], t.uptime, t.extra), "shortest")

\* A trap says exactly what its caller asked for, for every uptime and every
\* value of its varbinds, or nothing when it has more varbinds than a PDU or
\* does not fit the caller's buffer.
TrapIsWhatWasAsked ==
  phase = "trap" =>
    LET count == Len(asked.extra) + IF asked.version = V2c THEN 2 ELSE 0
    IN  packet = IF count > MaxVarbinds \/ Len(TrapMeant(asked)) > asked.cap
                 THEN <<>> ELSE TrapMeant(asked)

\* The buffers of app_main and trap_monitor.c suffice for their traps, with
\* the longest community that the agent keeps, and for every uptime and value.
OwnTrapsAreSent == phase = "trap" /\ Own(asked) => packet # <<>>
=============================================================================
