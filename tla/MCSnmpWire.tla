----------------------------- MODULE MCSnmpWire -----------------------------
(***************************************************************************)
(* The messages of the run of SnmpWire: every number, arc, length and      *)
(* count at the boundaries of its width or of its array.                   *)
(***************************************************************************)
EXTENDS SnmpWire

Filled(n, o) == [i \in 1 .. n |-> o]

Public == <<112, 117, 98>>
Private == Filled(31, 119)    \* fills s_rw_community

Name(arcs) == OidOf(<<1, 3, 6>> \o arcs)
Vb(tag, value) == [oid |-> Name(<<1>>), tag |-> tag, value |-> value]
NullAt(oid) == [oid |-> oid, tag |-> Tag.null, value |-> <<>>]

Ask(tag, community, vbs) ==
  [version |-> V2c, community |-> community, tag |-> tag, numbers |-> <<WordOf(7), Zero, Zero>>,
   vbs |-> vbs]
Put(tag, value) == Ask(Tag.set, Private, <<Vb(tag, value)>>)

\* 0 1 -1, and both sides of every place where an encoding changes its length.
Words ==
  <<<<0, 0, 0, 0>>, <<0, 0, 0, 1>>, <<0, 0, 0, 127>>, <<0, 0, 0, 128>>, <<0, 0, 0, 255>>,
    <<0, 0, 1, 0>>, <<0, 0, 127, 255>>, <<0, 0, 128, 0>>, <<0, 127, 255, 255>>,
    <<0, 128, 0, 0>>, <<127, 255, 255, 255>>, <<128, 0, 0, 0>>, <<255, 127, 255, 255>>,
    <<255, 128, 0, 0>>, <<255, 255, 127, 255>>, <<255, 255, 128, 0>>, <<255, 255, 255, 0>>,
    <<255, 255, 255, 127>>, <<255, 255, 255, 128>>, <<255, 255, 255, 255>>>>

Integers32 == [i \in DOMAIN Words |-> Put(Tag.integer, Words[i])]
Unsigned32 == [i \in DOMAIN Words |->
                 Put(<<Tag.counter32, Tag.gauge32, Tag.timeTicks>>[1 + (i % 3)], Words[i])]
Unsigned64 == [i \in DOMAIN Words |-> Put(Tag.counter64, Words[i] \o Words[21 - i])]
Numbered == [i \in DOMAIN Words |->
              [version |-> IF i % 2 = 0 THEN V1 ELSE V2c, community |-> Public,
               tag |-> IF i % 2 = 0 THEN Tag.getNext ELSE Tag.getBulk,
               numbers |-> <<Words[i], Words[21 - i], Words[i]>>,
               vbs |-> <<NullAt(Name(<<1>>))>>]]

\* Arcs at every boundary of seven bits, and the greatest.
Arcs == <<WordOf(0), WordOf(127), WordOf(128), WordOf(16383), WordOf(16384), WordOf(2097151),
          WordOf(2097152), WordOf(268435455), WordOf(268435456), <<255, 255, 255, 255>>>>
Named == [i \in DOMAIN Arcs |-> Ask(Tag.get, Public, <<NullAt(Name(<<1>>) \o <<Arcs[i]>>)>>)]
Roots ==
  <<Ask(Tag.get, Public, <<NullAt(OidOf(<<0, 0>>)), NullAt(OidOf(<<1, 39>>)), NullAt(OidOf(<<2, 39, 1>>))>>),
    Put(Tag.oid, OidOf(<<2, 0>>)),
    Put(Tag.oid, OidOf(Filled(20, 1))),
    Put(Tag.oid, OidOf(Filled(21, 1))),
    Ask(Tag.get, Public, <<NullAt(OidOf(Filled(20, 1)))>>),
    Ask(Tag.get, Public, <<NullAt(OidOf(Filled(21, 1)))>>)>>

\* Strings, and with them the enclosing lengths, about the switches to the
\* long forms, the most a varbind holds, and a datagram that is just full.
Lengths == [i \in 1 .. 50 |-> Put(Tag.octets, Filled(i + 50, 65))]
TwoStrings == [i \in 1 .. 64 |->
                Ask(Tag.set, Private, <<Vb(Tag.octets, Filled(76, 65)), Vb(Tag.opaque, Filled(i + 50, 66))>>)]
WithGauge == [i \in 1 .. 16 |->
               Ask(Tag.set, Private, <<Vb(Tag.octets, Filled(76, 65)), Vb(Tag.opaque, Filled(i + 86, 66)),
                                       Vb(Tag.gauge32, Filled(4, 255))>>)]
Strings ==
  <<Put(Tag.octets, <<>>), Put(Tag.octets, Filled(127, 65)), Put(Tag.octets, Filled(128, 65)),
    Put(Tag.octets, Filled(129, 65)), Put(Tag.ipAddress, <<192, 168, 0, 1>>)>>

\* Other versions, communities, PDUs and counts.
Others ==
  <<[Put(Tag.integer, WordOf(1)) EXCEPT !.version = V3],
    [Put(Tag.integer, WordOf(1)) EXCEPT !.version = WordOf(2)],
    Ask(Tag.get, Filled(31, 112), <<>>), Ask(Tag.get, Filled(32, 119), <<>>),
    Ask(Tag.get, Public, <<>>), Ask(Tag.set, Public, <<Vb(Tag.integer, WordOf(1))>>),
    Ask(Tag.response, Private, <<>>), Ask(Tag.trapV2, Private, <<>>),
    Ask(Tag.get, Public, Filled(4, NullAt(Name(<<1>>)))),
    Ask(Tag.get, Public, Filled(5, NullAt(Name(<<1>>)))),
    Put(Tag.noSuchObject, <<>>), Put(Tag.noSuchInstance, <<>>), Put(Tag.endOfMibView, <<>>)>>

\* One of each kind of value, to be cut and damaged.
Samples ==
  <<Ask(Tag.get, Public, <<NullAt(OidOf(<<1, 3, 128>>)), NullAt(OidOf(<<2, 39, 70000>>))>>),
    Ask(Tag.getBulk, Private, Filled(4, NullAt(Name(<<1>>)))),
    Put(Tag.integer, <<255, 255, 0, 0>>), Put(Tag.gauge32, <<128, 0, 0, 0>>),
    Put(Tag.counter64, Filled(8, 255)), Put(Tag.oid, OidOf(Filled(20, 1))),
    Put(Tag.octets, Filled(5, 65)), Put(Tag.endOfMibView, <<>>)>>
MCDamaged == DOMAIN Samples

MCMessages ==
  Samples \o Others \o Roots \o Named \o Numbered \o Integers32 \o Unsigned32 \o Unsigned64
    \o Strings \o Lengths \o TwoStrings \o WithGauge

MCFaults == {0, 1, 2, 6, 48, 127, 128, 129, 132, 255}

MCAnswers ==
  <<<<>>,
    <<Vb(Tag.timeTicks, <<255, 255, 255, 255>>), Vb(Tag.counter64, Filled(8, 128))>>,
    <<Vb(Tag.oid, OidOf(<<1, 3, 6, 1, 4, 1, 99999>>)), Vb(Tag.integer, <<255, 255, 255, 156>>)>>,
    Filled(4, Vb(Tag.octets, Filled(40, 65))),
    Filled(4, Vb(Tag.octets, Filled(60, 65)))>>

\* The traps of app_main and trap_monitor.c, with a community that fills its
\* buffer, and others at the limits.
Notice(community, uptime, oid, extra, cap) ==
  [version |-> V2c, community |-> community, uptime |-> uptime, oid |-> oid,
   address |-> <<>>, extra |-> extra, cap |-> cap]
Other(version, n, cap) ==
  [version |-> version, community |-> Public, uptime |-> <<128, 0, 0, 0>>,
   oid |-> Wespe(<<3, 2>>), address |-> <<192, 168, 0, 1>>,
   extra |-> Filled(n, Vb(Tag.integer, WordOf(n))), cap |-> cap]

MCTraps ==
  FlattenSeq([i \in DOMAIN Words |->
    <<Notice(Public, Words[i], ColdStart, <<>>, 128),
      Notice(Private, Words[i], ColdStart, <<>>, 128),
      Notice(Private, Words[i], Wespe(<<3, 1>>),
          <<[oid |-> Wespe(<<2, 2, 0>>), tag |-> Tag.integer, value |-> WordOf(1)]>>, 256),
      Notice(Private, WordOf(i), Wespe(<<3, 2>>),
          <<[oid |-> Wespe(<<2, 1, 0>>), tag |-> Tag.integer, value |-> Words[i]]>>, 256)>>])
  \o [n \in 1 .. 5 |-> Other(V2c, n, 256)]
  \o [n \in 1 .. 5 |-> Other(V1, n, 256)]
  \o [n \in 1 .. 8 |-> Other(V1, 1, 50 + n)]
  \o [n \in 1 .. 8 |-> Other(V2c, 1, 73 + n)]
=============================================================================
