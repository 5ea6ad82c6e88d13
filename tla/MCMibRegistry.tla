--------------------------- MODULE MCMibRegistry ----------------------------
(***************************************************************************)
(* Two arrays of scalars whose OID ranges interleave with each other and   *)
(* with two tables, as those of mib_ii.c, mib_iftable.c and the WESPE MIB  *)
(* do, and the targets that fall on, between, before and after them.       *)
(***************************************************************************)
EXTENDS MibRegistry, TLC

Def(tag, writable, accessor) ==
  [tag |-> tag, writable |-> writable, accessor |-> accessor]

Fixed == Def("integer", FALSE, "fixed")

System == <<<<1, 1, 0>>, <<1, 2, 0>>, <<1, 5, 0>>>>
Wespe == <<<<4, 1, 0>>, <<4, 2, 0>>, <<4, 5, 0>>, <<4, 7, 0>>>>
MCModules == <<System, Wespe>>

IfTable == [entry |-> <<2, 1>>, rows |-> "one",
            columns |-> 1 :> Fixed @@ 8 :> Fixed]
SensorTable == [entry |-> <<4, 6, 1>>, rows |-> "sensors",
                columns |-> 2 :> Def("octets", TRUE, "sensorLabel")
                            @@ 3 :> Def("integer", FALSE, "sensorTemp")]
MCTables == {IfTable, SensorTable}
MCTableArray == <<IfTable, SensorTable>>
MCColumnArray == IfTable :> <<1, 8>> @@ SensorTable :> <<2, 3>>

MCObjects == [o \in {System[i] : i \in DOMAIN System} \cup {Wespe[i] : i \in DOMAIN Wespe}
                |-> Fixed]

MCTargets ==
  DOMAIN MCObjects \cup
  {<<>>, <<1, 3>>, <<2>>, <<2, 1, 1, 0>>, <<2, 1, 1, 1>>, <<2, 1, 8, 1>>,
   <<2, 1, 8, 2>>, <<2, 1, 4, 1>>, <<4, 1>>, <<4, 6, 1>>, <<4, 6, 1, 2>>, <<4, 6, 1, 2, 0>>,
   <<4, 6, 1, 2, 1>>, <<4, 6, 1, 2, 2>>, <<4, 6, 1, 2, 3>>, <<4, 6, 1, 2, 4>>,
   <<4, 6, 1, 3, 1>>, <<4, 6, 1, 3, 2>>, <<4, 6, 1, 3, 3>>, <<4, 6, 1, 3, 1, 1>>,
   <<4, 6, 2>>, <<4, 9>>, <<5>>}

MCRowCounts == {1, 2, 3}
=============================================================================
