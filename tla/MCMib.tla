------------------------------- MODULE MCMib --------------------------------
(***************************************************************************)
(* A part of the WESPE MIB (the common prefix 1.3.6.1 of all OIDs left     *)
(* out), and how the number of sensors develops.                           *)
(***************************************************************************)
EXTENDS Naturals, Sequences, TLC

Def(tag, writable, accessor) ==
  [tag |-> tag, writable |-> writable, accessor |-> accessor]

SysName  == <<2, 1, 1, 5, 0>>
Relay    == <<4, 1, 99999, 2, 2, 0>>
Rssi     == <<4, 1, 99999, 2, 5, 0>>
IfXEntry == <<2, 1, 31, 1, 1, 1>>
Entry    == <<4, 1, 99999, 2, 6, 1>>
Label(n) == Entry \o <<2, n>>
Temp(n)  == Entry \o <<3, n>>
Count(n) == Entry \o <<4, n>>

MCObjects ==
  SysName :> Def("octets", TRUE, "string")
  @@ Relay :> Def("integer", TRUE, "relay")
  @@ Rssi :> Def("integer", FALSE, "rssi")

MCTables ==
  { [entry |-> IfXEntry, rows |-> "one",
     columns |-> 1 :> Def("octets", FALSE, "fixed")
                 @@ 6 :> Def("counter64", FALSE, "fixed")],
    [entry |-> Entry, rows |-> "sensors",
     columns |-> 2 :> Def("octets", TRUE, "sensorLabel")
                 @@ 3 :> Def("integer", FALSE, "sensorTemp")
                 @@ 4 :> Def("counter64", FALSE, "sensorReadCount")] }

MCBootValue == SysName :> 13 @@ Relay :> 0

Vb(o, tag, val) == [oid |-> o, tag |-> tag, val |-> val]
UpTo2(S) == {<<>>} \cup {<<x>> : x \in S} \cup {<<x, y>> : x, y \in S}
Nulls(S) == {Vb(o, "null", 0) : o \in S}

MockRows == <<1, 2, 3, 2>>
OneSensor == <<1>>
ThreeSensors == <<3>>
=============================================================================
