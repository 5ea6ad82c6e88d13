----------------------------- MODULE MCGetBulk ------------------------------
(***************************************************************************)
(* The requests of the run of GetBulk.  The array holds 6 varbinds and 2  *)
(* cursors, so the longer walks fill it and a request of 3 has a repeater  *)
(* too many.                                                               *)
(***************************************************************************)
EXTENDS GetBulk, MCMib

Bulk(version, nonRepeaters, maxRepetitions, list) ==
  [version |-> version, nonRepeaters |-> nonRepeaters,
   maxRepetitions |-> maxRepetitions, vbs |-> list]

\* From a label, the temperatures, the last rows, and past the end.
Starts == Nulls({Rssi, Label(2), Temp(1), Count(1), Count(3)})
Lists == UpTo2(Starts) \cup
         {<<Vb(SysName, "null", 0), x, Vb(Count(2), "null", 0)>> : x \in Starts}

\* Non-repeaters and max-repetitions: negative, none, some, too many.
Counts == {<<-1, 3>>, <<0, -1>>, <<0, 3>>, <<0, 9>>, <<1, 3>>, <<1, 9>>, <<4, 9>>}

BulkRequests ==
  {Bulk("v2c", n[1], n[2], l) : n \in Counts, l \in Lists}
  \cup {Bulk("v1", 0, 9, <<Vb(SysName, "null", 0)>>)}
=============================================================================
