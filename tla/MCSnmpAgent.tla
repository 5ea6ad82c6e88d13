---------------------------- MODULE MCSnmpAgent -----------------------------
(***************************************************************************)
(* The requests of the runs of SnmpAgent.                                  *)
(***************************************************************************)
EXTENDS SnmpAgent, MCMib

Ask(version, access, pdu, vbs) ==
  [version |-> version, access |-> access, pdu |-> pdu, vbs |-> vbs]

\* Reads: instances, a missing row, a missing column, the end of the view.
GetTargets == {SysName, Rssi, Label(2), Temp(1), Temp(3), Count(1), Entry \o <<9, 1>>}
NextTargets == {<<>>, Relay, Label(1), Temp(1), Temp(2), Count(2), Count(3)}

GetRequests ==
  {Ask(v, "read", "get", vbs) : v \in {"v1", "v2c"}, vbs \in UpTo2(Nulls(GetTargets))}
NextRequests ==
  {Ask(v, "read", "getnext", vbs) : v \in {"v1", "v2c"}, vbs \in UpTo2(Nulls(NextTargets))}

\* Writes: legal ones, an illegal relay state, a string that sysName accepts
\* and a label does not, a wrong type, a read-only object, an unknown one.
SetVbs == {Vb(SysName, "octets", 40), Vb(Relay, "integer", 1),
           Vb(Relay, "integer", 2), Vb(Label(1), "octets", 40),
           Vb(Label(2), "octets", 5), Vb(Label(2), "integer", 5),
           Vb(Temp(1), "integer", 5), Vb(Entry \o <<9, 1>>, "integer", 5)}

SetRequests == {Ask("v2c", "readwrite", "set", vbs) : vbs \in UpTo2(SetVbs)}

Undeliverable ==
  {Ask("v3", "readwrite", "get", <<Vb(SysName, "null", 0)>>),
   Ask("v2c", "none", "get", <<Vb(SysName, "null", 0)>>),
   Ask("v2c", "read", "set", <<Vb(Relay, "integer", 1)>>),
   Ask("v1", "readwrite", "other", <<>>)}

\* All that fit in a datagram: the longest is a Set that fills one.
AllRequests ==
  {r \in GetRequests \cup NextRequests \cup SetRequests \cup Undeliverable :
     EncodedLen(r.vbs) <= OutCap}
ReadRequests == {r \in GetRequests : r.version = "v1"}

\* Sets whose values every setter accepts, and ones validation refuses.
LegalSetVbs == {Vb(SysName, "octets", 40), Vb(Relay, "integer", 1),
                Vb(Label(1), "octets", 5), Vb(Label(2), "octets", 9)}
RefusedSetVbs == {Vb(Relay, "octets", 1), Vb(Temp(1), "integer", 5)}
LegalSets ==
  {Ask("v2c", "readwrite", "set", vbs) : vbs \in UpTo2(LegalSetVbs)}
AtomicRequests ==
  LegalSets \cup Undeliverable \cup
  {Ask("v1", "readwrite", "set", vbs) : vbs \in UpTo2(LegalSetVbs \cup RefusedSetVbs)} \cup
  {Ask("v1", "read", "get", <<Vb(Label(1), "null", 0), Vb(Temp(1), "null", 0)>>),
   Ask("v2c", "read", "getnext", <<Vb(SysName, "null", 0), Vb(Temp(1), "null", 0)>>),
   Ask("v2c", "read", "get", <<Vb(SysName, "null", 0), Vb(SysName, "null", 0), Vb(Relay, "null", 0)>>)}
=============================================================================
