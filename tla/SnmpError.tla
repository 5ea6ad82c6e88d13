----------------------------- MODULE SnmpError ------------------------------
(***************************************************************************)
(* snmp_error.c: what a MIB result becomes on the wire.  In v1 (and in SET *)
(* of every version) a failure is an error-status of the whole PDU; a v2c  *)
(* read puts an exception value into the one varbind that failed.          *)
(***************************************************************************)
EXTENDS MibView

ErrorStatuses == {"noError", "noSuchName", "badValue", "readOnly", "genErr"}
Exceptions == {"noSuchObject", "noSuchInstance", "endOfMibView"}
NoException == "none"

Translation(abort, status, exception) ==
  [abort |-> abort, status |-> status, exception |-> exception]

V1Status(result) ==
  CASE result \in {"noSuchObject", "noSuchInstance", "endOfView"} -> "noSuchName"
    [] result \in {"wrongType", "wrongValue"} -> "badValue"
    [] result = "notWritable" -> "readOnly"
    [] OTHER -> "genErr"

\* Mutant: the MIB's name for the end of the view goes out as it is.
V2cExceptionRaw(result) ==
  IF result \in {"noSuchObject", "noSuchInstance", "endOfView"} THEN result
  ELSE NoException

V2cException(result) ==
  CASE result = "noSuchObject" -> "noSuchObject"
    [] result = "noSuchInstance" -> "noSuchInstance"
    [] result = "endOfView" -> "endOfMibView"
    [] OTHER -> NoException

Translate(version, result) ==
  IF result = "ok" THEN Translation(FALSE, "noError", NoException)
  ELSE IF version = "v1" THEN Translation(TRUE, V1Status(result), NoException)
  ELSE IF V2cException(result) # NoException
  THEN Translation(FALSE, "noError", V2cException(result))
  ELSE Translation(TRUE, "genErr", NoException)
=============================================================================
