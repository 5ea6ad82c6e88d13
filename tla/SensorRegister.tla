--------------------------- MODULE SensorRegister ---------------------------
(***************************************************************************)
(* What sensor_read_temperature_decidegrees promises its callers: it reads *)
(* an atomic register that is empty until the first reading and never      *)
(* again, whoever else reads or writes it.                                 *)
(***************************************************************************)
CONSTANTS Readers, Readings, NoReading

VARIABLES register, call, got

Init ==
  /\ register = NoReading
  /\ call = [r \in Readers |-> "idle"]
  /\ got = [r \in Readers |-> NoReading]

Write ==
  /\ register' \in Readings
  /\ UNCHANGED <<call, got>>

Begin(r) ==
  /\ call[r] = "idle"
  /\ call' = [call EXCEPT ![r] = "called"]
  /\ UNCHANGED <<register, got>>

\* The one instant at which the call takes effect.
Sample(r) ==
  /\ call[r] = "called"
  /\ call' = [call EXCEPT ![r] = "answered"]
  /\ got' = [got EXCEPT ![r] = register]
  /\ UNCHANGED register

End(r) ==
  /\ call[r] = "answered"
  /\ call' = [call EXCEPT ![r] = "idle"]
  /\ UNCHANGED <<register, got>>

Next == Write \/ \E r \in Readers : Begin(r) \/ Sample(r) \/ End(r)

Spec == Init /\ [][Next]_<<register, call, got>>
=============================================================================
