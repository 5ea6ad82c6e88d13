----------------------------- MODULE LinkStatus ------------------------------
(***************************************************************************)
(* ifLastChange, as sysinfo_esp32.c keeps it: the state of the association *)
(* is compared with the one seen by the previous read.  A read is part of  *)
(* a request, which came in over that association.                         *)
(***************************************************************************)
EXTENDS WifiProvisioning

CONSTANT MaxClock  \* bound: how far the uptime runs, in ticks (no 32-bit overflow)

ASSUME LinkAssumption == MaxClock \in Nat

VARIABLES
  clock,         \* sysinfo_uptime_ms() / 10
  request,       \* a read of ifLastChange is being served
  initialized,   \* s_last_change_initialized
  lastUp,        \* s_last_oper_up
  lastTicks,     \* s_last_change_ticks
  reported,      \* what the last read returned
  changedAt,     \* history: when the association last came or went
  changeUnseen   \* history: it has since the last read

lastVars == <<initialized, lastUp, lastTicks, reported>>
linkVars == <<wifiVars, clock, request, lastVars, changedAt, changeUnseen>>

\* sysinfo_wifi_oper_up: esp_wifi_sta_get_ap_info succeeds.
OperUp == link \in {"associated", "online"}

LinkTypeOK ==
  /\ TypeOK
  /\ clock \in 0 .. MaxClock
  /\ request \in BOOLEAN
  /\ initialized \in BOOLEAN /\ lastUp \in BOOLEAN
  /\ lastTicks \in 0 .. MaxClock /\ reported \in 0 .. MaxClock
  /\ changedAt \in 0 .. MaxClock
  /\ changeUnseen \in BOOLEAN

LinkInit ==
  /\ WifiInit
  /\ clock = 0
  /\ request = FALSE
  /\ initialized = FALSE /\ lastUp = FALSE
  /\ lastTicks = 0 /\ reported = 0
  /\ changedAt = 0
  /\ changeUnseen = FALSE

-----------------------------------------------------------------------------
\* A step of WifiProvisioning, whose changes of the association are noted.
Wifi ==
  /\ WifiNext
  /\ changedAt' = IF OperUp' = OperUp THEN changedAt ELSE clock
  /\ changeUnseen' = (changeUnseen \/ OperUp' # OperUp)
  /\ UNCHANGED <<clock, request, lastVars>>

Tick ==
  /\ clock < MaxClock
  /\ clock' = clock + 1
  /\ UNCHANGED <<wifiVars, request, lastVars, changedAt, changeUnseen>>

\* Only a station with an address receives a request.
Receive ==
  /\ app = "running" /\ link = "online"
  /\ ~request
  /\ request' = TRUE
  /\ UNCHANGED <<wifiVars, clock, lastVars, changedAt, changeUnseen>>

\* Mutant: the first observation counts as a change.
ReadLastChangeFirst ==
  /\ request
  /\ request' = FALSE
  /\ changeUnseen' = FALSE
  /\ initialized' = TRUE
  /\ lastUp' = OperUp
  /\ lastTicks' = IF OperUp = lastUp THEN lastTicks ELSE clock
  /\ reported' = lastTicks'
  /\ UNCHANGED <<wifiVars, clock, changedAt>>

\* sysinfo_wifi_last_change_ticks.
ReadLastChange ==
  /\ request
  /\ request' = FALSE
  /\ changeUnseen' = FALSE
  /\ initialized' = TRUE
  /\ lastUp' = OperUp
  /\ lastTicks' = IF ~initialized \/ OperUp = lastUp THEN lastTicks ELSE clock
  /\ reported' = lastTicks'
  /\ UNCHANGED <<wifiVars, clock, changedAt>>

-----------------------------------------------------------------------------
(***************************************************************************)
(* Properties.                                                             *)
(***************************************************************************)

\* A new time of change is reported only if the association has come or gone
\* since the read before, and it is never earlier than that change.
ReportedChangeHappened ==
  [][reported' # reported => initialized /\ changeUnseen /\ reported' >= changedAt]_linkVars
=============================================================================
