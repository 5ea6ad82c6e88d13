-------------------------- MODULE TrapMonitorProofs --------------------------
(***************************************************************************)
(* Proofs about the trap monitor: for any temperatures, threshold and      *)
(* hysteresis, any number of relay switches, and whatever becomes of the   *)
(* traps on the way.                                                       *)
(***************************************************************************)
EXTENDS TrapMonitor, TLAPS

-----------------------------------------------------------------------------
(***************************************************************************)
(* The alarm.                                                              *)
(***************************************************************************)

\* While the alarm is armed, or the temperature is cold enough to arm it at
\* the next poll, it has cooled since the last trap.
AlarmInv ==
  /\ reading \in Temperatures \cup {NoReading}
  /\ haveTemp /\ (~over \/ Cool(reading)) => cooled
  /\ pc = "tempTrap" => cooled /\ haveTemp /\ over

\* A temperature cannot be over the threshold and below the band.
LEMMA HotIsNotCool ==
  \A t \in Temperatures \cup {NoReading} : Hot(t) => ~Cool(t)
<1> SUFFICES ASSUME NEW t \in Temperatures \cup {NoReading}, Hot(t) PROVE ~Cool(t)
  OBVIOUS
<1>1. t \in Int /\ t >= Threshold /\ Threshold \in Int /\ Hysteresis \in Nat
  BY TrapAssumption DEF TrapAssumption, Hot
<1>2. ~(t < Threshold - Hysteresis)
  BY <1>1, SMT
<1> QED BY <1>2 DEF Cool

LEMMA AlarmStep == AlarmInv /\ [Next]_vars => AlarmInv'
<1> SUFFICES ASSUME AlarmInv, [Next]_vars PROVE AlarmInv'
  OBVIOUS
<1>1. CASE SwitchRelay
  BY <1>1, Zenon DEF AlarmInv, SwitchRelay, monitorVars, Cool
<1>2. CASE Temperature
  <2>1. reading' \in Temperatures \cup {NoReading}
    BY <1>2, Zenon DEF Temperature
  <2>2. /\ cooled' = (cooled \/ Cool(reading'))
        /\ UNCHANGED <<pc, haveTemp, over>>
    BY <1>2, Zenon DEF Temperature, monitorVars
  <2> QED BY <2>1, <2>2, Zenon DEF AlarmInv, Cool
<1>3. CASE ColdStart
  BY <1>3, Zenon DEF AlarmInv, ColdStart, historyVars, Cool
<1>4. CASE PollRelay
  BY <1>4, Zenon DEF AlarmInv, PollRelay, historyVars, Cool
<1>5. CASE RelayTrap
  BY <1>5, Zenon DEF AlarmInv, RelayTrap, Cool
<1>6. CASE PollTemp
  <2>1. UNCHANGED reading
    BY <1>6, Zenon DEF PollTemp
  <2>2. CASE reading = NoReading
    <3>1. pc' = "sleep" /\ UNCHANGED <<haveTemp, over, cooled>>
      BY <1>6, <2>2, Zenon DEF PollTemp
    <3> QED BY <2>1, <3>1, Zenon DEF AlarmInv, Cool
  <2>3. CASE reading # NoReading /\ ~haveTemp
    <3>1. over' = Hot(reading) /\ cooled' = ~Hot(reading) /\ pc' = "sleep"
      BY <1>6, <2>3, Zenon DEF PollTemp
    <3>2. ~over' \/ Cool(reading)' => cooled'
      BY <2>1, <3>1, HotIsNotCool, Zenon DEF AlarmInv, Cool
    <3> QED BY <2>1, <3>1, <3>2, Zenon DEF AlarmInv, Cool
  <2>4. CASE reading # NoReading /\ haveTemp
    <3>1. /\ over' = (IF over THEN ~Cool(reading) ELSE Hot(reading))
          /\ pc' = IF ~over /\ Hot(reading) THEN "tempTrap" ELSE "sleep"
          /\ UNCHANGED <<haveTemp, cooled>>
      BY <1>6, <2>4, Zenon DEF PollTemp
    <3>2. ~over' \/ Cool(reading) => cooled
      BY <2>4, <3>1, Zenon DEF AlarmInv
    <3>3. pc' = "tempTrap" => cooled /\ over'
      BY <2>4, <3>1, Zenon DEF AlarmInv
    <3> QED BY <2>1, <2>4, <3>1, <3>2, <3>3, Zenon DEF AlarmInv, Cool
  <2> QED BY <2>2, <2>3, <2>4, Zenon
<1>7. CASE TempTrap
  BY <1>7, Zenon DEF AlarmInv, TempTrap, Cool
<1>8. CASE Wake
  BY <1>8, Zenon DEF AlarmInv, Wake, historyVars, Cool
<1>9. CASE UNCHANGED vars
  BY <1>9, Zenon DEF AlarmInv, vars, monitorVars, historyVars, Cool
<1> QED BY <1>1, <1>2, <1>3, <1>4, <1>5, <1>6, <1>7, <1>8, <1>9, Zenon DEF Next, Monitor

\* However the temperature moves between two polls and while a trap is being
\* sent, no threshold trap follows another unless it fell below the
\* hysteresis band in between (trap_monitor.c over_threshold).
THEOREM NoTrapWithoutCooling == Spec => []TrapsNeedCooling
<1>1. Init => AlarmInv
  BY Zenon DEF Init, AlarmInv
<1>2. AlarmInv => TrapsNeedCooling
  BY Zenon DEF AlarmInv, TrapsNeedCooling
<1> QED BY <1>1, <1>2, AlarmStep, PTL DEF Spec

-----------------------------------------------------------------------------
(***************************************************************************)
(* The relay.                                                              *)
(***************************************************************************)

\* A change that is about to be reported is one the traps sent so far leave
\* over.
RelayInv ==
  /\ relay \in BOOLEAN /\ lastRelay \in BOOLEAN /\ relayOn \in BOOLEAN
  /\ changes \in Nat /\ relayTraps \in Nat
  /\ ~haveRelay => changes = 0 /\ relayTraps = 0
  /\ pc = "relayTrap" => haveRelay /\ relayOn # lastRelay /\ relayTraps < changes
  /\ RelayTrapsMatchChanges

LEMMA Parity ==
  ASSUME NEW n \in Int
  PROVE  /\ n % 2 = 0 <=> (n + 1) % 2 = 1
         /\ n % 2 = 1 <=> (n + 1) % 2 = 0
  BY SMT

LEMMA Negation ==
  ASSUME NEW b \in BOOLEAN, NEW c \in BOOLEAN
  PROVE  (~b) \in BOOLEAN /\ ((~b) = c <=> b # c)
  BY Zenon

LEMMA OtherOne ==
  \A b, c, d \in BOOLEAN : c # d => (b = c <=> b # d)
  BY Zenon

\* The monitor catches up with a change, and the relay is the other way then.
LEMMA RelayStep == RelayInv /\ [Next]_vars => RelayInv'
<1> SUFFICES ASSUME RelayInv, [Next]_vars PROVE RelayInv'
  OBVIOUS
<1>0. haveRelay => /\ relayTraps <= changes
                   /\ (changes - relayTraps) % 2 = IF relay = lastRelay THEN 0 ELSE 1
  BY DEF RelayInv, RelayTrapsMatchChanges
<1>1. CASE SwitchRelay
  <2>1. /\ UNCHANGED <<pc, haveRelay, lastRelay, relayOn, relayTraps>>
        /\ relay' = ~relay
        /\ changes' = IF haveRelay THEN changes + 1 ELSE changes
    BY <1>1 DEF SwitchRelay, monitorVars
  <2>2. relay' \in BOOLEAN /\ (relay' = lastRelay <=> relay # lastRelay)
    BY <2>1, Negation DEF RelayInv
  <2>3. ASSUME haveRelay
        PROVE  (changes + 1 - relayTraps) % 2 = IF relay' = lastRelay THEN 0 ELSE 1
    <3>1. changes - relayTraps \in Int /\ changes + 1 - relayTraps = (changes - relayTraps) + 1
      BY DEF RelayInv
    <3> QED BY <1>0, <2>2, <2>3, <3>1, Parity
  <2>4. RelayTrapsMatchChanges'
    BY <1>0, <2>1, <2>3 DEF RelayInv, RelayTrapsMatchChanges
  <2> QED BY <2>1, <2>2, <2>4 DEF RelayInv
<1>2. CASE PollRelay
  <2>1. UNCHANGED <<relay, changes, relayTraps>>
    BY <1>2 DEF PollRelay, historyVars
  <2>2. CASE ~haveRelay
    <3>1. haveRelay' = TRUE /\ lastRelay' = relay /\ pc' = "temp" /\ relayOn' = relayOn
      BY <1>2, <2>2 DEF PollRelay
    <3>2. RelayTrapsMatchChanges'
      BY <2>1, <2>2, <3>1 DEF RelayInv, RelayTrapsMatchChanges
    <3> QED BY <2>1, <3>1, <3>2 DEF RelayInv
  <2>3. CASE haveRelay /\ relay # lastRelay
    <3>1. relayOn' = relay /\ UNCHANGED <<haveRelay, lastRelay>>
      BY <1>2, <2>3 DEF PollRelay
    <3>2. relayTraps < changes
      BY <1>0, <2>3 DEF RelayInv
    <3> QED BY <1>0, <2>1, <2>3, <3>1, <3>2 DEF RelayInv, RelayTrapsMatchChanges
  <2>4. CASE haveRelay /\ relay = lastRelay
    <3>1. pc' = "temp" /\ UNCHANGED <<haveRelay, lastRelay, relayOn>>
      BY <1>2, <2>4 DEF PollRelay
    <3> QED BY <1>0, <2>1, <3>1 DEF RelayInv, RelayTrapsMatchChanges
  <2> QED BY <2>2, <2>3, <2>4
<1>3. CASE RelayTrap
  <2>1. /\ pc = "relayTrap" /\ pc' = "temp"
        /\ lastRelay' = relayOn
        /\ relayTraps' = relayTraps + 1
        /\ UNCHANGED <<relay, haveRelay, relayOn, changes>>
    BY <1>3 DEF RelayTrap
  <2>2. relay \in BOOLEAN /\ lastRelay \in BOOLEAN /\ relayOn \in BOOLEAN
    BY DEF RelayInv
  <2>3. haveRelay /\ relayOn # lastRelay /\ relayTraps + 1 <= changes
    BY <2>1 DEF RelayInv
  <2>4. relay = lastRelay' <=> relay # lastRelay
    BY <2>1, <2>3, <2>2, OtherOne
  <2>5. (changes - (relayTraps + 1)) % 2 = IF relay = lastRelay' THEN 0 ELSE 1
    <3>1. /\ changes - (relayTraps + 1) \in Int
          /\ changes - relayTraps = (changes - (relayTraps + 1)) + 1
      BY DEF RelayInv
    <3> QED BY <1>0, <2>3, <2>4, <3>1, Parity
  <2>6. RelayTrapsMatchChanges'
    BY <2>1, <2>3, <2>5 DEF RelayTrapsMatchChanges
  <2> QED BY <2>1, <2>3, <2>6 DEF RelayInv
<1>4. CASE UNCHANGED <<relay, lastRelay, relayOn, changes, relayTraps, haveRelay>>
           /\ pc' # "relayTrap"
  BY <1>4 DEF RelayInv, RelayTrapsMatchChanges
<1>5. CASE UNCHANGED <<relay, lastRelay, relayOn, changes, relayTraps, haveRelay, pc>>
  BY <1>5 DEF RelayInv, RelayTrapsMatchChanges
<1>6. ASSUME ColdStart \/ PollTemp \/ TempTrap \/ Wake
      PROVE  UNCHANGED <<relay, lastRelay, relayOn, changes, relayTraps, haveRelay>>
             /\ pc' # "relayTrap"
  BY <1>6 DEF ColdStart, PollTemp, TempTrap, Wake, historyVars
<1>7. ASSUME Temperature \/ UNCHANGED vars
      PROVE  UNCHANGED <<relay, lastRelay, relayOn, changes, relayTraps, haveRelay, pc>>
  BY <1>7 DEF Temperature, vars, monitorVars, historyVars
<1> QED BY <1>1, <1>2, <1>3, <1>4, <1>5, <1>6, <1>7 DEF Next, Monitor

\* However often the relay is switched between two polls and while a trap is
\* being sent, every relay trap stands for changes of its own
\* (trap_monitor.c last_relay_on).
THEOREM RelayTrapsAreReal == Spec => []RelayTrapsMatchChanges
<1>1. Init => RelayInv
  <2>1. SUFFICES ASSUME Init PROVE RelayInv
    OBVIOUS
  <2>2. /\ relay \in BOOLEAN /\ lastRelay \in BOOLEAN /\ relayOn \in BOOLEAN
        /\ ~haveRelay /\ pc # "relayTrap"
    BY <2>1, Zenon DEF Init
  <2>3. changes = 0 /\ relayTraps = 0
    BY <2>1 DEF Init
  <2> QED BY <2>2, <2>3 DEF RelayInv, RelayTrapsMatchChanges
<1>2. RelayInv => RelayTrapsMatchChanges
  BY DEF RelayInv
<1> QED BY <1>1, <1>2, RelayStep, PTL DEF Spec

-----------------------------------------------------------------------------
\* RelayTrap stays within the number of switches, by RelayTrapsMatchChanges.
CountInv ==
  /\ TypeOK /\ RelayInv
  /\ changes <= switches

LEMMA CountStep == CountInv /\ [Next]_vars => CountInv'
<1> SUFFICES ASSUME CountInv, [Next]_vars PROVE CountInv'
  OBVIOUS
<1>1. MaxSwitches \in Nat
  BY TrapAssumption DEF TrapAssumption
<1>2. RelayInv'
  BY RelayStep DEF CountInv
<1>3. /\ relay \in BOOLEAN /\ reading \in Temperatures \cup {NoReading}
      /\ pc \in {"boot", "relay", "relayTrap", "temp", "tempTrap", "sleep"}
      /\ destValid \in BOOLEAN /\ socketOpen \in BOOLEAN
      /\ haveRelay \in BOOLEAN /\ lastRelay \in BOOLEAN
      /\ haveTemp \in BOOLEAN /\ over \in BOOLEAN /\ relayOn \in BOOLEAN
      /\ believed \in {"nothing", "on", "off"} /\ cooled \in BOOLEAN
  BY DEF CountInv, TypeOK
<1>4. /\ switches \in 0 .. MaxSwitches /\ changes \in 0 .. MaxSwitches
      /\ relayTraps \in 0 .. MaxSwitches /\ changes <= switches
  BY DEF CountInv, TypeOK
\* What the tasks, the socket and the history hold, each on its own.
<1> DEFINE DeviceOK == relay \in BOOLEAN /\ reading \in Temperatures \cup {NoReading}
           MonitorOK == /\ pc \in {"boot", "relay", "relayTrap", "temp", "tempTrap", "sleep"}
                        /\ haveRelay \in BOOLEAN /\ lastRelay \in BOOLEAN
                        /\ haveTemp \in BOOLEAN /\ over \in BOOLEAN /\ relayOn \in BOOLEAN
           SocketOK == destValid \in BOOLEAN /\ socketOpen \in BOOLEAN
           CountsOK == /\ switches \in 0 .. MaxSwitches /\ changes \in 0 .. MaxSwitches
                       /\ relayTraps \in 0 .. MaxSwitches /\ changes <= switches
           BeliefOK == believed \in {"nothing", "on", "off"} /\ cooled \in BOOLEAN
<1>5. DeviceOK /\ MonitorOK /\ SocketOK /\ CountsOK /\ BeliefOK
  BY <1>3, <1>4
<1>6. ASSUME DeviceOK', MonitorOK', SocketOK', CountsOK', BeliefOK' PROVE CountInv'
  BY <1>2, <1>6, Zenon DEF CountInv, TypeOK
<1>7. /\ UNCHANGED <<relay, reading>> => DeviceOK'
      /\ UNCHANGED monitorVars => MonitorOK'
      /\ UNCHANGED socketVars => SocketOK'
      /\ UNCHANGED <<switches, changes, relayTraps>> => CountsOK'
      /\ UNCHANGED <<believed, cooled>> => BeliefOK'
  BY <1>5 DEF monitorVars, socketVars
<1>8. ASSUME NEW delivered, SendTrap(delivered) PROVE SocketOK'
  BY <1>3, <1>8, Zenon DEF SendTrap
<1> HIDE DEF DeviceOK, MonitorOK, SocketOK, CountsOK, BeliefOK
<1>9. CASE SwitchRelay
  <2>1. /\ switches < MaxSwitches /\ switches' = switches + 1
        /\ changes' = IF haveRelay THEN changes + 1 ELSE changes
        /\ UNCHANGED relayTraps
    BY <1>9, Zenon DEF SwitchRelay
  <2>2. CountsOK'
    BY <1>1, <1>4, <2>1 DEF CountsOK
  <2>3. relay' \in BOOLEAN /\ UNCHANGED reading
    BY <1>9, Zenon DEF SwitchRelay
  <2>4. DeviceOK'
    BY <1>3, <2>3, Zenon DEF DeviceOK
  <2>5. UNCHANGED <<monitorVars, socketVars>> /\ UNCHANGED <<believed, cooled>>
    BY <1>9, Zenon DEF SwitchRelay
  <2> QED BY <1>6, <1>7, <2>2, <2>4, <2>5
<1>10. CASE Temperature
  <2>1. reading' \in Temperatures \cup {NoReading} /\ UNCHANGED relay
    BY <1>10, Zenon DEF Temperature
  <2>2. DeviceOK'
    BY <1>3, <2>1, Zenon DEF DeviceOK
  <2>3. cooled' \in BOOLEAN /\ UNCHANGED believed
    BY <1>10, Zenon DEF Temperature
  <2>4. BeliefOK'
    BY <1>3, <2>3, Zenon DEF BeliefOK
  <2>5. UNCHANGED <<monitorVars, socketVars>> /\ UNCHANGED <<switches, changes, relayTraps>>
    BY <1>10, Zenon DEF Temperature
  <2> QED BY <1>6, <1>7, <2>2, <2>4, <2>5
<1>11. CASE ColdStart
  <2>1. pc' = "relay" /\ UNCHANGED <<haveRelay, lastRelay, haveTemp, over, relayOn>>
    BY <1>11, Zenon DEF ColdStart
  <2>2. MonitorOK'
    BY <1>3, <2>1, Zenon DEF MonitorOK
  <2>3. SocketOK'
    BY <1>8, <1>11, Zenon DEF ColdStart
  <2>4. /\ UNCHANGED <<relay, reading>> /\ UNCHANGED <<switches, changes, relayTraps>>
        /\ UNCHANGED <<believed, cooled>>
    BY <1>11, Zenon DEF ColdStart, historyVars
  <2> QED BY <1>6, <1>7, <2>2, <2>3, <2>4
<1>12. CASE PollRelay
  <2>1. /\ pc' \in {"temp", "relayTrap"} /\ UNCHANGED <<haveTemp, over>>
        /\ haveRelay' \in BOOLEAN /\ lastRelay' \in BOOLEAN /\ relayOn' \in BOOLEAN
    BY <1>3, <1>12, Zenon DEF PollRelay
  <2>2. MonitorOK'
    BY <1>3, <2>1, Zenon DEF MonitorOK
  <2>3. /\ UNCHANGED <<relay, reading>> /\ UNCHANGED <<switches, changes, relayTraps>>
        /\ UNCHANGED <<believed, cooled>> /\ UNCHANGED socketVars
    BY <1>12, Zenon DEF PollRelay, historyVars
  <2> QED BY <1>6, <1>7, <2>2, <2>3
<1>13. CASE RelayTrap
  <2>1. haveRelay /\ relayTraps' = relayTraps + 1 /\ UNCHANGED <<switches, changes, haveRelay>>
    BY <1>13, Zenon DEF RelayTrap, CountInv, RelayInv
  <2>2. relayTraps' <= changes'
    BY <1>2, <2>1, Zenon DEF RelayInv, RelayTrapsMatchChanges
  <2>3. CountsOK'
    BY <1>1, <1>4, <2>1, <2>2 DEF CountsOK
  <2>4. /\ believed' \in {"nothing", "on", "off"} /\ UNCHANGED cooled
        /\ pc' = "temp" /\ lastRelay' = relayOn /\ UNCHANGED <<haveTemp, over, relayOn>>
        /\ UNCHANGED <<relay, reading>>
    BY <1>13, Zenon DEF RelayTrap
  <2>5. BeliefOK'
    BY <1>3, <2>4, Zenon DEF BeliefOK
  <2>6. MonitorOK'
    BY <1>3, <2>1, <2>4, Zenon DEF MonitorOK
  <2>7. SocketOK'
    BY <1>8, <1>13, Zenon DEF RelayTrap
  <2> QED BY <1>6, <1>7, <2>3, <2>4, <2>5, <2>6, <2>7
<1>14. CASE PollTemp
  <2>1. Hot(reading) \in BOOLEAN /\ (~Hot(reading)) \in BOOLEAN /\ (~Cool(reading)) \in BOOLEAN
    BY DEF Hot, Cool
  <2>2. over' \in BOOLEAN /\ haveTemp' \in BOOLEAN
    BY <1>3, <1>14, <2>1, Zenon DEF PollTemp
  <2>3. cooled' \in BOOLEAN
    BY <1>3, <1>14, <2>1, Zenon DEF PollTemp
  <2>4. pc' \in {"sleep", "tempTrap"} /\ UNCHANGED <<haveRelay, lastRelay, relayOn>>
    BY <1>14, Zenon DEF PollTemp
  <2>5. MonitorOK'
    BY <1>3, <2>2, <2>4, Zenon DEF MonitorOK
  <2>6. /\ UNCHANGED believed /\ UNCHANGED <<relay, reading>> /\ UNCHANGED socketVars
        /\ UNCHANGED <<switches, changes, relayTraps>>
    BY <1>14, Zenon DEF PollTemp
  <2>7. BeliefOK'
    BY <1>3, <2>3, <2>6, Zenon DEF BeliefOK
  <2> QED BY <1>6, <1>7, <2>5, <2>6, <2>7
<1>15. CASE TempTrap
  <2>1. Cool(reading) \in BOOLEAN
    BY DEF Cool
  <2>2. SocketOK'
    BY <1>8, <1>15, Zenon DEF TempTrap
  <2>3. /\ cooled' \in BOOLEAN /\ UNCHANGED believed
        /\ UNCHANGED <<relay, reading>> /\ UNCHANGED <<switches, changes, relayTraps>>
        /\ pc' = "sleep" /\ UNCHANGED <<haveRelay, lastRelay, haveTemp, over, relayOn>>
    BY <1>15, <2>1, Zenon DEF TempTrap
  <2>4. MonitorOK'
    BY <1>3, <2>3, Zenon DEF MonitorOK
  <2>5. BeliefOK'
    BY <1>3, <2>3, Zenon DEF BeliefOK
  <2> QED BY <1>6, <1>7, <2>2, <2>3, <2>4, <2>5
<1>16. CASE Wake
  <2>1. /\ pc' = "relay" /\ UNCHANGED <<haveRelay, lastRelay, haveTemp, over, relayOn>>
        /\ UNCHANGED <<relay, reading>> /\ UNCHANGED <<switches, changes, relayTraps>>
        /\ UNCHANGED <<believed, cooled>> /\ UNCHANGED socketVars
    BY <1>16, Zenon DEF Wake, historyVars
  <2>2. MonitorOK'
    BY <1>3, <2>1, Zenon DEF MonitorOK
  <2> QED BY <1>6, <1>7, <2>1, <2>2
<1>17. CASE UNCHANGED vars
  <2>1. /\ UNCHANGED <<relay, reading>> /\ UNCHANGED <<monitorVars, socketVars>>
        /\ UNCHANGED <<switches, changes, relayTraps>> /\ UNCHANGED <<believed, cooled>>
    BY <1>17, Zenon DEF vars, historyVars
  <2> QED BY <1>6, <1>7, <2>1
<1> QED
  BY <1>9, <1>10, <1>11, <1>12, <1>13, <1>14, <1>15, <1>16, <1>17, Zenon DEF Next, Monitor

\* The monitor keeps its types; in particular it never sends more relay traps
\* than the relay was switched, so their count needs no bound of its own.
THEOREM TypeCorrect == Spec => []TypeOK
<1>1. Init => CountInv
  <2> SUFFICES ASSUME Init PROVE CountInv
    OBVIOUS
  <2>1. 0 \in 0 .. MaxSwitches /\ 0 <= 0
    BY TrapAssumption DEF TrapAssumption
  <2>2. TypeOK
    BY <2>1, Zenon DEF Init, TypeOK
  <2>3. RelayInv
    BY Zenon DEF Init, RelayInv, RelayTrapsMatchChanges
  <2>4. changes = 0 /\ switches = 0 /\ relayTraps = 0
    BY Zenon DEF Init
  <2> QED BY <2>1, <2>2, <2>3, <2>4, Zenon DEF CountInv
<1>2. CountInv => TypeOK
  BY Zenon DEF CountInv
<1> QED BY <1>1, <1>2, CountStep, PTL DEF Spec
=============================================================================
