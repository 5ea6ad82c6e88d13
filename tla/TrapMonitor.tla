---------------------------- MODULE TrapMonitor -----------------------------
(***************************************************************************)
(* app_main's coldStart trap and the polling task of trap_monitor.c, next  *)
(* to the UDP task that switches the relay and a temperature that moves on *)
(* its own (an atomic register, as SensorCache shows).  Traps are single   *)
(* UDP datagrams, which may get lost on the way.                           *)
(***************************************************************************)
EXTENDS Integers

CONSTANTS
  Temperatures,  \* what the sensor may read, in tenths of a degree
  Threshold,     \* CONFIG_WESPE_TEMP_THRESHOLD_DECIDEGREES
  Hysteresis,    \* CONFIG_WESPE_TEMP_THRESHOLD_HYSTERESIS_DECIDEGREES
  NoReading,     \* no reading is cached yet
  MaxSwitches    \* bound: how often a manager switches the relay

ASSUME TrapAssumption ==
  /\ Temperatures \subseteq Int
  /\ Threshold \in Int
  /\ Hysteresis \in Nat
  /\ NoReading \notin Int
  /\ MaxSwitches \in Nat

VARIABLES
  relay,         \* s_relay_on
  reading,       \* the sensor's register
  pc,            \* app_main's call of send_trap, then the monitor task
  destValid,     \* s_trap_dest_valid: a trap destination is configured
  socketOpen,    \* s_trap_socket >= 0
  haveRelay, lastRelay,  \* have_relay_baseline, last_relay_on
  haveTemp, over,        \* have_temp_baseline, over_threshold
  relayOn,       \* the monitor's local: the state to report
  switches,      \* history: changes of the relay
  changes,       \* history: those since the monitor's baseline
  relayTraps,    \* history: relay traps sent or tried
  believed,      \* history: what the latest relay trap told its receiver
  cooled         \* history: the sensor has been below the hysteresis band
                 \* since the last threshold trap, or the baseline was below
                 \* the threshold

monitorVars == <<pc, haveRelay, lastRelay, haveTemp, over, relayOn>>
historyVars == <<switches, changes, relayTraps, believed, cooled>>
socketVars == <<destValid, socketOpen>>
vars == <<relay, reading, monitorVars, socketVars, historyVars>>

TypeOK ==
  /\ relay \in BOOLEAN
  /\ reading \in Temperatures \cup {NoReading}
  /\ pc \in {"boot", "relay", "relayTrap", "temp", "tempTrap", "sleep"}
  /\ destValid \in BOOLEAN /\ socketOpen \in BOOLEAN
  /\ haveRelay \in BOOLEAN /\ lastRelay \in BOOLEAN
  /\ haveTemp \in BOOLEAN /\ over \in BOOLEAN
  /\ relayOn \in BOOLEAN
  /\ switches \in 0 .. MaxSwitches
  /\ changes \in 0 .. MaxSwitches /\ relayTraps \in 0 .. MaxSwitches
  /\ believed \in {"nothing", "on", "off"}
  /\ cooled \in BOOLEAN

Hot(t) == t # NoReading /\ t >= Threshold
Cool(t) == t # NoReading /\ t < Threshold - Hysteresis

Init ==
  /\ relay = FALSE
  /\ reading \in Temperatures \cup {NoReading}
  /\ pc = "boot"
  /\ destValid \in BOOLEAN
  /\ socketOpen = FALSE
  /\ haveRelay = FALSE /\ lastRelay = FALSE
  /\ haveTemp = FALSE /\ over = FALSE
  /\ relayOn = FALSE
  /\ switches = 0
  /\ changes = 0
  /\ relayTraps = 0
  /\ believed = "nothing"
  /\ cooled = FALSE

-----------------------------------------------------------------------------
\* The UDP task runs before the coldStart trap is sent: set_relay_state.
SwitchRelay ==
  /\ switches < MaxSwitches
  /\ relay' = ~relay
  /\ switches' = switches + 1
  /\ changes' = IF haveRelay THEN changes + 1 ELSE changes
  /\ UNCHANGED <<reading, monitorVars, socketVars, relayTraps, believed, cooled>>

\* A cached reading is replaced, never withdrawn.
Temperature ==
  /\ reading' \in Temperatures \ {reading}
  /\ cooled' = (cooled \/ Cool(reading'))
  /\ UNCHANGED <<relay, monitorVars, socketVars, switches, changes, relayTraps, believed>>

\* snmp_transport_send_trap: without a destination nothing happens; the
\* socket is opened by the first trap that can; opening and sending may fail,
\* and the datagram may get lost.
SendTrap(delivered) ==
  /\ \/ ~destValid /\ ~delivered /\ UNCHANGED socketOpen
     \/ destValid /\ socketOpen' = TRUE
     \/ destValid /\ ~socketOpen /\ ~delivered /\ UNCHANGED socketOpen
  /\ UNCHANGED destValid

\* app_main: the trap, then trap_monitor_start.
ColdStart ==
  /\ pc = "boot"
  /\ \E delivered \in BOOLEAN : SendTrap(delivered)
  /\ pc' = "relay"
  /\ UNCHANGED <<relay, reading, haveRelay, lastRelay, haveTemp, over, relayOn, historyVars>>

PollRelay ==
  /\ pc = "relay"
  /\ \/ /\ ~haveRelay
        /\ haveRelay' = TRUE
        /\ lastRelay' = relay
        /\ pc' = "temp"
        /\ UNCHANGED relayOn
     \/ /\ haveRelay /\ relay # lastRelay
        /\ relayOn' = relay
        /\ pc' = "relayTrap"
        /\ UNCHANGED <<haveRelay, lastRelay>>
     \/ /\ haveRelay /\ relay = lastRelay
        /\ pc' = "temp"
        /\ UNCHANGED <<haveRelay, lastRelay, relayOn>>
  /\ UNCHANGED <<relay, reading, haveTemp, over, socketVars, historyVars>>

\* Mutant: the state is read again when the trap is out.
RelayTrapRereads ==
  /\ pc = "relayTrap"
  /\ \E delivered \in BOOLEAN :
       /\ SendTrap(delivered)
       /\ believed' = IF ~delivered THEN "nothing" ELSE IF relayOn THEN "on" ELSE "off"
  /\ lastRelay' = relay
  /\ relayTraps' = relayTraps + 1
  /\ pc' = "temp"
  /\ UNCHANGED <<relay, reading, haveRelay, haveTemp, over, relayOn, switches, changes,
                 cooled>>

\* Mutant: last_relay_on is not updated.
RelayTrapForgets ==
  /\ pc = "relayTrap"
  /\ \E delivered \in BOOLEAN :
       /\ SendTrap(delivered)
       /\ believed' = IF ~delivered THEN "nothing" ELSE IF relayOn THEN "on" ELSE "off"
  /\ relayTraps' = relayTraps + 1
  /\ pc' = "temp"
  /\ UNCHANGED <<relay, reading, haveRelay, lastRelay, haveTemp, over, relayOn, switches,
                 changes, cooled>>

\* The trap counts as sent whatever became of it.
RelayTrap ==
  /\ pc = "relayTrap"
  /\ \E delivered \in BOOLEAN :
       /\ SendTrap(delivered)
       /\ believed' = IF ~delivered THEN "nothing" ELSE IF relayOn THEN "on" ELSE "off"
  /\ lastRelay' = relayOn
  /\ relayTraps' = relayTraps + 1
  /\ pc' = "temp"
  /\ UNCHANGED <<relay, reading, haveRelay, haveTemp, over, relayOn, switches, changes,
                 cooled>>

\* Mutant: the alarm is armed again as soon as the threshold is left.
PollTempNoHysteresis ==
  /\ pc = "temp"
  /\ \/ /\ reading = NoReading
        /\ pc' = "sleep"
        /\ UNCHANGED <<haveTemp, over, cooled>>
     \/ /\ reading # NoReading /\ ~haveTemp
        /\ haveTemp' = TRUE
        /\ over' = Hot(reading)
        /\ cooled' = ~Hot(reading)
        /\ pc' = "sleep"
     \/ /\ reading # NoReading /\ haveTemp
        /\ over' = (Hot(reading))
        /\ pc' = IF ~over /\ Hot(reading) THEN "tempTrap" ELSE "sleep"
        /\ UNCHANGED <<haveTemp, cooled>>
  /\ UNCHANGED <<relay, reading, haveRelay, lastRelay, relayOn, socketVars, switches,
                 changes, relayTraps, believed>>

\* Mutant: the alarm is never armed again.
PollTempOnce ==
  /\ pc = "temp"
  /\ \/ /\ reading = NoReading
        /\ pc' = "sleep"
        /\ UNCHANGED <<haveTemp, over, cooled>>
     \/ /\ reading # NoReading /\ ~haveTemp
        /\ haveTemp' = TRUE
        /\ over' = Hot(reading)
        /\ cooled' = ~Hot(reading)
        /\ pc' = "sleep"
     \/ /\ reading # NoReading /\ haveTemp
        /\ over' = (over \/ Hot(reading))
        /\ pc' = IF ~over /\ Hot(reading) THEN "tempTrap" ELSE "sleep"
        /\ UNCHANGED <<haveTemp, cooled>>
  /\ UNCHANGED <<relay, reading, haveRelay, lastRelay, relayOn, socketVars, switches,
                 changes, relayTraps, believed>>

\* Over the threshold the alarm goes off, below the band it is armed again.
PollTemp ==
  /\ pc = "temp"
  /\ \/ /\ reading = NoReading
        /\ pc' = "sleep"
        /\ UNCHANGED <<haveTemp, over, cooled>>
     \/ /\ reading # NoReading /\ ~haveTemp
        /\ haveTemp' = TRUE
        /\ over' = Hot(reading)
        /\ cooled' = ~Hot(reading)
        /\ pc' = "sleep"
     \/ /\ reading # NoReading /\ haveTemp
        /\ over' = (IF over THEN ~Cool(reading) ELSE Hot(reading))
        /\ pc' = IF ~over /\ Hot(reading) THEN "tempTrap" ELSE "sleep"
        /\ UNCHANGED <<haveTemp, cooled>>
  /\ UNCHANGED <<relay, reading, haveRelay, lastRelay, relayOn, socketVars, switches,
                 changes, relayTraps, believed>>

TempTrap ==
  /\ pc = "tempTrap"
  /\ \E delivered \in BOOLEAN : SendTrap(delivered)
  /\ cooled' = Cool(reading)
  /\ pc' = "sleep"
  /\ UNCHANGED <<relay, reading, haveRelay, lastRelay, haveTemp, over, relayOn, switches,
                 changes, relayTraps, believed>>

\* vTaskDelay(POLL_INTERVAL_MS)
Wake ==
  /\ pc = "sleep"
  /\ pc' = "relay"
  /\ UNCHANGED <<relay, reading, haveRelay, lastRelay, haveTemp, over, relayOn, socketVars,
                 historyVars>>

Monitor == ColdStart \/ PollRelay \/ RelayTrap \/ PollTemp \/ TempTrap \/ Wake

Next == SwitchRelay \/ Temperature \/ Monitor

\* The monitor task runs again after every delay.
Spec == Init /\ [][Next]_vars /\ WF_vars(Monitor)

-----------------------------------------------------------------------------
(***************************************************************************)
(* Properties.                                                             *)
(***************************************************************************)

\* A threshold trap is only sent if the temperature has been below the
\* hysteresis band since the one before, however it moves between polls
\* (trap_monitor.h: a reading dithering at the boundary spams nobody).
TrapsNeedCooling == pc = "tempTrap" => cooled

\* However the relay is switched between the polls and while a trap is being
\* sent, every relay trap stands for changes of its own: there are no more
\* traps than changes, and they differ by an odd number exactly while the
\* monitor has a change to report (trap_monitor.c last_relay_on).
RelayTrapsMatchChanges ==
  haveRelay =>
    /\ relayTraps <= changes
    /\ (changes - relayTraps) % 2 = IF relay = lastRelay THEN 0 ELSE 1

\* Once the relay is left alone -- after MaxSwitches changes at the latest --
\* the receiver's last word on it is right, unless that very trap got lost;
\* a failed or lost trap before it does no lasting harm.
ReceiverLearnsRelay ==
  <>[](believed = "nothing" \/ believed = IF relay THEN "on" ELSE "off")

\* A temperature that stays over the threshold while the alarm is armed is
\* reported, and one that stays below the band arms it again.
AlarmFollowsTemperature ==
  /\ haveTemp /\ ~over /\ Hot(reading) ~> pc = "tempTrap" \/ ~Hot(reading)
  /\ haveTemp /\ over /\ Cool(reading) ~> ~over \/ ~Cool(reading)
=============================================================================
