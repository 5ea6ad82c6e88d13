---------------------------- MODULE SensorCache -----------------------------
(***************************************************************************)
(* sensor_ds18b20.c: a task polls the 1-Wire sensor and caches its reading *)
(* under a mutex, which the UDP task and the trap monitor take to read it. *)
(* The sensor may come and go at any time, also in mid-conversion.         *)
(***************************************************************************)
EXTENDS Integers

CONSTANTS
  Readers,       \* the tasks that call sensor_read_temperature_decidegrees
  Raws,          \* 12-bit readings the sensor may hold, in 1/16 degrees
  InitOutcomes,  \* how sensor_init may have ended
  NoReading      \* result -1

Outcomes == {"ok", "noLock", "noTask"}

\* The range of the DS18B20 is -55 to +125 degrees.
ASSUME SensorAssumption ==
  /\ Raws \subseteq -880 .. 2000
  /\ InitOutcomes \subseteq Outcomes
  /\ NoReading \notin Int
  /\ "poll" \notin Readers /\ "none" \notin Readers

VARIABLES
  init,          \* what sensor_init returned: no mutex, no poll task, or 0
  bus,           \* the sensor on the bus and its reading, or NoReading
  lock,          \* holder of s_lock
  polling,       \* where poll_task is
  decidegrees,   \* its local
  last,          \* s_last_decidegrees
  have,          \* s_have_reading
  reading,       \* where each reader is
  got            \* result of each reader's last call

pollVars == <<polling, decidegrees>>
readVars == <<reading, got>>
vars == <<init, bus, lock, pollVars, last, have, readVars>>

\* Mutant: sixteenths of a degree are taken for tenths.
DecidegreesUnscaled(raw) == raw

\* C's division: (raw * 10) / 16 rounds towards zero.
Decidegrees(raw) == IF raw < 0 THEN -((-raw * 10) \div 16) ELSE (raw * 10) \div 16

\* Without a sensor the pulled-up bus reads as ones: 0xFFFF is raw -1.
Scratchpad == IF bus = NoReading THEN -1 ELSE bus

Readings == -550 .. 1250

TypeOK ==
  /\ init \in Outcomes
  /\ bus \in Raws \cup {NoReading}
  /\ lock \in Readers \cup {"poll", "none"}
  /\ polling \in {"reset", "convert", "read", "take", "store", "flag", "give"}
  /\ decidegrees \in Readings
  /\ last \in Readings
  /\ have \in BOOLEAN
  /\ reading \in [Readers -> {"idle", "take", "check", "copy", "give", "crashed"}]
  /\ got \in [Readers -> Readings \cup {NoReading}]

Init ==
  /\ init \in InitOutcomes
  /\ bus \in Raws \cup {NoReading}
  /\ lock = "none"
  /\ polling = "reset"
  /\ decidegrees = 0
  /\ last = 0
  /\ have = FALSE
  /\ reading = [r \in Readers |-> "idle"]
  /\ got = [r \in Readers |-> NoReading]

-----------------------------------------------------------------------------
BusChanges ==
  /\ bus' \in (Raws \cup {NoReading}) \ {bus}
  /\ UNCHANGED <<init, lock, pollVars, last, have, readVars>>

\* poll_task.
Poll(from, to) == init = "ok" /\ polling = from /\ polling' = to

\* ow_reset, before the conversion and after it: no presence pulse ends the
\* round, and the task sleeps until the next one.
Reset(from, to) ==
  /\ \/ bus # NoReading /\ Poll(from, to)
     \/ bus = NoReading /\ Poll(from, "reset")
  /\ UNCHANGED <<init, bus, lock, decidegrees, last, have, readVars>>

StartConversion == Reset("reset", "convert")
EndConversion == Reset("convert", "read")

ReadScratchpad ==
  /\ Poll("read", "take")
  /\ decidegrees' = Decidegrees(Scratchpad)
  /\ UNCHANGED <<init, bus, lock, last, have, readVars>>

PollTake ==
  /\ Poll("take", "store")
  /\ lock = "none"
  /\ lock' = "poll"
  /\ UNCHANGED <<init, bus, decidegrees, last, have, readVars>>

Store ==
  /\ Poll("store", "flag")
  /\ last' = decidegrees
  /\ UNCHANGED <<init, bus, lock, decidegrees, have, readVars>>

SetFlag ==
  /\ Poll("flag", "give")
  /\ have' = TRUE
  /\ UNCHANGED <<init, bus, lock, decidegrees, last, readVars>>

\* Mutant: the mutex is never given back.
PollGiveNever ==
  /\ Poll("give", "reset")
  /\ UNCHANGED <<init, bus, lock, decidegrees, last, have, readVars>>

PollGive ==
  /\ Poll("give", "reset")
  /\ lock' = "none"
  /\ UNCHANGED <<init, bus, decidegrees, last, have, readVars>>

-----------------------------------------------------------------------------
\* sensor_read_temperature_decidegrees.
Read(r, from, to) == reading[r] = from /\ reading' = [reading EXCEPT ![r] = to]

Begin(r) ==
  /\ Read(r, "idle", "take")
  /\ UNCHANGED <<init, bus, lock, pollVars, last, have, got>>

\* Mutant: a reader that finds the mutex taken gives up.
TakeWithoutWaiting(r) ==
  /\ \/ init = "noLock" /\ Read(r, "take", "crashed") /\ UNCHANGED <<lock, got>>
     \/ /\ init # "noLock" /\ lock = "none" /\ Read(r, "take", "check")
        /\ lock' = r /\ UNCHANGED got
     \/ /\ lock # "none" /\ Read(r, "take", "give")
        /\ got' = [got EXCEPT ![r] = NoReading] /\ UNCHANGED lock
  /\ UNCHANGED <<init, bus, pollVars, last, have>>

\* Taking a mutex that was never created is an assertion failure.
Take(r) ==
  /\ \/ init = "noLock" /\ Read(r, "take", "crashed") /\ UNCHANGED lock
     \/ init # "noLock" /\ lock = "none" /\ Read(r, "take", "check") /\ lock' = r
  /\ UNCHANGED <<init, bus, pollVars, last, have, got>>

Check(r) ==
  /\ \/ have /\ Read(r, "check", "copy") /\ UNCHANGED got
     \/ ~have /\ Read(r, "check", "give") /\ got' = [got EXCEPT ![r] = NoReading]
  /\ UNCHANGED <<init, bus, lock, pollVars, last, have>>

Copy(r) ==
  /\ Read(r, "copy", "give")
  /\ got' = [got EXCEPT ![r] = last]
  /\ UNCHANGED <<init, bus, lock, pollVars, last, have>>

Give(r) ==
  /\ Read(r, "give", "idle")
  /\ lock' = "none"
  /\ UNCHANGED <<init, bus, pollVars, last, have, got>>

PollLocked == Store \/ SetFlag \/ PollGive
ReaderStep(r) == Check(r) \/ Copy(r) \/ Give(r)

Next ==
  \/ BusChanges
  \/ StartConversion \/ EndConversion \/ ReadScratchpad \/ PollTake \/ PollLocked
  \/ \E r \in Readers : Begin(r) \/ Take(r) \/ ReaderStep(r)

\* A task that holds the mutex runs on (the mutex passes its waiters'
\* priority on to it), and a task that waits for it gets it some time.
\* Nothing is assumed of the sensor: a conversion may take for ever.
Spec ==
  /\ Init /\ [][Next]_vars
  /\ WF_vars(PollLocked)
  /\ \A r \in Readers : WF_vars(ReaderStep(r)) /\ SF_vars(Take(r))

-----------------------------------------------------------------------------
(***************************************************************************)
(* Properties.                                                             *)
(***************************************************************************)

\* What the cache holds, and how far each call is, as its callers see it.
Cached == IF have THEN last ELSE NoReading
Calls == [r \in Readers |-> IF reading[r] = "idle" THEN "idle"
                            ELSE IF reading[r] = "give" THEN "answered"
                            ELSE "called"]

Register == INSTANCE SensorRegister WITH register <- Cached, call <- Calls

\* The cache behaves as an atomic register: every read returns the reading
\* that was the latest at one instant of the call, and once there was one,
\* no read fails again (the mutex, and the order of value and flag).
IsRegister == Register!Spec

\* Where the mutex exists a read always returns, even while a conversion
\* never ends: the mutex is not held across the bus (docs/architecture.md,
\* "Non-blocking sensor reads").
ReadsReturn ==
  \A r \in Readers :
    init # "noLock" /\ reading[r] = "take" ~> reading[r] = "idle"

-----------------------------------------------------------------------------
(***************************************************************************)
(* What a comment of the repository says, which the run named in the       *)
(* README refutes.                                                         *)
(***************************************************************************)

\* app_main.c:46, after a failed sensor_init "wespeTemperature will report
\* genErr until it recovers".
FailedInitIsReported == \A r \in Readers : reading[r] # "crashed"
=============================================================================
