-------------------------- MODULE SensorCacheProofs --------------------------
(***************************************************************************)
(* Proof that the sensor cache implements an atomic register, for any set  *)
(* of readers and any behaviour of the sensor.                             *)
(***************************************************************************)
EXTENDS SensorCache, TLAPS

LEMMA Sixteenths ==
  ASSUME NEW n \in Nat
  PROVE  n \div 16 \in Nat /\ (n \div 16) * 16 <= n
  BY SMT

\* What a DS18B20 reports for its whole range, and a bus without one.
RawRange == -880 .. 2000

\* What a conversion yields is a temperature the variables can hold, for all
\* the readings of the sensor and for a bus without one.
LEMMA ConversionInRange ==
  ASSUME NEW raw \in RawRange
  PROVE  Decidegrees(raw) \in Readings
<1> USE DEF RawRange
<1>1. CASE raw < 0
  <2> DEFINE q == (-raw * 10) \div 16
  <2>1. -raw * 10 \in Nat /\ -raw * 10 <= 8800
    BY <1>1
  <2>2. q \in Nat /\ q * 16 <= -raw * 10
    BY <2>1, Sixteenths
  <2>3. Decidegrees(raw) = -q
    BY <1>1 DEF Decidegrees
  <2> HIDE DEF q
  <2>4. q \in Nat /\ q <= 550
    BY <2>1, <2>2
  <2> QED BY <2>3, <2>4, SMT DEF Readings
<1>2. CASE ~(raw < 0)
  <2> DEFINE q == (raw * 10) \div 16
  <2>1. raw * 10 \in Nat /\ raw * 10 <= 20000
    BY <1>2
  <2>2. q \in Nat /\ q * 16 <= raw * 10
    BY <2>1, Sixteenths
  <2>3. Decidegrees(raw) = q
    BY <1>2 DEF Decidegrees
  <2> HIDE DEF q
  <2>4. q \in Nat /\ q <= 1250
    BY <2>1, <2>2
  <2> QED BY <2>3, <2>4, SMT DEF Readings
<1> QED BY <1>1, <1>2

-----------------------------------------------------------------------------
\* A reader about to copy the reading has seen the flag, which is never
\* cleared.
FlagSeen == \A r \in Readers : reading[r] = "copy" => have

Inv == TypeOK /\ FlagSeen

LEMMA TypeStep == TypeOK /\ [Next]_vars => TypeOK'
<1> SUFFICES ASSUME TypeOK, [Next]_vars PROVE TypeOK'
  OBVIOUS
<1> USE SensorAssumption
<1>1. CASE BusChanges
  BY <1>1 DEF TypeOK, BusChanges, pollVars, readVars
<1>2. CASE StartConversion
  BY <1>2 DEF TypeOK, StartConversion, Reset, Poll, readVars
<1>3. CASE EndConversion
  BY <1>3 DEF TypeOK, EndConversion, Reset, Poll, readVars
<1>4. CASE ReadScratchpad
  <2>1. Scratchpad \in RawRange
    BY DEF TypeOK, Scratchpad, RawRange
  <2>2. decidegrees' \in Readings
    BY <1>4, <2>1, ConversionInRange DEF ReadScratchpad
  <2>3. UNCHANGED <<init, bus, lock, last, have, reading, got>>
    BY <1>4 DEF ReadScratchpad, readVars
  <2>4. polling' = "take"
    BY <1>4 DEF ReadScratchpad, Poll
  <2> QED BY <2>2, <2>3, <2>4 DEF TypeOK
<1>5. CASE PollTake
  BY <1>5 DEF TypeOK, PollTake, Poll, readVars
<1>6. CASE PollLocked
  <2>1. CASE Store
    BY <2>1 DEF TypeOK, Store, Poll, readVars
  <2>2. CASE SetFlag
    BY <2>2 DEF TypeOK, SetFlag, Poll, readVars
  <2>3. CASE PollGive
    BY <2>3 DEF TypeOK, PollGive, Poll, readVars
  <2> QED BY <1>6, <2>1, <2>2, <2>3 DEF PollLocked
<1>7. ASSUME NEW r \in Readers, Begin(r) PROVE TypeOK'
  BY <1>7 DEF TypeOK, Begin, Read, pollVars
<1>8. ASSUME NEW r \in Readers, Take(r) PROVE TypeOK'
  BY <1>8 DEF TypeOK, Take, Read, pollVars
<1>9. ASSUME NEW r \in Readers, ReaderStep(r) PROVE TypeOK'
  <2>1. CASE Check(r)
    BY <2>1 DEF TypeOK, Check, Read, pollVars
  <2>2. CASE Copy(r)
    BY <2>2 DEF TypeOK, Copy, Read, pollVars
  <2>3. CASE Give(r)
    BY <2>3 DEF TypeOK, Give, Read, pollVars
  <2> QED BY <1>9, <2>1, <2>2, <2>3 DEF ReaderStep
<1>10. CASE UNCHANGED vars
  BY <1>10 DEF TypeOK, vars, pollVars, readVars
<1> QED BY <1>1, <1>2, <1>3, <1>4, <1>5, <1>6, <1>7, <1>8, <1>9, <1>10 DEF Next

LEMMA FlagStep == Inv /\ [Next]_vars => FlagSeen'
<1> SUFFICES ASSUME Inv, [Next]_vars PROVE FlagSeen'
  OBVIOUS
<1>1. have => have'
  BY DEF Inv, TypeOK, Next, BusChanges, StartConversion, EndConversion, Reset, ReadScratchpad,
         PollTake, PollLocked, Store, SetFlag, PollGive, Begin, Take, ReaderStep, Check,
         Copy, Give, vars
<1>2. UNCHANGED reading \/ \E r \in Readers : Begin(r) \/ Take(r) \/ ReaderStep(r)
  BY DEF Next, BusChanges, StartConversion, EndConversion, Reset, ReadScratchpad, PollTake,
         PollLocked, Store, SetFlag, PollGive, vars, readVars
<1>3. CASE UNCHANGED reading
  BY <1>1, <1>3 DEF Inv, FlagSeen
<1>4. ASSUME NEW r \in Readers, Begin(r) \/ Take(r) \/ Copy(r) \/ Give(r) PROVE FlagSeen'
  BY <1>1, <1>4 DEF Inv, TypeOK, FlagSeen, Begin, Take, Copy, Give, Read
<1>5. ASSUME NEW r \in Readers, Check(r) PROVE FlagSeen'
  BY <1>1, <1>5 DEF Inv, TypeOK, FlagSeen, Check, Read
<1> QED BY <1>2, <1>3, <1>4, <1>5 DEF ReaderStep

LEMMA InvHolds == Spec => []Inv
<1>1. Init => Inv
  <2>1. SUFFICES ASSUME Init PROVE Inv
    OBVIOUS
  <2>2. init \in Outcomes
    BY <2>1, SensorAssumption DEF Init, SensorAssumption
  <2>3. decidegrees \in Readings /\ last \in Readings
    BY <2>1 DEF Init, Readings
  <2>4. have \in BOOLEAN
    BY <2>1, Zenon DEF Init
  <2>5. /\ reading = [r \in Readers |-> "idle"]
        /\ got \in [Readers -> Readings \cup {NoReading}]
    BY <2>1 DEF Init
  <2>6. polling = "reset" /\ lock = "none" /\ bus \in Raws \cup {NoReading}
    BY <2>1 DEF Init
  <2> QED BY <2>2, <2>3, <2>4, <2>5, <2>6 DEF Inv, TypeOK, FlagSeen
<1>2. Inv /\ [Next]_vars => Inv'
  BY TypeStep, FlagStep DEF Inv
<1> QED BY <1>1, <1>2, PTL DEF Spec

\* Every variable of the cache has the values its type in sensor_ds18b20.c
\* and the state of the tasks allow; what is cached is a temperature within
\* the range of the sensor.
THEOREM TypeCorrect == Spec => []TypeOK
<1> QED BY InvHolds, PTL DEF Inv

-----------------------------------------------------------------------------
\* Every step of the tasks and of the sensor is a step of the register or
\* none: the value becomes visible when it is stored, the very first one when
\* the flag is set, and a read takes effect as it copies the value or finds
\* the flag unset.
LEMMA RegisterStep ==
  Inv /\ [Next]_vars => [Register!Next]_<<Cached, Calls, got>>
<1> SUFFICES ASSUME Inv, [Next]_vars
             PROVE  [Register!Next]_<<Cached, Calls, got>>
  OBVIOUS
<1>1. CASE UNCHANGED <<last, have, reading, got>>
  BY <1>1 DEF Cached, Calls
<1>2. CASE Store
  BY <1>2 DEF Cached, Calls, Inv, TypeOK, Store, readVars, Register!Next, Register!Write
<1>3. CASE SetFlag
  BY <1>3 DEF Cached, Calls, Inv, TypeOK, SetFlag, readVars, Register!Next, Register!Write
<1>4. ASSUME NEW r \in Readers, Begin(r)
      PROVE  Register!Begin(r)
  BY <1>4 DEF Cached, Calls, Inv, TypeOK, Begin, Read, Register!Begin
<1>5. ASSUME NEW r \in Readers, Take(r)
      PROVE  UNCHANGED <<Cached, Calls, got>>
  BY <1>5 DEF Cached, Calls, Inv, TypeOK, Take, Read
<1>6. ASSUME NEW r \in Readers, Check(r), have
      PROVE  UNCHANGED <<Cached, Calls, got>>
  BY <1>6 DEF Cached, Calls, Inv, TypeOK, Check, Read
<1>7. ASSUME NEW r \in Readers, Check(r), ~have
      PROVE  Register!Sample(r)
  BY <1>7 DEF Cached, Calls, Inv, TypeOK, Check, Read, Register!Sample
<1>8. ASSUME NEW r \in Readers, Copy(r)
      PROVE  Register!Sample(r)
  BY <1>8 DEF Cached, Calls, Inv, TypeOK, FlagSeen, Copy, Read, Register!Sample
<1>9. ASSUME NEW r \in Readers, Give(r)
      PROVE  Register!End(r)
  BY <1>9 DEF Cached, Calls, Inv, TypeOK, Give, Read, Register!End
<1>10. \/ UNCHANGED <<last, have, reading, got>>
       \/ Store \/ SetFlag
       \/ \E r \in Readers : Begin(r) \/ Take(r) \/ Check(r) \/ Copy(r) \/ Give(r)
  BY DEF Next, BusChanges, StartConversion, EndConversion, Reset, ReadScratchpad, PollTake,
         PollLocked, PollGive, ReaderStep, vars, readVars
<1> QED BY <1>1, <1>2, <1>3, <1>4, <1>5, <1>6, <1>7, <1>8, <1>9, <1>10 DEF Register!Next

\* Whatever the sensor does and however the readers and the poll task
\* interleave, sensor_read_temperature_decidegrees is an atomic read of the
\* latest reading, and never fails again once there was one.
THEOREM CacheIsRegister == Spec => IsRegister
<1>1. Init => Register!Init
  BY DEF Cached, Calls, Init, Register!Init
<1> QED BY <1>1, InvHolds, RegisterStep, PTL DEF Spec, IsRegister, Register!Spec
=============================================================================
