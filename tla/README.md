# A TLA+ model of the Wespe SNMP agent

Wespe is an SNMP v1/v2c agent for the ESP32-S3: a UDP responder over a small
MIB (system group, one WiFi interface, a relay, temperature sensors), with
traps. This directory holds TLA+ modules translated from `src/firmware/`, TLC
runs that check them on small instances, and proofs about them for TLAPS.

Run a check with `tlc -config agent.cfg MCSnmpAgent.tla` (each run of
`PROJECT.json` names its module and its cfg), a proof with
`tlapm SnmpAgentProofs.tla`.

## Inventory

Four tasks run on the device: the UDP task (every request, from `recvfrom` to
`sendto`), the trap monitor (polls relay and temperature every 2 s), the
DS18B20 poll task (samples every 5 s), and the event loop of ESP-IDF (WiFi).
`app_main` starts them and ends.

| component (under `src/firmware/`) | state | operations | hard about it | what makes it right |
|---|---|---|---|---|
| `mib/mib_registry.c` | arrays of scalars and tables | resolve, resolve_next, get, set | binary searches, scans of a row set that changes between two callbacks | an answer was true at one instant of the call |
| `mib/mib_*.c` | three strings, labels, read counters | getters, setters, row callbacks | rows vanish between lookup and getter, getters with side effects | counters and labels follow what was served |
| `snmp_core/snmp_pdu_get.c` | the one static context | GET, GETNEXT | v1 runs every lookup twice; Counter64 is hidden from v1 | answers are true, errors echo the request |
| `snmp_core/snmp_pdu_set.c` | same | SET | validation and commit are two passes over a MIB that moves | writes and the error index agree |
| `snmp_core/snmp_pdu_getbulk.c` | same, cursors, `exhausted[]` | GETBULK | responses overwrite the request while cursors walk; caps | complete rounds, no row skipped |
| `snmp_core/snmp_message.c`, `snmp_dispatch.c` | context | process a datagram | dropped after side effects when the response is too long | every request concludes |
| `snmp_core/snmp_error.c` | none | result code to status or exception | v1 and v2c differ | used by all of the above |
| `snmp_core/snmp_security*.c` | table of models, communities | register, classify a request, wrap a response | capacity, communities cut to their buffers | unanswerable requests are dropped |
| `snmp_core/snmp_codec.c`, `ber/` | none | encode, decode | integer widths, lengths, arcs, fixed arrays | a legal request is understood as meant, a response is its one shortest encoding |
| `snmp_core/snmp_pdu_trap.c` | none | build a trap | the size of its locals | says what it is given |
| `transport/snmp_udp.c` | sockets, trap destination | request loop, send a trap | sockets that fail, a task that deletes itself | errors do not stop the loop |
| `device_hal/sensor_ds18b20.c` | cached reading and flag, mutex | poll, read | two variables, three tasks, a slow bus, partial initialisation | readers see an atomic register |
| `device_hal/sensor_mock.c`, `relay_*.c` | relay state | sensor count, relay | rows that come and go | none of their own |
| `device_hal/sysinfo_esp32.c` | last state and time of the link | ifLastChange, RSSI | state compared on reads only | a reported change happened |
| `main/trap_monitor.c` | baselines, alarm | poll, trap | changes between polls, hysteresis | one trap per reported change |
| `main/wifi_provisioning.c` | retry count, event group | event handler, wait | retries, both bits set, permanent silence | boot concludes rightly |
| `main/app_main.c` | none | boot | unchecked results, requests during the boot, fixed stacks | a request meets the complete agent |
| `tools/dev_agent`, `host_tests`, `tools/*.py` | | | | not part of the device |

The UDP task calls the message layer, which calls the registry, which calls
the getters and setters; these read the sensor cache under its mutex and
switch the relay. The monitor shares the cache and the relay with it, and
nothing guards the relay. `PROJECT.json` lists every component with its
status, and every hazard with its line and the properties about it.

## Modules

| module | models | state and actions |
|---|---|---|
| `MibOid` | `mib_oid_compare` | operators; the order all the lookups rest on |
| `MibView` | what `mib_registry.h` promises | `Resolve`, `ResolveNext` over the instances that exist for a number of sensor rows |
| `MibRegistry` | `mib_registry.c` | one step per iteration of a loop and per call of `first_index`/`next_index`: `NarrowExact`, `NarrowNext`, `NextModule`, `SkipTable`, `FindRow`, `ScanColumn`, `NextTable`; `RowsChange` in between |
| `SnmpError` | `snmp_error.c` | `Translate` |
| `WespeMib` | `mib_*.c` and the mock's row pattern | `field` (strings, relay), `label`, `readCount`, `phase`; `CallGetter`, `CallSetter`, and what the device does by itself |
| `SnmpPdu` | the decoded PDU | varbinds and their encoded length |
| `SnmpAgent` | `snmp_message.c`, `snmp_dispatch.c`, `snmp_pdu_get.c`, `snmp_pdu_set.c` | `Receive`, `Drop`, `Dispatch`, then for each varbind of a pass `ReadLookup`/`ReadCall`, `Validate`, or `CommitLookup`/`CommitCall`; `PassEnds`, `Reply` |
| `SetService` | the all-or-nothing service SET is documented as | `Submit`, `Succeed`, `Refuse`; implemented by `SnmpAgent` (`ActsAtomically`) |
| `GetBulk` | `snmp_pdu_getbulk.c` | `FirstLookup`/`FirstCall` for non-repeaters, `StartRounds`, `RoundLookup`/`RoundCall`, `Reply`; `vbs` is both request and response |
| `SensorCache` | `sensor_ds18b20.c` | `polling`, `lock`, `last`, `have`, one `reading[r]` per task; a step for each access of a shared variable |
| `SensorRegister` | the register readers are meant to see | implemented by `SensorCache` (`IsRegister`) |
| `TrapMonitor` | `trap_monitor.c`, coldStart, trap socket | `PollRelay`, `RelayTrap`, `PollTemp`, `TempTrap`, `Wake`; `SwitchRelay` and `Temperature` at any time |
| `WifiProvisioning` | `wifi_provisioning.c`, the wait in `app_main` | one action per event; the driver is external |
| `LinkStatus` | `ifLastChange` of `sysinfo_esp32.c` on top of the former | `ReadLastChange` inside a request |
| `Boot` | `app_main.c` after the wait, the three arrays of registrations, the start of the tasks, their stacks | `call` is the next call of `app_main`; one action per kind of call, `Bind`, `Serve`, `MonitorTrap`, `Panic`, next to the station of `LinkStatus` |
| `BerCodec` | `ber_encode.c`, `ber_decode.c` | operators on octets; a number is its octets, most significant first, so that 32 and 64 bits are exact |
| `SnmpCodec` | `snmp_codec.c`, `snmp_security_community.c`, `snmp_pdu_trap.c` | encoders and decoders of values, varbinds, PDUs, the community envelope and both forms of a trap |
| `WireFormat` | the encoding rules themselves, in their shortest and two longer legal forms | the reference for the two former; external |
| `SnmpWire` | one datagram from `recvfrom` to `sendto`, one call of `snmp_trap_build` | `Receive` (whole, cut or with one octet changed), `Echo` and `Answer` for the handlers, `Reply`, `Trap`, `Continue` |
| `MC...` | | values of the constants |
| `...Proofs` | | theorems |

What composes what: `SnmpAgent` and `GetBulk` extend `SnmpPdu`, `WespeMib` and
`MibView`. A lookup is one step there, because `MibRegistry` shows (and
`ExactLookup` and `NextLookup` prove) that its answer was true at one
instant of the call; lookup and getter are two steps, because the row may go
in between. `TrapMonitor` reads the temperature in one step because
`CacheIsRegister` proves the cache atomic. A request and GETBULK are separate
machines because there is one UDP task: requests do not overlap. `SnmpWire` is
the same request seen as octets: what the handlers do between decoding and
encoding is any echo or any of a few answers there, and the octets are only a
number of them in `SnmpAgent`. `Boot` extends `LinkStatus`, which extends
`WifiProvisioning`: the tasks run while `app_main` still registers.

`rowsSeen` in the request machines collects the row counts since the request
arrived. Properties say "true at some instant of the request" with it.

Abstractions: an OCTET STRING is its length, and reads back as it was set: the
fields and labels are C strings in the code, read back with `strlen`
(`mib_ii.c:66-89`, `mib_sensor_table.c:48,94`), so the values here are those
without a NUL octet, which would cut them; a 1.3.6.1 prefix is left out of
the OIDs; getters that return a constant or a clock return one fixed value;
the octets of a message count only through their number (one for each arc,
four for a number, the length of a string) except in `SnmpWire`, which has
them all; `OutCap` stands for the 1472 of the packet buffer and is chosen so
that some responses do not fit. Community strings are an access mode that comes
with the request, again except in `SnmpWire`. A stack is what the largest local
arrays of a task take of it: frames of the compiler and the libraries come on
top, so a task that overruns here overruns on the device.

## Runs

Device steps (rows, first reading, association) interleave with every handler
step in all the agent runs; rows follow the mock's volatile pattern 1, 2, 3, 2.

| run | bounds | shows |
|---|---|---|
| `agent` | 1 request: every GET/GETNEXT with up to 2 of 7 targets, both versions; every SET with up to 2 of 8 varbinds (legal, bad type, bad value, read-only, unknown, a row that comes and goes); 4 undeliverable requests; `OutCap` 60, which the longest SET just fills | v1 errors and SETs echo the request; v2c answers were true of the MIB at an instant of the request; v1 sees no Counter64 but one it sent itself; reads are counted (for requests that carry no values of their own, which an error response would repeat); the error index names the first bad varbind; status and index tell exactly which prefix was written; nothing is written before all was validated; a SET that is acted upon is answered |
| `agent_atomic` | 2 requests, rows fixed at 1 as with the DS18B20, legal and refused SETs mixed with reads, one of which is dropped after a long string was set | the agent implements `SetService`; every request concludes |
| `registry` | 2 interleaved modules of 3 and 4 scalars, 2 tables, 1 to 3 rows, 30 targets on, between and outside all instances | both searches and both scans are exact; they end |
| `bulk` | 1 request: up to 3 varbinds, non-repeaters -1, 0, 1, 4, repetitions -1, 3, 9; 6 varbinds and 2 cursors stand for 50 and 16; `OutCap` 70, so that some responses do not fit | walks skip nothing, rounds are complete, at most one read is counted but not delivered, every GETBULK concludes |
| `sensor` | 2 readers, a reading below zero (rounding) and the highest one, all outcomes of `sensor_init` | the cache implements `SensorRegister`; where there is a mutex every read returns |
| `trap` | a temperature on either side of both comparisons (294, 295, 299, 300 at threshold 300, hysteresis 5), 3 relay switches, with and without a destination, failing sockets, lost datagrams | one threshold trap per cooling; relay traps and changes agree; the receiver ends up right unless the last trap was lost; the alarm follows |
| `boot` | the code's 10 retries, capacities of 4, 224 octets per varbind and stacks of 4096, 8192 and 4096; 3 ticks of uptime | boot concludes, and with the right outcome; the station gives up only with its retries used up; a time of change is reported only for a change; a request meets the complete agent |
| `codec` | messages with every number, arc, length and count at the boundary of its width or its array, in 3 legal forms; 8 of them also cut at every octet and with every octet changed to 10 values; the traps the device sends and others at the limits | a request is understood exactly as meant, and nothing else is; nothing decoded exceeds its array; a response is the one shortest encoding and never outgrows the request it echoes; a trap says what was asked, and those of the firmware fit the buffers of `app_main` and the monitor |

The bounds are enough because the handlers keep no state between requests but
the store and the counters (`agent_atomic` has two requests, to show what one
leaves to the next), treat varbinds one at a time (two show "before" and
"after" the failing one, the third in a GETBULK a repeater too many), and the
tables differ only in whether their rows change. Three rows allow a row
before, at and after the one that goes. `MaxRequests`, `MaxSwitches` and
`MaxClock` are the only bounds on counters the code does not have; the
association may change any number of times within a tick. In `codec` a PDU
holds 4 varbinds and a packet 260 octets instead of 50 and 1472, so that both
limits are met and lengths still need one, two and three octets; 128 octets per
string, 21 arcs and 31 octets of a community are the real limits. `boot` has
the real values throughout. `CHECK_DEADLOCK FALSE` stands in the runs that stop
at `MaxRequests`, and in `boot`, where the device really halts when it cannot
connect.

Four more runs each refute a sentence of the repository by what the code
does; `PROJECT.json` quotes them under "findings".

| run | what happens |
|---|---|
| `v1_second_pass` | a v1 read whose second pass fails is answered with noError and a NULL |
| `set_partial` | a SET that fails in its second pass stays half done |
| `trap_stack` | building a trap puts 50 varbinds of 224 octets on a stack of 4096 |
| `sensor_init_fails` | a failed `sensor_init` leads to a NULL mutex, not to genErr |

Further places where code and text differ, seen while modelling and contained
in the models as the code has them, but without a run of their own (paths
under `src/`):

| code | text |
|---|---|
| a label outlives its row, and names whichever sensor comes to have its index (`mib_sensor_table.c:45`) | `firmware/components/mib/mib_sensor_table.c:17-20`, `mibs/WESPE-MIB.txt:172-174` |
| an OID whose first octet is 120 or more decodes to a first arc of 3 or more, which cannot be encoded: the response is dropped (`ber_decode.c:209`) | `ber_decode.c:205-207` "arc0 is always 0-2" |
| `snmp_transport_start` returns before its task binds; if that fails the device reports itself ready and is deaf (`snmp_udp.c:51`) | `main/app_main.c` logs that the agent is ready |
| both passes of a v1 read call the getter, so one served read counts twice | `firmware/components/mib/mib_sensor_table.c:103` "real count of successful reads served" |
| a row that goes between lookup and getter ends a v1 walk with noSuchName (`snmp_pdu_get.c:63`) | `docs/PLAN-TABLES.md:156-157` "not an error" |
| the same race gives noSuchInstance in answer to a v2c GETNEXT (`snmp_pdu_get.c:118`) | `snmp_pdu_get.c:113-117` names endOfMibView only |
| any failed getter exhausts its GETBULK repeater, which then reports endOfMibView (`snmp_pdu_getbulk.c:150`) | `snmp_pdu_getbulk.c:125-128` "already hit endOfMibView" |
| a GETBULK response that fits the varbind cap but not the packet is dropped (`snmp_message.c:67`) | `docs/architecture.md:134-138` "truncates cleanly" |
| an unplugged sensor keeps its last temperature (`sensor_ds18b20.c:147`) | `device_hal/include/sensor.h:22-24` "rather than a stale/fabricated value" |
| two relay switches between two polls send no trap (`trap_monitor.c:54`) | `mibs/WESPE-MIB.txt:222-223` "Sent whenever wespeRelayState changes" |
| a request comes over the link, so a read of ifLastChange sees it down only when the association is lost while that request is served (`sysinfo_esp32.c:64`) | `device_hal/include/sysinfo.h:43-48` "polling it via SNMP GET is sufficient" |

## Fairness

- `WF(Agent)`: the UDP task makes no blocking call between `recvfrom` and
  `sendto` (the sensor mutex is held for three statements), so it runs on.
  No request is promised to arrive.
- `WF(Search)`: likewise within one lookup. Rows may change for ever.
- `SensorCache`: a task inside the critical section runs on, since a FreeRTOS
  mutex hands down the priority of its waiters: `WF(PollLocked)`,
  `WF(ReaderStep)`. A blocked task gets the mutex when others release it
  again and again: `SF(Take)`, as the waiters are queued by priority and every
  task sleeps between its calls. The bus has no fairness: a conversion may
  take for ever.
- `WF(Monitor)`: the task wakes after each delay.
- `Boot`: `WF(Main)`, `WF(Bind)` for the two tasks that start the agent; the
  monitor, the clock and requests are promised nothing. `SnmpWire` has no
  fairness.
- `WifiProvisioning`: both tasks run, and an attempt to connect ends in
  success or failure (`WF(Attempt)`; the driver has its own timeouts). An
  association need not end.

## Proofs

The assumptions are the ones named in the modules: `MibAssumption` (entry OIDs
and columns are well formed, no two tables share an entry OID, only strings,
relay and labels are writable),
`DeviceAssumption`, `MibIsFinite` (the least instance behind an OID exists),
`RegistryAssumption` (each array is sorted, arrays and
tables partition the MIB, and only `mib_sensor_table.c`, registered once, has
rows that come and go), `AgentAssumption`, `SensorAssumption` (readings
within the range of the DS18B20), `TrapAssumption`, `WifiAssumption`,
`LinkAssumption`, `BootAssumption` (the constants are numbers),
`CodecAssumption` (sizes of arrays), and `WireAssumption`: a datagram is a
sequence of octets, the varbinds that handlers answer with fit the arrays of the
context and have OIDs out of the MIB or a request, and the OIDs of a trap are the
constants of the firmware; and `MessageAssumption`: a community is a C string,
without a NUL, and a manager sends words, names whose first two arcs share an
octet, and values of the type that their tag says, whether the context has room
for them or not. TLC evaluates each in a run.

| module | theorem | argument |
|---|---|---|
| `MibProofs` | `CompareIsLexicographic`, `CompareIsTotal` | the first difference of two OIDs exists and is unique; the loop returns there |
| `MibRegistryProofs` | `TypeCorrect` | `TypeInv`: `TypeOK` with `lo <= hi <= ` size of the module |
| | `ScalarSearch`, `ExactLookup` | `SearchInv`: what is below `lo` is not after the target (or is not it), what is at or above `hi` is after it; `best` is the least over the modules finished; no table passed owns the target; the row reached is before the one wanted. `ExactAnswerWasTrue` alone is not inductive: it says nothing until the call is done |
| | `NextLookup` | `NextInv`: the best candidate so far is an instance of the rows seen, behind the target, and no scalar, row or column passed holds a better one; inside a table, `CellOrder` turns the order of the scan (columns, then rows) into the order of the OIDs. What is passed was passed under one row count, which is why the theorem needs a single table whose rows change |
| `GetBulkProofs` | `TypeCorrect` | `Shape`: the response never reaches past the request before the rounds begin, `slot` is the next varbind, then an index of `cursor[]`; the counts as decoded may be any integers |
| | `WalkIsComplete` | `WalkInv`: `CursorsFollow` says at which place of the response the latest answer of each repeater stands and that its cursor agrees with it, `RequestAhead` that what is still to be read of the request has not been overwritten. `WalkSkipsNothing` alone says nothing before the end |
| | `RoundsComplete` | `RoundsInv`: all rounds but the current one are whole and had a value, the response is as long as that makes it, and `active` tells whether the current one has a value yet. The lemmas on products replace the division of the property |
| | `BulkReadsCounted` | `CountInv`: the counters are in step with the varbinds so far; only the read that finds the array full is counted and not delivered. `MibProofs` has the lemmas on the cardinality of the places that deliver |
| `SnmpAgentProofs` | `TypeCorrect` | `TypeInv` per action, on top of the lemmas of `MibProofs` on `Resolve`, getters and setters |
| | `Echo`, `FirstFailureWins`, `OnlySetsWrite` | `PassInv`: which pass fits which request, the first passes leave the varbinds alone, each varbind before `index` was acceptable with some row count seen since the request arrived, and all were once the commit pass runs. Getters change nothing a manager can see (`GetterInvisible`) |
| | `SetsAreAnswered` | `EchoFits`: until it is sent, the response to a SET is the request, and that fitted |
| | `AnswersWereTrue` | `TruthInv`: each varbind read so far, and the object just found, agrees with the view at one of the row counts seen; more row counts never make that false (`TruthLasts`) |
| | `SetsWritePrefixes` | `WriteInv`: nothing is written until the commit pass, then the varbinds before `index`, and in the end what status and index say. The last write of a place decides what it holds, so a prefix is a maximum over a set of indices and not a recursion |
| | `ReadsCounted` | `CountInv`: the varbinds not yet read carry no value, and the counters are ahead by what has been delivered; in v2c exactly, in v1 the first pass counts too |
| | `Counter64Hidden` | `HiddenInv`: the object found is never a Counter64 where v1 calls its getter, and every instance the walk stepped over was one (`WalkInv`, for a row count that does not change) |
| | `Atomic` | `AtomicInv`: with one row count, what validation accepted the setter takes, so the second pass cannot fail. Both hypotheses are needed: `set_partial` is the behaviour without `OneRowCount`; `LegalSetsOnly` leaves out a value whose type validation accepts and whose setter refuses it |
| `SnmpWireProofs` | `IncomingFits` | each decoder keeps to the type of its result, for any octets: one lemma per function of `ber_decode.c` and `snmp_codec.c`. A loop over octets is a recursive function here, and that it stays in a set is proved by `Iterate`: the places where it does not have a least element |
| | `TypeCorrect` | `WireInv`: what `IncomingFits` says of the context, and that the handlers keep it |
| | `RepliesAreCanonical`, `TrapsSayWhatWasAsked` | the encoders agree with the reference: `IntegersAgree` and `UnsignedsAgree` (dropping redundant octets from the front one at a time ends where the least sufficient suffix begins), `ArcsAgree` (shifting a word right by seven bits moves its groups by one, octet by octet), `OidsAgree`, `ValuesAgree`, `BindingsAgree`, `PdusAgree`, `EnvelopesAgree`, each from the former. What a request has brought in can be encoded again unless `Repeatable` fails, since its second arcs came out of one octet |
| | `EchoesAreSent` | `EchoInv`: what a handler has repeated fits wherever the request did. Each thing decoded costs no more octets, encoded again, than it was decoded from: `LengthCosts`, `IntegerCosts`, `UnsignedCosts` (all but the words of `Padded`), `OidCosts` (an arc is shifted in and out seven bits at a time, so the octets that brought it in suffice), `ValueCosts`, `VarbindCosts`, `ListCosts`, `RequestPduCosts`, `EchoCosts` |
| | `RequestsUnderstood` | the decoders undo each of the three forms, from the inside out: `LengthDecodes`, `ElementDecodes`, `SignsDecode`, `PadsDecode`, `ArcReads` and `OidDecodes`, `ValueMeans`, `PairDecodes`, `VarbindsDecode`, `PduDecodes`, `EnvelopeDecodes`, `IncomingIs`. What does not fit an array is refused at the element where it stops fitting; of a proper prefix the outermost element already fails (`ElementCut`, `IncomingCut`). The property itself is inductive |
| | `OwnTrapsFit` | `FlattenBound`: pieces of at most k octets. With it the arcs bound an OID (`OidBound`; an arc below 128 takes one octet, none more than five), and the varbinds a trap (`NoticeBound`): 101 octets of 128 for coldStart, at most 210 of 256 for the others. The hypotheses are the arrays of the firmware: `MaxCommunity <= 31`, `MaxVarbinds >= 3` |
| `SensorCacheProofs` | `TypeCorrect` | the conversion stays in range by integer arithmetic |
| | `CacheIsRegister` | refinement step by step: `Store` before the first `SetFlag` and all bus steps stutter; a reader past `Check` knows the flag is set and stays set |
| `TrapMonitorProofs` | `NoTrapWithoutCooling` | `AlarmInv`: while the alarm is armed, or about to be, it has cooled |
| | `TypeCorrect` | `CountInv`: traps are no more than changes, changes no more than switches |
| | `RelayTrapsAreReal` | `RelayInv`: a change about to be reported is one the traps so far leave over; parity |
| `BootProofs` | `OutcomeIsRight`, `RetriesAreUsed` | `WifiInv`: what the pending events say of the driver, every attempt but the first is a retry, and a station that gave up stays idle. It holds for any number of retries, wherever the event loop stands |
| | `ChangesAreReal` | `ChangeInv`: a difference from the state last seen is a change not yet read |
| | `RequestsMeetTheAgent` | `RegisterInv`: exactly what each array holds at each call of `app_main`, and that the UDP task is up only past the transport call; under `RoomForAll`, which is all the code relies on |
| | `BootTypes` | the two invariants of the station and the record, and that a registration keeps its array within bounds and without a second model of a version |

Only model-checked: liveness (`EveryRequestConcludes`, `EveryBulkConcludes`,
`LookupEnds`, `ReadsReturn`, `ReceiverLearnsRelay`,
`AlarmFollowsTemperature`, `BootConcludes`), which the prover cannot treat.
Every other property of a passing run is a theorem.
`trap_stack` refutes `TasksFitTheirStacks`, so there is nothing to prove.

## Not modelled

- `tools/dev_agent`: a desktop harness around the same core, one thread with
  simulated hardware; what it shares with the device is modelled, what it adds
  is not on the device.
- `host_tests`, `tools/*.py`: read for what they expect.
- `mib_registry_reset`, `snmp_security_reset`: called by tests only.
- A configured community of more than 31 characters, for traps: `app_main` and
  the monitor pass the string of the configuration, which the agent's own copy
  cuts, so `OwnTrapsAreSent` is about strings that this copy holds whole. By the
  same sums a coldStart trap has room for 64.
- Bit timing on the 1-Wire bus, pins, flash and network initialisation:
  hardware and ESP-IDF.
- Uptime and heap values, and the wrap of the 32-bit uptime: no property is
  about them; the encoding of words at the limits is checked in `codec`.

## Plan

Done, in this order: `MibOid`, `MibView`, `SnmpError`, `WespeMib`,
`SnmpAgent` with `SetService`; `MibRegistry`; `GetBulk`; `SensorCache` with
`SensorRegister`; `TrapMonitor`; `WifiProvisioning`, `LinkStatus`; `BerCodec`,
`SnmpCodec`, `WireFormat`, `SnmpWire`; `Boot`; the proofs above.

Next:
1. `SnmpAgent` over `SnmpWire`: the exact length of a response in place of the
   abstract one.
