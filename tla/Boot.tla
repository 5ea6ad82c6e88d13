-------------------------------- MODULE Boot --------------------------------
(***************************************************************************)
(* app_main.c after the wait for WiFi: what it registers, the tasks it     *)
(* starts, and the requests that one of them takes while it is still       *)
(* going on.  The results of all registrations are ignored, and those of   *)
(* sensor_init and relay_init are logged (see SensorCache).  A task that   *)
(* puts more on its stack than it was created with goes on, or panics; the *)
(* restart that follows begins again at Init, so a behaviour ends there.   *)
(***************************************************************************)
EXTENDS LinkStatus, SequencesExt

CONSTANTS
  MaxModels,       \* SNMP_SECURITY_MAX_MODELS
  MaxModules,      \* MIB_MAX_MODULES
  MaxTables,       \* MIB_MAX_TABLES
  VarbindSize,     \* sizeof(snmp_varbind_t)
  TrapVarbinds,    \* SNMP_TRAP_MAX_VARBINDS
  Cursors,         \* SNMP_MAX_REPEATING_COLUMNS
  Stack            \* of every task, in bytes

Tasks == {"main", "udp", "monitor"}

ASSUME BootAssumption ==
  /\ {MaxModels, MaxModules, MaxTables, VarbindSize, TrapVarbinds, Cursors} \subseteq Nat
  /\ Stack \in [Tasks -> Nat]

VARIABLES
  call,      \* the next call of app_main, or how it ended
  models,    \* s_slots of snmp_security.c: the versions
  modules,   \* s_modules of mib_registry.c
  tables,    \* s_tables
  udp,       \* the UDP task
  monitor,   \* the monitor task exists
  deepest    \* history: the most a task had in its local arrays

bootVars == <<call, models, modules, tables, udp, monitor, deepest>>
vars == <<linkVars, bootVars>>

\* Mutant: the transport starts before the tables are registered.
OrderHasty ==
  <<"devices", "community", "usm", "ii", "wespe", "transport", "ifTable", "sensorTable",
    "coldStart", "monitor", "ready">>

\* The calls of app_main.
Order ==
  <<"devices", "community", "usm", "ii", "wespe", "ifTable", "sensorTable", "transport",
    "coldStart", "monitor", "ready">>

BootTypeOK ==
  /\ LinkTypeOK
  /\ call \in Range(Order) \cup {"halted", "panicked"}
  /\ Len(models) <= MaxModels /\ Len(modules) <= MaxModules /\ Len(tables) <= MaxTables
  /\ IsInjective(models)
  /\ udp \in {"none", "starting", "listening", "deleted"}
  /\ monitor \in BOOLEAN
  /\ deepest \in [Tasks -> Nat]

BootInit ==
  /\ call = "devices"
  /\ models = <<>> /\ modules = <<>> /\ tables = <<>>
  /\ udp = "none"
  /\ monitor = FALSE
  /\ deepest = [t \in Tasks |-> 0]

Init == LinkInit /\ BootInit

-----------------------------------------------------------------------------
\* app_main comes to call c.
Calls(c) ==
  /\ app = "running"
  /\ call = c
  /\ \E i \in 1 .. Len(Order) - 1 : Order[i] = c /\ call' = Order[i + 1]
  /\ UNCHANGED linkVars

\* A registration appends, or fails when the array is full.
Registered(array, entry, max) ==
  IF Len(array) < max THEN Append(array, entry) ELSE array

\* A version that has a security model already is only given another.
WithModel(array, version) ==
  IF version \in Range(array) THEN array ELSE Registered(array, version, MaxModels)

\* `bytes' of local arrays on the stack of a task.
Uses(task, bytes) ==
  deepest' = [deepest EXCEPT ![task] = Max({deepest[task], bytes})]

InitDevices ==
  /\ Calls("devices")
  /\ UNCHANGED <<models, modules, tables, udp, monitor, deepest>>

InitSecurity ==
  /\ \/ Calls("community") /\ models' = WithModel(WithModel(models, "v1"), "v2c")
     \/ Calls("usm") /\ models' = WithModel(models, "v3")
  /\ UNCHANGED <<modules, tables, udp, monitor, deepest>>

RegisterMib ==
  /\ \/ /\ Calls("ii")
        /\ modules' = Registered(modules, "ii", MaxModules) /\ UNCHANGED tables
     \/ /\ Calls("wespe")
        /\ modules' = Registered(modules, "wespe", MaxModules) /\ UNCHANGED tables
     \/ /\ Calls("ifTable")
        /\ modules' = Registered(modules, "ifNumber", MaxModules)
        /\ tables' = Registered(Registered(tables, "ifTable", MaxTables), "ifXTable", MaxTables)
     \/ /\ Calls("sensorTable")
        /\ tables' = Registered(tables, "sensorTable", MaxTables) /\ UNCHANGED modules
  /\ UNCHANGED <<models, udp, monitor, deepest>>

\* snmp_transport_start: when the task cannot be created app_main returns.
StartTransport ==
  /\ \/ Calls("transport") /\ udp' = "starting"
     \/ /\ app = "running" /\ call = "transport"
        /\ call' = "halted"
        /\ UNCHANGED <<linkVars, udp>>
  /\ UNCHANGED <<models, modules, tables, monitor, deepest>>

\* The coldStart trap is built, whether there is a receiver or not.
ColdStart ==
  /\ Calls("coldStart")
  /\ Uses("main", TrapVarbinds * VarbindSize)
  /\ UNCHANGED <<models, modules, tables, udp, monitor>>

\* trap_monitor_start, whose task may fail to be created unnoticed.
StartMonitor ==
  /\ Calls("monitor")
  /\ monitor' \in BOOLEAN
  /\ UNCHANGED <<models, modules, tables, udp, deepest>>

Main == InitDevices \/ InitSecurity \/ RegisterMib \/ StartTransport \/ ColdStart \/ StartMonitor

-----------------------------------------------------------------------------
\* The UDP task gets its socket and binds it, or deletes itself.
Bind ==
  /\ udp = "starting"
  /\ udp' \in {"listening", "deleted"}
  /\ UNCHANGED <<linkVars, call, models, modules, tables, monitor, deepest>>

\* A request is answered; a GETBULK has its cursors on the stack.
Serve ==
  /\ ReadLastChange
  /\ \E cursors \in {0, Cursors} : Uses("udp", cursors * VarbindSize)
  /\ UNCHANGED <<call, models, modules, tables, udp, monitor>>

\* send_trap of the monitor.
MonitorTrap ==
  /\ monitor
  /\ Uses("monitor", TrapVarbinds * VarbindSize)
  /\ UNCHANGED <<linkVars, call, models, modules, tables, udp, monitor>>

Overrun == \E t \in Tasks : deepest[t] > Stack[t]

\* The overrun is noticed, or hits something that matters: all tasks stop.
Panic ==
  /\ Overrun
  /\ call' = "panicked"
  /\ link' = "stopped" /\ queue' = <<>>
  /\ request' = FALSE
  /\ udp' = "deleted" /\ monitor' = FALSE
  /\ UNCHANGED <<app, retries, bits, attempts, addressed, clock, lastVars, changedAt,
                 changeUnseen, models, modules, tables, deepest>>

Next ==
  \/ Main \/ Bind \/ Serve \/ MonitorTrap \/ Panic
  \/ (Wifi \/ Tick \/ (udp = "listening" /\ Receive)) /\ UNCHANGED bootVars

\* The tasks of app_main, of the events and of UDP run, and attempts to
\* connect end; the monitor and the clock need not.
Spec ==
  /\ Init /\ [][Next]_vars
  /\ WifiFairness /\ WF_vars(Main) /\ WF_vars(Bind)

-----------------------------------------------------------------------------
(***************************************************************************)
(* Properties.                                                             *)
(***************************************************************************)

\* A request meets the complete agent: the UDP task is up only after all
\* security models and MIB modules are registered, and none of them was
\* refused for want of room, which nobody would have noticed
\* (snmp_transport.h: "Call once, after ...").
ServesOnlyWhenRegistered ==
  request \/ udp = "listening" =>
    /\ Range(models) = {"v1", "v2c", "v3"}
    /\ Range(modules) = {"ii", "wespe", "ifNumber"}
    /\ Range(tables) = {"ifTable", "ifXTable", "sensorTable"}

\* The boot never hangs: app_main gets through, with the UDP task listening or
\* gone, or it returns, or a panic ends it.
BootConcludes ==
  app = "waiting" ~>
    \/ app = "halted" \/ call \in {"halted", "panicked"}
    \/ call = "ready" /\ udp # "starting"

\* Every task fits the stack it was created with (docs/PLAN-TABLES.md).
TasksFitTheirStacks == ~Overrun
=============================================================================
