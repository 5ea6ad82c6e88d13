------------------------------ MODULE BootProofs ------------------------------
(***************************************************************************)
(* Proofs about the boot: for any number of retries and any length of      *)
(* uptime, whatever the driver does with the association and whichever     *)
(* task is not created or overruns its stack.                              *)
(***************************************************************************)
EXTENDS Boot, SequenceTheorems, TLAPS

-----------------------------------------------------------------------------
(***************************************************************************)
(* The station.                                                            *)
(***************************************************************************)

\* A pending event says how the driver stands: it waits for the handler of
\* the last event, and does nothing by itself once it is idle.
EventInv ==
  /\ link \in {"stopped", "connecting", "associated"} => queue = <<>>
  /\ link = "idle" =>
       queue \in {<<>>, <<"start">>, <<"disconnected">>, <<"gotIp", "disconnected">>}
  /\ link = "online" => queue \in {<<>>, <<"gotIp">>}

\* Every attempt but the first of all is a retry.
RetryInv ==
  /\ retries \in 0 .. MaxRetry /\ attempts \in 0 .. MaxRetry + 1
  /\ addressed \in BOOLEAN /\ bits \subseteq {"connected", "fail"}
  /\ addressed <=> "connected" \in bits
  /\ addressed => attempts = retries
  /\ ~addressed /\ link # "stopped" =>
       attempts = IF queue = <<"start">> THEN retries ELSE retries + 1
  /\ queue = <<"start">> => ~addressed /\ retries = 0

\* Once the handler has given up, nothing moves any more.
FailInv ==
  /\ "fail" \in bits =>
       /\ link \in {"idle", "stopped"} /\ queue = <<>>
       /\ attempts = IF addressed THEN MaxRetry ELSE MaxRetry + 1
  /\ link = "idle" /\ queue = <<>> => "fail" \in bits

AppInv ==
  /\ app \in {"init", "waiting", "running", "halted"}
  /\ link \in {"stopped", "idle", "connecting", "associated", "online"}
  /\ app = "init" => link = "stopped" /\ attempts = 0 /\ retries = 0 /\ bits = {}
  /\ app = "running" => "connected" \in bits
  /\ app = "halted" => "connected" \notin bits /\ "fail" \in bits

WifiInv == EventInv /\ RetryInv /\ FailInv /\ AppInv

LEMMA Appended ==
  \A a, b, c : Append(<<a>>, b) = <<a, b>> /\ Append(<<a, b>>, c) = <<a, b, c>>
<1> SUFFICES ASSUME NEW a, NEW b, NEW c
             PROVE  Append(<<a>>, b) = <<a, b>> /\ Append(<<a, b>>, c) = <<a, b, c>>
  OBVIOUS
<1> DEFINE S == {a, b, c}
<1>1. Append(<<a>>, b) = <<a, b>>
  <2> DEFINE s == Append(<<a>>, b)
             t == <<a, b>>
  <2>1. s \in Seq(S) /\ Len(s) = 2 /\ s[1] = a /\ s[2] = b
    OBVIOUS
  <2>2. t \in Seq(S) /\ Len(t) = 2 /\ t[1] = a /\ t[2] = b
    OBVIOUS
  <2>3. \A i \in 1 .. Len(s) : s[i] = t[i]
    BY <2>1, <2>2
  <2> HIDE DEF s, t
  <2> QED BY <2>1, <2>2, <2>3, SeqEqual DEF s, t
<1>2. Append(<<a, b>>, c) = <<a, b, c>>
  <2> DEFINE s == Append(<<a, b>>, c)
             t == <<a, b, c>>
  <2>1. s \in Seq(S) /\ Len(s) = 3 /\ s[1] = a /\ s[2] = b /\ s[3] = c
    OBVIOUS
  <2>2. t \in Seq(S) /\ Len(t) = 3 /\ t[1] = a /\ t[2] = b /\ t[3] = c
    OBVIOUS
  <2>3. \A i \in 1 .. Len(s) : s[i] = t[i]
    BY <2>1, <2>2
  <2> HIDE DEF s, t
  <2> QED BY <2>1, <2>2, <2>3, SeqEqual DEF s, t
<1> QED BY <1>1, <1>2

LEMMA Queues ==
  /\ Append(<<>>, "start") = <<"start">>
  /\ Append(<<>>, "disconnected") = <<"disconnected">>
  /\ Append(<<"gotIp">>, "disconnected") = <<"gotIp", "disconnected">>
  /\ Append(<<>>, "gotIp") = <<"gotIp">>
  /\ Tail(<<"start">>) = <<>> /\ Tail(<<"disconnected">>) = <<>> /\ Tail(<<"gotIp">>) = <<>>
  /\ Tail(<<"gotIp", "disconnected">>) = <<"disconnected">>
  /\ Head(<<"start">>) = "start" /\ Head(<<"disconnected">>) = "disconnected"
  /\ Head(<<"gotIp">>) = "gotIp" /\ Head(<<"gotIp", "disconnected">>) = "gotIp"
  /\ <<"start">> # <<>> /\ <<"disconnected">> # <<>> /\ <<"gotIp">> # <<>>
  /\ <<"gotIp", "disconnected">> # <<>>
  /\ <<"start">> # <<"disconnected">> /\ <<"start">> # <<"gotIp">>
  /\ <<"start">> # <<"gotIp", "disconnected">> /\ <<"disconnected">> # <<"gotIp", "disconnected">>
<1>1. /\ Append(<<>>, "start") = <<"start">>
      /\ Append(<<>>, "disconnected") = <<"disconnected">>
      /\ Append(<<>>, "gotIp") = <<"gotIp">>
  OBVIOUS
<1>2. Append(<<"gotIp">>, "disconnected") = <<"gotIp", "disconnected">>
  BY Appended, Zenon
<1>3. Tail(<<"start">>) = <<>> /\ Tail(<<"disconnected">>) = <<>> /\ Tail(<<"gotIp">>) = <<>>
  OBVIOUS
<1>4. Tail(<<"gotIp", "disconnected">>) = <<"disconnected">>
  OBVIOUS
<1>5. /\ Head(<<"start">>) = "start" /\ Head(<<"disconnected">>) = "disconnected"
      /\ Head(<<"gotIp">>) = "gotIp" /\ Head(<<"gotIp", "disconnected">>) = "gotIp"
  OBVIOUS
<1>6. /\ <<"start">> # <<>> /\ <<"disconnected">> # <<>> /\ <<"gotIp">> # <<>>
      /\ <<"gotIp", "disconnected">> # <<>>
  OBVIOUS
<1>7. <<"start">> # <<"disconnected">> /\ <<"start">> # <<"gotIp">>
  OBVIOUS
<1>8. /\ <<"start">> # <<"gotIp", "disconnected">>
      /\ <<"disconnected">> # <<"gotIp", "disconnected">>
  OBVIOUS
<1> QED BY <1>1, <1>2, <1>3, <1>4, <1>5, <1>6, <1>7, <1>8

LEMMA WifiStep == WifiInv /\ WifiNext => WifiInv'
<1> SUFFICES ASSUME WifiInv, WifiNext PROVE WifiInv'
  OBVIOUS
<1> USE DEF WifiInv, EventInv, RetryInv, FailInv, AppInv
<1>0. MaxRetry \in Nat
  BY WifiAssumption DEF WifiAssumption
<1>1. CASE StartStation
  BY <1>0, <1>1, Queues DEF StartStation
<1>2. CASE Woken
  BY <1>0, <1>2 DEF Woken
<1>3. CASE HandleStart
  <2>1. /\ queue = <<"start">> /\ link = "idle" /\ queue' = <<>>
        /\ link' = "connecting" /\ attempts' = attempts + 1
        /\ UNCHANGED <<app, retries, bits, addressed>>
    BY <1>3, Queues DEF HandleStart, Handle, Connect
  <2>2. retries = 0 /\ attempts = 0 /\ ~addressed
    BY <1>0, <2>1
  <2>3. attempts' = 1 /\ queue' # <<"start">>
    BY <2>1, <2>2, Queues
  <2> QED BY <1>0, <2>1, <2>2, <2>3
<1>4. CASE HandleDisconnected
  <2>1. /\ link = "idle" /\ queue = <<"disconnected">> /\ queue' = <<>>
        /\ "fail" \notin bits /\ UNCHANGED <<app, addressed>>
    BY <1>4, Queues DEF HandleDisconnected, Handle
  <2>2. CASE retries < MaxRetry /\ Connect /\ retries' = retries + 1 /\ UNCHANGED bits
    <3>1. /\ link' = "connecting" /\ attempts' = attempts + 1 /\ retries' = retries + 1
          /\ bits' = bits /\ retries < MaxRetry
      BY <2>2 DEF Connect
    <3>2. retries \in Nat /\ attempts \in Nat /\ attempts' = (IF addressed THEN retries' ELSE retries' + 1)
      BY <1>0, <2>1, <3>1, Queues
    <3> QED BY <1>0, <2>1, <3>1, <3>2, Queues
  <2>3. CASE retries = MaxRetry /\ bits' = bits \cup {"fail"} /\ UNCHANGED <<link, attempts, retries>>
    BY <1>0, <2>1, <2>3, Queues
  <2> QED BY <1>4, <2>2, <2>3 DEF HandleDisconnected
<1>5. CASE HandleGotIp
  <2>1. /\ "fail" \notin bits /\ retries' = 0 /\ attempts' = 0 /\ addressed'
        /\ bits' = bits \cup {"connected"} /\ UNCHANGED <<app, link>>
    BY <1>5 DEF HandleGotIp, Handle
  <2>2. \/ link = "idle" /\ queue' = <<"disconnected">>
        \/ link = "online" /\ queue' = <<>>
    BY <1>5, Queues DEF HandleGotIp, Handle
  <2> QED BY <1>0, <2>1, <2>2, Queues
<1>6. CASE Associate
  BY <1>0, <1>6 DEF Associate
<1>7. CASE Lease
  BY <1>0, <1>7, Queues DEF Lease
<1>8. CASE Lose
  BY <1>0, <1>8, Queues DEF Lose
<1> QED BY <1>1, <1>2, <1>3, <1>4, <1>5, <1>6, <1>7, <1>8 DEF WifiNext, Handler

-----------------------------------------------------------------------------
(***************************************************************************)
(* The rest of the boot leaves the station alone, but for a panic.         *)
(***************************************************************************)

LEMMA MainLeavesLink == Main => UNCHANGED linkVars
  BY Zenon DEF Main, InitDevices, InitSecurity, RegisterMib, StartTransport, ColdStart,
               StartMonitor, Calls

LEMMA StationStep == WifiInv /\ [Next]_vars => WifiInv'
<1> SUFFICES ASSUME WifiInv, [Next]_vars PROVE WifiInv'
  OBVIOUS
<1>1. CASE UNCHANGED wifiVars
  BY <1>1, Zenon DEF wifiVars, WifiInv, EventInv, RetryInv, FailInv, AppInv
<1>2. CASE Wifi
  BY <1>2, WifiStep DEF Wifi
<1>3. CASE Panic
  <2>1. /\ link' = "stopped" /\ queue' = <<>>
        /\ UNCHANGED <<app, retries, bits, attempts, addressed>>
    BY <1>3, Zenon DEF Panic
  <2>2. EventInv' /\ AppInv'
    BY <2>1 DEF WifiInv, EventInv, AppInv
  <2>3. RetryInv'
    BY <2>1, Queues, Zenon DEF WifiInv, RetryInv
  <2>4. FailInv'
    BY <2>1, Zenon DEF WifiInv, FailInv
  <2> QED BY <2>2, <2>3, <2>4 DEF WifiInv
<1>4. CASE Tick \/ Receive \/ Bind \/ Serve \/ MonitorTrap
  BY <1>1, <1>4, Zenon DEF Tick, Receive, Bind, Serve, ReadLastChange, MonitorTrap, linkVars
<1>5. CASE Main \/ UNCHANGED vars
  BY <1>1, <1>5, MainLeavesLink, Zenon DEF linkVars, vars
<1> QED BY <1>2, <1>3, <1>4, <1>5, Zenon DEF Next

LEMMA StationStart == Init => WifiInv
<1>1. MaxRetry \in Nat
  BY WifiAssumption DEF WifiAssumption
<1> SUFFICES ASSUME Init PROVE WifiInv
  OBVIOUS
<1>2. /\ app = "init" /\ link = "stopped" /\ queue = <<>> /\ retries = 0 /\ bits = {}
      /\ attempts = 0 /\ addressed = FALSE
  BY Zenon DEF Init, LinkInit, WifiInit
<1>3. EventInv /\ FailInv /\ AppInv
  BY <1>2, Zenon DEF EventInv, FailInv, AppInv
<1>4. 0 \in 0 .. MaxRetry /\ 0 \in 0 .. MaxRetry + 1
  BY <1>1
<1>5. RetryInv
  BY <1>2, <1>4, Queues, Zenon DEF RetryInv
<1> QED BY <1>3, <1>5, Zenon DEF WifiInv

\* app_main goes on only once there was an address, and returns for good only
\* when MAX_RETRY retries have failed, for any MAX_RETRY and whenever the
\* waiting task gets to run (wifi_provisioning_connect_blocking).
THEOREM OutcomeIsRight == Spec => []BootOutcomeIsRight
<1>1. WifiInv => BootOutcomeIsRight
  BY DEF WifiInv, RetryInv, FailInv, AppInv, BootOutcomeIsRight
<1> QED BY <1>1, StationStart, StationStep, PTL DEF Spec

\* The handler leaves the station idle only when its retries are used up
\* (event_handler).
THEOREM RetriesAreUsed == Spec => []NeverIdleWithRetriesLeft
<1>1. WifiInv => NeverIdleWithRetriesLeft
  BY DEF WifiInv, FailInv, NeverIdleWithRetriesLeft
<1> QED BY <1>1, StationStart, StationStep, PTL DEF Spec

-----------------------------------------------------------------------------
(***************************************************************************)
(* ifLastChange.                                                           *)
(***************************************************************************)

\* A difference from the state last seen is one that has not been read yet,
\* and after a panic nobody reads.
ChangeInv ==
  /\ clock \in 0 .. MaxClock /\ changedAt \in 0 .. clock
  /\ lastTicks \in 0 .. MaxClock /\ reported = lastTicks
  /\ request \in BOOLEAN /\ initialized \in BOOLEAN
  /\ lastUp \in BOOLEAN /\ changeUnseen \in BOOLEAN
  /\ app = "init" => ~initialized /\ ~request
  /\ link = "stopped" => ~request
  /\ initialized /\ OperUp # lastUp => changeUnseen \/ link = "stopped"

\* The driver is started once, and stopped by a panic only.
LEMMA WifiStops ==
  WifiNext => /\ link' = "stopped" => link = "stopped"
              /\ app' = "init" => app = "init"
              /\ link = "stopped" => link' = "stopped" \/ app = "init" \/ queue # <<>>
<1> SUFFICES ASSUME WifiNext
             PROVE  /\ link' = "stopped" => link = "stopped"
                    /\ app' = "init" => app = "init"
                    /\ link = "stopped" => link' = "stopped" \/ app = "init" \/ queue # <<>>
  OBVIOUS
<1>1. CASE StartStation
  BY <1>1, Zenon DEF StartStation
<1>2. CASE Woken
  <2>1. app' # "init" /\ link' = link
    BY <1>2 DEF Woken
  <2> QED BY <2>1
<1>3. CASE Handler
  BY <1>3 DEF Handler, HandleStart, HandleDisconnected, HandleGotIp, Handle, Connect
<1>4. CASE Associate \/ Lease \/ Lose
  BY <1>4 DEF Associate, Lease, Lose
<1> QED BY <1>1, <1>2, <1>3, <1>4, Zenon DEF WifiNext

LEMMA ChangeStep == WifiInv /\ ChangeInv /\ [Next]_vars => ChangeInv'
<1> SUFFICES ASSUME WifiInv, ChangeInv, [Next]_vars PROVE ChangeInv'
  OBVIOUS
<1>0. MaxClock \in Nat
  BY LinkAssumption DEF LinkAssumption
<1>1. CASE UNCHANGED linkVars
  BY <1>1, Zenon DEF linkVars, wifiVars, lastVars, ChangeInv, OperUp
<1>2. CASE Wifi
  <2>1. /\ changedAt' = (IF OperUp' = OperUp THEN changedAt ELSE clock)
        /\ changeUnseen' = (changeUnseen \/ OperUp' # OperUp)
        /\ UNCHANGED <<clock, request, lastVars>>
    BY <1>2, Zenon DEF Wifi
  <2>2. changedAt' \in 0 .. clock'
    BY <1>0, <2>1 DEF ChangeInv
  <2>3. changeUnseen' \in BOOLEAN /\ (OperUp' # OperUp => changeUnseen')
    BY <2>1, Zenon DEF ChangeInv
  <2>4. app' = "init" => app = "init"
    BY <1>2, WifiStops DEF Wifi
  <2>5. link' = "stopped" => link = "stopped"
    BY <1>2, WifiStops DEF Wifi
  <2>6. initialized /\ link = "stopped" => link' = "stopped"
    <3>1. link = "stopped" => queue = <<>>
      BY Zenon DEF WifiInv, EventInv
    <3> QED BY <1>2, <3>1, WifiStops, Zenon DEF Wifi, ChangeInv
  <2>7. initialized' /\ OperUp' # lastUp' => changeUnseen' \/ link' = "stopped"
    BY <2>1, <2>3, <2>6, Zenon DEF ChangeInv, lastVars
  <2> QED BY <2>1, <2>2, <2>3, <2>4, <2>5, <2>7, Zenon DEF ChangeInv, lastVars
<1>3. CASE Tick
  <2>1. clock' = clock + 1 /\ clock < MaxClock
        /\ UNCHANGED <<wifiVars, request, lastVars, changedAt, changeUnseen>>
    BY <1>3, Zenon DEF Tick
  <2>2. clock' \in 0 .. MaxClock /\ changedAt' \in 0 .. clock'
    BY <1>0, <2>1 DEF ChangeInv
  <2> QED BY <2>1, <2>2, Zenon DEF ChangeInv, OperUp, wifiVars, lastVars
<1>4. CASE Receive
  BY <1>4, Zenon DEF Receive, ChangeInv, OperUp, wifiVars, lastVars
<1>5. CASE Serve
  <2>1. /\ request /\ request' = FALSE /\ changeUnseen' = FALSE /\ initialized' = TRUE
        /\ lastUp' = OperUp
        /\ lastTicks' = (IF ~initialized \/ OperUp = lastUp THEN lastTicks ELSE clock)
        /\ reported' = lastTicks' /\ UNCHANGED <<wifiVars, clock, changedAt>>
    BY <1>5, Zenon DEF Serve, ReadLastChange
  <2>2. lastTicks' \in 0 .. MaxClock /\ changedAt' \in 0 .. clock' /\ OperUp \in BOOLEAN
    <3>1. clock \in 0 .. MaxClock /\ lastTicks \in 0 .. MaxClock
      BY Zenon DEF ChangeInv
    <3>2. lastTicks' = lastTicks \/ lastTicks' = clock
      BY <2>1, Zenon
    <3>3. changedAt' \in 0 .. clock'
      BY <2>1, Zenon DEF ChangeInv
    <3>4. OperUp \in BOOLEAN
      BY DEF OperUp
    <3> QED BY <3>1, <3>2, <3>3, <3>4, Zenon
  <2>3. app' # "init"
    BY <2>1, Zenon DEF ChangeInv, wifiVars
  <2>4. OperUp' = lastUp'
    BY <2>1, Zenon DEF OperUp, wifiVars
  <2>5. lastUp' \in BOOLEAN
    BY <2>1, <2>2, Zenon
  <2> QED BY <2>1, <2>2, <2>3, <2>4, <2>5, Zenon DEF ChangeInv
<1>6. CASE Panic
  <2>1. /\ link' = "stopped" /\ request' = FALSE
        /\ UNCHANGED <<app, clock, lastVars, changedAt, changeUnseen>>
    BY <1>6, Zenon DEF Panic
  <2> QED BY <2>1, Zenon DEF ChangeInv, lastVars
<1>7. CASE Main \/ Bind \/ MonitorTrap \/ UNCHANGED vars
  BY <1>1, <1>7, MainLeavesLink, Zenon DEF Bind, MonitorTrap, vars
<1> QED BY <1>2, <1>3, <1>4, <1>5, <1>6, <1>7, Zenon DEF Next

LEMMA ChangeStart == Init => ChangeInv
<1> SUFFICES ASSUME Init PROVE ChangeInv
  OBVIOUS
<1>1. 0 \in 0 .. MaxClock /\ 0 \in 0 .. 0
  BY LinkAssumption DEF LinkAssumption
<1>2. /\ clock = 0 /\ changedAt = 0 /\ lastTicks = 0 /\ reported = 0 /\ link = "stopped"
      /\ request = FALSE /\ initialized = FALSE /\ lastUp = FALSE /\ changeUnseen = FALSE
  BY Zenon DEF Init, LinkInit, WifiInit
<1> QED BY <1>1, <1>2, Zenon DEF ChangeInv

\* Whenever ifLastChange is read, a new time is reported only for a change
\* since the read before, and it is no earlier than that change
\* (sysinfo_wifi_last_change_ticks).
THEOREM ChangesAreReal == Spec => ReportedChangeHappened
<1>1. ChangeInv /\ [Next]_vars =>
        [reported' # reported => initialized /\ changeUnseen /\ reported' >= changedAt]_linkVars
  <2> SUFFICES ASSUME ChangeInv, [Next]_vars, reported' # reported
               PROVE  initialized /\ changeUnseen /\ reported' >= changedAt
    OBVIOUS
  <2>1. Serve
    <3>1. UNCHANGED linkVars => FALSE
      BY Zenon DEF linkVars, lastVars
    <3>2. ~(Wifi \/ Tick \/ Receive \/ Panic)
      BY Zenon DEF Wifi, Tick, Receive, Panic, lastVars
    <3> QED BY <3>1, <3>2, MainLeavesLink, Zenon DEF Next, Bind, MonitorTrap, vars
  <2>2. /\ request
        /\ lastTicks' = (IF ~initialized \/ OperUp = lastUp THEN lastTicks ELSE clock)
        /\ reported' = lastTicks'
    BY <2>1, Zenon DEF Serve, ReadLastChange
  <2>3. initialized /\ OperUp # lastUp /\ reported' = clock
    BY <2>2, Zenon DEF ChangeInv
  <2>4. changeUnseen
    BY <2>2, <2>3, Zenon DEF ChangeInv
  <2>5. clock >= changedAt
    BY LinkAssumption DEF ChangeInv, LinkAssumption
  <2> QED BY <2>3, <2>4, <2>5
<1> QED BY <1>1, StationStart, StationStep, ChangeStart, ChangeStep, PTL
        DEF Spec, ReportedChangeHappened

-----------------------------------------------------------------------------
(***************************************************************************)
(* What is registered when a request arrives.                              *)
(***************************************************************************)

\* The limits of the three arrays leave room for what app_main registers.
RoomForAll == MaxModels >= 3 /\ MaxModules >= 3 /\ MaxTables >= 3

\* What each array holds when app_main comes to a call.
ModelsInv ==
  /\ call \in {"devices", "community"} => models = <<>>
  /\ call = "usm" => models = <<"v1", "v2c">>
  /\ call \in {"ii", "wespe", "ifTable", "sensorTable", "transport", "coldStart", "monitor",
               "ready"} => models = <<"v1", "v2c", "v3">>

ModulesInv ==
  /\ call \in {"devices", "community", "usm", "ii"} => modules = <<>>
  /\ call = "wespe" => modules = <<"ii">>
  /\ call = "ifTable" => modules = <<"ii", "wespe">>
  /\ call \in {"sensorTable", "transport", "coldStart", "monitor", "ready"} =>
       modules = <<"ii", "wespe", "ifNumber">>

TablesInv ==
  /\ call \in {"devices", "community", "usm", "ii", "wespe", "ifTable"} => tables = <<>>
  /\ call = "sensorTable" => tables = <<"ifTable", "ifXTable">>
  /\ call \in {"transport", "coldStart", "monitor", "ready"} =>
       tables = <<"ifTable", "ifXTable", "sensorTable">>

\* The UDP task is up only past the transport call, and a request needs it.
UdpInv ==
  /\ udp \in {"starting", "listening"} => call \in {"coldStart", "monitor", "ready"}
  /\ request => udp = "listening"

RegisterInv == ModelsInv /\ ModulesInv /\ TablesInv /\ UdpInv

LEMMA Steps ==
  /\ Calls("devices") => call = "devices" /\ call' = "community"
  /\ Calls("community") => call = "community" /\ call' = "usm"
  /\ Calls("usm") => call = "usm" /\ call' = "ii"
  /\ Calls("ii") => call = "ii" /\ call' = "wespe"
  /\ Calls("wespe") => call = "wespe" /\ call' = "ifTable"
  /\ Calls("ifTable") => call = "ifTable" /\ call' = "sensorTable"
  /\ Calls("sensorTable") => call = "sensorTable" /\ call' = "transport"
  /\ Calls("transport") => call = "transport" /\ call' = "coldStart"
  /\ Calls("coldStart") => call = "coldStart" /\ call' = "monitor"
  /\ Calls("monitor") => call = "monitor" /\ call' = "ready"
<1>1. ASSUME NEW c, Calls(c)
      PROVE  /\ call = c
             /\ \E i \in 1 .. 10 : Order[i] = c /\ call' = Order[i + 1]
  <2>1. Len(Order) - 1 = 10
    BY DEF Order
  <2> QED BY <1>1, <2>1, Zenon DEF Calls
<1>2. /\ Order[1] = "devices" /\ Order[2] = "community" /\ Order[3] = "usm" /\ Order[4] = "ii"
      /\ Order[5] = "wespe" /\ Order[6] = "ifTable" /\ Order[7] = "sensorTable"
      /\ Order[8] = "transport" /\ Order[9] = "coldStart" /\ Order[10] = "monitor"
      /\ Order[11] = "ready"
  BY DEF Order
<1>3. \A i \in 1 .. 10 : i = 1 \/ i = 2 \/ i = 3 \/ i = 4 \/ i = 5 \/ i = 6 \/ i = 7 \/ i = 8
                         \/ i = 9 \/ i = 10
  OBVIOUS
<1>4. ASSUME NEW c, Calls(c)
      PROVE  /\ c = "devices" => call' = "community"
             /\ c = "community" => call' = "usm"
             /\ c = "usm" => call' = "ii"
             /\ c = "ii" => call' = "wespe"
             /\ c = "wespe" => call' = "ifTable"
             /\ c = "ifTable" => call' = "sensorTable"
             /\ c = "sensorTable" => call' = "transport"
             /\ c = "transport" => call' = "coldStart"
             /\ c = "coldStart" => call' = "monitor"
             /\ c = "monitor" => call' = "ready"
  <2>1. PICK i \in 1 .. 10 : Order[i] = c /\ call' = Order[i + 1]
    BY <1>1, <1>4
  <2> QED BY <2>1, <1>2, <1>3
<1> QED BY <1>1, <1>4, Zenon

LEMMA Registrations ==
  ASSUME RoomForAll
  PROVE  /\ WithModel(WithModel(<<>>, "v1"), "v2c") = <<"v1", "v2c">>
         /\ WithModel(<<"v1", "v2c">>, "v3") = <<"v1", "v2c", "v3">>
         /\ Registered(<<>>, "ii", MaxModules) = <<"ii">>
         /\ Registered(<<"ii">>, "wespe", MaxModules) = <<"ii", "wespe">>
         /\ Registered(<<"ii", "wespe">>, "ifNumber", MaxModules) = <<"ii", "wespe", "ifNumber">>
         /\ Registered(Registered(<<>>, "ifTable", MaxTables), "ifXTable", MaxTables)
              = <<"ifTable", "ifXTable">>
         /\ Registered(<<"ifTable", "ifXTable">>, "sensorTable", MaxTables)
              = <<"ifTable", "ifXTable", "sensorTable">>
<1>1. MaxModels \in Nat /\ MaxModules \in Nat /\ MaxTables \in Nat
  BY BootAssumption DEF BootAssumption
<1>2. ASSUME NEW array, NEW entry, NEW max \in Nat, Len(array) \in 0 .. 2, max >= 3
      PROVE  Registered(array, entry, max) = Append(array, entry)
  <2>1. \A n \in 0 .. 2 : n < max
    BY <1>2
  <2> QED BY <1>2, <2>1, Zenon DEF Registered
<1>3. /\ Len(<<>>) = 0 /\ Len(<<"v1">>) = 1 /\ Len(<<"v1", "v2c">>) = 2
      /\ Len(<<"ii">>) = 1 /\ Len(<<"ii", "wespe">>) = 2
      /\ Len(<<"ifTable">>) = 1 /\ Len(<<"ifTable", "ifXTable">>) = 2
      /\ {0, 1, 2} \subseteq 0 .. 2
  OBVIOUS
<1>4. /\ Append(<<>>, "v1") = <<"v1">> /\ Append(<<"v1">>, "v2c") = <<"v1", "v2c">>
      /\ Append(<<"v1", "v2c">>, "v3") = <<"v1", "v2c", "v3">>
      /\ Append(<<>>, "ii") = <<"ii">> /\ Append(<<"ii">>, "wespe") = <<"ii", "wespe">>
      /\ Append(<<"ii", "wespe">>, "ifNumber") = <<"ii", "wespe", "ifNumber">>
      /\ Append(<<>>, "ifTable") = <<"ifTable">>
      /\ Append(<<"ifTable">>, "ifXTable") = <<"ifTable", "ifXTable">>
      /\ Append(<<"ifTable", "ifXTable">>, "sensorTable") = <<"ifTable", "ifXTable", "sensorTable">>
  <2>1. /\ Append(<<>>, "v1") = <<"v1">> /\ Append(<<>>, "ii") = <<"ii">>
        /\ Append(<<>>, "ifTable") = <<"ifTable">>
    OBVIOUS
  <2> QED BY <2>1, Appended, Zenon
<1>5. /\ "v1" \notin Range(<<>>) /\ "v2c" \notin Range(<<"v1">>)
      /\ "v3" \notin Range(<<"v1", "v2c">>)
  BY DEF Range
<1>6. WithModel(WithModel(<<>>, "v1"), "v2c") = <<"v1", "v2c">>
  BY <1>1, <1>2, <1>3, <1>4, <1>5 DEF WithModel, RoomForAll
<1>7. WithModel(<<"v1", "v2c">>, "v3") = <<"v1", "v2c", "v3">>
  BY <1>1, <1>2, <1>3, <1>4, <1>5 DEF WithModel, RoomForAll
<1>8. /\ Registered(<<>>, "ii", MaxModules) = <<"ii">>
      /\ Registered(<<"ii">>, "wespe", MaxModules) = <<"ii", "wespe">>
      /\ Registered(<<"ii", "wespe">>, "ifNumber", MaxModules) = <<"ii", "wespe", "ifNumber">>
  <2>1. ASSUME NEW array, NEW entry, Len(array) \in 0 .. 2
        PROVE  Registered(array, entry, MaxModules) = Append(array, entry)
    BY <1>1, <1>2, <2>1, Zenon DEF RoomForAll
  <2>2. Len(<<>>) \in 0 .. 2 /\ Len(<<"ii">>) \in 0 .. 2 /\ Len(<<"ii", "wespe">>) \in 0 .. 2
    OBVIOUS
  <2>3. Registered(<<>>, "ii", MaxModules) = <<"ii">>
    BY <1>4, <2>1, <2>2, Zenon
  <2>4. Registered(<<"ii">>, "wespe", MaxModules) = <<"ii", "wespe">>
    BY <1>4, <2>1, <2>2, Zenon
  <2>5. Registered(<<"ii", "wespe">>, "ifNumber", MaxModules) = <<"ii", "wespe", "ifNumber">>
    BY <1>4, <2>1, <2>2, Zenon
  <2> QED BY <2>3, <2>4, <2>5
<1>9. /\ Registered(Registered(<<>>, "ifTable", MaxTables), "ifXTable", MaxTables)
           = <<"ifTable", "ifXTable">>
      /\ Registered(<<"ifTable", "ifXTable">>, "sensorTable", MaxTables)
           = <<"ifTable", "ifXTable", "sensorTable">>
  <2>1. ASSUME NEW array, NEW entry, Len(array) \in 0 .. 2
        PROVE  Registered(array, entry, MaxTables) = Append(array, entry)
    BY <1>1, <1>2, <2>1, Zenon DEF RoomForAll
  <2>2. /\ Len(<<>>) \in 0 .. 2 /\ Len(<<"ifTable">>) \in 0 .. 2
        /\ Len(<<"ifTable", "ifXTable">>) \in 0 .. 2
    OBVIOUS
  <2>3. Registered(<<>>, "ifTable", MaxTables) = <<"ifTable">>
    BY <1>4, <2>1, <2>2, Zenon
  <2>4. Registered(<<"ifTable">>, "ifXTable", MaxTables) = <<"ifTable", "ifXTable">>
    BY <1>4, <2>1, <2>2, Zenon
  <2>5. Registered(<<"ifTable", "ifXTable">>, "sensorTable", MaxTables)
          = <<"ifTable", "ifXTable", "sensorTable">>
    BY <1>4, <2>1, <2>2, Zenon
  <2> QED BY <2>3, <2>4, <2>5, Zenon
<1> QED BY <1>6, <1>7, <1>8, <1>9, Zenon

LEMMA RegisterStep ==
  ASSUME RoomForAll, RegisterInv, [Next]_vars
  PROVE  RegisterInv'
<1>1. CASE InitDevices
  <2>1. call = "devices" /\ call' = "community" /\ UNCHANGED <<request, models, modules, tables, udp>>
    BY <1>1, Steps, Zenon DEF InitDevices, Calls, linkVars
  <2> QED BY <2>1 DEF RegisterInv, ModelsInv, ModulesInv, TablesInv, UdpInv
<1>2. CASE InitSecurity
  <2>1. UNCHANGED <<request, modules, tables, udp>>
    BY <1>2, Zenon DEF InitSecurity, Calls, linkVars
  <2>2. \/ /\ call = "community" /\ call' = "usm"
           /\ models' = WithModel(WithModel(models, "v1"), "v2c")
        \/ call = "usm" /\ call' = "ii" /\ models' = WithModel(models, "v3")
    BY <1>2, Steps, Zenon DEF InitSecurity
  <2>3. \/ call = "community" /\ call' = "usm" /\ models' = <<"v1", "v2c">>
        \/ call = "usm" /\ call' = "ii" /\ models' = <<"v1", "v2c", "v3">>
    BY <2>2, Registrations DEF RegisterInv, ModelsInv
  <2> QED BY <2>1, <2>3 DEF RegisterInv, ModelsInv, ModulesInv, TablesInv, UdpInv
<1>3. CASE RegisterMib
  <2>1. UNCHANGED <<request, models, udp>>
    BY <1>3, Zenon DEF RegisterMib, Calls, linkVars
  <2>2. \/ call = "ii" /\ call' = "wespe" /\ modules' = <<"ii">> /\ tables' = tables
        \/ call = "wespe" /\ call' = "ifTable" /\ modules' = <<"ii", "wespe">> /\ tables' = tables
        \/ /\ call = "ifTable" /\ call' = "sensorTable"
           /\ modules' = <<"ii", "wespe", "ifNumber">> /\ tables' = <<"ifTable", "ifXTable">>
        \/ /\ call = "sensorTable" /\ call' = "transport"
           /\ tables' = <<"ifTable", "ifXTable", "sensorTable">> /\ modules' = modules
    <3>1. /\ call = "ii" => modules = <<>> /\ tables = <<>>
          /\ call = "wespe" => modules = <<"ii">>
          /\ call = "ifTable" => modules = <<"ii", "wespe">> /\ tables = <<>>
          /\ call = "sensorTable" => tables = <<"ifTable", "ifXTable">>
      BY DEF RegisterInv, ModulesInv, TablesInv
    <3> QED BY <1>3, <3>1, Steps, Registrations, Zenon DEF RegisterMib
  <2> QED BY <2>1, <2>2 DEF RegisterInv, ModelsInv, ModulesInv, TablesInv, UdpInv
<1>4. CASE StartTransport
  <2>1. /\ UNCHANGED <<request, models, modules, tables>> /\ call = "transport"
        /\ \/ call' = "coldStart" /\ udp' = "starting"
           \/ call' = "halted" /\ udp' = udp
    BY <1>4, Steps, Zenon DEF StartTransport, Calls, linkVars
  <2>2. ~request
    BY <2>1 DEF RegisterInv, UdpInv
  <2> QED BY <2>1, <2>2 DEF RegisterInv, ModelsInv, ModulesInv, TablesInv, UdpInv
<1>5. CASE ColdStart \/ StartMonitor
  <2>1. /\ UNCHANGED <<request, models, modules, tables, udp>>
        /\ \/ call = "coldStart" /\ call' = "monitor"
           \/ call = "monitor" /\ call' = "ready"
    BY <1>5, Steps, Zenon DEF ColdStart, StartMonitor, Calls, linkVars
  <2> QED BY <2>1 DEF RegisterInv, ModelsInv, ModulesInv, TablesInv, UdpInv
<1>6. CASE Bind
  <2>1. /\ udp = "starting" /\ udp' \in {"listening", "deleted"}
        /\ UNCHANGED <<request, call, models, modules, tables>>
    BY <1>6, Zenon DEF Bind, linkVars
  <2>2. ~request
    BY <2>1 DEF RegisterInv, UdpInv
  <2> QED BY <2>1, <2>2 DEF RegisterInv, ModelsInv, ModulesInv, TablesInv, UdpInv
<1>7. CASE Serve
  <2>1. request' = FALSE /\ UNCHANGED <<call, models, modules, tables, udp>>
    BY <1>7, Zenon DEF Serve, ReadLastChange
  <2> QED BY <2>1, Zenon DEF RegisterInv, ModelsInv, ModulesInv, TablesInv, UdpInv
<1>8. CASE Panic
  <2>1. call' = "panicked" /\ request' = FALSE /\ udp' = "deleted"
    BY <1>8, Zenon DEF Panic
  <2> QED BY <2>1 DEF RegisterInv, ModelsInv, ModulesInv, TablesInv, UdpInv
<1>9. CASE (Wifi \/ Tick \/ (udp = "listening" /\ Receive)) /\ UNCHANGED bootVars
  <2>1. UNCHANGED <<call, models, modules, tables, udp>>
    BY <1>9, Zenon DEF bootVars
  <2>2. request' => udp' = "listening"
    <3>1. CASE UNCHANGED request
      BY <2>1, <3>1, Zenon DEF RegisterInv, UdpInv
    <3>2. CASE udp = "listening"
      BY <2>1, <3>2, Zenon
    <3> QED BY <1>9, <3>1, <3>2, Zenon DEF Wifi, Tick
  <2> QED BY <2>1, <2>2, Zenon DEF RegisterInv, ModelsInv, ModulesInv, TablesInv, UdpInv
<1>10. CASE MonitorTrap \/ UNCHANGED vars
  <2>1. UNCHANGED <<request, call, models, modules, tables, udp>>
    BY <1>10, Zenon DEF MonitorTrap, vars, linkVars, bootVars
  <2> QED BY <2>1, Zenon DEF RegisterInv, ModelsInv, ModulesInv, TablesInv, UdpInv
<1> QED
  BY <1>1, <1>2, <1>3, <1>4, <1>5, <1>6, <1>7, <1>8, <1>9, <1>10, Zenon DEF Next, Main

\* As long as the limits leave room for what app_main registers, a request
\* meets all security models, modules and tables, wherever the boot stands
\* (snmp_udp_task, app_main).
THEOREM RequestsMeetTheAgent ==
  ASSUME RoomForAll
  PROVE  Spec => []ServesOnlyWhenRegistered
<1>1. Init => RegisterInv
  <2> SUFFICES ASSUME Init PROVE RegisterInv
    OBVIOUS
  <2>1. call = "devices" /\ models = <<>> /\ modules = <<>> /\ tables = <<>> /\ udp = "none"
        /\ request = FALSE
    BY Zenon DEF Init, BootInit, LinkInit
  <2> QED BY <2>1 DEF RegisterInv, ModelsInv, ModulesInv, TablesInv, UdpInv
<1>2. RegisterInv /\ [Next]_vars => RegisterInv'
  BY RegisterStep, Zenon
<1>3. RegisterInv => ServesOnlyWhenRegistered
  <2> SUFFICES ASSUME RegisterInv, request \/ udp = "listening" PROVE ServesOnlyWhenRegistered
    BY DEF ServesOnlyWhenRegistered
  <2>1. call \in {"coldStart", "monitor", "ready"}
    BY DEF RegisterInv, UdpInv
  <2>2. models = <<"v1", "v2c", "v3">> /\ modules = <<"ii", "wespe", "ifNumber">>
        /\ tables = <<"ifTable", "ifXTable", "sensorTable">>
    BY <2>1 DEF RegisterInv, ModelsInv, ModulesInv, TablesInv
  <2>3. ASSUME NEW a, NEW b, NEW c PROVE Range(<<a, b, c>>) = {a, b, c}
    BY DEF Range
  <2> QED BY <2>2, <2>3, Zenon DEF ServesOnlyWhenRegistered
<1> QED BY <1>1, <1>2, <1>3, PTL DEF Spec

-----------------------------------------------------------------------------
(***************************************************************************)
(* Types.                                                                  *)
(***************************************************************************)

Entries == {"v1", "v2c", "v3", "ii", "wespe", "ifNumber", "ifTable", "ifXTable", "sensorTable"}

AllCalls == {"devices", "community", "usm", "ii", "wespe", "ifTable", "sensorTable", "transport",
             "coldStart", "monitor", "ready"}

ArraysInv ==
  /\ models \in Seq(Entries) /\ modules \in Seq(Entries) /\ tables \in Seq(Entries)
  /\ Len(models) <= MaxModels /\ Len(modules) <= MaxModules /\ Len(tables) <= MaxTables
  /\ IsInjective(models)

TasksInv ==
  /\ call \in AllCalls \cup {"halted", "panicked"}
  /\ udp \in {"none", "starting", "listening", "deleted"}
  /\ monitor \in BOOLEAN
  /\ deepest \in [Tasks -> Nat]

\* A registration never writes past the end of its array.
LEMMA RegisteredFits ==
  ASSUME NEW array \in Seq(Entries), NEW entry \in Entries, NEW max \in Nat, Len(array) <= max
  PROVE  /\ Registered(array, entry, max) \in Seq(Entries)
         /\ Len(Registered(array, entry, max)) <= max
<1>1. CASE Len(array) < max
  <2>1. Append(array, entry) \in Seq(Entries) /\ Len(Append(array, entry)) = Len(array) + 1
    OBVIOUS
  <2>2. Len(array) + 1 <= max
    BY <1>1
  <2> QED BY <1>1, <2>1, <2>2, Zenon DEF Registered
<1>2. CASE ~(Len(array) < max)
  BY <1>2, Zenon DEF Registered
<1> QED BY <1>1, <1>2

\* No version gets a second security model.
LEMMA WithModelFits ==
  ASSUME NEW array \in Seq(Entries), NEW version \in Entries, Len(array) <= MaxModels,
         IsInjective(array)
  PROVE  /\ WithModel(array, version) \in Seq(Entries)
         /\ Len(WithModel(array, version)) <= MaxModels
         /\ IsInjective(WithModel(array, version))
<1>1. CASE version \in Range(array)
  BY <1>1, Zenon DEF WithModel
<1>2. CASE version \notin Range(array)
  <2> DEFINE new == Registered(array, version, MaxModels)
  <2>1. MaxModels \in Nat
    BY BootAssumption DEF BootAssumption
  <2>2. new \in Seq(Entries) /\ Len(new) <= MaxModels
    BY <2>1, RegisteredFits, Zenon
  <2>3. IsInjective(new)
    <3>1. CASE Len(array) < MaxModels
      <4>1. /\ new = Append(array, version) /\ DOMAIN array = 1 .. Len(array)
            /\ DOMAIN new = 1 .. Len(array) + 1 /\ new[Len(array) + 1] = version
            /\ \A i \in 1 .. Len(array) : new[i] = array[i]
        BY <3>1 DEF Registered
      <4>2. ASSUME NEW i \in 1 .. Len(array) + 1, NEW j \in 1 .. Len(array) + 1, new[i] = new[j]
            PROVE  i = j
        <5>1. \A k \in 1 .. Len(array) : array[k] # version
          BY <1>2, <4>1, Zenon DEF Range
        <5>2. CASE i \in 1 .. Len(array) /\ j \in 1 .. Len(array)
          BY <4>1, <4>2, <5>2, Zenon DEF IsInjective
        <5>3. CASE i \in 1 .. Len(array) /\ j = Len(array) + 1
          BY <4>1, <4>2, <5>1, <5>3, Zenon
        <5>4. CASE i = Len(array) + 1 /\ j \in 1 .. Len(array)
          BY <4>1, <4>2, <5>1, <5>4, Zenon
        <5>5. Len(array) \in Nat
          OBVIOUS
        <5>6. \A k \in 1 .. Len(array) + 1 : k \in 1 .. Len(array) \/ k = Len(array) + 1
          BY <5>5
        <5> QED BY <5>2, <5>3, <5>4, <5>6, Zenon
      <4> HIDE DEF new
      <4> QED BY <4>1, <4>2, Zenon DEF IsInjective
    <3>2. CASE ~(Len(array) < MaxModels)
      BY <3>2, Zenon DEF Registered
    <3> QED BY <3>1, <3>2
  <2> QED BY <1>2, <2>2, <2>3, Zenon DEF WithModel
<1> QED BY <1>1, <1>2

LEMMA UsesTyped ==
  ASSUME deepest \in [Tasks -> Nat], NEW task \in Tasks, NEW bytes \in Nat, Uses(task, bytes)
  PROVE  deepest' \in [Tasks -> Nat]
<1>1. ASSUME NEW a \in Nat, NEW b \in Nat PROVE Max({a, b}) \in Nat
  <2>1. \E x \in {a, b} : \A y \in {a, b} : x >= y
    <3>1. CASE a >= b
      BY <3>1
    <3>2. CASE b >= a
      BY <3>2
    <3> QED BY <3>1, <3>2
  <2>2. Max({a, b}) \in {a, b}
    BY <2>1, Zenon DEF Max
  <2> QED BY <2>2
<1>2. Max({deepest[task], bytes}) \in Nat
  BY <1>1
<1> QED BY <1>2, Zenon DEF Uses

LEMMA ArraysStep == ArraysInv /\ [Next]_vars => ArraysInv'
<1> SUFFICES ASSUME ArraysInv, [Next]_vars PROVE ArraysInv'
  OBVIOUS
<1>0. MaxModels \in Nat /\ MaxModules \in Nat /\ MaxTables \in Nat
  BY BootAssumption DEF BootAssumption
<1>1. CASE UNCHANGED <<models, modules, tables>>
  BY <1>1, Zenon DEF ArraysInv
<1>2. CASE InitSecurity
  <2>1. UNCHANGED <<modules, tables>>
    BY <1>2, Zenon DEF InitSecurity
  <2>2. "v1" \in Entries /\ "v2c" \in Entries /\ "v3" \in Entries
    BY DEF Entries
  <2>3. /\ WithModel(models, "v1") \in Seq(Entries)
        /\ Len(WithModel(models, "v1")) <= MaxModels
        /\ IsInjective(WithModel(models, "v1"))
    BY <2>2, WithModelFits, Zenon DEF ArraysInv
  <2>4. models' \in Seq(Entries) /\ Len(models') <= MaxModels /\ IsInjective(models')
    <3>1. CASE models' = WithModel(WithModel(models, "v1"), "v2c")
      BY <3>1, <2>2, <2>3, WithModelFits, Zenon
    <3>2. CASE models' = WithModel(models, "v3")
      BY <3>2, <2>2, WithModelFits, Zenon DEF ArraysInv
    <3> QED BY <1>2, <3>1, <3>2, Zenon DEF InitSecurity
  <2> QED BY <2>1, <2>4, Zenon DEF ArraysInv
<1>3. CASE RegisterMib
  <2>1. /\ "ii" \in Entries /\ "wespe" \in Entries /\ "ifNumber" \in Entries
        /\ "ifTable" \in Entries /\ "ifXTable" \in Entries /\ "sensorTable" \in Entries
    BY DEF Entries
  <2>2. models' = models
    BY <1>3, Zenon DEF RegisterMib
  <2>3. \A e \in Entries : /\ Registered(modules, e, MaxModules) \in Seq(Entries)
                           /\ Len(Registered(modules, e, MaxModules)) <= MaxModules
    BY <1>0, RegisteredFits, Zenon DEF ArraysInv
  <2>4. \A e \in Entries : /\ Registered(tables, e, MaxTables) \in Seq(Entries)
                           /\ Len(Registered(tables, e, MaxTables)) <= MaxTables
    BY <1>0, RegisteredFits, Zenon DEF ArraysInv
  <2>5. /\ Registered(Registered(tables, "ifTable", MaxTables), "ifXTable", MaxTables)
             \in Seq(Entries)
        /\ Len(Registered(Registered(tables, "ifTable", MaxTables), "ifXTable", MaxTables))
             <= MaxTables
    BY <1>0, <2>1, <2>4, RegisteredFits, Zenon
  <2>6. modules' \in Seq(Entries) /\ Len(modules') <= MaxModules
    BY <1>3, <2>1, <2>3, Zenon DEF RegisterMib, ArraysInv
  <2>7. tables' \in Seq(Entries) /\ Len(tables') <= MaxTables
    BY <1>3, <2>1, <2>4, <2>5, Zenon DEF RegisterMib, ArraysInv
  <2> QED BY <2>2, <2>6, <2>7, Zenon DEF ArraysInv
<1>4. CASE InitDevices \/ StartTransport \/ ColdStart \/ StartMonitor
  BY <1>1, <1>4, Zenon DEF InitDevices, StartTransport, ColdStart, StartMonitor
<1>5. CASE Bind \/ Serve \/ MonitorTrap \/ Panic
  BY <1>1, <1>5, Zenon DEF Bind, Serve, MonitorTrap, Panic
<1>6. CASE UNCHANGED bootVars
  BY <1>1, <1>6, Zenon DEF bootVars
<1> QED BY <1>2, <1>3, <1>4, <1>5, <1>6, Zenon DEF Next, Main, vars

LEMMA TasksStep == TasksInv /\ [Next]_vars => TasksInv'
<1> SUFFICES ASSUME TasksInv, [Next]_vars PROVE TasksInv'
  OBVIOUS
<1>0. /\ TrapVarbinds * VarbindSize \in Nat /\ 0 * VarbindSize \in Nat
      /\ Cursors * VarbindSize \in Nat
  <2>1. TrapVarbinds \in Nat /\ VarbindSize \in Nat /\ Cursors \in Nat
    BY BootAssumption DEF BootAssumption
  <2> QED BY <2>1
<1>1. "main" \in Tasks /\ "udp" \in Tasks /\ "monitor" \in Tasks
  BY DEF Tasks
<1>2. call' \in AllCalls \cup {"halted", "panicked"}
  <2>1. CASE UNCHANGED call
    BY <2>1, Zenon DEF TasksInv
  <2>2. CASE call' \in {"halted", "panicked"}
    BY <2>2
  <2>3. CASE \E c : Calls(c)
    <3>1. Len(Order) - 1 = 10
      BY DEF Order
    <3>2. \E i \in 1 .. 10 : call' = Order[i + 1]
      BY <2>3, <3>1, Zenon DEF Calls
    <3>3. \A i \in 1 .. 10 : Order[i + 1] \in AllCalls
      BY DEF Order, AllCalls
    <3> QED BY <3>2, <3>3, Zenon
  <2>4. CASE Main
    BY <2>2, <2>3, <2>4, Zenon DEF Main, InitDevices, InitSecurity, RegisterMib, StartTransport,
                                   ColdStart, StartMonitor
  <2>5. CASE Bind \/ Serve \/ MonitorTrap \/ Panic
    BY <2>1, <2>2, <2>5, Zenon DEF Bind, Serve, MonitorTrap, Panic
  <2>6. CASE UNCHANGED bootVars
    BY <2>1, <2>6, Zenon DEF bootVars
  <2> QED BY <2>4, <2>5, <2>6, Zenon DEF Next, vars
<1>3. udp' \in {"none", "starting", "listening", "deleted"}
  <2>1. CASE UNCHANGED udp
    BY <2>1, Zenon DEF TasksInv
  <2>2. CASE udp' \in {"starting", "listening", "deleted"}
    BY <2>2
  <2>3. CASE Main
    BY <2>1, <2>2, <2>3, Zenon DEF Main, InitDevices, InitSecurity, RegisterMib, StartTransport,
                                   ColdStart, StartMonitor
  <2>4. CASE Bind \/ Serve \/ MonitorTrap \/ Panic
    BY <2>1, <2>2, <2>4, Zenon DEF Bind, Serve, MonitorTrap, Panic
  <2>5. CASE UNCHANGED bootVars
    BY <2>1, <2>5, Zenon DEF bootVars
  <2> QED BY <2>3, <2>4, <2>5, Zenon DEF Next, vars
<1>4. monitor' \in BOOLEAN
  <2>1. CASE UNCHANGED monitor
    BY <2>1, Zenon DEF TasksInv
  <2>2. CASE Main
    BY <2>1, <2>2, Zenon DEF Main, InitDevices, InitSecurity, RegisterMib, StartTransport,
                             ColdStart, StartMonitor
  <2>3. CASE Bind \/ Serve \/ MonitorTrap \/ Panic
    BY <2>1, <2>3, Zenon DEF Bind, Serve, MonitorTrap, Panic
  <2>4. CASE UNCHANGED bootVars
    BY <2>1, <2>4, Zenon DEF bootVars
  <2> QED BY <2>2, <2>3, <2>4, Zenon DEF Next, vars
<1>5. deepest' \in [Tasks -> Nat]
  <2>1. CASE UNCHANGED deepest
    BY <2>1, Zenon DEF TasksInv
  <2>2. CASE ColdStart
    BY <2>2, <1>0, <1>1, UsesTyped, Zenon DEF ColdStart, TasksInv
  <2>3. CASE Serve
    BY <2>3, <1>0, <1>1, UsesTyped, Zenon DEF Serve, TasksInv
  <2>4. CASE MonitorTrap
    BY <2>4, <1>0, <1>1, UsesTyped, Zenon DEF MonitorTrap, TasksInv
  <2>5. CASE InitDevices \/ InitSecurity \/ RegisterMib \/ StartTransport \/ StartMonitor
    BY <2>1, <2>5, Zenon DEF InitDevices, InitSecurity, RegisterMib, StartTransport, StartMonitor
  <2>6. CASE Bind \/ Panic
    BY <2>1, <2>6, Zenon DEF Bind, Panic
  <2>7. CASE UNCHANGED bootVars
    BY <2>1, <2>7, Zenon DEF bootVars
  <2> QED BY <2>2, <2>3, <2>4, <2>5, <2>6, <2>7, Zenon DEF Next, Main, vars
<1> QED BY <1>2, <1>3, <1>4, <1>5, Zenon DEF TasksInv

\* Of the station, its events, the record of ifLastChange and the boot: no
\* array is overrun, no security model is there twice, no retry is counted
\* past the bound, and the queue of events never holds more than two.
THEOREM BootTypes == Spec => []BootTypeOK
<1>1. Init => ArraysInv /\ TasksInv
  <2> SUFFICES ASSUME Init PROVE ArraysInv /\ TasksInv
    OBVIOUS
  <2>1. models = <<>> /\ modules = <<>> /\ tables = <<>> /\ call = "devices" /\ udp = "none"
        /\ monitor = FALSE /\ deepest = [t \in Tasks |-> 0]
    BY Zenon DEF Init, BootInit
  <2>2. MaxModels \in Nat /\ MaxModules \in Nat /\ MaxTables \in Nat
    BY BootAssumption DEF BootAssumption
  <2>3. IsInjective(<<>>)
    BY DEF IsInjective
  <2>4. ArraysInv
    BY <2>1, <2>2, <2>3 DEF ArraysInv
  <2>5. deepest \in [Tasks -> Nat]
    BY <2>1
  <2>6. call \in AllCalls
    BY <2>1 DEF AllCalls
  <2>7. TasksInv
    BY <2>1, <2>5, <2>6, Zenon DEF TasksInv
  <2> QED BY <2>4, <2>7
<1>2. WifiInv => TypeOK
  <2> SUFFICES ASSUME WifiInv PROVE TypeOK
    OBVIOUS
  <2>1. queue \in {<<>>, <<"start">>, <<"disconnected">>, <<"gotIp", "disconnected">>, <<"gotIp">>}
    BY Zenon DEF WifiInv, EventInv, AppInv
  <2>2. \A q \in {<<>>, <<"start">>, <<"disconnected">>, <<"gotIp", "disconnected">>, <<"gotIp">>} :
          q \in Seq(Events) /\ Len(q) <= 2
    <3>1. <<>> \in Seq(Events) /\ Len(<<>>) <= 2
      OBVIOUS
    <3>2. /\ <<"start">> \in Seq(Events) /\ Len(<<"start">>) <= 2
          /\ <<"disconnected">> \in Seq(Events) /\ Len(<<"disconnected">>) <= 2
          /\ <<"gotIp">> \in Seq(Events) /\ Len(<<"gotIp">>) <= 2
      BY DEF Events
    <3>3. <<"gotIp", "disconnected">> \in Seq(Events) /\ Len(<<"gotIp", "disconnected">>) <= 2
      BY DEF Events
    <3> QED BY <3>1, <3>2, <3>3, Zenon
  <2> QED BY <2>1, <2>2, Zenon DEF TypeOK, WifiInv, RetryInv, AppInv
<1>3. WifiInv /\ ChangeInv => LinkTypeOK
  <2> SUFFICES ASSUME WifiInv, ChangeInv PROVE LinkTypeOK
    OBVIOUS
  <2>1. changedAt \in 0 .. MaxClock
    BY LinkAssumption DEF ChangeInv, LinkAssumption
  <2> QED BY <1>2, <2>1, Zenon DEF ChangeInv, LinkTypeOK
<1>4. AllCalls \subseteq Range(Order)
  BY DEF AllCalls, Range, Order
<1>5. LinkTypeOK /\ ArraysInv /\ TasksInv => BootTypeOK
  BY <1>4, Zenon DEF BootTypeOK, ArraysInv, TasksInv
<1> QED BY <1>1, <1>3, <1>5, StationStart, StationStep, ChangeStart, ChangeStep, ArraysStep,
           TasksStep, PTL DEF Spec
=============================================================================
