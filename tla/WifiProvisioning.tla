-------------------------- MODULE WifiProvisioning --------------------------
(***************************************************************************)
(* wifi_provisioning.c: app_main starts the WiFi station and waits for a   *)
(* bit of an event group, which the handler of the event loop sets.  The   *)
(* driver of ESP-IDF connects when told to, loses the association whenever *)
(* it likes, and queues an event for every change.                         *)
(***************************************************************************)
EXTENDS Integers, Sequences

CONSTANT MaxRetry    \* MAX_RETRY

ASSUME WifiAssumption == MaxRetry \in Nat

VARIABLES
  app,         \* app_main: before the start, waiting, past it, or returned
  link,        \* the driver
  queue,       \* of the default event loop
  retries,     \* s_retry_count
  bits,        \* s_event_group
  attempts,    \* history: calls of esp_wifi_connect since the last address
  addressed    \* history: an address was ever obtained

wifiVars == <<app, link, queue, retries, bits, attempts, addressed>>

Events == {"start", "disconnected", "gotIp"}

TypeOK ==
  /\ app \in {"init", "waiting", "running", "halted"}
  /\ link \in {"stopped", "idle", "connecting", "associated", "online"}
  /\ queue \in Seq(Events) /\ Len(queue) <= 2
  /\ retries \in 0 .. MaxRetry
  /\ bits \subseteq {"connected", "fail"}
  /\ attempts \in 0 .. MaxRetry + 1
  /\ addressed \in BOOLEAN

WifiInit ==
  /\ app = "init"
  /\ link = "stopped"
  /\ queue = <<>>
  /\ retries = 0
  /\ bits = {}
  /\ attempts = 0
  /\ addressed = FALSE

-----------------------------------------------------------------------------
\* wifi_provisioning_connect_blocking, and the check of its result.
StartStation ==
  /\ app = "init"
  /\ app' = "waiting"
  /\ link' = "idle"
  /\ queue' = Append(queue, "start")
  /\ UNCHANGED <<retries, bits, attempts, addressed>>

\* Mutant: the wait takes either bit for success.
WokenAnyhow ==
  /\ app = "waiting"
  /\ bits # {}
  /\ app' = "running"
  /\ UNCHANGED <<link, queue, retries, bits, attempts, addressed>>

\* The bits at the time the task runs again count.
Woken ==
  /\ app = "waiting"
  /\ bits # {}
  /\ app' = IF "connected" \in bits THEN "running" ELSE "halted"
  /\ UNCHANGED <<link, queue, retries, bits, attempts, addressed>>

-----------------------------------------------------------------------------
\* event_handler.
Handle(event) == queue # <<>> /\ Head(queue) = event /\ queue' = Tail(queue)

Connect == link' = "connecting" /\ attempts' = attempts + 1

HandleStart ==
  /\ Handle("start")
  /\ Connect
  /\ UNCHANGED <<app, retries, bits, addressed>>

\* Mutant: one more attempt than the bound, and the count runs on.
HandleDisconnectedOnce ==
  /\ Handle("disconnected")
  /\ \/ /\ retries <= MaxRetry
        /\ Connect
        /\ retries' = retries + 1
        /\ UNCHANGED bits
     \/ /\ retries > MaxRetry
        /\ bits' = bits \cup {"fail"}
        /\ UNCHANGED <<link, attempts, retries>>
  /\ UNCHANGED <<app, addressed>>

\* Mutant: out of retries, the handler just returns.
HandleDisconnectedSilent ==
  /\ Handle("disconnected")
  /\ \/ retries < MaxRetry /\ Connect /\ retries' = retries + 1
     \/ retries = MaxRetry /\ UNCHANGED <<link, attempts, retries>>
  /\ UNCHANGED <<app, bits, addressed>>

HandleDisconnected ==
  /\ Handle("disconnected")
  /\ \/ /\ retries < MaxRetry
        /\ Connect
        /\ retries' = retries + 1
        /\ UNCHANGED bits
     \/ /\ retries = MaxRetry
        /\ bits' = bits \cup {"fail"}
        /\ UNCHANGED <<link, attempts, retries>>
  /\ UNCHANGED <<app, addressed>>

HandleGotIp ==
  /\ Handle("gotIp")
  /\ retries' = 0
  /\ bits' = bits \cup {"connected"}
  /\ attempts' = 0
  /\ addressed' = TRUE
  /\ UNCHANGED <<app, link>>

-----------------------------------------------------------------------------
\* The driver, an external component.
Associate ==
  /\ link = "connecting"
  /\ link' = "associated"
  /\ UNCHANGED <<app, queue, retries, bits, attempts, addressed>>

Lease ==
  /\ link = "associated"
  /\ link' = "online"
  /\ queue' = Append(queue, "gotIp")
  /\ UNCHANGED <<app, retries, bits, attempts, addressed>>

\* An attempt fails, or the association is lost.
Lose ==
  /\ link \in {"connecting", "associated", "online"}
  /\ link' = "idle"
  /\ queue' = Append(queue, "disconnected")
  /\ UNCHANGED <<app, retries, bits, attempts, addressed>>

Attempt == link \in {"connecting", "associated"} /\ (Associate \/ Lease \/ Lose)

Handler == HandleStart \/ HandleDisconnected \/ HandleGotIp

WifiNext == StartStation \/ Woken \/ Handler \/ Associate \/ Lease \/ Lose

\* Both tasks run, and an attempt to connect ends one way or the other; an
\* association need not.
WifiFairness ==
  /\ WF_wifiVars(StartStation) /\ WF_wifiVars(Woken) /\ WF_wifiVars(Handler)
  /\ WF_wifiVars(Attempt)

-----------------------------------------------------------------------------
(***************************************************************************)
(* Properties.                                                             *)
(***************************************************************************)

\* The agent runs only on a network: app_main goes on only after an address
\* was obtained, and returns for good only when the first attempt and all
\* the retries failed (wifi_provisioning.h).
BootOutcomeIsRight ==
  /\ app = "running" => addressed
  /\ app = "halted" => ~addressed /\ attempts = MaxRetry + 1

\* The station is left idle only when the retries since the last address are
\* used up; then it never connects again, though the agent may be running.
NeverIdleWithRetriesLeft ==
  link = "idle" /\ queue = <<>> =>
    /\ "fail" \in bits
    /\ attempts = IF addressed THEN MaxRetry ELSE MaxRetry + 1
=============================================================================
