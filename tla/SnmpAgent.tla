----------------------------- MODULE SnmpAgent ------------------------------
(***************************************************************************)
(* One request through the agent: snmp_message_process, the dispatcher and *)
(* the Get, GetNext and Set handlers, one registry lookup or one accessor  *)
(* call per step.  The agent is single-threaded, but the device is not: a  *)
(* sensor row, a reading or the WiFi association may come or go between    *)
(* any two steps, so between the two passes over a varbind list too.       *)
(***************************************************************************)
EXTENDS WespeMib, SnmpPdu

CONSTANTS
  Requests,     \* the decoded requests a manager may send
  OutCap,       \* SNMP_MAX_PACKET_LEN: the size of both datagram buffers
  MaxRequests,  \* bound of the runs: how many of them it sends
  SkipGuard     \* SNMP_V1_COUNTER64_SKIP_GUARD

VARIABLES
  pc,           \* where the UDP task is
  pass,         \* which loop over the varbinds is running
  index,        \* the varbind it is at
  skips,        \* Counter64 instances stepped over for this varbind (v1)
  found,        \* what the registry resolved
  ctx,          \* s_ctx: the request, turned in place into the response
  outcome,      \* what became of the last request
  accepted,     \* number of requests so far
  request, base, rowsSeen   \* history: the request, the store it found, and
                            \* the row counts of the table since it arrived

agentVars == <<pc, pass, index, skips, found, ctx, outcome, accepted>>
historyVars == <<request, base, rowsSeen>>
vars == <<mibVars, agentVars, historyVars>>

AccessModes == {"none", "read", "readwrite"}
Pdus == {"get", "getnext", "set", "other"}
RequestType == [version : Versions, access : AccessModes, pdu : Pdus,
                vbs : Seq(Varbinds)]

\* Every request arrived in a datagram.
ASSUME AgentAssumption ==
  /\ Requests \subseteq RequestType
  /\ \A r \in Requests : EncodedLen(r.vbs) <= OutCap
  /\ MaxRequests \in Nat
  /\ SkipGuard \in Nat \ {0}

ReadPasses == {"probe", "answer", "single"}
Passes == ReadPasses \cup {"validate", "commit"}

Context == [version : Versions, access : AccessModes,
            pdu : Pdus \cup {"response"}, vbs : Seq(Varbinds),
            errStatus : ErrorStatuses, errIndex : Nat]

Store == [field |-> field, label |-> label, readCount |-> readCount]

EmptyRequest == [version |-> "v1", access |-> "none", pdu |-> "other",
                 vbs |-> <<>>]

Decoded(r) == [version |-> r.version, access |-> r.access, pdu |-> r.pdu,
               vbs |-> r.vbs, errStatus |-> "noError", errIndex |-> 0]

TypeOK ==
  /\ MibTypeOK
  /\ pc \in {"idle", "dispatch", "lookup", "call", "reply"}
  /\ pass \in Passes
  /\ index \in Nat \ {0}
  /\ skips \in Nat
  /\ found \in Resolved
  /\ ctx \in Context
  /\ outcome \in {"none", "sent", "dropped"}
  /\ accepted \in Nat
  /\ request \in RequestType
  /\ base \in [field : [Fields -> Nat], label : [Sensors -> Nat],
               readCount : [Sensors -> Nat]]
  /\ rowsSeen \subseteq Sensors

Init ==
  /\ MibInit
  /\ pc = "idle"
  /\ pass = "probe"
  /\ index = 1
  /\ skips = 0
  /\ found = Miss("noSuchObject")
  /\ ctx = Decoded(EmptyRequest)
  /\ outcome = "none"
  /\ accepted = 0
  /\ request = EmptyRequest
  /\ base = Store
  /\ rowsSeen = {Rows}

-----------------------------------------------------------------------------
\* snmp_message_process: decode into the cleared context.
Receive(r) ==
  /\ pc = "idle"
  /\ accepted < MaxRequests
  /\ pc' = "dispatch"
  /\ ctx' = Decoded(r)
  /\ outcome' = "none"
  /\ accepted' = accepted + 1
  /\ request' = r
  /\ base' = Store
  /\ rowsSeen' = {Rows}
  /\ UNCHANGED <<mibVars, pass, index, skips, found>>

\* No security model speaks v3, the community is unknown, the PDU is not a
\* request, or a Set came without write access: no response at all.
Unanswerable ==
  \/ ctx.version = "v3"
  \/ ctx.access = "none"
  \/ ctx.pdu = "other"
  \/ ctx.pdu = "set" /\ ctx.access # "readwrite"

Drop ==
  /\ pc = "dispatch"
  /\ Unanswerable
  /\ pc' = "idle"
  /\ outcome' = "dropped"
  /\ UNCHANGED <<mibVars, pass, index, skips, found, ctx, accepted, historyVars>>

\* The loop head of a pass: varbind k is next.
Turn(p, k) ==
  /\ pc' = "lookup"
  /\ pass' = p
  /\ index' = k
  /\ skips' = 0

\* Mutant: an error response without its varbinds.
FinishEmpty(status, at) ==
  /\ pc' = "reply"
  /\ ctx' = [ctx EXCEPT !.pdu = "response", !.errStatus = status, !.errIndex = at,
                        !.vbs = IF status = "noError" THEN @ ELSE <<>>]
  /\ UNCHANGED <<pass, index, skips>>

\* Mutant: the error index counts from zero.
FinishFromZero(status, at) ==
  /\ pc' = "reply"
  /\ ctx' = [ctx EXCEPT !.pdu = "response", !.errStatus = status,
                        !.errIndex = IF at = 0 THEN 0 ELSE at - 1]
  /\ UNCHANGED <<pass, index, skips>>

\* The handler returns BER_OK with this error status and index.
Finish(status, at) ==
  /\ pc' = "reply"
  /\ ctx' = [ctx EXCEPT !.pdu = "response", !.errStatus = status, !.errIndex = at]
  /\ UNCHANGED <<pass, index, skips>>

\* Mutant: v1 reads are answered in a single pass, like v2c ones.
FirstPassSingle == IF ctx.pdu = "set" THEN "validate" ELSE "single"

\* Mutant: a Set is committed without the validation pass.
FirstPassCommits ==
  IF ctx.pdu = "set" THEN "commit"
  ELSE IF ctx.version = "v1" THEN "probe" ELSE "single"

FirstPass ==
  IF ctx.pdu = "set" THEN "validate"
  ELSE IF ctx.version = "v1" THEN "probe" ELSE "single"

Dispatch ==
  /\ pc = "dispatch"
  /\ ~Unanswerable
  /\ Turn(FirstPass, 1)
  /\ UNCHANGED <<mibVars, found, ctx, outcome, accepted, historyVars>>

\* A pass has visited every varbind: the second one starts, or all is well.
SecondPass == [probe |-> "answer", validate |-> "commit"]

PassEnds ==
  /\ pc = "lookup"
  /\ index > Len(ctx.vbs)
  /\ \/ /\ pass \in DOMAIN SecondPass
        /\ Turn(SecondPass[pass], 1)
        /\ ctx' = ctx
     \/ /\ pass \notin DOMAIN SecondPass
        /\ Finish("noError", 0)
  /\ UNCHANGED <<mibVars, found, outcome, accepted, historyVars>>

-----------------------------------------------------------------------------
\* Get and GetNext.

\* The fetch of varbind `index' ended with `result' (and `vb' if it is "ok").
Settle(result, vb) ==
  LET tr == Translate(ctx.version, result) IN
  \/ /\ pass # "answer"
     /\ tr.abort
     /\ Finish(tr.status, index)
  \/ /\ pass = "probe"
     /\ ~tr.abort
     /\ Turn("probe", index + 1)
     /\ ctx' = ctx
  \/ /\ pass = "answer"
     /\ Turn("answer", index + 1)
     /\ ctx' = IF result = "ok" THEN [ctx EXCEPT !.vbs[index] = vb] ELSE ctx
  \/ /\ pass = "single"
     /\ ~tr.abort
     /\ Turn("single", index + 1)
     /\ ctx' = IF tr.exception = NoException
               THEN [ctx EXCEPT !.vbs[index] = vb]
               ELSE [ctx EXCEPT !.vbs[index] = Exceptional(ctx.vbs[index], tr.exception)]

\* Where lookup_and_fetch searches from: the request, or the Counter64
\* instance it has just stepped over.
Current == IF skips = 0 THEN ctx.vbs[index].oid ELSE found.oid

Lookup ==
  IF ctx.pdu = "get" THEN Resolve(Current, Rows) ELSE ResolveNext(Current, Rows)

\* Mutant: Counter64 instances are stepped over in every version.
HiddenAlways(r) == r.res = "ok" /\ r.tag = "counter64"

\* Mutant: they are stepped over, but an exact Get still finds them.
HiddenOnWalk(r) ==
  r.res = "ok" /\ ctx.version = "v1" /\ ctx.pdu = "getnext" /\ r.tag = "counter64"

\* A Counter64 does not exist in SNMPv1.
Hidden(r) == r.res = "ok" /\ ctx.version = "v1" /\ r.tag = "counter64"

ReadLookup ==
  /\ pc = "lookup"
  /\ pass \in ReadPasses
  /\ index <= Len(ctx.vbs)
  /\ \E r \in {Lookup} :
       \/ /\ r.res # "ok"
          /\ Settle(r.res, ctx.vbs[index])
          /\ UNCHANGED found
       \/ /\ Hidden(r)
          /\ ctx.pdu = "get"
          /\ Settle("noSuchObject", ctx.vbs[index])
          /\ UNCHANGED found
       \/ /\ Hidden(r)
          /\ ctx.pdu = "getnext"
          /\ IF skips + 1 < SkipGuard
             THEN /\ skips' = skips + 1
                  /\ found' = r
                  /\ UNCHANGED <<pc, pass, index, ctx>>
             ELSE /\ Settle("genErr", ctx.vbs[index])
                  /\ UNCHANGED found
       \/ /\ r.res = "ok"
          /\ ~Hidden(r)
          /\ pc' = "call"
          /\ found' = r
          \* the second v1 pass writes the OID in place before the getter runs
          /\ ctx' = IF pass = "answer"
                    THEN [ctx EXCEPT !.vbs[index].oid = r.oid] ELSE ctx
          /\ UNCHANGED <<pass, index, skips>>
  /\ UNCHANGED <<mibVars, outcome, accepted, historyVars>>

ReadCall ==
  /\ pc = "call"
  /\ pass \in ReadPasses
  /\ CallGetter(found)
  /\ Settle(GetResult(found),
            [oid |-> found.oid, tag |-> found.tag, val |-> GetValue(found)])
  /\ UNCHANGED <<found, outcome, accepted, historyVars>>

-----------------------------------------------------------------------------
\* Set.

\* Mutant: the type of the value is left for the setter to check.
ValidationUntyped(r, vb) ==
  IF r.res # "ok" THEN r.res
  ELSE IF ~r.writable THEN "notWritable"
  ELSE "ok"

Validation(r, vb) ==
  IF r.res # "ok" THEN r.res
  ELSE IF ~r.writable THEN "notWritable"
  ELSE IF vb.tag # r.tag THEN "wrongType"
  ELSE "ok"

Validate ==
  /\ pc = "lookup"
  /\ pass = "validate"
  /\ index <= Len(ctx.vbs)
  /\ LET vb == ctx.vbs[index]
         result == Validation(Resolve(vb.oid, Rows), vb)
     IN  \/ /\ result = "ok"
            /\ Turn("validate", index + 1)
            /\ ctx' = ctx
         \/ /\ result # "ok"
            /\ Finish(V1Status(result), index)
  /\ UNCHANGED <<mibVars, found, outcome, accepted, historyVars>>

\* The second pass resolves every varbind afresh...
CommitLookup ==
  /\ pc = "lookup"
  /\ pass = "commit"
  /\ index <= Len(ctx.vbs)
  /\ LET r == Resolve(ctx.vbs[index].oid, Rows)
     IN  \/ /\ r.res = "ok"
            /\ pc' = "call"
            /\ found' = r
            /\ UNCHANGED <<pass, index, skips, ctx>>
         \/ /\ r.res # "ok"
            /\ Finish("genErr", index)
            /\ UNCHANGED found
  /\ UNCHANGED <<mibVars, outcome, accepted, historyVars>>

\* Mutant: the setter's result is ignored.
CommitCallUnchecked ==
  /\ pc = "call"
  /\ pass = "commit"
  /\ CallSetter(found, ctx.vbs[index])
  /\ Turn("commit", index + 1)
  /\ UNCHANGED <<ctx, found, outcome, accepted, historyVars>>

\* ... and calls its setter; what earlier setters did is not undone.
CommitCall ==
  /\ pc = "call"
  /\ pass = "commit"
  /\ CallSetter(found, ctx.vbs[index])
  /\ \/ /\ SetResult(found, ctx.vbs[index]) = "ok"
        /\ Turn("commit", index + 1)
        /\ ctx' = ctx
     \/ /\ SetResult(found, ctx.vbs[index]) # "ok"
        /\ Finish("genErr", index)
  /\ UNCHANGED <<found, outcome, accepted, historyVars>>

\* Mutant: a response that just fills the buffer is thought too long.
ReplyOffByOne ==
  /\ pc = "reply"
  /\ pc' = "idle"
  /\ outcome' = IF EncodedLen(ctx.vbs) < OutCap THEN "sent" ELSE "dropped"
  /\ UNCHANGED <<mibVars, pass, index, skips, found, ctx, accepted, historyVars>>

\* Mutant: encoding is retried until the response fits.
ReplyRetrying ==
  /\ pc = "reply"
  /\ EncodedLen(ctx.vbs) <= OutCap
  /\ pc' = "idle"
  /\ outcome' = "sent"
  /\ UNCHANGED <<mibVars, pass, index, skips, found, ctx, accepted, historyVars>>

\* prepare_outgoing fails on a response that does not fit, and nothing is
\* sent; otherwise the UDP task sends it.
Reply ==
  /\ pc = "reply"
  /\ pc' = "idle"
  /\ outcome' = IF EncodedLen(ctx.vbs) <= OutCap THEN "sent" ELSE "dropped"
  /\ UNCHANGED <<mibVars, pass, index, skips, found, ctx, accepted, historyVars>>

-----------------------------------------------------------------------------
Agent == \/ Drop \/ Dispatch \/ PassEnds \/ ReadLookup \/ ReadCall
         \/ Validate \/ CommitLookup \/ CommitCall \/ Reply

Device ==
  /\ \/ /\ SensorsChange
        /\ rowsSeen' = IF pc = "idle" THEN rowsSeen
                       ELSE rowsSeen \cup {RowPattern[NextPhase]}
     \/ (FirstReading \/ WifiChanges) /\ UNCHANGED rowsSeen
  /\ UNCHANGED <<agentVars, request, base>>

Next == (\E r \in Requests : Receive(r)) \/ Agent \/ Device

\* The UDP task never stops running: it has no blocking call in mid-request.
Spec == Init /\ [][Next]_vars /\ WF_vars(Agent)

-----------------------------------------------------------------------------
(***************************************************************************)
(* Properties.                                                             *)
(***************************************************************************)
Answered == pc = "idle" /\ outcome = "sent"

\* What a manager can read of the writable objects.
Visible(s) == [field |-> s.field, label |-> [n \in Sensors |-> LabelOf(s.label[n])]]

\* A Set answered in any way, and a v1 request answered with an error, carry
\* the varbinds of the request unchanged (RFC 1157 4.1.5; snmp_pdu_get.c
\* pass 1 and snmp_pdu_set.c), whatever the table did in the meantime.
EchoesRequest ==
  Answered /\ (request.pdu = "set" \/ (ctx.version = "v1" /\ ctx.errStatus # "noError"))
    => ctx.vbs = request.vbs

\* Validate's verdict on a varbind when the table has `rows' rows.
Acceptable(vb, rows) == Validation(Resolve(vb.oid, rows), vb) = "ok"

\* The index of an error names the varbind that failed: one that was bad at
\* some instant of the request, while every varbind before it was good at
\* some instant (first failure wins, snmp_pdu_set.c).
SetErrorNamesFirstFailure ==
  Answered /\ request.pdu = "set" /\ ctx.errStatus \notin {"noError", "genErr"} =>
    /\ ctx.errIndex \in DOMAIN request.vbs
    /\ \E n \in rowsSeen : ~Acceptable(request.vbs[ctx.errIndex], n)
    /\ \A k \in 1 .. ctx.errIndex - 1 : \E n \in rowsSeen : Acceptable(request.vbs[k], n)

\* Which of the first k varbinds write the scalar o, and the label of row n.
FieldWrites(vbs, k, o) == {i \in 1 .. k : vbs[i].oid = o}
LabelWrites(vbs, k, n) ==
  {i \in 1 .. k : LET r == Resolve(vbs[i].oid, SensorMax)
                  IN  r.accessor = "sensorLabel" /\ r.row = n}

\* What the last one of `writes' leaves in a place that held `old'.
LastValue(vbs, writes, old) == IF writes = {} THEN old ELSE vbs[Max(writes)].val

\* The writable objects after the first k varbinds have been written.
WrittenPrefix(s, vbs, k) ==
  [s EXCEPT
     !.field = [o \in Fields |-> LastValue(vbs, FieldWrites(vbs, k, o), s.field[o])],
     !.label = [n \in Sensors |-> LastValue(vbs, LabelWrites(vbs, k, n), s.label[n])]]

\* How many varbinds of a concluded Set took effect: none if validation
\* refused it, those before the failing one if a setter did, else all.
Applied ==
  IF ctx.errStatus = "noError" THEN Len(request.vbs)
  ELSE IF ctx.errStatus = "genErr" THEN ctx.errIndex - 1
  ELSE 0

\* The error status and index of a Set tell the manager exactly what was
\* written: the two passes never leave any other subset behind, for any
\* change of the table during the request (snmp_pdu_set.c pass 2).
SetWritesPrefix ==
  Answered /\ request.pdu = "set" =>
    Visible(Store) = Visible(WrittenPrefix(base, request.vbs, Applied))

\* Only the commit pass of a Set changes what a manager can read, and only
\* once every varbind of the request has passed validation; a Get, GetNext
\* or refused Set never does (label_for may fill an empty slot, which no
\* manager can see).
OnlyValidatedSetsWrite ==
  [][Visible(Store)' # Visible(Store) =>
       /\ pass = "commit"
       /\ request.access = "readwrite"
       /\ \A k \in DOMAIN request.vbs : \E n \in rowsSeen : Acceptable(request.vbs[k], n)]_vars

\* A Set that may be answered is answered: its response is as long as the
\* request, which came in a datagram (snmp_message.c drops what is longer).
SetIsAnswered ==
  pc = "idle" /\ request.pdu = "set" /\ outcome = "dropped" =>
    request.version = "v3" \/ request.access # "readwrite"

\* RFC 3416 4.2.1: the exception value that stands for a failed lookup.
ExceptionOf == [noSuchObject |-> "noSuchObject", noSuchInstance |-> "noSuchInstance"]

\* The answer a to the Get varbind q was true at some instant of the request.
GetWasTrue(q, a) ==
  /\ a.oid = q.oid
  /\ \E n \in rowsSeen :
       LET r == Resolve(q.oid, n) IN
       IF r.res = "ok" THEN a.tag = r.tag ELSE a.tag = ExceptionOf[r.res]

\* So was the answer a to the GetNext varbind q: the least instance after q,
\* or none; noSuchInstance only if the row set changed underneath.
GetNextWasTrue(q, a) ==
  \/ \E n \in rowsSeen :
       LET r == ResolveNext(q.oid, n) IN
       IF r.res = "ok" THEN a.oid = r.oid /\ a.tag = r.tag
       ELSE a.oid = q.oid /\ a.tag = "endOfMibView"
  \/ a.oid = q.oid /\ a.tag = "noSuchInstance" /\ Cardinality(rowsSeen) > 1

\* Every varbind of a v2c response without an error reports what the MIB
\* held at some instant of the request, in particular that a walk always
\* moves forward and skips no row that was there throughout.
V2cAnswersWereTrue ==
  Answered /\ ctx.version = "v2c" /\ request.pdu \in {"get", "getnext"}
           /\ ctx.errStatus = "noError" =>
    \A k \in DOMAIN request.vbs :
      IF request.pdu = "get" THEN GetWasTrue(request.vbs[k], ctx.vbs[k])
      ELSE GetNextWasTrue(request.vbs[k], ctx.vbs[k])

\* A v1 manager is never shown a Counter64 but one of its own request, nor
\* told that the view ends while an instance it may see follows (RFC 2089;
\* lookup_and_fetch) -- as long as the row set stands still.
V1NeverSeesCounter64 ==
  Answered /\ ctx.version = "v1" /\ request.pdu \in {"get", "getnext"} =>
    /\ \A k \in DOMAIN ctx.vbs :
         ctx.vbs[k].tag = "counter64" => request.vbs[k].tag = "counter64"
    /\ ctx.errStatus = "noSuchName" /\ request.pdu = "getnext" /\ rowsSeen = {Rows} =>
         \A x \in Instances(Rows) :
           OidLess(request.vbs[ctx.errIndex].oid, x) => Resolve(x, Rows).tag = "counter64"

\* The temperature values in the response for sensor s.
Delivered(s) == Deliveries(ctx.vbs, Len(ctx.vbs), s)

\* A read that carries no values of its own, which a response might repeat.
AsksOnly ==
  /\ request.pdu \in {"get", "getnext"}
  /\ \A k \in DOMAIN request.vbs : request.vbs[k].tag \notin ValueTags

\* Each v2c read of a temperature is counted exactly once, and no reading
\* is ever delivered uncounted (mib_sensor_table.c get_cell).
ReadsAreCounted ==
  Answered /\ AsksOnly =>
    \A s \in Sensors :
      LET counted == readCount[s] - base.readCount[s]
      IN  counted >= Delivered(s) /\ (ctx.version = "v2c" => counted = Delivered(s))

\* Every request is answered or dropped, however often the table changes.
EveryRequestConcludes == pc # "idle" ~> pc = "idle"

-----------------------------------------------------------------------------
(***************************************************************************)
(* The agent as an all-or-nothing service.  Until its response is sent, a  *)
(* Set that is being committed counts as not yet done.                     *)
(***************************************************************************)
Effect(s, r) ==
  IF r.pdu = "set" THEN Visible(WrittenPrefix(s, r.vbs, Len(r.vbs))) ELSE s

ObjectsSeen == IF pc = "idle" THEN Visible(Store) ELSE Visible(base)

Verdict ==
  IF outcome = "none" THEN "none"
  ELSE IF outcome = "sent" /\ ctx.errStatus = "noError" THEN "success"
  ELSE "refused"

Service == INSTANCE SetService WITH
  Boot <- [field |-> BootValue, label |-> [n \in Sensors |-> DefaultLabel]],
  objects <- ObjectsSeen,
  pending <- request,
  verdict <- Verdict

\* As long as no row appears or disappears, a request acts on the writable
\* objects atomically: all of its varbinds or none, and the manager is told
\* which (snmp_pdu_set.c, both passes).
ActsAtomically == Service!Spec

-----------------------------------------------------------------------------
(***************************************************************************)
(* What comments and documents of the repository say, which the runs named *)
(* in the README refute.                                                   *)
(***************************************************************************)

\* snmp_pdu_get.c:88-90, "pass 1 already guarantees every one succeeds": a
\* v1 response without an error carries a value in every varbind.
V1SecondPassSucceeds ==
  Answered /\ ctx.version = "v1" /\ request.pdu \in {"get", "getnext"}
           /\ ctx.errStatus = "noError" =>
    \A k \in DOMAIN ctx.vbs : ctx.vbs[k].tag \in ValueTags

\* docs/architecture.md:124-125, "all-or-nothing SET semantics".
SetIsAllOrNothing ==
  Answered /\ request.pdu = "set" /\ ctx.errStatus # "noError" =>
    Visible(Store) = Visible(base)
=============================================================================
