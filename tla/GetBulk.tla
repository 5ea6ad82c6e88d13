------------------------------ MODULE GetBulk -------------------------------
(***************************************************************************)
(* A GetBulkRequest through snmp_pdu_handle_getbulk, one registry lookup   *)
(* or one getter call per step.  The response grows from the front of the  *)
(* array that still holds the request, rounds of the repeating varbinds    *)
(* after the non-repeaters; sensor rows may come and go in between.        *)
(***************************************************************************)
EXTENDS WespeMib, SnmpPdu

CONSTANTS
  Requests,      \* the decoded requests a manager may send
  MaxVarbinds,   \* SNMP_MAX_VARBINDS: what the array holds
  MaxRepeating,  \* SNMP_MAX_REPEATING_COLUMNS
  OutCap,        \* SNMP_MAX_PACKET_LEN
  MaxRequests    \* bound of the runs

VARIABLES
  pc,            \* where the UDP task is
  repeating,     \* FALSE in the loop over the non-repeaters
  slot,          \* the varbind, or the repeater, it is at
  round,         \* rep + 1
  active,        \* any_active
  cursor,        \* one varbind per repeater
  exhausted,
  count,         \* resp_count
  vbs,           \* ctx->varbinds: response up to count, request after it
  found,         \* what the registry resolved
  outcome,       \* what became of the last request
  accepted,      \* number of requests so far
  request, base, rowsSeen   \* history: the request, the read counters it
                            \* found, the row counts since it arrived

bulkVars == <<pc, repeating, slot, round, active, cursor, exhausted, count, vbs,
              found, outcome, accepted>>
historyVars == <<request, base, rowsSeen>>
vars == <<mibVars, bulkVars, historyVars>>

\* non-repeaters and max-repetitions as decoded: they may be negative.
RequestType == [version : {"v1", "v2c"}, nonRepeaters : Int, maxRepetitions : Int,
                vbs : Seq(Varbinds)]

ASSUME BulkAssumption ==
  /\ Requests \subseteq RequestType
  /\ MaxVarbinds \in Nat \ {0}
  /\ MaxRepeating \in Nat \ {0}
  /\ \A r \in Requests : Len(r.vbs) <= MaxVarbinds /\ EncodedLen(r.vbs) <= OutCap
  /\ MaxRequests \in Nat

Smaller(a, b) == IF a < b THEN a ELSE b
NotNegative(n) == IF n < 0 THEN 0 ELSE n

\* The handler's three bounds.
NonRepeaters == Smaller(NotNegative(request.nonRepeaters), Len(request.vbs))
MaxRounds == NotNegative(request.maxRepetitions)

\* Mutant: the clamp to the size of cursor[] is forgotten.
RepeatersUnclamped == Len(request.vbs) - NonRepeaters

Repeaters == Smaller(Len(request.vbs) - NonRepeaters, MaxRepeating)

EmptyRequest == [version |-> "v2c", nonRepeaters |-> 0, maxRepetitions |-> 0, vbs |-> <<>>]

TypeOK ==
  /\ MibTypeOK
  /\ pc \in {"idle", "fetch", "call", "reply"}
  /\ repeating \in BOOLEAN
  /\ slot \in Nat \ {0}
  /\ round \in Nat \ {0}
  /\ active \in BOOLEAN
  /\ cursor \in Seq(Varbinds) /\ Len(cursor) <= MaxRepeating
  /\ exhausted \in [DOMAIN cursor -> BOOLEAN]
  /\ count \in 0 .. MaxVarbinds
  /\ vbs \in Seq(Varbinds) /\ Len(vbs) <= MaxVarbinds
  /\ found \in Resolved
  /\ outcome \in {"none", "sent", "dropped"}
  /\ accepted \in Nat
  /\ request \in RequestType
  /\ base \in [Sensors -> Nat]
  /\ rowsSeen \subseteq Sensors

Init ==
  /\ MibInit
  /\ pc = "idle"
  /\ repeating = FALSE
  /\ slot = 1
  /\ round = 1
  /\ active = FALSE
  /\ cursor = <<>>
  /\ exhausted = <<>>
  /\ count = 0
  /\ vbs = <<>>
  /\ found = Miss("endOfView")
  /\ outcome = "none"
  /\ accepted = 0
  /\ request = EmptyRequest
  /\ base = readCount
  /\ rowsSeen = {Rows}

-----------------------------------------------------------------------------
\* A v1 message with this PDU is dropped before anything is looked up.
Receive(r) ==
  /\ pc = "idle"
  /\ accepted < MaxRequests
  /\ accepted' = accepted + 1
  /\ request' = r
  /\ base' = readCount
  /\ rowsSeen' = {Rows}
  /\ repeating' = FALSE
  /\ slot' = 1
  /\ round' = 1
  /\ active' = FALSE
  /\ cursor' = <<>>
  /\ exhausted' = <<>>
  /\ count' = 0
  /\ vbs' = r.vbs
  /\ IF r.version = "v2c" THEN pc' = "fetch" /\ outcome' = "none"
     ELSE pc' = "idle" /\ outcome' = "dropped"
  /\ UNCHANGED <<mibVars, found>>

\* The varbind append_result writes for `result' where the walk is at `current'.
AppendedVarbind(current, result, fetched) ==
  LET tr == Translate("v2c", result)
  IN  IF tr.abort THEN Exceptional(current, "endOfMibView")
      ELSE IF tr.exception # NoException THEN Exceptional(current, tr.exception)
      ELSE fetched

\* append_result: the array with the next response varbind set, which may be
\* one of the request or a place after its end.
Appended(current, result, fetched) ==
  [i \in 1 .. (IF count < Len(vbs) THEN Len(vbs) ELSE count + 1) |->
     IF i = count + 1 THEN AppendedVarbind(current, result, fetched) ELSE vbs[i]]

\* done: the first n varbinds of the array are the response.
Finish(n, array) ==
  /\ pc' = "reply"
  /\ count' = n
  /\ vbs' = SubSeq(array, 1, n)

\* What a getter that succeeds leaves in `fetched'.
Fetched == [oid |-> found.oid, tag |-> found.tag, val |-> GetValue(found)]

-----------------------------------------------------------------------------
\* The non-repeating varbinds.  Here slot is count + 1, so the array never
\* fills up and a varbind is overwritten only by its own answer.
FirstTurn(result, fetched) ==
  /\ vbs' = Appended(vbs[slot], result, fetched)
  /\ count' = count + 1
  /\ slot' = slot + 1
  /\ pc' = "fetch"

FirstLookup ==
  /\ pc = "fetch"
  /\ ~repeating
  /\ slot <= NonRepeaters
  /\ \E r \in {ResolveNext(vbs[slot].oid, Rows)} :
       \/ /\ r.res = "ok"
          /\ pc' = "call"
          /\ found' = r
          /\ UNCHANGED <<slot, count, vbs>>
       \/ /\ r.res # "ok"
          /\ FirstTurn(r.res, vbs[slot])
          /\ UNCHANGED found
  /\ UNCHANGED <<mibVars, repeating, round, active, cursor, exhausted, outcome,
                 accepted, historyVars>>

FirstCall ==
  /\ pc = "call"
  /\ ~repeating
  /\ CallGetter(found)
  /\ FirstTurn(GetResult(found), Fetched)
  /\ UNCHANGED <<repeating, round, active, cursor, exhausted, found, outcome,
                 accepted, historyVars>>

\* The cursors are copies: the rounds overwrite the request they start from.
StartRounds ==
  /\ pc = "fetch"
  /\ ~repeating
  /\ slot > NonRepeaters
  /\ \/ /\ Repeaters > 0 /\ MaxRounds > 0
        /\ repeating' = TRUE
        /\ slot' = 1
        /\ cursor' = [k \in 1 .. Repeaters |-> vbs[NonRepeaters + k]]
        /\ exhausted' = [k \in 1 .. Repeaters |-> FALSE]
        /\ UNCHANGED <<pc, count, vbs>>
     \/ /\ Repeaters = 0 \/ MaxRounds = 0
        /\ Finish(count, vbs)
        /\ UNCHANGED <<repeating, slot, cursor, exhausted>>
  /\ UNCHANGED <<mibVars, round, active, found, outcome, accepted, historyVars>>

-----------------------------------------------------------------------------
\* Mutant: any_active is declared outside the loop over the rounds.
RoundTurnSticky(result, current, fetched) ==
  LET array == Appended(current, result, fetched)
      anyActive == active \/ result = "ok"
      over == ~anyActive \/ round = MaxRounds
  IN  \/ /\ count = MaxVarbinds
         /\ Finish(count, vbs)
         /\ UNCHANGED <<slot, round, active>>
      \/ /\ count < MaxVarbinds
         /\ slot < Repeaters \/ ~over
         /\ pc' = "fetch"
         /\ count' = count + 1
         /\ vbs' = array
         /\ slot' = IF slot < Repeaters THEN slot + 1 ELSE 1
         /\ round' = IF slot < Repeaters THEN round ELSE round + 1
         /\ active' = anyActive
      \/ /\ count < MaxVarbinds
         /\ slot = Repeaters /\ over
         /\ Finish(count + 1, array)
         /\ UNCHANGED <<slot, round, active>>

\* The end of a turn of the inner loop: nothing more fits, and the answer in
\* hand is lost; the next repeater or the next round; or all rounds are over,
\* early if every repeater came to its end in this one.
RoundTurn(result, current, fetched) ==
  LET array == Appended(current, result, fetched)
      anyActive == active \/ result = "ok"
      over == ~anyActive \/ round = MaxRounds
  IN  \/ /\ count = MaxVarbinds
         /\ Finish(count, vbs)
         /\ UNCHANGED <<slot, round, active>>
      \/ /\ count < MaxVarbinds
         /\ slot < Repeaters \/ ~over
         /\ pc' = "fetch"
         /\ count' = count + 1
         /\ vbs' = array
         /\ slot' = IF slot < Repeaters THEN slot + 1 ELSE 1
         /\ round' = IF slot < Repeaters THEN round ELSE round + 1
         /\ active' = (slot < Repeaters /\ anyActive)
      \/ /\ count < MaxVarbinds
         /\ slot = Repeaters /\ over
         /\ Finish(count + 1, array)
         /\ UNCHANGED <<slot, round, active>>

\* Mutant: the walk goes on from the array, which the rounds overwrite.
WalkOidInPlace == vbs[NonRepeaters + slot].oid

WalkOid == cursor[slot].oid

RoundLookup ==
  /\ pc = "fetch"
  /\ repeating
  /\ \/ /\ exhausted[slot]
        /\ RoundTurn("endOfView", cursor[slot], cursor[slot])
        /\ UNCHANGED <<exhausted, found>>
     \/ /\ ~exhausted[slot]
        /\ \E r \in {ResolveNext(WalkOid, Rows)} :
             \/ /\ r.res = "ok"
                /\ pc' = "call"
                /\ found' = r
                /\ UNCHANGED <<slot, round, active, exhausted, count, vbs>>
             \/ /\ r.res # "ok"
                /\ RoundTurn(r.res, cursor[slot], cursor[slot])
                /\ exhausted' = [exhausted EXCEPT ![slot] = TRUE]
                /\ UNCHANGED found
  /\ UNCHANGED <<mibVars, repeating, cursor, outcome, accepted, historyVars>>

\* A getter that fails exhausts its repeater just as the end of the view does.
RoundCall ==
  /\ pc = "call"
  /\ repeating
  /\ CallGetter(found)
  /\ RoundTurn(GetResult(found), cursor[slot], Fetched)
  /\ \/ /\ GetResult(found) = "ok"
        /\ cursor' = [cursor EXCEPT ![slot] = Fetched]
        /\ UNCHANGED exhausted
     \/ /\ GetResult(found) # "ok"
        /\ exhausted' = [exhausted EXCEPT ![slot] = TRUE]
        /\ UNCHANGED cursor
  /\ UNCHANGED <<repeating, found, outcome, accepted, historyVars>>

-----------------------------------------------------------------------------
\* Mutant: encoding is retried until the response fits.
ReplyRetrying ==
  /\ pc = "reply"
  /\ EncodedLen(vbs) <= OutCap
  /\ pc' = "idle"
  /\ outcome' = "sent"
  /\ UNCHANGED <<mibVars, repeating, slot, round, active, cursor, exhausted, count,
                 vbs, found, accepted, historyVars>>

\* prepare_outgoing fails on a response that does not fit, and it is dropped.
Reply ==
  /\ pc = "reply"
  /\ pc' = "idle"
  /\ outcome' = IF EncodedLen(vbs) <= OutCap THEN "sent" ELSE "dropped"
  /\ UNCHANGED <<mibVars, repeating, slot, round, active, cursor, exhausted, count,
                 vbs, found, accepted, historyVars>>

Agent == \/ FirstLookup \/ FirstCall \/ StartRounds \/ RoundLookup \/ RoundCall
         \/ Reply

Device ==
  /\ \/ /\ SensorsChange
        /\ rowsSeen' = IF pc = "idle" THEN rowsSeen
                       ELSE rowsSeen \cup {RowPattern[NextPhase]}
     \/ (FirstReading \/ WifiChanges) /\ UNCHANGED rowsSeen
  /\ UNCHANGED <<bulkVars, request, base>>

Next == (\E r \in Requests : Receive(r)) \/ Agent \/ Device

\* The UDP task never stops running: it has no blocking call in mid-request.
Spec == Init /\ [][Next]_vars /\ WF_vars(Agent)

-----------------------------------------------------------------------------
(***************************************************************************)
(* Properties.                                                             *)
(***************************************************************************)
Answered == pc = "idle" /\ outcome = "sent"

IsValue(vb) == vb.tag \in ValueTags

\* The varbind that response varbind k goes on from: that of the request, or
\* the one of the same repeater a round earlier.
Predecessor(k) ==
  IF k <= NonRepeaters + Repeaters THEN request.vbs[k] ELSE vbs[k - Repeaters]

\* A value is the least instance after its predecessor at some instant of the
\* request; anything else repeats the predecessor's OID, and so does all that
\* follows it.  A walk by GetBulk thus never skips a row, turns back or goes
\* on past an exception, though the response overwrites the request it reads
\* and the rows come and go (snmp_pdu_getbulk.c append_result, cursor[]).
WalkSkipsNothing ==
  Answered =>
    \A k \in DOMAIN vbs :
      IF IsValue(vbs[k])
      THEN /\ k > NonRepeaters + Repeaters => IsValue(Predecessor(k))
           /\ \E n \in rowsSeen :
                LET r == ResolveNext(Predecessor(k).oid, n)
                IN  r.res = "ok" /\ vbs[k].oid = r.oid /\ vbs[k].tag = r.tag
      ELSE vbs[k].oid = Predecessor(k).oid

\* The response varbinds of round n.
Round(n) == NonRepeaters + Repeaters * (n - 1) + 1 .. NonRepeaters + Repeaters * n

\* Every non-repeater is answered, then round after round is complete, unless
\* the array is full; rounds stop at max-repetitions or after the first one
\* without a value, and never before (the two break conditions).
RoundsAreComplete ==
  Answered =>
    LET size == Len(vbs)
        full == size = MaxVarbinds
        rounds == IF Repeaters = 0 THEN 0 ELSE (size - NonRepeaters) \div Repeaters
        idle == {n \in 1 .. rounds : \A k \in Round(n) : ~IsValue(vbs[k])}
    IN  /\ full \/ size = NonRepeaters + Repeaters * rounds
        /\ rounds <= MaxRounds
        /\ full \/ Repeaters = 0 \/ rounds = MaxRounds \/ rounds \in idle
        /\ \A n \in idle : n = rounds /\ size = NonRepeaters + Repeaters * rounds

\* The temperature values in the response for sensor s.
Delivered(s) == Deliveries(vbs, Len(vbs), s)

\* Every temperature delivered was counted, and at most one was counted that
\* is not delivered: the one read when the array turned out to be full.
ReadsAreCounted ==
  Answered =>
    LET lost == {s \in Sensors : readCount[s] - base[s] # Delivered(s)}
    IN  /\ Cardinality(lost) <= 1
        /\ lost # {} => Len(vbs) = MaxVarbinds
        /\ \A s \in lost : readCount[s] - base[s] = Delivered(s) + 1

\* Every request is answered or dropped, whatever max-repetitions asks for.
EveryBulkConcludes == pc # "idle" ~> pc = "idle"
=============================================================================
