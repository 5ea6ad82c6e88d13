--------------------------- MODULE GetBulkProofs ----------------------------
(***************************************************************************)
(* Theorems about GetBulk, for every MIB, every request and every size of  *)
(* the varbind and cursor arrays.                                          *)
(***************************************************************************)
EXTENDS GetBulk, MibProofs

Busy == pc \in {"fetch", "call"}

\* The handler writes at the end of the response, within the array, and at
\* the cursor of an existing repeater.
Shape ==
  /\ count <= Len(vbs)
  /\ Len(request.vbs) <= Len(vbs)
  /\ ~repeating =>
       /\ slot = count + 1
       /\ count <= NonRepeaters
       /\ pc = "call" => slot <= NonRepeaters
  /\ repeating => Len(cursor) = Repeaters /\ slot <= Repeaters

TypeInv ==
  /\ TypeOK
  /\ WellResolved(found)
  /\ Len(request.vbs) <= MaxVarbinds
  /\ Busy => Shape

\* The bounds the handler computes stay within the request and cursor[].
LEMMA Bounds ==
  ASSUME request \in RequestType
  PROVE  /\ Len(request.vbs) \in Nat
         /\ NonRepeaters \in Nat /\ Repeaters \in Nat /\ MaxRounds \in Nat
         /\ NonRepeaters + Repeaters <= Len(request.vbs)
         /\ Repeaters <= MaxRepeating
<1>1. /\ Len(request.vbs) \in Nat /\ request.nonRepeaters \in Int
      /\ request.maxRepetitions \in Int /\ MaxRepeating \in Nat
  BY BulkAssumption DEF RequestType
<1> QED
  BY <1>1 DEF NonRepeaters, Repeaters, MaxRounds, Smaller, NotNegative

\* A fetch that fails answers with the OID it went on from, and no value.
LEMMA AppendedVarbindType ==
  ASSUME NEW current \in Varbinds, NEW result \in Results, NEW fetched,
         result = "ok" => fetched \in Varbinds
  PROVE  LET a == AppendedVarbind(current, result, fetched) IN
         /\ a \in Varbinds
         /\ result = "ok" => a = fetched
         /\ result # "ok" => a.oid = current.oid /\ a.tag \notin ValueTags
<1> DEFINE tr == Translate("v2c", result)
           a == AppendedVarbind(current, result, fetched)
<1>1. /\ tr.abort \in BOOLEAN /\ tr.exception \in Exceptions \cup {NoException}
      /\ ~tr.abort /\ tr.exception = NoException => result = "ok"
      /\ result = "ok" => ~tr.abort /\ tr.exception = NoException
  BY TranslateType
<1>2. ASSUME NEW e \in Exceptions
      PROVE  /\ Exceptional(current, e) \in Varbinds
             /\ Exceptional(current, e).oid = current.oid
             /\ Exceptional(current, e).tag \notin ValueTags
  BY <1>2 DEF Exceptional, Varbinds, VarbindTags, Exceptions, ValueTags
<1>3. "endOfMibView" \in Exceptions
  BY DEF Exceptions
<1>4. a = IF tr.abort THEN Exceptional(current, "endOfMibView")
          ELSE IF tr.exception # NoException THEN Exceptional(current, tr.exception)
          ELSE fetched
  BY DEF AppendedVarbind
<1> HIDE DEF tr, a
<1> QED BY <1>1, <1>2, <1>3, <1>4 DEF a

\* append_result writes one varbind and keeps the others.
LEMMA AppendedType ==
  ASSUME TypeInv, Busy, count < MaxVarbinds,
         NEW current \in Varbinds, NEW result \in Results, NEW fetched,
         result = "ok" => fetched \in Varbinds
  PROVE  LET array == Appended(current, result, fetched) IN
         /\ array \in Seq(Varbinds)
         /\ Len(array) <= MaxVarbinds /\ Len(vbs) <= Len(array) /\ count + 1 <= Len(array)
         /\ array[count + 1] = AppendedVarbind(current, result, fetched)
         /\ \A k \in 1 .. Len(array) : k # count + 1 => array[k] = vbs[k]
         /\ Len(array) # Len(vbs) => Len(array) = count + 1 /\ Len(vbs) = count
<1> DEFINE size == IF count < Len(vbs) THEN Len(vbs) ELSE count + 1
           answer == AppendedVarbind(current, result, fetched)
           array == [i \in 1 .. size |-> IF i = count + 1 THEN answer ELSE vbs[i]]
<1>1. Appended(current, result, fetched) = array
  BY DEF Appended
<1>2. answer \in Varbinds
  BY AppendedVarbindType
<1>3. /\ count \in Nat /\ count <= Len(vbs) /\ Len(vbs) \in Nat /\ Len(vbs) <= MaxVarbinds
      /\ vbs \in Seq(Varbinds) /\ MaxVarbinds \in Nat
  BY BulkAssumption DEF TypeInv, TypeOK, Shape
<1>4. /\ size \in Nat /\ size <= MaxVarbinds /\ Len(vbs) <= size /\ count + 1 <= size
      /\ size # Len(vbs) => size = count + 1 /\ Len(vbs) = count
  BY <1>3
<1>5. \A i \in 1 .. size : i # count + 1 => i \in 1 .. Len(vbs)
  BY <1>3, <1>4
<1> HIDE DEF size, answer
<1>6. \A i \in 1 .. size : array[i] \in Varbinds
  BY <1>2, <1>3, <1>5
<1>7. array \in Seq(Varbinds) /\ Len(array) = size
  BY <1>4, <1>6
<1>8. count + 1 \in 1 .. size
  BY <1>3, <1>4
<1> QED BY <1>1, <1>4, <1>7, <1>8 DEF answer

LEMMA InitType == Init => TypeInv
<1> SUFFICES ASSUME Init PROVE TypeInv
  OBVIOUS
<1>1. MibTypeOK
  BY DeviceAssumption DEF Init, MibInit, MibTypeOK, EmptyString, Sensors
<1>2. Rows \in Sensors
  BY <1>1, RowsType
<1>3. EmptyRequest \in RequestType /\ EmptyRequest.vbs = <<>>
  BY DEF EmptyRequest, RequestType
<1>4. WellResolved(found)
  BY DEF Init, Miss, WellResolved, Resolved, Oid, Results, ValueTags, Accessors,
         ScalarAccessors, SensorAccessors
<1>5. base \in [Sensors -> Nat]
  BY <1>1 DEF Init, MibTypeOK
<1>6. /\ cursor \in Seq(Varbinds) /\ Len(cursor) = 0 /\ vbs \in Seq(Varbinds) /\ Len(vbs) = 0
      /\ exhausted \in [DOMAIN cursor -> BOOLEAN] /\ ~Busy
  BY DEF Init, Busy
<1>7. MaxVarbinds \in Nat /\ MaxRepeating \in Nat
  BY BulkAssumption
<1>8. /\ pc = "idle" /\ repeating = FALSE /\ slot = 1 /\ round = 1 /\ active = FALSE
      /\ count = 0 /\ outcome = "none" /\ accepted = 0 /\ request = EmptyRequest
      /\ rowsSeen = {Rows}
  BY DEF Init
<1>9. TypeOK
  <2>1. repeating \in BOOLEAN /\ active \in BOOLEAN
    BY <1>8, Zenon
  <2>2. /\ slot \in Nat \ {0} /\ round \in Nat \ {0} /\ count \in 0 .. MaxVarbinds
        /\ accepted \in Nat /\ rowsSeen \subseteq Sensors
        /\ Len(cursor) <= MaxRepeating /\ Len(vbs) <= MaxVarbinds
    BY <1>2, <1>6, <1>7, <1>8
  <2>3. /\ pc \in {"idle", "fetch", "call", "reply"} /\ outcome \in {"none", "sent", "dropped"}
        /\ found \in Resolved /\ request \in RequestType
    BY <1>3, <1>4, <1>8 DEF WellResolved
  <2> QED BY <1>1, <1>5, <1>6, <2>1, <2>2, <2>3, Zenon DEF TypeOK
<1>10. Len(request.vbs) <= MaxVarbinds
  BY <1>3, <1>7, <1>8
<1> QED
  BY <1>4, <1>6, <1>9, <1>10 DEF TypeInv

\* The turn of a non-repeater stays within the request.
LEMMA FirstTurnType ==
  ASSUME TypeInv, Busy, ~repeating, slot <= NonRepeaters, UNCHANGED <<request, repeating, cursor>>,
         NEW result \in Results, NEW fetched, result = "ok" => fetched \in Varbinds,
         FirstTurn(result, fetched)
  PROVE  /\ pc' = "fetch" /\ slot' \in Nat \ {0} /\ count' \in 0 .. MaxVarbinds
         /\ vbs' \in Seq(Varbinds) /\ Len(vbs') <= MaxVarbinds
         /\ Shape'
<1>1. /\ slot = count + 1 /\ count \in Nat /\ vbs \in Seq(Varbinds) /\ MaxVarbinds \in Nat
      /\ Len(request.vbs) <= Len(vbs) /\ request \in RequestType
      /\ Len(request.vbs) <= MaxVarbinds
  BY BulkAssumption DEF TypeInv, TypeOK, Shape
<1>2. NonRepeaters \in Nat /\ NonRepeaters <= Len(request.vbs) /\ Len(request.vbs) \in Nat
  BY <1>1, Bounds
<1>3. count < MaxVarbinds /\ vbs[slot] \in Varbinds
  BY <1>1, <1>2
<1>4. /\ vbs' \in Seq(Varbinds) /\ Len(vbs') <= MaxVarbinds
      /\ Len(vbs) <= Len(vbs') /\ count + 1 <= Len(vbs')
  BY <1>3, AppendedType DEF FirstTurn
<1>5. pc' = "fetch" /\ count' = count + 1 /\ slot' = slot + 1 /\ NonRepeaters' = NonRepeaters
  BY DEF FirstTurn, NonRepeaters
<1> QED BY <1>1, <1>2, <1>3, <1>4, <1>5 DEF Shape

\* The turn of a repeater stays within both arrays.
LEMMA RoundTurnType ==
  ASSUME TypeInv, Busy, repeating, UNCHANGED <<request, repeating>>, Len(cursor') = Len(cursor),
         NEW current \in Varbinds, NEW result \in Results, NEW fetched,
         result = "ok" => fetched \in Varbinds, RoundTurn(result, current, fetched)
  PROVE  /\ pc' \in {"fetch", "reply"} /\ slot' \in Nat \ {0} /\ round' \in Nat \ {0}
         /\ active' \in BOOLEAN /\ count' \in 0 .. MaxVarbinds
         /\ vbs' \in Seq(Varbinds) /\ Len(vbs') <= MaxVarbinds
         /\ pc' = "fetch" => Shape'
<1>1. /\ slot \in Nat \ {0} /\ slot <= Repeaters /\ count \in Nat /\ vbs \in Seq(Varbinds)
      /\ count <= MaxVarbinds /\ count <= Len(vbs) /\ Len(vbs) <= MaxVarbinds
      /\ Len(request.vbs) <= Len(vbs) /\ request \in RequestType /\ MaxVarbinds \in Nat
      /\ round \in Nat \ {0} /\ active \in BOOLEAN /\ Len(cursor) = Repeaters
  BY BulkAssumption DEF TypeInv, TypeOK, Shape
<1>2. Repeaters \in Nat /\ Len(request.vbs) \in Nat /\ Repeaters' = Repeaters
  BY <1>1, Bounds DEF Repeaters, NonRepeaters
<1> DEFINE array == Appended(current, result, fetched)
           anyActive == active \/ result = "ok"
           over == ~anyActive \/ round = MaxRounds
<1>3. count < MaxVarbinds =>
        /\ array \in Seq(Varbinds) /\ Len(array) <= MaxVarbinds
        /\ Len(vbs) <= Len(array) /\ count + 1 <= Len(array)
  BY AppendedType
<1>4. ASSUME NEW n \in 0 .. MaxVarbinds, NEW list \in Seq(Varbinds), n <= Len(list), Finish(n, list)
      PROVE  /\ pc' = "reply" /\ count' \in 0 .. MaxVarbinds
             /\ vbs' \in Seq(Varbinds) /\ Len(vbs') <= MaxVarbinds
  BY <1>1, <1>4 DEF Finish
<1>5. \/ Finish(count, vbs) /\ UNCHANGED <<slot, round, active>>
      \/ /\ count < MaxVarbinds /\ pc' = "fetch" /\ count' = count + 1 /\ vbs' = array
         /\ slot' = (IF slot < Repeaters THEN slot + 1 ELSE 1)
         /\ round' = (IF slot < Repeaters THEN round ELSE round + 1)
         /\ active' = (slot < Repeaters /\ anyActive)
      \/ count < MaxVarbinds /\ Finish(count + 1, array) /\ UNCHANGED <<slot, round, active>>
  BY Zenon DEF RoundTurn
<1> HIDE DEF array, anyActive, over
<1>6. CASE Finish(count, vbs) /\ UNCHANGED <<slot, round, active>>
  BY <1>1, <1>4, <1>6
<1>7. CASE count < MaxVarbinds /\ Finish(count + 1, array) /\ UNCHANGED <<slot, round, active>>
  <2>1. count + 1 \in 0 .. MaxVarbinds
    BY <1>1, <1>7
  <2>2. /\ pc' = "reply" /\ count' \in 0 .. MaxVarbinds
        /\ vbs' \in Seq(Varbinds) /\ Len(vbs') <= MaxVarbinds
    BY <1>3, <1>4, <1>7, <2>1
  <2> QED BY <1>1, <1>7, <2>2
<1>8. CASE /\ count < MaxVarbinds /\ pc' = "fetch" /\ count' = count + 1 /\ vbs' = array
           /\ slot' = (IF slot < Repeaters THEN slot + 1 ELSE 1)
           /\ round' = (IF slot < Repeaters THEN round ELSE round + 1)
           /\ active' = (slot < Repeaters /\ anyActive)
  <2>1. active' \in BOOLEAN
    BY <1>8, Zenon
  <2>2. /\ slot' \in Nat \ {0} /\ slot' <= Repeaters /\ round' \in Nat \ {0}
        /\ count' \in 0 .. MaxVarbinds /\ pc' = "fetch"
    BY <1>1, <1>2, <1>8
  <2>3. vbs' \in Seq(Varbinds) /\ Len(vbs') <= MaxVarbinds
        /\ count' <= Len(vbs') /\ Len(request.vbs) <= Len(vbs')
    BY <1>1, <1>2, <1>3, <1>8
  <2>4. Shape'
    BY <1>1, <1>2, <2>2, <2>3 DEF Shape
  <2> QED BY <2>1, <2>2, <2>3, <2>4
<1> QED BY <1>5, <1>6, <1>7, <1>8

LEMMA FoundVarbind ==
  ASSUME TypeInv, CallGetter(found)
  PROVE  /\ MibTypeOK' /\ GetResult(found) \in Results
         /\ GetResult(found) = "ok" => Fetched \in Varbinds
<1>1. /\ MibTypeOK /\ WellResolved(found) /\ found \in Resolved
  BY DEF TypeInv, TypeOK
<1>2. /\ MibTypeOK' /\ GetResult(found) \in Results
      /\ GetResult(found) = "ok" => GetValue(found) \in Nat
  BY <1>1, GetterType
<1> QED BY <1>1, <1>2 DEF Fetched, Varbinds, VarbindTags, Resolved

\* Every step keeps the type invariant.
LEMMA StepType == TypeInv /\ [Next]_vars => TypeInv'
<1> SUFFICES ASSUME TypeInv, [Next]_vars PROVE TypeInv'
  OBVIOUS
<1>1. /\ MibTypeOK /\ WellResolved(found) /\ request \in RequestType
      /\ slot \in Nat \ {0} /\ cursor \in Seq(Varbinds)
      /\ Len(cursor) <= MaxRepeating /\ exhausted \in [DOMAIN cursor -> BOOLEAN]
      /\ vbs \in Seq(Varbinds) /\ count \in 0 .. MaxVarbinds /\ Len(vbs) <= MaxVarbinds
      /\ rowsSeen \subseteq Sensors /\ MaxVarbinds \in Nat /\ accepted \in Nat
      /\ Len(request.vbs) <= MaxVarbinds
  BY BulkAssumption DEF TypeInv, TypeOK
<1>2. Rows \in Sensors /\ Rows \in Nat
  BY <1>1, RowsType
<1>3. ASSUME UNCHANGED mibVars PROVE MibTypeOK'
  BY <1>1, <1>3 DEF mibVars, MibTypeOK
<1>4. /\ Len(request.vbs) \in Nat /\ NonRepeaters \in Nat /\ Repeaters \in Nat
      /\ NonRepeaters + Repeaters <= Len(request.vbs) /\ Repeaters <= MaxRepeating
  BY <1>1, Bounds
<1>5. ASSUME MibTypeOK', WellResolved(found)', UNCHANGED <<historyVars, accepted>>,
             outcome' \in {"none", "sent", "dropped"},
             pc' \in {"idle", "fetch", "call", "reply"}, repeating' \in BOOLEAN,
             slot' \in Nat \ {0}, round' \in Nat \ {0}, active' \in BOOLEAN,
             cursor' \in Seq(Varbinds), Len(cursor') <= MaxRepeating,
             exhausted' \in [DOMAIN cursor' -> BOOLEAN], count' \in 0 .. MaxVarbinds,
             vbs' \in Seq(Varbinds), Len(vbs') <= MaxVarbinds,
             Busy' => Shape'
      PROVE  TypeInv'
  <2>1. UNCHANGED <<request, base, rowsSeen, accepted>>
    BY <1>5 DEF historyVars
  <2>2. found' \in Resolved
    BY <1>5 DEF WellResolved
  <2>3. accepted \in Nat /\ request \in RequestType /\ base \in [Sensors -> Nat]
        /\ rowsSeen \subseteq Sensors
    BY DEF TypeInv, TypeOK
  <2>4. TypeOK'
    BY <1>5, <2>1, <2>2, <2>3, Zenon DEF TypeOK
  <2>5. Len(request'.vbs) <= MaxVarbinds
    BY <1>1, <2>1
  <2> QED BY <1>5, <2>4, <2>5, Zenon DEF TypeInv
<1>6. /\ pc \in {"idle", "fetch", "call", "reply"} /\ repeating \in BOOLEAN
      /\ round \in Nat \ {0} /\ active \in BOOLEAN /\ outcome \in {"none", "sent", "dropped"}
  BY DEF TypeInv, TypeOK
<1>7. ASSUME NEW r \in Requests, Receive(r) PROVE TypeInv'
  <2>1. r \in RequestType /\ Len(r.vbs) <= MaxVarbinds /\ r.vbs \in Seq(Varbinds)
    BY <1>7, BulkAssumption DEF RequestType
  <2>2. MibTypeOK' /\ WellResolved(found)' /\ base' \in [Sensors -> Nat]
    BY <1>1, <1>3, <1>7 DEF Receive, MibTypeOK, WellResolved
  <2>3. /\ request' = r /\ vbs' = r.vbs /\ count' = 0 /\ slot' = 1 /\ round' = 1
        /\ repeating' = FALSE /\ active' = FALSE /\ accepted' = accepted + 1
        /\ pc' \in {"fetch", "idle"} /\ outcome' \in {"none", "dropped"}
        /\ rowsSeen' = {Rows} /\ cursor' = <<>> /\ exhausted' = <<>>
    BY <1>7 DEF Receive
  <2>4. cursor' \in Seq(Varbinds) /\ Len(cursor') = 0 /\ exhausted' \in [DOMAIN cursor' -> BOOLEAN]
    BY <2>3
  <2>5. Shape'
    <3>1. NonRepeaters' \in Nat /\ Len(r.vbs) \in Nat
      BY <2>1, <2>3 DEF NonRepeaters, Smaller, NotNegative, RequestType
    <3>2. ~repeating' /\ pc' # "call"
      BY <2>3
    <3> QED BY <2>1, <2>3, <3>1, <3>2 DEF Shape
  <2>6. repeating' \in BOOLEAN /\ active' \in BOOLEAN
    BY <2>3, Zenon
  <2>7. /\ slot' \in Nat \ {0} /\ round' \in Nat \ {0} /\ count' \in 0 .. MaxVarbinds
        /\ accepted' \in Nat /\ rowsSeen' \subseteq Sensors /\ Len(cursor') <= MaxRepeating
        /\ Len(vbs') <= MaxVarbinds /\ vbs' \in Seq(Varbinds) /\ request' \in RequestType
        /\ Len(request'.vbs) <= MaxVarbinds
    BY <1>1, <1>2, <2>1, <2>3, <2>4, BulkAssumption
  <2>8. pc' \in {"idle", "fetch", "call", "reply"} /\ outcome' \in {"none", "sent", "dropped"}
        /\ found' \in Resolved
    BY <2>2, <2>3 DEF WellResolved
  <2>9. TypeOK'
    BY <2>2, <2>4, <2>6, <2>7, <2>8, Zenon DEF TypeOK
  <2> QED BY <2>2, <2>5, <2>7, <2>9, Zenon DEF TypeInv
<1>8. CASE FirstLookup
  <2>1. /\ pc = "fetch" /\ ~repeating /\ slot <= NonRepeaters /\ Busy /\ Shape
        /\ UNCHANGED <<mibVars, repeating, round, active, cursor, exhausted, outcome,
                       accepted, historyVars, request>>
    BY <1>8 DEF FirstLookup, Busy, TypeInv, historyVars
  <2>2. vbs[slot] \in Varbinds /\ vbs[slot].oid \in Oid
    <3>1. slot \in 1 .. Len(vbs)
      BY <1>1, <1>4, <2>1 DEF Shape
    <3>2. vbs[slot] \in Varbinds
      BY <1>1, <3>1
    <3> QED BY <3>2 DEF Varbinds
  <2> DEFINE r == ResolveNext(vbs[slot].oid, Rows)
  <2>3. WellResolved(r) /\ r.res \in Results
    BY <1>2, <2>2, ResolveNextType DEF WellResolved, Results
  <2> HIDE DEF r
  <2>4. CASE r.res = "ok" /\ pc' = "call" /\ found' = r /\ UNCHANGED <<slot, count, vbs>>
    <3>1. Shape'
      BY <2>1, <2>4 DEF Shape, NonRepeaters, Repeaters
    <3>2. WellResolved(found)' /\ MibTypeOK'
      BY <1>3, <2>1, <2>3, <2>4 DEF WellResolved
    <3>3. UNCHANGED <<historyVars, accepted, outcome, repeating, round, active, cursor, exhausted,
                      slot, count, vbs>>
      BY <2>1, <2>4
    <3> QED BY <1>1, <1>5, <1>6, <2>4, <3>1, <3>2, <3>3, Zenon
  <2>5. CASE r.res # "ok" /\ FirstTurn(r.res, vbs[slot]) /\ UNCHANGED found
    <3>1. /\ pc' = "fetch" /\ slot' \in Nat \ {0} /\ count' \in 0 .. MaxVarbinds
          /\ vbs' \in Seq(Varbinds) /\ Len(vbs') <= MaxVarbinds /\ Shape'
      BY <2>1, <2>2, <2>3, <2>5, FirstTurnType
    <3>2. WellResolved(found)' /\ MibTypeOK'
      BY <1>1, <1>3, <2>1, <2>5 DEF WellResolved
    <3>3. UNCHANGED <<historyVars, accepted, outcome, repeating, round, active, cursor, exhausted>>
      BY <2>1
    <3> QED BY <1>1, <1>5, <1>6, <3>1, <3>2, <3>3, Zenon
  <2> QED BY <1>8, <2>4, <2>5 DEF FirstLookup, r
<1>9. CASE FirstCall
  <2>1. /\ pc = "call" /\ ~repeating /\ Busy /\ slot <= NonRepeaters
        /\ UNCHANGED <<repeating, round, active, cursor, exhausted, found, outcome,
                       accepted, historyVars, request>>
    BY <1>9 DEF FirstCall, Busy, TypeInv, Shape, historyVars
  <2>2. /\ MibTypeOK' /\ GetResult(found) \in Results
        /\ GetResult(found) = "ok" => Fetched \in Varbinds
    BY <1>9, FoundVarbind DEF FirstCall
  <2>3. /\ pc' = "fetch" /\ slot' \in Nat \ {0} /\ count' \in 0 .. MaxVarbinds
        /\ vbs' \in Seq(Varbinds) /\ Len(vbs') <= MaxVarbinds /\ Shape'
    BY <1>9, <2>1, <2>2, FirstTurnType DEF FirstCall
  <2>4. WellResolved(found)'
    BY <1>1, <2>1 DEF WellResolved
  <2>5. UNCHANGED <<historyVars, accepted, outcome, repeating, round, active, cursor, exhausted>>
    BY <2>1
  <2> QED BY <1>1, <1>5, <1>6, <2>2, <2>3, <2>4, <2>5, Zenon
<1>10. CASE StartRounds
  <2>1. /\ pc = "fetch" /\ ~repeating /\ Busy /\ Shape
        /\ UNCHANGED <<mibVars, round, active, found, outcome, accepted, historyVars, request>>
    BY <1>10 DEF StartRounds, Busy, TypeInv, historyVars
  <2>2. WellResolved(found)' /\ MibTypeOK'
    BY <1>1, <1>3, <2>1 DEF WellResolved
  <2>3. CASE /\ Repeaters > 0 /\ repeating' = TRUE /\ slot' = 1
             /\ cursor' = [k \in 1 .. Repeaters |-> vbs[NonRepeaters + k]]
             /\ exhausted' = [k \in 1 .. Repeaters |-> FALSE]
             /\ UNCHANGED <<pc, count, vbs>>
    <3>1. \A k \in 1 .. Repeaters : vbs[NonRepeaters + k] \in Varbinds
      <4> SUFFICES ASSUME NEW k \in 1 .. Repeaters PROVE vbs[NonRepeaters + k] \in Varbinds
        OBVIOUS
      <4>1. NonRepeaters + k \in 1 .. Len(vbs)
        BY <1>1, <1>4, <2>1 DEF Shape
      <4> QED BY <1>1, <4>1
    <3>2. cursor' \in Seq(Varbinds) /\ Len(cursor') = Repeaters /\ DOMAIN cursor' = 1 .. Repeaters
      BY <1>4, <2>3, <3>1
    <3>3. exhausted' \in [DOMAIN cursor' -> BOOLEAN]
      BY <2>3, <3>2
    <3>4. NonRepeaters' = NonRepeaters /\ Repeaters' = Repeaters
      BY <2>1 DEF NonRepeaters, Repeaters
    <3>5. Shape'
      BY <1>4, <2>1, <2>3, <3>2, <3>4 DEF Shape
    <3>6. repeating' \in BOOLEAN /\ slot' \in Nat \ {0} /\ Len(cursor') <= MaxRepeating
      BY <1>4, <2>3, <3>2
    <3>7. UNCHANGED <<historyVars, accepted, outcome, round, active, pc, count, vbs>>
      BY <2>1, <2>3
    <3> QED BY <1>1, <1>5, <1>6, <2>2, <3>2, <3>3, <3>5, <3>6, <3>7, Zenon
  <2>4. CASE Finish(count, vbs) /\ UNCHANGED <<repeating, slot, cursor, exhausted>>
    <3>1. /\ pc' = "reply" /\ count' = count /\ vbs' \in Seq(Varbinds) /\ Len(vbs') <= MaxVarbinds
      BY <1>1, <2>1, <2>4 DEF Finish, Shape
    <3>2. ~Busy'
      BY <3>1 DEF Busy
    <3>3. UNCHANGED <<historyVars, accepted, outcome, round, active, repeating, slot, cursor, exhausted>>
      BY <2>1, <2>4
    <3> QED BY <1>1, <1>5, <1>6, <2>2, <3>1, <3>2, <3>3, Zenon
  <2> QED BY <1>10, <2>3, <2>4 DEF StartRounds
<1>11. ASSUME repeating, Busy PROVE /\ slot \in DOMAIN cursor /\ cursor[slot] \in Varbinds
                                    /\ cursor[slot].oid \in Oid
  <2>1. slot \in 1 .. Len(cursor)
    BY <1>1, <1>4, <1>11 DEF TypeInv, Shape
  <2>2. cursor[slot] \in Varbinds
    BY <1>1, <2>1
  <2> QED BY <2>1, <2>2 DEF Varbinds
<1>12. ASSUME NEW k \in DOMAIN cursor
       PROVE  [exhausted EXCEPT ![k] = TRUE] \in [DOMAIN cursor -> BOOLEAN]
  BY <1>1
<1>13. CASE RoundLookup
  <2>1. /\ pc = "fetch" /\ repeating /\ Busy /\ Shape
        /\ UNCHANGED <<mibVars, repeating, cursor, outcome, accepted, historyVars, request>>
    BY <1>13 DEF RoundLookup, Busy, TypeInv, historyVars
  <2>2. MibTypeOK'
    BY <1>3, <2>1
  <2> DEFINE r == ResolveNext(WalkOid, Rows)
  <2>3. WellResolved(r) /\ r.res \in Results
    BY <1>2, <1>11, <2>1, ResolveNextType DEF WellResolved, Results, WalkOid
  <2> HIDE DEF r
  <2>4. ASSUME NEW result \in Results \ {"ok"}, RoundTurn(result, cursor[slot], cursor[slot]),
               exhausted' \in [DOMAIN cursor -> BOOLEAN], UNCHANGED found
        PROVE  TypeInv'
    <3>1. /\ pc' \in {"fetch", "reply"} /\ slot' \in Nat \ {0} /\ round' \in Nat \ {0}
          /\ active' \in BOOLEAN /\ count' \in 0 .. MaxVarbinds
          /\ vbs' \in Seq(Varbinds) /\ Len(vbs') <= MaxVarbinds
          /\ pc' = "fetch" => Shape'
      BY <1>11, <2>1, <2>4, RoundTurnType
    <3>2. WellResolved(found)'
      BY <1>1, <2>4 DEF WellResolved
    <3>3. UNCHANGED <<historyVars, accepted, outcome, repeating, cursor>>
      BY <2>1
    <3>4. /\ pc' \in {"idle", "fetch", "call", "reply"} /\ Busy' => Shape'
          /\ exhausted' \in [DOMAIN cursor' -> BOOLEAN]
      BY <2>4, <3>1, <3>3 DEF Busy
    <3> QED BY <1>1, <1>5, <1>6, <2>2, <3>1, <3>2, <3>3, <3>4, Zenon
  <2>5. CASE RoundTurn("endOfView", cursor[slot], cursor[slot]) /\ UNCHANGED <<exhausted, found>>
    BY <1>1, <2>4, <2>5 DEF Results
  <2>6. CASE r.res # "ok" /\ RoundTurn(r.res, cursor[slot], cursor[slot])
             /\ exhausted' = [exhausted EXCEPT ![slot] = TRUE] /\ UNCHANGED found
    BY <1>11, <1>12, <2>1, <2>3, <2>4, <2>6
  <2>7. CASE /\ r.res = "ok" /\ pc' = "call" /\ found' = r
             /\ UNCHANGED <<slot, round, active, exhausted, count, vbs>>
    <3>1. Shape'
      BY <2>1, <2>7 DEF Shape, NonRepeaters, Repeaters
    <3>2. WellResolved(found)'
      BY <2>3, <2>7 DEF WellResolved
    <3>3. UNCHANGED <<historyVars, accepted, outcome, repeating, cursor,
                      slot, round, active, exhausted, count, vbs>>
      BY <2>1, <2>7
    <3> QED BY <1>1, <1>5, <1>6, <2>2, <2>7, <3>1, <3>2, <3>3, Zenon
  <2> QED BY <1>13, <2>5, <2>6, <2>7 DEF RoundLookup, r
<1>14. CASE RoundCall
  <2>1. /\ pc = "call" /\ repeating /\ Busy /\ Shape
        /\ UNCHANGED <<repeating, found, outcome, accepted, historyVars, request>>
    BY <1>14 DEF RoundCall, Busy, TypeInv, historyVars
  <2>2. /\ MibTypeOK' /\ GetResult(found) \in Results
        /\ GetResult(found) = "ok" => Fetched \in Varbinds
    BY <1>14, FoundVarbind DEF RoundCall
  <2>3. slot \in DOMAIN cursor /\ cursor[slot] \in Varbinds
    BY <1>11, <2>1
  <2>4. /\ cursor' \in Seq(Varbinds) /\ Len(cursor') = Len(cursor)
        /\ exhausted' \in [DOMAIN cursor' -> BOOLEAN]
    <3>1. CASE GetResult(found) = "ok" /\ cursor' = [cursor EXCEPT ![slot] = Fetched]
               /\ UNCHANGED exhausted
      BY <1>1, <2>2, <2>3, <3>1
    <3>2. CASE exhausted' = [exhausted EXCEPT ![slot] = TRUE] /\ UNCHANGED cursor
      BY <1>1, <1>12, <2>3, <3>2
    <3> QED BY <1>14, <3>1, <3>2 DEF RoundCall
  <2>5. /\ pc' \in {"fetch", "reply"} /\ slot' \in Nat \ {0} /\ round' \in Nat \ {0}
        /\ active' \in BOOLEAN /\ count' \in 0 .. MaxVarbinds
        /\ vbs' \in Seq(Varbinds) /\ Len(vbs') <= MaxVarbinds
        /\ pc' = "fetch" => Shape'
    BY <1>14, <2>1, <2>2, <2>3, <2>4, RoundTurnType DEF RoundCall
  <2>6. WellResolved(found)'
    BY <1>1, <2>1 DEF WellResolved
  <2>7. UNCHANGED <<historyVars, accepted, outcome, repeating>>
    BY <2>1
  <2>8. /\ pc' \in {"idle", "fetch", "call", "reply"} /\ Busy' => Shape'
        /\ Len(cursor') <= MaxRepeating
    BY <1>1, <2>4, <2>5 DEF Busy
  <2> QED BY <1>5, <1>6, <2>2, <2>4, <2>5, <2>6, <2>7, <2>8, Zenon
<1>15. CASE Reply
  <2>1. /\ pc' = "idle" /\ outcome' \in {"none", "sent", "dropped"}
        /\ UNCHANGED <<mibVars, repeating, slot, round, active, cursor, exhausted, count,
                       vbs, found, accepted, historyVars>>
    BY <1>15 DEF Reply
  <2>2. WellResolved(found)' /\ MibTypeOK' /\ ~Busy' /\ pc' \in {"idle", "fetch", "call", "reply"}
    BY <1>1, <1>3, <2>1 DEF WellResolved, Busy
  <2>3. UNCHANGED <<historyVars, accepted, repeating, slot, round, active, cursor, exhausted, count, vbs>>
    BY <2>1
  <2> QED BY <1>1, <1>5, <1>6, <2>1, <2>2, <2>3, Zenon
<1>16. CASE Device
  <2>1. MibTypeOK' /\ RowPattern[NextPhase] \in Sensors
    BY <1>1, <1>16, RowsType DEF Device, SensorsChange, FirstReading, WifiChanges, MibTypeOK
  <2>2. rowsSeen' \subseteq Sensors
    BY <1>1, <1>16, <2>1 DEF Device
  <2>3. UNCHANGED <<bulkVars, request, base>>
    BY <1>16 DEF Device
  <2>4. /\ Shape' <=> Shape
        /\ Busy' <=> Busy
        /\ WellResolved(found)' <=> WellResolved(found)
    BY <2>3 DEF bulkVars, Shape, Busy, WellResolved, NonRepeaters, Repeaters
  <2>5. TypeOK'
    BY <2>1, <2>2, <2>3, Zenon DEF bulkVars, TypeOK, TypeInv
  <2> QED BY <2>3, <2>4, <2>5, Zenon DEF TypeInv
<1>17. CASE UNCHANGED vars
  <2>1. MibTypeOK'
    BY <1>3, <1>17 DEF vars
  <2>2. UNCHANGED <<bulkVars, request, base, rowsSeen>>
    BY <1>17 DEF vars, historyVars
  <2>3. /\ Shape' <=> Shape
        /\ Busy' <=> Busy
        /\ WellResolved(found)' <=> WellResolved(found)
    BY <2>2 DEF bulkVars, Shape, Busy, WellResolved, NonRepeaters, Repeaters
  <2>4. TypeOK'
    BY <2>1, <2>2, Zenon DEF bulkVars, TypeOK, TypeInv
  <2> QED BY <2>2, <2>3, <2>4, Zenon DEF TypeInv
<1> QED
  BY <1>7, <1>8, <1>9, <1>10, <1>13, <1>14, <1>15, <1>16, <1>17, Zenon DEF Next, Agent

\* For every request, max-repetitions and row count, the handler writes and
\* reads within the varbind array and cursor[], and both hold varbinds.
THEOREM TypeCorrect == Spec => []TypeOK
<1>1. TypeInv => TypeOK
  BY DEF TypeInv
<1> QED
  BY <1>1, InitType, StepType, PTL DEF Spec

-----------------------------------------------------------------------------
(***************************************************************************)
(* The walk.  Every varbind of the response so far goes on from the one it *)
(* should, and each cursor stands where the latest answer of its repeater  *)
(* does: one round back, or in the request before the first round.  That   *)
(* answer is a value unless the repeater is exhausted.                     *)
(***************************************************************************)
GoesOn(q, a) ==
  IF IsValue(a)
  THEN \E n \in rowsSeen :
         LET r == ResolveNext(q.oid, n) IN r.res = "ok" /\ a.oid = r.oid /\ a.tag = r.tag
  ELSE a.oid = q.oid

AnswerTrue(k) ==
  /\ GoesOn(Predecessor(k), vbs[k])
  /\ k > NonRepeaters + Repeaters /\ IsValue(vbs[k]) => IsValue(Predecessor(k))

\* The place of the latest answer of repeater s, and the varbind there.
LatestAt(s) == count + 1 - slot + s - (IF s < slot THEN 0 ELSE Repeaters)

Latest(s) ==
  IF LatestAt(s) > NonRepeaters THEN vbs[LatestAt(s)] ELSE request.vbs[NonRepeaters + s]

CursorsFollow ==
  /\ count = NonRepeaters + slot - 1 \/ count >= NonRepeaters + Repeaters + slot - 1
  /\ \A s \in 1 .. Repeaters :
       /\ cursor[s].oid = Latest(s).oid
       /\ ~exhausted[s] /\ LatestAt(s) > NonRepeaters => IsValue(Latest(s))

RequestAhead == \A k \in count + 1 .. Len(request.vbs) : vbs[k] = request.vbs[k]

FoundNext(q) == found.res = "ok" /\ \E n \in rowsSeen : found = ResolveNext(q.oid, n)

WalkInv ==
  /\ Busy =>
       /\ \A k \in 1 .. count : AnswerTrue(k)
       /\ ~repeating => RequestAhead
       /\ repeating => CursorsFollow
  /\ pc = "call" =>
       /\ ~repeating => FoundNext(vbs[slot])
       /\ repeating => FoundNext(cursor[slot]) /\ ~exhausted[slot]
  /\ pc = "reply" \/ Answered => \A k \in DOMAIN vbs : AnswerTrue(k)
  /\ pc # "idle" => Rows \in rowsSeen

\* What is before the end of the response stays true when it grows.
LEMMA AnswersKept ==
  ASSUME TypeInv, NEW n \in Nat, \A k \in 1 .. n : vbs'[k] = vbs[k],
         UNCHANGED request, rowsSeen \subseteq rowsSeen', NEW k \in 1 .. n, AnswerTrue(k)
  PROVE  AnswerTrue(k)'
<1>1. request \in RequestType
  BY DEF TypeInv, TypeOK
<1>2. /\ NonRepeaters \in Nat /\ Repeaters \in Nat
      /\ NonRepeaters' = NonRepeaters /\ Repeaters' = Repeaters
  BY <1>1, Bounds DEF NonRepeaters, Repeaters
<1>3. ~(k <= NonRepeaters + Repeaters) => k - Repeaters \in 1 .. n
  BY <1>2
<1>4. /\ vbs'[k] = vbs[k]
      /\ ~(k <= NonRepeaters + Repeaters) => vbs'[k - Repeaters] = vbs[k - Repeaters]
  BY <1>3
<1>5. Predecessor(k)' = Predecessor(k)
  BY <1>2, <1>4 DEF Predecessor
<1>6. IsValue(vbs[k])' <=> IsValue(vbs[k])
  BY <1>4 DEF IsValue
<1>7. IsValue(Predecessor(k))' <=> IsValue(Predecessor(k))
  BY <1>5 DEF IsValue
<1>8. GoesOn(Predecessor(k), vbs[k])'
  <2>1. GoesOn(Predecessor(k), vbs[k])
    BY DEF AnswerTrue
  <2>2. CASE IsValue(vbs[k])
    <3>1. PICK m \in rowsSeen :
            LET r == ResolveNext(Predecessor(k).oid, m)
            IN  r.res = "ok" /\ vbs[k].oid = r.oid /\ vbs[k].tag = r.tag
      BY <2>1, <2>2 DEF GoesOn
    <3> QED BY <1>4, <1>5, <1>6, <2>2, <3>1, Zenon DEF GoesOn
  <2>3. CASE ~IsValue(vbs[k])
    BY <1>4, <1>5, <1>6, <2>1, <2>3, Zenon DEF GoesOn
  <2> QED BY <2>2, <2>3
<1> QED BY <1>2, <1>6, <1>7, <1>8, Zenon DEF AnswerTrue

\* A turn of a non-repeater answers its varbind of the request.
LEMMA FirstTurnTrue ==
  ASSUME TypeInv, WalkInv, Busy, ~repeating, slot <= NonRepeaters,
         UNCHANGED <<request, repeating, rowsSeen, phase>>,
         NEW result \in Results, NEW fetched,
         result = "ok" => fetched \in Varbinds /\ GoesOn(vbs[slot], fetched),
         FirstTurn(result, fetched)
  PROVE  WalkInv'
<1>1. /\ slot = count + 1 /\ count \in Nat /\ vbs \in Seq(Varbinds) /\ MaxVarbinds \in Nat
      /\ Len(request.vbs) <= Len(vbs) /\ request \in RequestType
      /\ Len(request.vbs) <= MaxVarbinds
  BY BulkAssumption DEF TypeInv, TypeOK, Shape
<1>2. /\ NonRepeaters \in Nat /\ Repeaters \in Nat /\ Len(request.vbs) \in Nat
      /\ NonRepeaters + Repeaters <= Len(request.vbs)
      /\ NonRepeaters' = NonRepeaters /\ Repeaters' = Repeaters
  BY <1>1, Bounds DEF NonRepeaters, Repeaters
<1>3. count < MaxVarbinds /\ vbs[slot] \in Varbinds
  BY <1>1, <1>2
<1>4. /\ vbs' \in Seq(Varbinds) /\ Len(vbs) <= Len(vbs')
      /\ vbs'[slot] = AppendedVarbind(vbs[slot], result, fetched)
      /\ \A k \in 1 .. Len(vbs') : k # slot => vbs'[k] = vbs[k]
  <2> DEFINE current == vbs[slot]
             array == Appended(current, result, fetched)
  <2>1. current \in Varbinds /\ (result = "ok" => fetched \in Varbinds)
    BY <1>3
  <2> HIDE DEF current
  <2>2. /\ array \in Seq(Varbinds) /\ Len(vbs) <= Len(array)
        /\ array[count + 1] = AppendedVarbind(current, result, fetched)
        /\ \A k \in 1 .. Len(array) : k # count + 1 => array[k] = vbs[k]
    <3>1. count < MaxVarbinds
      BY <1>3
    <3>2. array \in Seq(Varbinds) /\ Len(vbs) <= Len(array)
      BY <2>1, <3>1, AppendedType
    <3>3. array[count + 1] = AppendedVarbind(current, result, fetched)
      BY <2>1, <3>1, AppendedType
    <3>4. \A k \in 1 .. Len(array) : k # count + 1 => array[k] = vbs[k]
      BY <2>1, <3>1, AppendedType
    <3> QED BY <3>2, <3>3, <3>4
  <2>3. vbs' = array
    BY DEF FirstTurn, current
  <2> HIDE DEF array
  <2> QED BY <1>1, <2>2, <2>3 DEF current
<1>5. pc' = "fetch" /\ count' = slot /\ slot' = slot + 1
  BY <1>1 DEF FirstTurn
<1>6. RequestAhead /\ \A k \in 1 .. count : AnswerTrue(k)
  BY DEF WalkInv
<1>7. vbs[slot] = request.vbs[slot]
  BY <1>1, <1>2, <1>6 DEF RequestAhead
<1>8. /\ result = "ok" => vbs'[slot] = fetched
      /\ result # "ok" => vbs'[slot].oid = vbs[slot].oid /\ ~IsValue(vbs'[slot])
  BY <1>3, <1>4, AppendedVarbindType DEF IsValue
<1>9. ASSUME NEW k, k = slot PROVE AnswerTrue(k)'
  <2>1. Predecessor(k)' = vbs[slot] /\ ~(k > NonRepeaters' + Repeaters')
    BY <1>1, <1>2, <1>7, <1>9 DEF Predecessor
  <2>2. GoesOn(Predecessor(k), vbs[k])'
    <3>1. CASE result = "ok"
      <4>1. vbs'[k] = fetched /\ GoesOn(vbs[slot], fetched)
        BY <1>8, <1>9, <3>1
      <4> QED BY <2>1, <4>1, Zenon DEF GoesOn, IsValue
    <3>2. CASE result # "ok"
      <4>1. vbs'[k].oid = vbs[slot].oid /\ ~IsValue(vbs'[k])
        BY <1>8, <1>9, <3>2
      <4> QED BY <2>1, <4>1, Zenon DEF GoesOn, IsValue
    <3> QED BY <3>1, <3>2
  <2> QED BY <2>1, <2>2 DEF AnswerTrue
<1>10. ASSUME NEW k \in 1 .. count' PROVE AnswerTrue(k)'
  <2>1. CASE k = slot
    BY <1>9, <2>1
  <2>2. CASE k # slot
    <3>1. k \in 1 .. count /\ \A j \in 1 .. count : vbs'[j] = vbs[j]
      BY <1>1, <1>2, <1>4, <1>5, <2>2
    <3> QED BY <1>1, <1>6, <3>1, AnswersKept
  <2> QED BY <2>1, <2>2
<1>11. RequestAhead'
  <2> SUFFICES ASSUME NEW k \in slot + 1 .. Len(request.vbs) PROVE vbs'[k] = request.vbs[k]
    BY <1>5 DEF RequestAhead
  <2>1. k \in 1 .. Len(vbs') /\ k # slot /\ k \in count + 1 .. Len(request.vbs)
    BY <1>1, <1>2, <1>4
  <2>2. vbs'[k] = vbs[k]
    BY <1>4, <2>1
  <2>3. vbs[k] = request.vbs[k]
    BY <1>6, <2>1 DEF RequestAhead
  <2> QED BY <2>2, <2>3
<1>12. Rows' \in rowsSeen'
  BY DEF WalkInv, Rows, Busy
<1> QED BY <1>5, <1>10, <1>11, <1>12, Zenon DEF WalkInv, Answered

\* The next answer of a repeater has a place of its own, and the others' stay.
LEMMA LatestMoves ==
  ASSUME TypeInv, Busy, repeating, UNCHANGED request, count' = count + 1,
         slot' = (IF slot < Repeaters THEN slot + 1 ELSE 1), NEW s \in 1 .. Repeaters
  PROVE  /\ LatestAt(s)' = IF s = slot THEN count + 1 ELSE LatestAt(s)
         /\ LatestAt(s) <= count
<1>1. /\ slot \in Nat \ {0} /\ slot <= Repeaters /\ count \in Nat /\ request \in RequestType
  BY DEF TypeInv, TypeOK, Shape
<1>2. Repeaters \in Nat /\ Repeaters' = Repeaters
  BY <1>1, Bounds DEF Repeaters, NonRepeaters
<1> QED BY <1>1, <1>2 DEF LatestAt

\* A turn of a repeater answers its latest varbind.
LEMMA RoundTurnTrue ==
  ASSUME TypeInv, WalkInv, Busy, repeating, UNCHANGED <<request, repeating, rowsSeen, phase>>,
         NEW result \in Results, NEW fetched,
         result = "ok" => /\ fetched \in Varbinds /\ IsValue(fetched)
                          /\ GoesOn(cursor[slot], fetched) /\ ~exhausted[slot]
                          /\ cursor'[slot] = fetched,
         result # "ok" => cursor'[slot] = cursor[slot] /\ exhausted'[slot],
         \A s \in 1 .. Repeaters :
           s # slot => cursor'[s] = cursor[s] /\ exhausted'[s] = exhausted[s],
         RoundTurn(result, cursor[slot], fetched)
  PROVE  WalkInv'
<1>1. /\ slot \in Nat \ {0} /\ slot <= Repeaters /\ count \in Nat /\ vbs \in Seq(Varbinds)
      /\ count <= MaxVarbinds /\ count <= Len(vbs) /\ request \in RequestType
      /\ Len(cursor) = Repeaters /\ cursor \in Seq(Varbinds) /\ MaxVarbinds \in Nat
  BY BulkAssumption DEF TypeInv, TypeOK, Shape
<1>2. /\ NonRepeaters \in Nat /\ Repeaters \in Nat
      /\ NonRepeaters' = NonRepeaters /\ Repeaters' = Repeaters
  BY <1>1, Bounds DEF NonRepeaters, Repeaters
<1>3. cursor[slot] \in Varbinds /\ slot \in 1 .. Repeaters
  BY <1>1, <1>2
<1>4. CursorsFollow /\ (\A k \in 1 .. count : AnswerTrue(k)) /\ Rows \in rowsSeen
  BY DEF WalkInv, Busy
<1> DEFINE array == Appended(cursor[slot], result, fetched)
           answer == AppendedVarbind(cursor[slot], result, fetched)
<1>5. count < MaxVarbinds =>
        /\ array \in Seq(Varbinds) /\ count + 1 <= Len(array)
        /\ array[count + 1] = answer
        /\ \A k \in 1 .. Len(array) : k # count + 1 => array[k] = vbs[k]
  BY <1>3, AppendedType
<1>6. /\ result = "ok" => answer = fetched
      /\ result # "ok" => answer.oid = cursor[slot].oid /\ ~IsValue(answer)
  BY <1>3, AppendedVarbindType DEF IsValue
<1>7. \/ Finish(count, vbs)
      \/ /\ count < MaxVarbinds /\ pc' = "fetch" /\ count' = count + 1 /\ vbs' = array
         /\ slot' = (IF slot < Repeaters THEN slot + 1 ELSE 1)
      \/ count < MaxVarbinds /\ Finish(count + 1, array)
  BY Zenon DEF RoundTurn
<1> HIDE DEF array, answer
\* What the repeater goes on from is where its cursor stands.
<1>8. /\ cursor[slot].oid = Predecessor(count + 1).oid
      /\ count + 1 > NonRepeaters + Repeaters /\ ~exhausted[slot] => IsValue(Predecessor(count + 1))
  <2>1. /\ LatestAt(slot) = count + 1 - Repeaters
        /\ slot \in Nat \ {0} /\ slot <= Repeaters /\ count \in Nat
        /\ NonRepeaters \in Nat /\ Repeaters \in Nat
    BY <1>1, <1>2 DEF LatestAt
  <2>2. /\ count = NonRepeaters + slot - 1 \/ count >= NonRepeaters + Repeaters + slot - 1
        /\ cursor[slot].oid = Latest(slot).oid
        /\ ~exhausted[slot] /\ LatestAt(slot) > NonRepeaters => IsValue(Latest(slot))
    BY <1>3, <1>4 DEF CursorsFollow
  <2>3. CASE count = NonRepeaters + slot - 1
    <3>1. /\ count + 1 <= NonRepeaters + Repeaters /\ ~(LatestAt(slot) > NonRepeaters)
          /\ count + 1 = NonRepeaters + slot
      BY <2>1, <2>3
    <3>2. Predecessor(count + 1) = Latest(slot)
      BY <3>1 DEF Predecessor, Latest
    <3>3. ~(count + 1 > NonRepeaters + Repeaters)
      BY <2>1, <3>1
    <3> QED BY <2>2, <3>2, <3>3
  <2>4. CASE count >= NonRepeaters + Repeaters + slot - 1
    <3>1. ~(count + 1 <= NonRepeaters + Repeaters) /\ LatestAt(slot) > NonRepeaters
      BY <2>1, <2>4
    <3>2. Predecessor(count + 1) = vbs[LatestAt(slot)]
      BY <2>1, <3>1 DEF Predecessor
    <3>3. Latest(slot) = vbs[LatestAt(slot)]
      BY <3>1 DEF Latest
    <3> QED BY <2>2, <3>1, <3>2, <3>3
  <2> QED BY <2>2, <2>3, <2>4
\* The answers up to count remain, and the next one is true.
<1>9. ASSUME NEW n \in {count, count + 1}, \A k \in 1 .. count : vbs'[k] = vbs[k],
             n = count + 1 => vbs'[n] = answer
      PROVE  \A k \in 1 .. n : AnswerTrue(k)'
  <2> SUFFICES ASSUME NEW k \in 1 .. n PROVE AnswerTrue(k)'
    OBVIOUS
  <2>1. CASE k \in 1 .. count
    BY <1>1, <1>4, <1>9, <2>1, AnswersKept
  <2>2. CASE k = count + 1 /\ n = count + 1
    <3>1. Predecessor(k)' = Predecessor(k)
      <4>1. ~(k <= NonRepeaters + Repeaters) => k - Repeaters \in 1 .. count
        BY <1>1, <1>2, <2>2
      <4>2. ~(k <= NonRepeaters + Repeaters) => vbs'[k - Repeaters] = vbs[k - Repeaters]
        BY <1>9, <4>1
      <4> QED BY <1>2, <4>2 DEF Predecessor
    <3>2. vbs'[k] = answer
      BY <1>9, <2>2
    <3>3. GoesOn(Predecessor(k), vbs[k])'
      <4>1. CASE result = "ok"
        <5>1. PICK m \in rowsSeen :
                LET r == ResolveNext(cursor[slot].oid, m)
                IN  r.res = "ok" /\ fetched.oid = r.oid /\ fetched.tag = r.tag
          BY <4>1 DEF GoesOn
        <5> QED BY <1>6, <1>8, <2>2, <3>1, <3>2, <4>1, <5>1, Zenon DEF GoesOn, IsValue
      <4>2. CASE result # "ok"
        BY <1>6, <1>8, <2>2, <3>1, <3>2, <4>2, Zenon DEF GoesOn, IsValue
      <4> QED BY <4>1, <4>2
    <3>4. k > NonRepeaters + Repeaters /\ IsValue(answer) => IsValue(Predecessor(k))
      BY <1>6, <1>8, <2>2
    <3> QED BY <1>2, <3>1, <3>2, <3>3, <3>4, Zenon DEF AnswerTrue, IsValue
  <2>3. k \in 1 .. count \/ (k = count + 1 /\ n = count + 1)
    BY <1>1
  <2> QED BY <2>1, <2>2, <2>3
<1>10. Rows' \in rowsSeen'
  BY <1>4 DEF Rows
<1>11. ASSUME NEW n \in {count, count + 1}, NEW list \in Seq(Varbinds), n <= Len(list),
              Finish(n, list), \A k \in 1 .. count : list[k] = vbs[k],
              n = count + 1 => list[n] = answer
       PROVE  WalkInv'
  <2>1. /\ pc' = "reply" /\ DOMAIN vbs' = 1 .. n
        /\ \A k \in 1 .. n : vbs'[k] = list[k]
    BY <1>1, <1>11 DEF Finish
  <2>2. (\A k \in 1 .. count : vbs'[k] = vbs[k]) /\ (n = count + 1 => vbs'[n] = answer)
    <3>1. n \in Nat /\ n >= count /\ (n = count + 1 => n \in 1 .. n) /\ 1 .. count \subseteq 1 .. n
      BY <1>1
    <3> QED BY <1>11, <2>1, <3>1
  <2>3. \A k \in DOMAIN vbs' : AnswerTrue(k)'
    BY <1>9, <2>1, <2>2
  <2> QED BY <1>10, <2>1, <2>3 DEF WalkInv, Busy
<1>12. CASE Finish(count, vbs)
  BY <1>1, <1>11, <1>12
<1>13. CASE count < MaxVarbinds /\ Finish(count + 1, array)
  <2>1. \A k \in 1 .. count : array[k] = vbs[k]
    BY <1>1, <1>5, <1>13
  <2> QED BY <1>5, <1>11, <1>13, <2>1
<1>14. CASE /\ count < MaxVarbinds /\ pc' = "fetch" /\ count' = count + 1 /\ vbs' = array
            /\ slot' = (IF slot < Repeaters THEN slot + 1 ELSE 1)
  <2>1. \A k \in 1 .. count : vbs'[k] = vbs[k]
    BY <1>1, <1>5, <1>14
  <2>2. \A k \in 1 .. count' : AnswerTrue(k)'
    BY <1>5, <1>9, <1>14, <2>1
  <2>3. count' = NonRepeaters' + slot' - 1 \/ count' >= NonRepeaters' + Repeaters' + slot' - 1
    <3>1. count = NonRepeaters + slot - 1 \/ count >= NonRepeaters + Repeaters + slot - 1
      BY <1>4 DEF CursorsFollow
    <3> QED BY <1>1, <1>2, <1>14, <3>1
  <2>4. ASSUME NEW s \in 1 .. Repeaters
        PROVE  /\ cursor'[s].oid = Latest(s)'.oid
               /\ ~exhausted'[s] /\ LatestAt(s)' > NonRepeaters' => IsValue(Latest(s))'
    <3>1. /\ LatestAt(s)' = IF s = slot THEN count + 1 ELSE LatestAt(s)
          /\ LatestAt(s) <= count
      BY <1>14, LatestMoves
    <3>2. CASE s = slot
      <4>1. LatestAt(s)' = count + 1 /\ count + 1 > NonRepeaters'
        <5>1. count >= NonRepeaters
          BY <1>1, <1>2, <1>4 DEF CursorsFollow
        <5> QED BY <1>1, <1>2, <3>1, <3>2, <5>1
      <4>2. Latest(s)' = answer
        BY <1>5, <1>14, <4>1 DEF Latest
      <4>3. CASE result = "ok"
        BY <1>6, <3>2, <4>2, <4>3 DEF IsValue
      <4>4. CASE result # "ok"
        BY <1>6, <3>2, <4>2, <4>4
      <4> QED BY <4>3, <4>4
    <3>3. CASE s # slot
      <4>1. LatestAt(s)' = LatestAt(s)
        BY <3>1, <3>3
      <4>2. LatestAt(s) > NonRepeaters => LatestAt(s) \in 1 .. count
        <5>1. LatestAt(s) \in Int
          BY <1>1, <1>2 DEF LatestAt
        <5> QED BY <1>2, <3>1, <5>1
      <4>3. Latest(s)' = Latest(s)
        BY <1>2, <2>1, <4>1, <4>2 DEF Latest
      <4>4. /\ cursor[s].oid = Latest(s).oid
            /\ ~exhausted[s] /\ LatestAt(s) > NonRepeaters => IsValue(Latest(s))
        BY <1>4 DEF CursorsFollow
      <4> QED BY <1>2, <3>3, <4>1, <4>3, <4>4 DEF IsValue
    <3> QED BY <3>2, <3>3
  <2>5. CursorsFollow'
    BY <1>2, <2>3, <2>4, Zenon DEF CursorsFollow
  <2> QED BY <1>10, <1>14, <2>2, <2>5, Zenon DEF WalkInv, Answered
<1> QED BY <1>7, <1>12, <1>13, <1>14

\* What the response holds stays true while the handler does not touch it.
LEMMA WalkKept ==
  ASSUME TypeInv, WalkInv, UNCHANGED <<repeating, slot, cursor, exhausted, count, vbs, request>>,
         rowsSeen \subseteq rowsSeen'
  PROVE  /\ Busy => /\ \A k \in 1 .. count' : AnswerTrue(k)'
                    /\ ~repeating' => RequestAhead'
                    /\ repeating' => CursorsFollow'
         /\ pc = "reply" \/ Answered => \A k \in DOMAIN vbs' : AnswerTrue(k)'
<1>1. count \in Nat /\ vbs \in Seq(Varbinds) /\ Len(vbs) \in Nat /\ DOMAIN vbs = 1 .. Len(vbs)
  BY BulkAssumption DEF TypeInv, TypeOK
<1>2. ASSUME NEW n \in Nat, \A k \in 1 .. n : AnswerTrue(k)
      PROVE  \A k \in 1 .. n : AnswerTrue(k)'
  BY <1>2, AnswersKept
<1>3. RequestAhead' <=> RequestAhead
  BY DEF RequestAhead
<1>4. CursorsFollow' <=> CursorsFollow
  BY DEF CursorsFollow, Latest, LatestAt, NonRepeaters, Repeaters, IsValue
<1>5. CASE Busy
  <2>1. /\ \A k \in 1 .. count : AnswerTrue(k)
        /\ ~repeating => RequestAhead
        /\ repeating => CursorsFollow
    BY <1>5 DEF WalkInv
  <2>2. \A k \in 1 .. count' : AnswerTrue(k)'
    BY <1>1, <1>2, <2>1
  <2>3. pc # "reply" /\ ~Answered
    BY <1>5 DEF Busy, Answered
  <2> QED BY <1>3, <1>4, <2>1, <2>2, <2>3, Zenon
<1>6. CASE ~Busy
  <2>1. pc = "reply" \/ Answered => \A k \in 1 .. Len(vbs) : AnswerTrue(k)
    BY <1>1 DEF WalkInv
  <2> QED BY <1>1, <1>2, <1>6, <2>1
<1> QED BY <1>5, <1>6

\* Every step keeps the walk true.
LEMMA StepWalk == TypeInv /\ WalkInv /\ [Next]_vars => WalkInv'
<1> SUFFICES ASSUME TypeInv, WalkInv, [Next]_vars PROVE WalkInv'
  OBVIOUS
<1>1. /\ request \in RequestType /\ slot \in Nat \ {0} /\ vbs \in Seq(Varbinds)
      /\ cursor \in Seq(Varbinds) /\ count \in Nat /\ found \in Resolved
      /\ exhausted \in [DOMAIN cursor -> BOOLEAN]
  BY BulkAssumption DEF TypeInv, TypeOK
<1>2. /\ NonRepeaters \in Nat /\ Repeaters \in Nat
      /\ NonRepeaters + Repeaters <= Len(request.vbs) /\ Len(request.vbs) \in Nat
  BY <1>1, Bounds
<1>3. Busy => /\ Shape /\ Rows \in rowsSeen /\ \A k \in 1 .. count : AnswerTrue(k)
              /\ pc # "reply" /\ pc # "idle"
  BY DEF TypeInv, WalkInv, Busy
<1>4. ASSUME NEW r \in Requests, Receive(r) PROVE WalkInv'
  <2>1. /\ count' = 0 /\ vbs' = r.vbs /\ request' = r /\ repeating' = FALSE
        /\ rowsSeen' = {Rows} /\ phase' = phase /\ pc' \in {"fetch", "idle"}
        /\ pc' = "idle" => outcome' = "dropped"
    BY <1>4 DEF Receive, mibVars
  <2>2. Rows' \in rowsSeen' /\ RequestAhead' /\ 1 .. count' = {}
    BY <2>1 DEF Rows, RequestAhead
  <2>3. ~Answered' /\ pc' # "reply" /\ pc' # "call"
    BY <2>1 DEF Answered
  <2> QED BY <2>1, <2>2, <2>3 DEF WalkInv
<1>5. CASE FirstLookup
  <2>1. /\ Busy /\ pc = "fetch" /\ ~repeating /\ slot <= NonRepeaters
        /\ UNCHANGED <<request, repeating, rowsSeen, phase, cursor, exhausted>>
    BY <1>5 DEF FirstLookup, Busy, mibVars, historyVars
  <2>2. vbs[slot] \in Varbinds /\ vbs[slot].oid \in Oid
    <3>1. slot \in 1 .. Len(vbs)
      BY <1>1, <1>2, <1>3, <2>1 DEF Shape
    <3>2. vbs[slot] \in Varbinds
      BY <1>1, <3>1
    <3> QED BY <3>2 DEF Varbinds
  <2> DEFINE r == ResolveNext(vbs[slot].oid, Rows)
  <2>3. r.res \in Results
    BY <2>2, RowsType, ResolveNextType DEF WellResolved, Results, Sensors, TypeInv, TypeOK
  <2>4. CASE r.res = "ok" /\ pc' = "call" /\ found' = r /\ UNCHANGED <<slot, count, vbs>>
    <3>1. FoundNext(vbs[slot])'
      BY <1>3, <2>1, <2>4 DEF FoundNext
    <3>2. Rows' \in rowsSeen'
      BY <1>3, <2>1 DEF Rows
    <3>3. /\ \A k \in 1 .. count' : AnswerTrue(k)'
          /\ ~repeating' => RequestAhead'
      BY <2>1, <2>4, WalkKept
    <3> QED BY <2>1, <2>4, <3>1, <3>2, <3>3, Zenon DEF WalkInv, Answered
  <2>5. CASE r.res # "ok" /\ FirstTurn(r.res, vbs[slot])
    <3> HIDE DEF r
    <3> QED BY <2>1, <2>3, <2>5, FirstTurnTrue
  <2> QED BY <1>5, <2>4, <2>5 DEF FirstLookup
<1>6. ASSUME NEW q, pc = "call", FoundNext(q), CallGetter(found), GetResult(found) = "ok"
      PROVE  Fetched \in Varbinds /\ IsValue(Fetched) /\ GoesOn(q, Fetched)
  <2>1. Fetched \in Varbinds
    BY <1>6, FoundVarbind
  <2>2. Fetched.oid = found.oid /\ Fetched.tag = found.tag /\ IsValue(Fetched)
    BY <1>1 DEF Fetched, IsValue, Resolved
  <2>3. PICK n \in rowsSeen : found = ResolveNext(q.oid, n)
    BY <1>6 DEF FoundNext
  <2>4. found.res = "ok"
    BY <1>6 DEF FoundNext
  <2> QED BY <2>1, <2>2, <2>3, <2>4, Zenon DEF GoesOn
<1>7. CASE FirstCall
  <2>1. /\ Busy /\ pc = "call" /\ ~repeating /\ CallGetter(found)
        /\ FirstTurn(GetResult(found), Fetched)
        /\ UNCHANGED <<request, repeating, rowsSeen, phase>>
    BY <1>7 DEF FirstCall, Busy, CallGetter, historyVars
  <2>2. slot <= NonRepeaters /\ FoundNext(vbs[slot])
    BY <1>3, <2>1 DEF Shape, WalkInv
  <2>3. GetResult(found) \in Results
    BY <2>1, FoundVarbind
  <2>4. GetResult(found) = "ok" => Fetched \in Varbinds /\ GoesOn(vbs[slot], Fetched)
    BY <1>6, <2>1, <2>2
  <2> QED BY <2>1, <2>2, <2>3, <2>4, FirstTurnTrue
<1>8. CASE StartRounds
  <2>1. /\ Busy /\ pc = "fetch" /\ ~repeating /\ UNCHANGED <<request, rowsSeen, phase>>
        /\ count = NonRepeaters /\ slot > NonRepeaters
    <3>1. Busy /\ ~repeating /\ slot > NonRepeaters /\ pc = "fetch"
      BY <1>8 DEF StartRounds, Busy
    <3>2. UNCHANGED <<request, rowsSeen, phase>>
      BY <1>8 DEF StartRounds, mibVars, historyVars
    <3> QED BY <1>1, <1>2, <1>3, <3>1, <3>2 DEF Shape
  <2>2. Rows' \in rowsSeen' /\ NonRepeaters' = NonRepeaters /\ Repeaters' = Repeaters
    BY <1>3, <2>1 DEF Rows, NonRepeaters, Repeaters
  <2>3. CASE /\ repeating' = TRUE /\ slot' = 1 /\ UNCHANGED <<pc, count, vbs>>
             /\ cursor' = [k \in 1 .. Repeaters |-> vbs[NonRepeaters + k]]
             /\ exhausted' = [k \in 1 .. Repeaters |-> FALSE]
    <3>1. \A k \in 1 .. count' : AnswerTrue(k)'
      BY <1>1, <1>3, <2>1, <2>3, AnswersKept
    <3>2. ASSUME NEW s \in 1 .. Repeaters
          PROVE  /\ cursor'[s].oid = Latest(s)'.oid
                 /\ ~(LatestAt(s)' > NonRepeaters')
      <4>1. LatestAt(s)' = count + s - Repeaters /\ ~(LatestAt(s)' > NonRepeaters')
        BY <1>1, <1>2, <2>1, <2>2, <2>3 DEF LatestAt
      <4>2. Latest(s)' = request.vbs[NonRepeaters + s]
        BY <2>1, <2>2, <4>1 DEF Latest
      <4>3. NonRepeaters + s \in count + 1 .. Len(request.vbs)
        BY <1>2, <2>1
      <4>4. cursor'[s] = request.vbs[NonRepeaters + s]
        BY <2>1, <2>3, <4>3 DEF WalkInv, RequestAhead
      <4> QED BY <4>1, <4>2, <4>4
    <3>3. count' = NonRepeaters' + slot' - 1
      BY <1>2, <2>1, <2>2, <2>3
    <3>4. CursorsFollow'
      BY <2>2, <3>2, <3>3, Zenon DEF CursorsFollow
    <3>5. pc' = "fetch"
      BY <2>1, <2>3
    <3> QED BY <2>2, <2>3, <3>1, <3>4, <3>5, Zenon DEF WalkInv, Answered
  <2>4. CASE Finish(count, vbs)
    <3>1. pc' = "reply" /\ DOMAIN vbs' = 1 .. count /\ \A k \in 1 .. count : vbs'[k] = vbs[k]
      BY <1>1, <1>3, <2>1, <2>4 DEF Finish, Shape
    <3>2. \A k \in DOMAIN vbs' : AnswerTrue(k)'
      BY <1>1, <1>3, <2>1, <3>1, AnswersKept
    <3> QED BY <2>2, <3>1, <3>2 DEF WalkInv, Busy
  <2> QED BY <1>8, <2>3, <2>4 DEF StartRounds
<1>9. Busy /\ repeating => slot \in 1 .. Repeaters /\ Len(cursor) = Repeaters
                           /\ cursor[slot] \in Varbinds /\ cursor[slot].oid \in Oid
  <2> SUFFICES ASSUME Busy, repeating
               PROVE  slot \in 1 .. Repeaters /\ Len(cursor) = Repeaters
                      /\ cursor[slot] \in Varbinds /\ cursor[slot].oid \in Oid
    OBVIOUS
  <2>1. slot \in 1 .. Repeaters /\ Len(cursor) = Repeaters
    BY <1>1, <1>2, <1>3 DEF Shape
  <2>2. cursor[slot] \in Varbinds
    BY <1>1, <2>1
  <2> QED BY <2>1, <2>2 DEF Varbinds
<1>10. CASE RoundLookup
  <2>1. /\ Busy /\ pc = "fetch" /\ repeating
        /\ UNCHANGED <<request, repeating, rowsSeen, phase, cursor>>
    BY <1>10 DEF RoundLookup, Busy, mibVars, historyVars
  <2> DEFINE r == ResolveNext(cursor[slot].oid, Rows)
  <2>2. r.res \in Results
    BY <1>9, <2>1, RowsType, ResolveNextType DEF WellResolved, Results, Sensors, TypeInv, TypeOK
  <2>3. CASE exhausted[slot] /\ RoundTurn("endOfView", cursor[slot], cursor[slot])
             /\ UNCHANGED exhausted
    <3>1. "endOfView" \in Results
      BY DEF Results
    <3> QED BY <2>1, <2>3, <3>1, RoundTurnTrue
  <2>4. CASE /\ ~exhausted[slot] /\ r.res = "ok" /\ pc' = "call" /\ found' = r
             /\ UNCHANGED <<slot, exhausted, count, vbs>>
    <3>1. FoundNext(cursor[slot])' /\ ~exhausted'[slot']
      BY <1>3, <2>1, <2>4 DEF FoundNext
    <3>2. Rows' \in rowsSeen'
      BY <1>3, <2>1 DEF Rows
    <3>3. (\A k \in 1 .. count' : AnswerTrue(k)') /\ (repeating' => CursorsFollow')
      BY <2>1, <2>4, WalkKept
    <3> QED BY <2>1, <2>4, <3>1, <3>2, <3>3, Zenon DEF WalkInv, Answered
  <2>5. CASE /\ r.res # "ok" /\ RoundTurn(r.res, cursor[slot], cursor[slot])
             /\ exhausted' = [exhausted EXCEPT ![slot] = TRUE]
    <3> HIDE DEF r
    <3>1. exhausted'[slot] /\ \A s \in 1 .. Repeaters : s # slot => exhausted'[s] = exhausted[s]
      BY <1>1, <1>9, <2>1, <2>5
    <3> QED BY <2>1, <2>2, <2>5, <3>1, RoundTurnTrue
  <2> QED BY <1>10, <2>3, <2>4, <2>5 DEF RoundLookup, WalkOid
<1>11. CASE RoundCall
  <2>1. /\ Busy /\ pc = "call" /\ repeating /\ CallGetter(found)
        /\ RoundTurn(GetResult(found), cursor[slot], Fetched)
        /\ UNCHANGED <<request, repeating, rowsSeen, phase>>
    BY <1>11 DEF RoundCall, Busy, CallGetter, historyVars
  <2>2. FoundNext(cursor[slot]) /\ ~exhausted[slot]
    BY <2>1 DEF WalkInv
  <2>3. GetResult(found) \in Results
    BY <2>1, FoundVarbind
  <2>4. GetResult(found) = "ok" =>
          Fetched \in Varbinds /\ IsValue(Fetched) /\ GoesOn(cursor[slot], Fetched)
    BY <1>6, <2>1, <2>2
  <2>5. /\ GetResult(found) = "ok" => cursor'[slot] = Fetched
        /\ GetResult(found) # "ok" => cursor'[slot] = cursor[slot] /\ exhausted'[slot]
        /\ \A s \in 1 .. Repeaters :
             s # slot => cursor'[s] = cursor[s] /\ exhausted'[s] = exhausted[s]
    <3>1. CASE GetResult(found) = "ok" /\ cursor' = [cursor EXCEPT ![slot] = Fetched]
               /\ UNCHANGED exhausted
      BY <1>1, <1>9, <2>1, <3>1
    <3>2. CASE GetResult(found) # "ok" /\ exhausted' = [exhausted EXCEPT ![slot] = TRUE]
               /\ UNCHANGED cursor
      BY <1>1, <1>9, <2>1, <3>2
    <3> QED BY <1>11, <3>1, <3>2 DEF RoundCall
  <2> QED BY <2>1, <2>2, <2>3, <2>4, <2>5, RoundTurnTrue
<1>12. CASE Reply
  <2>1. /\ pc = "reply" /\ pc' = "idle" /\ UNCHANGED rowsSeen
        /\ UNCHANGED <<repeating, slot, cursor, exhausted, count, vbs, request>>
    BY <1>12 DEF Reply, historyVars
  <2>2. \A k \in DOMAIN vbs' : AnswerTrue(k)'
    BY <2>1, WalkKept
  <2> QED BY <2>1, <2>2 DEF WalkInv, Busy
<1>13. ASSUME UNCHANGED <<bulkVars, request>>, rowsSeen \subseteq rowsSeen',
              pc # "idle" => Rows' \in rowsSeen'
       PROVE  WalkInv'
  <2>1. /\ UNCHANGED <<repeating, slot, cursor, exhausted, count, vbs, request>>
        /\ UNCHANGED <<pc, found, outcome>>
    BY <1>13 DEF bulkVars
  <2>2. /\ Busy' <=> Busy
        /\ Answered' <=> Answered
    BY <2>1 DEF Busy, Answered
  <2>3. /\ Busy => /\ \A k \in 1 .. count' : AnswerTrue(k)'
                   /\ ~repeating' => RequestAhead'
                   /\ repeating' => CursorsFollow'
        /\ pc = "reply" \/ Answered => \A k \in DOMAIN vbs' : AnswerTrue(k)'
    BY <1>13, <2>1, WalkKept
  <2>4. ASSUME NEW q, FoundNext(q) PROVE FoundNext(q)'
    BY <1>13, <2>1, <2>4 DEF FoundNext
  <2>5. pc = "call" => /\ ~repeating => FoundNext(vbs[slot])
                       /\ repeating => FoundNext(cursor[slot]) /\ ~exhausted[slot]
    BY DEF WalkInv
  <2>6. pc' = "call" => /\ ~repeating' => FoundNext(vbs[slot])'
                        /\ repeating' => FoundNext(cursor[slot])' /\ ~exhausted'[slot']
    BY <1>13, <2>1, <2>5 DEF FoundNext
  <2> QED BY <1>13, <2>1, <2>2, <2>3, <2>6, Zenon DEF WalkInv
<1>14. CASE Device
  <2>1. CASE SensorsChange /\ rowsSeen' = IF pc = "idle" THEN rowsSeen
                                         ELSE rowsSeen \cup {RowPattern[NextPhase]}
    <3>1. Rows' = RowPattern[NextPhase]
      BY <2>1 DEF SensorsChange, Rows
    <3> QED BY <1>13, <1>14, <2>1, <3>1 DEF Device
  <2>2. CASE (FirstReading \/ WifiChanges) /\ UNCHANGED rowsSeen
    <3>1. phase' = phase
      BY <2>2 DEF FirstReading, WifiChanges
    <3>2. pc # "idle" => Rows' \in rowsSeen'
      BY <2>2, <3>1 DEF WalkInv, Rows
    <3> QED BY <1>13, <1>14, <2>2, <3>2 DEF Device
  <2> QED BY <1>14, <2>1, <2>2 DEF Device
<1>15. CASE UNCHANGED vars
  <2>1. UNCHANGED <<bulkVars, request, rowsSeen, phase>>
    BY <1>15 DEF vars, mibVars, historyVars
  <2>2. pc # "idle" => Rows' \in rowsSeen'
    BY <2>1 DEF WalkInv, Rows
  <2> QED BY <1>13, <2>1, <2>2
<1> QED
  BY <1>4, <1>5, <1>7, <1>8, <1>10, <1>11, <1>12, <1>14, <1>15, Zenon DEF Next, Agent

\* For every MIB, request, size of the arrays and course of the rows, a
\* response takes each walk from one instance to the next and skips none.
THEOREM WalkIsComplete == Spec => []WalkSkipsNothing
<1>1. Init => WalkInv
  BY DEF Init, WalkInv, Busy, Answered
<1>2. TypeInv /\ WalkInv => WalkSkipsNothing
  BY Zenon DEF WalkInv, AnswerTrue, GoesOn, WalkSkipsNothing
<1> QED
  BY <1>1, <1>2, InitType, StepType, StepWalk, PTL DEF Spec

-----------------------------------------------------------------------------
(***************************************************************************)
(* The rounds.  The response grows by whole rounds: its length says which  *)
(* round and which repeater the handler is at, every round before this one *)
(* had a value, and any_active tells whether this one has.                 *)
(***************************************************************************)

\* The length of the response when round n is over.
After(n) == NonRepeaters + Repeaters * n

ValueIn(S) == \E k \in S : IsValue(vbs[k])

Fruitful(n) == \A m \in 1 .. n : ValueIn(Round(m))

Started == Repeaters > 0 /\ round <= MaxRounds

Concluded ==
  \/ (Repeaters = 0 \/ MaxRounds = 0) /\ Len(vbs) = NonRepeaters
  \/ /\ Started
     /\ Fruitful(round - 1)
     /\ \/ /\ Len(vbs) = MaxVarbinds
           /\ \E s \in 0 .. Repeaters - 1 : Len(vbs) = After(round - 1) + s
        \/ /\ Len(vbs) = After(round)
           /\ round = MaxRounds \/ ~ValueIn(Round(round))

RoundsInv ==
  /\ Busy /\ ~repeating => round = 1 /\ ~active
  /\ Busy /\ repeating =>
       /\ Started
       /\ Fruitful(round - 1)
       /\ count = After(round - 1) + slot - 1
       /\ active <=> ValueIn(After(round - 1) + 1 .. count)
  /\ pc = "reply" \/ Answered => Concluded

LEMMA ProductGrows ==
  ASSUME NEW R \in Nat, NEW m \in Nat, NEW n \in Nat, m <= n
  PROVE  R * m \in Nat /\ R * m <= R * n
<1>1. PICK d \in Nat : n = m + d
  <2>1. n - m \in Nat /\ n = m + (n - m)
    OBVIOUS
  <2> QED BY <2>1
<1>2. R * n = R * m + R * d
  BY <1>1
<1>3. R * d \in Nat /\ R * m \in Nat
  BY SMT
<1> QED BY <1>2, <1>3

LEMMA ProductNext ==
  ASSUME NEW R \in Nat, NEW n \in Nat
  PROVE  R * (n + 1) = R * n + R
  OBVIOUS

\* q whole rounds and a part of the next one count as q.
LEMMA WholeRounds ==
  ASSUME NEW R \in Nat \ {0}, NEW q \in Nat, NEW s \in 0 .. R - 1
  PROVE  (R * q + s) \div R = q
<1> DEFINE x == R * q + s
           p == x \div R
<1>1. x \in Nat
  <2>1. R * q \in Nat
    BY SMT
  <2> QED BY <2>1
<1>2. p \in Nat /\ R * p <= x /\ x < R * p + R
  BY <1>1
<1>3. CASE p > q
  <2>1. R * (q + 1) <= R * p
    BY <1>2, <1>3, ProductGrows
  <2>2. R * (q + 1) = R * q + R
    BY ProductNext
  <2> QED BY <1>2, <2>1, <2>2
<1>4. CASE p < q
  <2>1. R * (p + 1) <= R * q
    BY <1>2, <1>4, ProductGrows
  <2>2. R * (p + 1) = R * p + R
    BY <1>2, ProductNext
  <2> QED BY <1>2, <2>1, <2>2
<1> QED BY <1>2, <1>3, <1>4

LEMMA AfterFacts ==
  ASSUME request \in RequestType, NEW n \in Nat
  PROVE  /\ After(n) \in Nat /\ NonRepeaters <= After(n)
         /\ After(0) = NonRepeaters /\ After(n + 1) = After(n) + Repeaters
         /\ Round(n + 1) = After(n) + 1 .. After(n + 1)
         /\ \A m \in Nat : m <= n => After(m) <= After(n)
<1>1. NonRepeaters \in Nat /\ Repeaters \in Nat
  BY Bounds
<1>2. /\ Repeaters * n \in Nat /\ Repeaters * 0 = 0
      /\ Repeaters * (n + 1) = Repeaters * n + Repeaters
  BY <1>1, ProductGrows, ProductNext
<1>3. ASSUME NEW m \in Nat, m <= n PROVE After(m) <= After(n)
  <2>1. Repeaters * m <= Repeaters * n /\ Repeaters * m \in Nat
    BY <1>1, <1>3, ProductGrows
  <2> QED BY <1>1, <1>2, <2>1 DEF After
<1>4. (n + 1) - 1 = n
  OBVIOUS
<1>5. Round(n + 1) = After(n) + 1 .. After(n + 1)
  BY <1>4 DEF Round, After
<1>6. /\ After(n) \in Nat /\ NonRepeaters <= After(n)
      /\ After(0) = NonRepeaters /\ After(n + 1) = After(n) + Repeaters
  BY <1>1, <1>2 DEF After
<1> QED BY <1>3, <1>5, <1>6

\* The round before n + 1, and all before it, lie within the first After(n).
LEMMA RoundWithin ==
  ASSUME request \in RequestType, NEW n \in Nat, NEW m \in 1 .. n
  PROVE  Round(m) \subseteq 1 .. After(n)
<1>1. m - 1 \in Nat /\ (m - 1) + 1 = m /\ m \in Nat /\ m <= n
  OBVIOUS
<1>2. Round(m) = After(m - 1) + 1 .. After(m) /\ After(m - 1) \in Nat
  BY <1>1, AfterFacts
<1>3. After(m) <= After(n) /\ After(m) \in Nat /\ After(n) \in Nat
  BY <1>1, AfterFacts
<1> QED BY <1>2, <1>3

LEMMA ValueKept ==
  ASSUME NEW S, \A k \in S : vbs'[k] = vbs[k]
  PROVE  ValueIn(S)' <=> ValueIn(S)
  BY Zenon DEF ValueIn, IsValue

LEMMA FruitfulKept ==
  ASSUME request \in RequestType, UNCHANGED request, NEW n \in Nat, Fruitful(n),
         \A k \in 1 .. After(n) : vbs'[k] = vbs[k]
  PROVE  Fruitful(n)'
<1> SUFFICES ASSUME NEW m \in 1 .. n PROVE ValueIn(Round(m))'
  BY DEF Fruitful
<1>1. PICK S : S = Round(m)
  OBVIOUS
<1>2. ValueIn(S) /\ S \subseteq 1 .. After(n)
  BY <1>1, RoundWithin DEF Fruitful
<1>3. ValueIn(S)'
  BY <1>2, ValueKept
<1>4. Round(m)' = S
  BY <1>1 DEF Round, NonRepeaters, Repeaters
<1> QED BY <1>3, <1>4 DEF ValueIn

\* A turn of a repeater adds to its round, and the last one ends it.
LEMMA RoundTurnCounted ==
  ASSUME TypeInv, RoundsInv, Busy, repeating, UNCHANGED <<request, repeating>>,
         cursor[slot] \in Varbinds, NEW result \in Results, NEW fetched,
         result = "ok" => fetched \in Varbinds /\ IsValue(fetched),
         RoundTurn(result, cursor[slot], fetched)
  PROVE  RoundsInv'
<1>1. /\ slot \in Nat \ {0} /\ slot <= Repeaters /\ count \in Nat /\ vbs \in Seq(Varbinds)
      /\ count <= Len(vbs) /\ Len(vbs) \in Nat /\ count <= MaxVarbinds /\ MaxVarbinds \in Nat
      /\ round \in Nat \ {0} /\ request \in RequestType
  BY BulkAssumption DEF TypeInv, TypeOK, Shape
<1>2. /\ NonRepeaters' = NonRepeaters /\ Repeaters' = Repeaters /\ MaxRounds' = MaxRounds
      /\ Repeaters \in Nat /\ MaxRounds \in Nat
  BY <1>1, Bounds DEF NonRepeaters, Repeaters, MaxRounds
<1>3. \A n : After(n)' = After(n) /\ Round(n)' = Round(n)
  BY <1>2 DEF After, Round
<1>4. /\ Started /\ Fruitful(round - 1) /\ count = After(round - 1) + slot - 1
      /\ active <=> ValueIn(After(round - 1) + 1 .. count)
  BY DEF RoundsInv
<1>5. PICK r \in Nat \ {0} : r = round
  BY <1>1
<1>6. PICK c \in Nat : c = count
  BY <1>1
<1>7. r - 1 \in Nat /\ (r - 1) + 1 = r
  BY <1>5
<1>8. PICK d \in Nat : d = After(r - 1)
  BY <1>1, <1>7, AfterFacts
<1>9. /\ After(r) = d + Repeaters /\ Round(r) = d + 1 .. d + Repeaters
      /\ c = d + slot - 1 /\ d <= c
  <2>1. After(r) = d + Repeaters /\ Round(r) = d + 1 .. After(r)
    BY <1>1, <1>7, <1>8, AfterFacts
  <2>2. c = d + slot - 1
    BY <1>4, <1>5, <1>6, <1>8
  <2> QED BY <1>1, <1>6, <1>8, <2>1, <2>2
<1> DEFINE array == Appended(cursor[slot], result, fetched)
           answer == AppendedVarbind(cursor[slot], result, fetched)
           anyActive == active \/ result = "ok"
           over == ~anyActive \/ round = MaxRounds
<1>10. c < MaxVarbinds =>
         /\ array \in Seq(Varbinds) /\ c + 1 <= Len(array) /\ Len(array) \in Nat
         /\ array[c + 1] = answer
         /\ \A k \in 1 .. c : array[k] = vbs[k]
  <2> SUFFICES ASSUME c < MaxVarbinds
               PROVE  /\ array \in Seq(Varbinds) /\ c + 1 <= Len(array) /\ Len(array) \in Nat
                      /\ array[c + 1] = answer
                      /\ \A k \in 1 .. c : array[k] = vbs[k]
    OBVIOUS
  <2>1. /\ array \in Seq(Varbinds) /\ count + 1 <= Len(array) /\ array[count + 1] = answer
        /\ \A k \in 1 .. Len(array) : k # count + 1 => array[k] = vbs[k]
    <3>1. count < MaxVarbinds
      BY <1>6
    <3> QED BY <3>1, AppendedType
  <2> HIDE DEF array, answer
  <2>2. Len(array) \in Nat
    BY <2>1
  <2> QED BY <1>6, <2>1, <2>2
<1>11. IsValue(answer) <=> result = "ok"
  BY AppendedVarbindType DEF IsValue
<1>12. \/ count = MaxVarbinds /\ Finish(count, vbs) /\ UNCHANGED <<slot, round, active>>
       \/ /\ count < MaxVarbinds /\ (slot < Repeaters \/ ~over)
          /\ pc' = "fetch" /\ count' = count + 1 /\ vbs' = array
          /\ slot' = (IF slot < Repeaters THEN slot + 1 ELSE 1)
          /\ round' = (IF slot < Repeaters THEN round ELSE round + 1)
          /\ active' = (slot < Repeaters /\ anyActive)
       \/ /\ count < MaxVarbinds /\ slot = Repeaters /\ over
          /\ Finish(count + 1, array) /\ UNCHANGED <<slot, round, active>>
  BY Zenon DEF RoundTurn
<1> HIDE DEF array, answer, anyActive, over
\* The rounds before this one keep their values, and this one may get one.
<1>13. ASSUME \A k \in 1 .. c : vbs'[k] = vbs[k] PROVE Fruitful(r - 1)'
  <2>1. Fruitful(r - 1)
    BY <1>4, <1>5
  <2>2. \A k \in 1 .. After(r - 1) : vbs'[k] = vbs[k]
    BY <1>8, <1>9, <1>13
  <2>3. request \in RequestType
    BY <1>1
  <2> QED BY <1>7, <2>1, <2>2, <2>3, FruitfulKept
<1>14. ASSUME \A k \in 1 .. c : vbs'[k] = vbs[k], vbs'[c + 1] = answer
       PROVE  ValueIn(d + 1 .. c + 1)' <=> anyActive
  <2>1. ValueIn(d + 1 .. c)' <=> ValueIn(d + 1 .. c)
    <3>1. \A k \in d + 1 .. c : vbs'[k] = vbs[k]
      BY <1>14
    <3> QED BY <3>1, ValueKept
  <2>2. d + 1 .. c + 1 = (d + 1 .. c) \cup {c + 1}
    BY <1>9
  <2>3. ValueIn(d + 1 .. c + 1)' <=> ValueIn(d + 1 .. c)' \/ IsValue(vbs'[c + 1])
    BY <2>2, Zenon DEF ValueIn, IsValue
  <2>4. active <=> ValueIn(d + 1 .. c)
    BY <1>4, <1>5, <1>6, <1>8
  <2> QED BY <1>11, <1>14, <2>1, <2>3, <2>4, Zenon DEF anyActive
\* The response is finished.
<1>15. ASSUME NEW n \in Nat, NEW list \in Seq(Varbinds), n <= Len(list), Finish(n, list)
       PROVE  /\ pc' = "reply" /\ Len(vbs') = n /\ \A k \in 1 .. n : vbs'[k] = list[k]
  BY <1>15 DEF Finish
<1>16. CASE count = MaxVarbinds /\ Finish(count, vbs) /\ UNCHANGED <<slot, round, active>>
  <2>1. pc' = "reply" /\ Len(vbs') = c /\ \A k \in 1 .. c : vbs'[k] = vbs[k]
    BY <1>1, <1>6, <1>15, <1>16
  <2>2. Fruitful(r - 1)'
    BY <1>13, <2>1
  <2>3. slot - 1 \in 0 .. Repeaters - 1 /\ Len(vbs') = d + (slot - 1)
    BY <1>1, <1>2, <1>9, <2>1
  <2>4. d = After(r - 1)' /\ round' = r
    BY <1>3, <1>5, <1>8, <1>16
  <2>5. Started'
    BY <1>2, <1>4, <1>16 DEF Started
  <2>6. Len(vbs') = MaxVarbinds
    BY <1>6, <1>16, <2>1
  <2>7. Fruitful(round - 1)' /\ \E s \in 0 .. Repeaters' - 1 : Len(vbs') = After(round - 1)' + s
    BY <1>2, <2>2, <2>3, <2>4 DEF Fruitful
  <2>8. Concluded'
    BY <2>5, <2>6, <2>7 DEF Concluded
  <2> QED BY <2>1, <2>8 DEF RoundsInv, Busy
<1>17. CASE /\ count < MaxVarbinds /\ slot = Repeaters /\ over
            /\ Finish(count + 1, array) /\ UNCHANGED <<slot, round, active>>
  <2>1. /\ pc' = "reply" /\ Len(vbs') = c + 1 /\ vbs'[c + 1] = answer
        /\ \A k \in 1 .. c : vbs'[k] = vbs[k]
    <3>1. /\ array \in Seq(Varbinds) /\ c + 1 <= Len(array) /\ array[c + 1] = answer
          /\ \A k \in 1 .. c : array[k] = vbs[k]
      BY <1>6, <1>10, <1>17
    <3>2. Finish(c + 1, array) /\ c + 1 \in Nat /\ c + 1 \in 1 .. c + 1
          /\ 1 .. c \subseteq 1 .. c + 1
      BY <1>6, <1>17
    <3>3. pc' = "reply" /\ Len(vbs') = c + 1 /\ \A k \in 1 .. c + 1 : vbs'[k] = array[k]
      BY <1>15, <3>1, <3>2
    <3> QED BY <3>1, <3>2, <3>3
  <2>2. Fruitful(r - 1)' /\ (ValueIn(d + 1 .. c + 1)' <=> anyActive)
    BY <1>13, <1>14, <2>1
  <2>3. c + 1 = After(r) /\ Round(r) = d + 1 .. c + 1
    BY <1>1, <1>2, <1>9, <1>17
  <2>4. round' = r /\ (r = MaxRounds \/ ~anyActive)
    BY <1>5, <1>17 DEF over
  <2>5. Started'
    BY <1>2, <1>4, <1>17 DEF Started
  <2>6. Len(vbs') = After(round)'
    BY <1>3, <2>1, <2>3, <2>4
  <2>7. Round(round)' = d + 1 .. c + 1
    BY <1>3, <2>3, <2>4
  <2>8. round' = MaxRounds' \/ ~ValueIn(Round(round))'
    BY <1>2, <2>2, <2>4, <2>7, Zenon DEF ValueIn
  <2>9. Fruitful(round - 1)'
    BY <2>2, <2>4 DEF Fruitful
  <2>10. Concluded'
    BY <2>5, <2>6, <2>8, <2>9, Zenon DEF Concluded
  <2> QED BY <2>1, <2>10 DEF RoundsInv, Busy
<1>18. CASE /\ count < MaxVarbinds /\ (slot < Repeaters \/ ~over)
            /\ pc' = "fetch" /\ count' = count + 1 /\ vbs' = array
            /\ slot' = (IF slot < Repeaters THEN slot + 1 ELSE 1)
            /\ round' = (IF slot < Repeaters THEN round ELSE round + 1)
            /\ active' = (slot < Repeaters /\ anyActive)
  <2>1. vbs'[c + 1] = answer /\ \A k \in 1 .. c : vbs'[k] = vbs[k]
    BY <1>6, <1>10, <1>18
  <2>2. Fruitful(r - 1)' /\ (ValueIn(d + 1 .. c + 1)' <=> anyActive)
    BY <1>13, <1>14, <2>1
  <2>3. Busy' /\ pc' # "reply" /\ ~Answered' /\ count' = c + 1 /\ repeating'
    BY <1>6, <1>18 DEF Busy, Answered
  <2>4. CASE slot < Repeaters
    <3>1. round' = r /\ slot' = slot + 1
      BY <1>5, <1>18, <2>4
    <3>2. Started'
      BY <1>2, <1>4, <1>5, <3>1 DEF Started
    <3>3. After(round - 1)' = d
      BY <1>3, <1>8, <3>1
    <3>4. count' = After(round - 1)' + slot' - 1
      BY <1>1, <1>9, <2>3, <3>1, <3>3
    <3>5. Fruitful(round - 1)'
      BY <2>2, <3>1 DEF Fruitful
    <3>6. active' <=> ValueIn(After(round - 1) + 1 .. count)'
      <4>1. active' <=> anyActive
        BY <1>18, <2>4, Zenon
      <4> QED BY <2>2, <2>3, <3>3, <4>1, Zenon DEF ValueIn
    <3> QED BY <2>3, <3>2, <3>4, <3>5, <3>6, Zenon DEF RoundsInv
  <2>5. CASE ~(slot < Repeaters)
    <3>1. slot = Repeaters /\ round' = r + 1 /\ slot' = 1
      BY <1>1, <1>2, <1>5, <1>18, <2>5
    <3>2. ~over /\ ~active'
      BY <1>18, <2>5, Zenon
    <3>3. anyActive /\ r # MaxRounds
      BY <1>5, <3>2, Zenon DEF over
    <3>4. Started'
      BY <1>2, <1>4, <1>5, <3>1, <3>3 DEF Started
    <3>5. c + 1 = After(r) /\ Round(r) = d + 1 .. c + 1
      BY <1>1, <1>2, <1>9, <3>1
    <3>6. round' - 1 = r
      BY <1>5, <3>1
    <3>7. count' = After(round - 1)' + slot' - 1 /\ After(round - 1)' = c + 1
      BY <1>3, <1>6, <2>3, <3>1, <3>5, <3>6
    <3>8. Fruitful(round - 1)'
      <4>1. ASSUME NEW m \in 1 .. r PROVE ValueIn(Round(m))'
        <5>1. CASE m = r
          <6>1. Round(m)' = d + 1 .. c + 1
            BY <1>3, <3>5, <5>1
          <6> QED BY <2>2, <3>3, <6>1, Zenon DEF ValueIn
        <5>2. CASE m # r
          <6>1. m \in 1 .. r - 1
            BY <5>2
          <6> QED BY <2>2, <6>1 DEF Fruitful
        <5> QED BY <5>1, <5>2
      <4> QED BY <3>6, <4>1 DEF Fruitful
    <3>9. ~ValueIn(After(round - 1) + 1 .. count)'
      <4>1. (After(round - 1) + 1 .. count)' = {}
        BY <2>3, <3>7
      <4> QED BY <4>1 DEF ValueIn
    <3> QED BY <2>3, <3>2, <3>4, <3>7, <3>8, <3>9, Zenon DEF RoundsInv
  <2> QED BY <2>4, <2>5
<1> QED BY <1>12, <1>16, <1>17, <1>18

LEMMA StepRounds == TypeInv /\ RoundsInv /\ [Next]_vars => RoundsInv'
<1> SUFFICES ASSUME TypeInv, RoundsInv, [Next]_vars PROVE RoundsInv'
  OBVIOUS
<1>1. /\ request \in RequestType /\ slot \in Nat \ {0} /\ vbs \in Seq(Varbinds)
      /\ cursor \in Seq(Varbinds) /\ count \in Nat /\ found \in Resolved
      /\ Busy => Shape
  BY BulkAssumption DEF TypeInv, TypeOK
<1>2. /\ NonRepeaters \in Nat /\ Repeaters \in Nat /\ MaxRounds \in Nat
  BY <1>1, Bounds
<1>3. ASSUME NEW r \in Requests, Receive(r) PROVE RoundsInv'
  <2>1. /\ repeating' = FALSE /\ round' = 1 /\ active' = FALSE /\ pc' \in {"fetch", "idle"}
        /\ pc' = "idle" => outcome' = "dropped"
    BY <1>3 DEF Receive
  <2>2. ~Answered' /\ pc' # "reply"
    BY <2>1 DEF Answered
  <2> QED BY <2>1, <2>2, Zenon DEF RoundsInv
\* Before the rounds.
<1>4. ASSUME Busy, ~repeating, UNCHANGED <<repeating, round, active>>, pc' \in {"fetch", "call"}
      PROVE  RoundsInv'
  <2>1. ~repeating' /\ round' = 1 /\ ~active'
    BY <1>4 DEF RoundsInv
  <2>2. ~Answered' /\ pc' # "reply"
    BY <1>4 DEF Answered
  <2> QED BY <2>1, <2>2, Zenon DEF RoundsInv
<1>5. CASE FirstLookup
  <2>1. Busy /\ ~repeating /\ UNCHANGED <<repeating, round, active>>
    BY <1>5 DEF FirstLookup, Busy
  <2>2. pc' \in {"fetch", "call"}
    BY <1>5, Zenon DEF FirstLookup, FirstTurn
  <2> QED BY <1>4, <2>1, <2>2
<1>6. CASE FirstCall
  <2>1. Busy /\ ~repeating /\ UNCHANGED <<repeating, round, active>> /\ pc' = "fetch"
    BY <1>6 DEF FirstCall, FirstTurn, Busy
  <2> QED BY <1>4, <2>1
<1>7. CASE StartRounds
  <2>1. /\ Busy /\ ~repeating /\ slot > NonRepeaters /\ pc = "fetch"
        /\ UNCHANGED <<request, round, active>> /\ round = 1 /\ ~active
    BY <1>7 DEF StartRounds, Busy, historyVars, RoundsInv
  <2>2. count = NonRepeaters /\ count <= Len(vbs)
    BY <1>1, <1>2, <2>1 DEF Shape
  <2>3. NonRepeaters' = NonRepeaters /\ Repeaters' = Repeaters /\ MaxRounds' = MaxRounds
    BY <2>1 DEF NonRepeaters, Repeaters, MaxRounds
  <2>4. CASE /\ Repeaters > 0 /\ MaxRounds > 0 /\ repeating' = TRUE /\ slot' = 1
             /\ UNCHANGED <<pc, count, vbs>>
    <3>1. Started'
      BY <1>2, <2>1, <2>3, <2>4 DEF Started
    <3>2. After(round - 1)' = count /\ count' = count
      <4>1. After(0)' = After(0) /\ After(0) = NonRepeaters
        BY <1>1, <2>3, AfterFacts DEF After
      <4>2. After(round - 1)' = After(0)'
        BY <2>1 DEF After
      <4> QED BY <2>2, <2>4, <4>1, <4>2
    <3>3. count' = After(round - 1)' + slot' - 1
      BY <1>1, <2>4, <3>2
    <3>4. Fruitful(round - 1)'
      BY <2>1 DEF Fruitful
    <3>5. ~ValueIn(After(round - 1) + 1 .. count)'
      <4>1. (After(round - 1) + 1 .. count)' = {}
        BY <1>1, <3>2
      <4> QED BY <4>1 DEF ValueIn
    <3>6. ~active' /\ pc' # "reply" /\ ~Answered' /\ repeating'
      BY <2>1, <2>4 DEF Answered
    <3> QED BY <3>1, <3>3, <3>4, <3>5, <3>6, Zenon DEF RoundsInv
  <2>5. CASE (Repeaters = 0 \/ MaxRounds = 0) /\ Finish(count, vbs)
    <3>1. pc' = "reply" /\ Len(vbs') = NonRepeaters
      BY <1>1, <2>2, <2>5 DEF Finish
    <3>2. Concluded'
      BY <2>3, <2>5, <3>1 DEF Concluded
    <3> QED BY <3>1, <3>2 DEF RoundsInv, Busy
  <2> QED BY <1>7, <2>4, <2>5 DEF StartRounds
\* In the rounds.
<1>8. Busy /\ repeating => cursor[slot] \in Varbinds /\ cursor[slot].oid \in Oid
  <2> SUFFICES ASSUME Busy, repeating PROVE cursor[slot] \in Varbinds /\ cursor[slot].oid \in Oid
    OBVIOUS
  <2>1. slot \in 1 .. Repeaters /\ Len(cursor) = Repeaters
    BY <1>1, <1>2 DEF Shape
  <2>2. cursor[slot] \in Varbinds
    BY <1>1, <2>1
  <2> QED BY <2>2 DEF Varbinds
<1>9. ASSUME UNCHANGED <<repeating, slot, round, active, count, vbs, request>>,
             Busy' => Busy, pc' = "reply" \/ Answered' => pc = "reply" \/ Answered
      PROVE  RoundsInv'
  <2>1. \A n : After(n)' = After(n) /\ Round(n)' = Round(n)
    BY <1>9 DEF After, Round, NonRepeaters, Repeaters
  <2>2. Repeaters' = Repeaters /\ MaxRounds' = MaxRounds /\ NonRepeaters' = NonRepeaters
    BY <1>9 DEF NonRepeaters, Repeaters, MaxRounds
  <2>3. Started' <=> Started
    BY <1>9, <2>2 DEF Started
  <2>4. \A S : ValueIn(S)' <=> ValueIn(S)
    BY <1>9 DEF ValueIn, IsValue
  <2>5. \A n : Fruitful(n)' <=> Fruitful(n)
    BY <2>1, <2>4 DEF Fruitful
  <2>6. Fruitful(round - 1)' <=> Fruitful(round - 1)
    BY <1>9, <2>5 DEF Fruitful
  <2>7. After(round - 1)' = After(round - 1) /\ After(round)' = After(round)
        /\ Round(round)' = Round(round)
    BY <1>9, <2>1 DEF After, Round
  <2>8. ValueIn(After(round - 1) + 1 .. count)' <=> ValueIn(After(round - 1) + 1 .. count)
    BY <1>9, <2>7, Zenon DEF ValueIn, IsValue
  <2>9. ValueIn(Round(round))' <=> ValueIn(Round(round))
    BY <1>9, <2>7, Zenon DEF ValueIn, IsValue
  <2>10. Concluded => Concluded'
    BY <1>9, <2>2, <2>3, <2>6, <2>7, <2>9, Zenon DEF Concluded
  <2> QED BY <1>9, <2>3, <2>6, <2>7, <2>8, <2>10, Zenon DEF RoundsInv
<1>10. ASSUME Busy, UNCHANGED <<repeating, slot, round, active, count, vbs, request>>, pc' = "call"
       PROVE  RoundsInv'
  BY <1>9, <1>10 DEF Answered
<1>11. CASE RoundLookup
  <2>1. Busy /\ pc = "fetch" /\ repeating /\ UNCHANGED <<request, repeating>>
    BY <1>11 DEF RoundLookup, Busy, historyVars
  <2> DEFINE r == ResolveNext(cursor[slot].oid, Rows)
  <2>2. r.res \in Results
    BY <1>8, <2>1, RowsType, ResolveNextType DEF WellResolved, Results, Sensors, TypeInv, TypeOK
  <2>3. CASE RoundTurn("endOfView", cursor[slot], cursor[slot])
    <3>1. "endOfView" \in Results
      BY DEF Results
    <3> QED BY <1>8, <2>1, <2>3, <3>1, RoundTurnCounted
  <2>4. CASE pc' = "call" /\ UNCHANGED <<slot, round, active, count, vbs>>
    BY <1>10, <2>1, <2>4
  <2>5. CASE r.res # "ok" /\ RoundTurn(r.res, cursor[slot], cursor[slot])
    <3> HIDE DEF r
    <3> QED BY <1>8, <2>1, <2>2, <2>5, RoundTurnCounted
  <2> QED BY <1>11, <2>3, <2>4, <2>5 DEF RoundLookup, WalkOid
<1>12. CASE RoundCall
  <2>1. /\ Busy /\ repeating /\ CallGetter(found) /\ UNCHANGED <<request, repeating>>
        /\ RoundTurn(GetResult(found), cursor[slot], Fetched)
    BY <1>12 DEF RoundCall, Busy, historyVars
  <2>2. /\ GetResult(found) \in Results
        /\ GetResult(found) = "ok" => Fetched \in Varbinds
    BY <2>1, FoundVarbind
  <2>3. IsValue(Fetched)
    BY <1>1 DEF Fetched, IsValue, Resolved
  <2> QED BY <1>8, <2>1, <2>2, <2>3, RoundTurnCounted
<1>13. CASE Reply
  <2>1. /\ pc = "reply" /\ pc' = "idle"
        /\ UNCHANGED <<repeating, slot, round, active, count, vbs, request>>
    BY <1>13 DEF Reply, historyVars
  <2> QED BY <1>9, <2>1 DEF Busy
<1>14. ASSUME UNCHANGED <<bulkVars, request>> PROVE RoundsInv'
  <2>1. UNCHANGED <<pc, outcome, repeating, slot, round, active, count, vbs, request>>
    BY <1>14 DEF bulkVars
  <2> QED BY <1>9, <2>1 DEF Busy, Answered
<1>15. CASE Device \/ UNCHANGED vars
  BY <1>14, <1>15 DEF Device, vars, historyVars
<1> QED
  BY <1>3, <1>5, <1>6, <1>7, <1>11, <1>12, <1>13, <1>15, Zenon DEF Next, Agent

\* What the length of a finished response says of its rounds.
LEMMA ConcludedRounds ==
  ASSUME TypeInv, Concluded
  PROVE  LET size == Len(vbs)
             rounds == IF Repeaters = 0 THEN 0 ELSE (size - NonRepeaters) \div Repeaters
         IN  /\ size = MaxVarbinds \/ size = NonRepeaters + Repeaters * rounds
             /\ rounds \in Nat /\ rounds <= MaxRounds
             /\ \/ size = MaxVarbinds \/ Repeaters = 0 \/ rounds = MaxRounds
                \/ rounds > 0 /\ ~ValueIn(Round(rounds))
             /\ \A n \in 1 .. rounds : ~ValueIn(Round(n)) =>
                  n = rounds /\ size = NonRepeaters + Repeaters * rounds
<1> DEFINE size == Len(vbs)
           rounds == IF Repeaters = 0 THEN 0 ELSE (size - NonRepeaters) \div Repeaters
<1>1. request \in RequestType /\ round \in Nat \ {0}
  BY DEF TypeInv, TypeOK
<1>2. NonRepeaters \in Nat /\ Repeaters \in Nat /\ MaxRounds \in Nat
  BY <1>1, Bounds
<1>3. ASSUME NEW q \in Nat, NEW s \in 0 .. Repeaters - 1, size = After(q) + s, Repeaters > 0
      PROVE  rounds = q
  <2>1. Repeaters * q \in Nat
    BY <1>2, ProductGrows
  <2>2. size - NonRepeaters = Repeaters * q + s
    BY <1>2, <1>3, <2>1 DEF After
  <2>3. (Repeaters * q + s) \div Repeaters = q
    <3>1. Repeaters \in Nat \ {0}
      BY <1>2, <1>3
    <3> HIDE DEF rounds, size
    <3> QED BY <3>1, WholeRounds, Zenon
  <2> QED BY <1>3, <2>2, <2>3
<1>4. ASSUME NEW q \in Nat, size = After(q), Repeaters > 0
      PROVE  rounds = q
  BY <1>2, <1>3, <1>4, AfterFacts, <1>1
<1>5. CASE (Repeaters = 0 \/ MaxRounds = 0) /\ Len(vbs) = NonRepeaters
  <2>1. Repeaters * 0 = 0 /\ After(0) = NonRepeaters
    BY <1>1, <1>2, AfterFacts
  <2>2. rounds = 0
    BY <1>2, <1>4, <1>5, <2>1
  <2> HIDE DEF rounds
  <2> QED BY <1>2, <1>5, <2>1, <2>2 DEF rounds
<1>6. ASSUME Started, Fruitful(round - 1), Len(vbs) = MaxVarbinds,
             NEW s \in 0 .. Repeaters - 1, Len(vbs) = After(round - 1) + s
      PROVE  rounds = round - 1 /\ \A n \in 1 .. rounds : ValueIn(Round(n))
  <2>1. rounds = round - 1
    BY <1>1, <1>3, <1>6 DEF Started
  <2> HIDE DEF rounds
  <2> QED BY <1>6, <2>1 DEF Fruitful
<1>7. ASSUME Started, Fruitful(round - 1), Len(vbs) = After(round)
      PROVE  rounds = round /\ \A n \in 1 .. rounds : ~ValueIn(Round(n)) => n = rounds
  <2>1. rounds = round
    BY <1>1, <1>4, <1>7 DEF Started
  <2> HIDE DEF rounds
  <2>2. ASSUME NEW n \in 1 .. round, n # round PROVE ValueIn(Round(n))
    <3>1. n \in 1 .. round - 1
      BY <1>1, <2>2
    <3> QED BY <1>7, <3>1 DEF Fruitful
  <2> QED BY <2>1, <2>2
<1> HIDE DEF rounds
<1>8. CASE /\ Started /\ Fruitful(round - 1) /\ Len(vbs) = MaxVarbinds
           /\ \E s \in 0 .. Repeaters - 1 : Len(vbs) = After(round - 1) + s
  <2>1. rounds = round - 1 /\ \A n \in 1 .. rounds : ValueIn(Round(n))
    BY <1>6, <1>8
  <2>2. rounds \in Nat /\ rounds <= MaxRounds
    BY <1>1, <1>2, <1>8, <2>1 DEF Started
  <2> QED BY <1>8, <2>1, <2>2, Zenon DEF rounds
<1>9. CASE /\ Started /\ Fruitful(round - 1) /\ Len(vbs) = After(round)
           /\ round = MaxRounds \/ ~ValueIn(Round(round))
  <2>1. rounds = round /\ \A n \in 1 .. rounds : ~ValueIn(Round(n)) => n = rounds
    BY <1>7, <1>9
  <2>2. Len(vbs) = NonRepeaters + Repeaters * rounds
    BY <1>9, <2>1 DEF After
  <2>3. rounds \in Nat /\ rounds <= MaxRounds /\ rounds > 0
    BY <1>1, <1>2, <1>9, <2>1 DEF Started
  <2> QED BY <1>9, <2>1, <2>2, <2>3, Zenon DEF rounds
<1> QED BY <1>5, <1>8, <1>9 DEF Concluded, rounds

\* For every MIB, request and size of the arrays: whole rounds answer a
\* request unless the array is full, they stop at max-repetitions or after
\* the first round without a value, and never earlier or later.
THEOREM RoundsComplete == Spec => []RoundsAreComplete
<1>1. Init => RoundsInv
  BY DEF Init, RoundsInv, Busy, Answered
<1>2. TypeInv /\ RoundsInv => RoundsAreComplete
  <2> SUFFICES ASSUME TypeInv, RoundsInv, Answered PROVE RoundsAreComplete
    BY DEF RoundsAreComplete
  <2>1. Concluded
    BY DEF RoundsInv
  <2> QED BY <2>1, ConcludedRounds DEF RoundsAreComplete, ValueIn
<1> QED
  BY <1>1, <1>2, InitType, StepType, StepRounds, PTL DEF Spec

-----------------------------------------------------------------------------
(***************************************************************************)
(* The counters.  While the request is served, each sensor's counter is    *)
(* ahead of the one the request found by the temperatures in the response  *)
(* so far.  Only the turn that finds the array full leaves one behind.     *)
(***************************************************************************)
InStep(n) == \A s \in Sensors : readCount[s] = base[s] + Deliveries(vbs, n, s)

OneLost ==
  \E t \in Sensors : \A s \in Sensors :
    readCount[s] = base[s] + Deliveries(vbs, Len(vbs), s) + (IF s = t THEN 1 ELSE 0)

CountInv ==
  /\ Busy => InStep(count)
  /\ pc = "call" => Genuine(found)
  /\ pc = "reply" \/ Answered => InStep(Len(vbs)) \/ (Len(vbs) = MaxVarbinds /\ OneLost)

\* What a fetch counts is what its varbind delivers: nothing if it fails.
FetchCounts(result, fetched) ==
  \A s \in Sensors :
    readCount'[s] = readCount[s] + (IF result = "ok" /\ Delivers(fetched, s) THEN 1 ELSE 0)

LEMMA FailureCountsNothing ==
  ASSUME TypeInv, NEW result, result # "ok", UNCHANGED readCount, NEW fetched
  PROVE  FetchCounts(result, fetched)
<1>1. \A s \in Sensors : readCount[s] \in Nat
  BY DEF TypeInv, TypeOK, MibTypeOK
<1> QED BY <1>1 DEF FetchCounts

LEMMA CallCounts ==
  ASSUME TypeInv, CallGetter(found), Genuine(found)
  PROVE  FetchCounts(GetResult(found), Fetched)
<1> SUFFICES ASSUME NEW s \in Sensors
             PROVE  readCount'[s] = readCount[s] +
                      (IF GetResult(found) = "ok" /\ Delivers(Fetched, s) THEN 1 ELSE 0)
  BY DEF FetchCounts
<1>1. MibTypeOK /\ WellResolved(found) /\ readCount[s] \in Nat
  BY DEF TypeInv, TypeOK, MibTypeOK
<1> DEFINE value == GetValue(found)
<1>2. Fetched = [oid |-> found.oid, tag |-> found.tag, val |-> value]
  BY DEF Fetched
<1> HIDE DEF value
<1>3. /\ GetResult(found) = "ok" =>
           readCount'[s] = readCount[s] + (IF Delivers(Fetched, s) THEN 1 ELSE 0)
      /\ GetResult(found) # "ok" => readCount'[s] = readCount[s]
  BY <1>1, <1>2, GetterCounts
<1> QED BY <1>1, <1>3

\* A varbind appended to the response keeps the counters in step.
LEMMA AppendCounts ==
  ASSUME TypeInv, Busy, InStep(count), UNCHANGED base,
         NEW current \in Varbinds, NEW result \in Results, NEW fetched,
         result = "ok" => fetched \in Varbinds, FetchCounts(result, fetched),
         \A k \in 1 .. count : vbs'[k] = vbs[k],
         vbs'[count + 1] = AppendedVarbind(current, result, fetched)
  PROVE  \A s \in Sensors : readCount'[s] = base'[s] + Deliveries(vbs', count + 1, s)
<1> SUFFICES ASSUME NEW s \in Sensors
             PROVE  readCount'[s] = base[s] + Deliveries(vbs', count + 1, s)
  OBVIOUS
<1>1. /\ readCount[s] \in Nat /\ base[s] \in Nat /\ count \in Nat
      /\ readCount[s] = base[s] + Deliveries(vbs, count, s)
  BY DEF TypeInv, TypeOK, MibTypeOK, InStep
<1>2. PICK c \in Nat : c = count
  BY <1>1
<1>3. PICK w : w = vbs'
  OBVIOUS
<1> DEFINE answer == AppendedVarbind(current, result, fetched)
<1>4. Delivers(answer, s) <=> result = "ok" /\ Delivers(fetched, s)
  <2>1. /\ result = "ok" => answer = fetched
        /\ result # "ok" => answer.tag \notin ValueTags
    BY AppendedVarbindType
  <2> HIDE DEF answer
  <2> QED BY <2>1 DEF Delivers
<1> HIDE DEF answer
<1>5. w[c + 1] = answer /\ \A k \in 1 .. c : w[k] = vbs[k]
  BY <1>2, <1>3 DEF answer
<1>6. Deliveries(w, c + 1, s) = Deliveries(vbs, c, s) + (IF Delivers(answer, s) THEN 1 ELSE 0)
  BY <1>5, DeliveriesAppend
<1>7. Deliveries(vbs, c, s) \in Nat
  BY DeliveriesFinite
<1>8. readCount'[s] = readCount[s] + (IF Delivers(answer, s) THEN 1 ELSE 0)
  BY <1>4, Zenon DEF FetchCounts
<1> QED BY <1>1, <1>2, <1>3, <1>6, <1>7, <1>8

\* One that does not fit any more loses at most the temperature it read.
LEMMA FullArrayCounts ==
  ASSUME TypeInv, Busy, InStep(count), UNCHANGED base, NEW result, NEW fetched,
         FetchCounts(result, fetched), count = MaxVarbinds, Finish(count, vbs)
  PROVE  Len(vbs') = MaxVarbinds /\ (InStep(Len(vbs))' \/ OneLost')
<1>1. /\ count \in Nat /\ vbs \in Seq(Varbinds) /\ count <= Len(vbs) /\ Len(vbs) \in Nat
  BY DEF TypeInv, TypeOK, Shape
<1>2. Len(vbs') = count /\ \A k \in 1 .. count : vbs'[k] = vbs[k]
  BY <1>1 DEF Finish
<1>3. ASSUME NEW s \in Sensors
      PROVE  /\ Deliveries(vbs', Len(vbs'), s) = Deliveries(vbs, count, s)
             /\ Deliveries(vbs, count, s) \in Nat /\ base[s] \in Nat
             /\ readCount[s] = base[s] + Deliveries(vbs, count, s)
  <2>1. PICK w : w = vbs'
    OBVIOUS
  <2>2. \A k \in 1 .. count : Delivers(w[k], s) <=> Delivers(vbs[k], s)
    BY <1>2, <2>1
  <2>3. Deliveries(w, count, s) = Deliveries(vbs, count, s)
    BY <2>2, DeliveriesSame
  <2>4. Deliveries(vbs, count, s) \in Nat
    BY <1>1, DeliveriesFinite
  <2> QED BY <1>2, <2>1, <2>3, <2>4 DEF InStep, TypeInv, TypeOK
<1>4. CASE \E t \in Sensors : result = "ok" /\ Delivers(fetched, t)
  <2>1. PICK t \in Sensors : result = "ok" /\ Delivers(fetched, t)
    BY <1>4
  <2>2. ASSUME NEW s \in Sensors
        PROVE  readCount'[s] = base'[s] + Deliveries(vbs', Len(vbs'), s)
                                 + (IF s = t THEN 1 ELSE 0)
    <3>1. Delivers(fetched, s) <=> s = t
      BY <2>1 DEF Delivers
    <3>2. readCount'[s] = readCount[s] + (IF s = t THEN 1 ELSE 0)
      BY <2>1, <3>1, Zenon DEF FetchCounts
    <3> QED BY <1>3, <3>2
  <2> QED BY <1>2, <2>2 DEF OneLost
<1>5. CASE ~ \E t \in Sensors : result = "ok" /\ Delivers(fetched, t)
  <2>1. ASSUME NEW s \in Sensors
        PROVE  readCount'[s] = base'[s] + Deliveries(vbs', Len(vbs'), s)
    <3>1. readCount'[s] = readCount[s] + 0
      BY <1>5, Zenon DEF FetchCounts
    <3> QED BY <1>3, <3>1
  <2> QED BY <1>2, <2>1 DEF InStep
<1> QED BY <1>4, <1>5

\* So does a turn of a non-repeater, or of a repeater.
LEMMA TurnCounts ==
  ASSUME TypeInv, Busy, InStep(count), UNCHANGED base,
         NEW current \in Varbinds, NEW result \in Results, NEW fetched,
         result = "ok" => fetched \in Varbinds, FetchCounts(result, fetched),
         \/ ~repeating /\ slot <= NonRepeaters /\ FirstTurn(result, fetched) /\ current = vbs[slot]
         \/ repeating /\ RoundTurn(result, current, fetched)
  PROVE  CountInv'
<1>1. /\ count \in Nat /\ count <= MaxVarbinds /\ MaxVarbinds \in Nat
      /\ request \in RequestType /\ Len(request.vbs) <= MaxVarbinds
      /\ ~repeating => slot = count + 1
  BY BulkAssumption DEF TypeInv, TypeOK, Shape
<1> DEFINE array == Appended(current, result, fetched)
<1>2. count < MaxVarbinds =>
        /\ array \in Seq(Varbinds) /\ count + 1 <= Len(array)
        /\ array[count + 1] = AppendedVarbind(current, result, fetched)
        /\ \A k \in 1 .. count : array[k] = vbs[k]
  <2> SUFFICES ASSUME count < MaxVarbinds
               PROVE  /\ array \in Seq(Varbinds) /\ count + 1 <= Len(array)
                      /\ array[count + 1] = AppendedVarbind(current, result, fetched)
                      /\ \A k \in 1 .. count : array[k] = vbs[k]
    OBVIOUS
  <2>1. /\ array \in Seq(Varbinds) /\ count + 1 <= Len(array)
        /\ array[count + 1] = AppendedVarbind(current, result, fetched)
        /\ \A k \in 1 .. Len(array) : k # count + 1 => array[k] = vbs[k]
    <3>1. array \in Seq(Varbinds) /\ count + 1 <= Len(array)
      BY AppendedType
    <3>2. array[count + 1] = AppendedVarbind(current, result, fetched)
      BY AppendedType
    <3>3. \A k \in 1 .. Len(array) : k # count + 1 => array[k] = vbs[k]
      BY AppendedType
    <3> QED BY <3>1, <3>2, <3>3
  <2> HIDE DEF array
  <2>2. Len(array) \in Nat
    BY <2>1
  <2>3. \A k \in 1 .. count : k \in 1 .. Len(array) /\ k # count + 1
    BY <1>1, <2>1, <2>2
  <2> QED BY <2>1, <2>3
<1>3. \/ count = MaxVarbinds /\ Finish(count, vbs)
      \/ count < MaxVarbinds /\ pc' = "fetch" /\ count' = count + 1 /\ vbs' = array
      \/ count < MaxVarbinds /\ Finish(count + 1, array)
  <2>1. CASE repeating /\ RoundTurn(result, current, fetched)
    BY <2>1, Zenon DEF RoundTurn
  <2>2. CASE ~repeating /\ slot <= NonRepeaters /\ FirstTurn(result, fetched)
             /\ current = vbs[slot]
    <3>1. /\ NonRepeaters \in Nat /\ Repeaters \in Nat /\ Len(request.vbs) \in Nat
          /\ NonRepeaters + Repeaters <= Len(request.vbs)
      BY <1>1, Bounds
    <3>2. count < MaxVarbinds
      BY <1>1, <2>2, <3>1
    <3> QED BY <2>2, <3>2 DEF FirstTurn
  <2> QED BY <2>1, <2>2
<1> HIDE DEF array
<1>4. CASE count = MaxVarbinds /\ Finish(count, vbs)
  <2>1. Len(vbs') = MaxVarbinds /\ (InStep(Len(vbs))' \/ OneLost')
    BY <1>4, FullArrayCounts
  <2>2. pc' = "reply"
    BY <1>4 DEF Finish
  <2> QED BY <2>1, <2>2 DEF CountInv, Busy
<1>5. ASSUME \A k \in 1 .. count : vbs'[k] = vbs[k],
             vbs'[count + 1] = AppendedVarbind(current, result, fetched)
      PROVE  \A s \in Sensors : readCount'[s] = base'[s] + Deliveries(vbs', count + 1, s)
  BY <1>5, AppendCounts
<1>6. CASE count < MaxVarbinds /\ pc' = "fetch" /\ count' = count + 1 /\ vbs' = array
  <2>1. \A s \in Sensors : readCount'[s] = base'[s] + Deliveries(vbs', count + 1, s)
    BY <1>2, <1>5, <1>6
  <2>2. InStep(count)'
    BY <1>6, <2>1 DEF InStep
  <2> QED BY <1>6, <2>2 DEF CountInv, Busy, Answered
<1>7. CASE count < MaxVarbinds /\ Finish(count + 1, array)
  <2>1. /\ pc' = "reply" /\ Len(vbs') = count + 1
        /\ \A k \in 1 .. count + 1 : vbs'[k] = array[k]
    BY <1>1, <1>2, <1>7 DEF Finish
  <2>2. (\A k \in 1 .. count : vbs'[k] = array[k]) /\ vbs'[count + 1] = array[count + 1]
    BY <1>1, <2>1
  <2>3. \A s \in Sensors : readCount'[s] = base'[s] + Deliveries(vbs', count + 1, s)
    BY <1>2, <1>5, <1>7, <2>2
  <2>4. InStep(Len(vbs))'
    BY <2>1, <2>3 DEF InStep
  <2> QED BY <2>1, <2>4 DEF CountInv, Busy
<1> QED BY <1>3, <1>4, <1>6, <1>7

\* Every step keeps the counters and the response in step.
LEMMA StepCount == TypeInv /\ CountInv /\ [Next]_vars => CountInv'
<1> SUFFICES ASSUME TypeInv, CountInv, [Next]_vars PROVE CountInv'
  OBVIOUS
<1>1. /\ request \in RequestType /\ slot \in Nat \ {0} /\ vbs \in Seq(Varbinds)
      /\ cursor \in Seq(Varbinds) /\ count \in Nat /\ Len(vbs) \in Nat
      /\ Rows \in Sensors /\ Rows \in Nat
  BY RowsType DEF TypeInv, TypeOK, Sensors
<1>2. /\ NonRepeaters \in Nat /\ Repeaters \in Nat
      /\ NonRepeaters + Repeaters <= Len(request.vbs) /\ Len(request.vbs) \in Nat
  BY <1>1, Bounds
<1>3. Busy => Shape /\ InStep(count) /\ pc # "reply" /\ pc # "idle"
  BY DEF TypeInv, CountInv, Busy
<1>4. ASSUME UNCHANGED <<readCount, base, vbs, count>>
      PROVE  /\ InStep(count) => InStep(count)'
             /\ InStep(Len(vbs)) => InStep(Len(vbs))'
             /\ OneLost => OneLost'
  BY <1>4 DEF InStep, OneLost
<1>5. ASSUME NEW r \in Requests, Receive(r) PROVE CountInv'
  <2>1. /\ count' = 0 /\ base' = readCount /\ UNCHANGED readCount
        /\ pc' \in {"fetch", "idle"} /\ (pc' = "idle" => outcome' = "dropped")
    BY <1>5 DEF Receive, mibVars
  <2>2. InStep(count)'
    <3>1. ASSUME NEW s \in Sensors PROVE readCount[s] = readCount[s] + Deliveries(vbs', 0, s)
      <4>1. PICK w : w = vbs'
        OBVIOUS
      <4>2. {k \in 1 .. 0 : Delivers(w[k], s)} = {}
        OBVIOUS
      <4>3. Deliveries(w, 0, s) = 0
        BY <4>2, FS_EmptySet, Zenon DEF Deliveries
      <4>4. readCount[s] \in Nat
        BY DEF TypeInv, TypeOK, MibTypeOK
      <4> QED BY <4>1, <4>3, <4>4
    <3> QED BY <2>1, <3>1 DEF InStep
  <2> QED BY <2>1, <2>2 DEF CountInv, Answered
<1>6. Busy /\ ~repeating /\ slot <= NonRepeaters => vbs[slot] \in Varbinds /\ vbs[slot].oid \in Oid
  <2> SUFFICES ASSUME Busy, ~repeating, slot <= NonRepeaters
               PROVE  vbs[slot] \in Varbinds /\ vbs[slot].oid \in Oid
    OBVIOUS
  <2>1. slot \in 1 .. Len(vbs)
    BY <1>1, <1>2, <1>3 DEF Shape
  <2>2. vbs[slot] \in Varbinds
    BY <1>1, <2>1
  <2> QED BY <2>2 DEF Varbinds
<1>7. Busy /\ repeating => cursor[slot] \in Varbinds /\ cursor[slot].oid \in Oid
  <2> SUFFICES ASSUME Busy, repeating PROVE cursor[slot] \in Varbinds /\ cursor[slot].oid \in Oid
    OBVIOUS
  <2>1. slot \in 1 .. Len(cursor)
    BY <1>1, <1>2, <1>3 DEF Shape
  <2>2. cursor[slot] \in Varbinds
    BY <1>1, <2>1
  <2> QED BY <2>2 DEF Varbinds
<1>8. ASSUME NEW o \in Oid, NEW r, r = ResolveNext(o, Rows)
      PROVE  r.res \in Results /\ (r.res = "ok" => Genuine(r))
  BY <1>1, <1>8, ResolveNextType, LookupsAreGenuine DEF WellResolved, Results
<1>9. CASE FirstLookup
  <2>1. /\ Busy /\ pc = "fetch" /\ ~repeating /\ slot <= NonRepeaters
        /\ UNCHANGED <<readCount, base>>
    BY <1>9 DEF FirstLookup, Busy, mibVars, historyVars
  <2>2. PICK r : /\ r = ResolveNext(vbs[slot].oid, Rows)
                 /\ \/ r.res = "ok" /\ pc' = "call" /\ found' = r /\ UNCHANGED <<slot, count, vbs>>
                    \/ r.res # "ok" /\ FirstTurn(r.res, vbs[slot])
    BY <1>9 DEF FirstLookup
  <2>3. vbs[slot] \in Varbinds /\ r.res \in Results /\ (r.res = "ok" => Genuine(r))
    BY <1>6, <1>8, <2>1, <2>2
  <2>4. CASE r.res = "ok" /\ pc' = "call" /\ found' = r /\ UNCHANGED <<slot, count, vbs>>
    <3>1. InStep(count)' /\ Genuine(found)'
      BY <1>3, <1>4, <2>1, <2>3, <2>4 DEF Genuine
    <3> QED BY <2>4, <3>1 DEF CountInv, Busy, Answered
  <2>5. CASE r.res # "ok" /\ FirstTurn(r.res, vbs[slot])
    <3>1. FetchCounts(r.res, vbs[slot])
      BY <2>1, <2>5, FailureCountsNothing
    <3> QED BY <1>3, <2>1, <2>3, <2>5, <3>1, TurnCounts
  <2> QED BY <2>2, <2>4, <2>5
<1>10. ASSUME pc = "call", CallGetter(found)
       PROVE  /\ GetResult(found) \in Results
              /\ GetResult(found) = "ok" => Fetched \in Varbinds
              /\ FetchCounts(GetResult(found), Fetched)
  BY <1>10, FoundVarbind, CallCounts DEF CountInv
<1>11. CASE FirstCall
  <2>1. /\ Busy /\ pc = "call" /\ ~repeating /\ CallGetter(found) /\ UNCHANGED base
        /\ FirstTurn(GetResult(found), Fetched)
    BY <1>11 DEF FirstCall, Busy, historyVars
  <2>2. slot <= NonRepeaters
    BY <1>3, <2>1 DEF Shape
  <2>3. vbs[slot] \in Varbinds
    BY <1>6, <2>1, <2>2
  <2> QED BY <1>3, <1>10, <2>1, <2>2, <2>3, TurnCounts
<1>12. CASE StartRounds
  <2>1. /\ Busy /\ pc = "fetch" /\ UNCHANGED <<readCount, base>>
    BY <1>12 DEF StartRounds, Busy, mibVars, historyVars
  <2>2. CASE UNCHANGED <<pc, count, vbs>>
    <3>1. InStep(count)'
      BY <1>3, <1>4, <2>1, <2>2
    <3> QED BY <2>1, <2>2, <3>1 DEF CountInv, Answered
  <2>3. CASE Finish(count, vbs)
    <3>1. /\ pc' = "reply" /\ Len(vbs') = count
          /\ \A k \in 1 .. count : vbs'[k] = vbs[k]
      BY <1>1, <1>3, <2>1, <2>3 DEF Finish, Shape
    <3>2. ASSUME NEW s \in Sensors PROVE readCount'[s] = base'[s] + Deliveries(vbs', Len(vbs'), s)
      <4>1. PICK w : w = vbs'
        OBVIOUS
      <4>2. Deliveries(w, count, s) = Deliveries(vbs, count, s)
        <5>1. \A k \in 1 .. count : Delivers(w[k], s) <=> Delivers(vbs[k], s)
          BY <3>1, <4>1
        <5> QED BY <5>1, DeliveriesSame
      <4> QED BY <1>3, <2>1, <3>1, <4>1, <4>2 DEF InStep
    <3>3. InStep(Len(vbs))'
      BY <3>2 DEF InStep
    <3> QED BY <3>1, <3>3 DEF CountInv, Busy
  <2> QED BY <1>12, <2>2, <2>3 DEF StartRounds
<1>13. CASE RoundLookup
  <2>1. Busy /\ pc = "fetch" /\ repeating /\ UNCHANGED <<readCount, base>>
    BY <1>13 DEF RoundLookup, Busy, mibVars, historyVars
  <2>2. PICK r : /\ r = ResolveNext(cursor[slot].oid, Rows)
                 /\ \/ RoundTurn("endOfView", cursor[slot], cursor[slot])
                    \/ r.res = "ok" /\ pc' = "call" /\ found' = r /\ UNCHANGED <<slot, count, vbs>>
                    \/ r.res # "ok" /\ RoundTurn(r.res, cursor[slot], cursor[slot])
    BY <1>13 DEF RoundLookup, WalkOid
  <2>3. cursor[slot] \in Varbinds /\ r.res \in Results /\ (r.res = "ok" => Genuine(r))
    BY <1>7, <1>8, <2>1, <2>2
  <2>4. CASE r.res = "ok" /\ pc' = "call" /\ found' = r /\ UNCHANGED <<slot, count, vbs>>
    <3>1. InStep(count)' /\ Genuine(found)'
      BY <1>3, <1>4, <2>1, <2>3, <2>4 DEF Genuine
    <3> QED BY <2>4, <3>1 DEF CountInv, Busy, Answered
  <2>5. ASSUME NEW result \in Results \ {"ok"}, RoundTurn(result, cursor[slot], cursor[slot])
        PROVE  CountInv'
    <3>1. FetchCounts(result, cursor[slot])
      BY <2>1, FailureCountsNothing
    <3> QED BY <1>3, <2>1, <2>3, <2>5, <3>1, TurnCounts
  <2>6. "endOfView" \in Results
    BY DEF Results
  <2> QED BY <2>2, <2>3, <2>4, <2>5, <2>6
<1>14. CASE RoundCall
  <2>1. /\ Busy /\ pc = "call" /\ repeating /\ CallGetter(found) /\ UNCHANGED base
        /\ RoundTurn(GetResult(found), cursor[slot], Fetched)
    BY <1>14 DEF RoundCall, Busy, historyVars
  <2>2. cursor[slot] \in Varbinds
    BY <1>7, <2>1
  <2> QED BY <1>3, <1>10, <2>1, <2>2, TurnCounts
<1>15. CASE Reply \/ Device \/ UNCHANGED vars
  <2>1. /\ UNCHANGED <<readCount, base, vbs, count, found>>
        /\ \/ UNCHANGED <<pc, outcome>>
           \/ pc = "reply" /\ pc' = "idle"
    BY <1>15 DEF Reply, Device, SensorsChange, FirstReading, WifiChanges, bulkVars, vars,
                 mibVars, historyVars
  <2>2. Genuine(found)' <=> Genuine(found)
    BY <2>1 DEF Genuine
  <2> QED BY <1>4, <2>1, <2>2 DEF CountInv, Busy, Answered
<1> QED
  BY <1>5, <1>9, <1>11, <1>12, <1>13, <1>14, <1>15 DEF Next, Agent

\* For every MIB, request, size of the arrays and course of the rows, all the
\* temperatures a response delivers are counted, and no more than one that it
\* does not.
THEOREM BulkReadsCounted == Spec => []ReadsAreCounted
<1>1. Init => CountInv
  BY DEF Init, CountInv, Busy, Answered
<1>2. TypeInv /\ CountInv => ReadsAreCounted
  <2> SUFFICES ASSUME TypeInv, CountInv, Answered PROVE ReadsAreCounted
    BY DEF ReadsAreCounted
  <2> DEFINE lost == {s \in Sensors : readCount[s] - base[s] # Delivered(s)}
  <2>1. ASSUME NEW s \in Sensors
        PROVE  readCount[s] \in Nat /\ base[s] \in Nat /\ Delivered(s) \in Nat
    <3>1. Len(vbs) \in Nat
      BY DEF TypeInv, TypeOK
    <3>2. Delivered(s) \in Nat
      BY <3>1, DeliveriesFinite DEF Delivered
    <3> QED BY <3>2 DEF TypeInv, TypeOK, MibTypeOK
  <2>2. CASE InStep(Len(vbs))
    <3>1. ASSUME NEW s \in Sensors PROVE readCount[s] - base[s] = Delivered(s)
      <4>1. readCount[s] = base[s] + Delivered(s)
        BY <2>2 DEF InStep, Delivered
      <4> QED BY <2>1, <4>1
    <3>2. lost = {}
      BY <3>1
    <3>3. Cardinality(lost) = 0
      BY <3>2, FS_EmptySet
    <3> QED BY <3>2, <3>3 DEF ReadsAreCounted
  <2>3. CASE Len(vbs) = MaxVarbinds /\ OneLost
    <3>1. PICK t \in Sensors : \A s \in Sensors :
            readCount[s] = base[s] + Delivered(s) + (IF s = t THEN 1 ELSE 0)
      BY <2>3 DEF OneLost, Delivered
    <3>2. ASSUME NEW s \in Sensors
          PROVE  readCount[s] - base[s] = Delivered(s) + (IF s = t THEN 1 ELSE 0)
      BY <2>1, <3>1
    <3>3. lost = {t}
      <4>1. \A s \in Sensors : readCount[s] - base[s] # Delivered(s) <=> s = t
        BY <2>1, <3>2
      <4> QED BY <4>1
    <3>4. Cardinality(lost) = 1
      BY <3>3, FS_Singleton
    <3>5. \A s \in lost : readCount[s] - base[s] = Delivered(s) + 1
      BY <3>2, <3>3
    <3> QED BY <2>3, <3>4, <3>5 DEF ReadsAreCounted
  <2> QED BY <2>2, <2>3 DEF CountInv
<1> QED
  BY <1>1, <1>2, InitType, StepType, StepCount, PTL DEF Spec
=============================================================================
