-------------------------- MODULE SnmpAgentProofs ---------------------------
(***************************************************************************)
(* Theorems about SnmpAgent, for every MIB, every row pattern and every    *)
(* set of requests its assumptions admit.                                  *)
(***************************************************************************)
EXTENDS SnmpAgent, MibProofs, FiniteSetTheorems

\* The type invariant with what makes it inductive: a resolved object is
\* well-formed, so that its row indexes the arrays of the sensor table, and
\* the accessor runs for a varbind of the list.
TypeInv ==
  /\ TypeOK
  /\ WellResolved(found)
  /\ pc = "call" => index <= Len(ctx.vbs)

LEMMA InitType == Init => TypeInv
<1> SUFFICES ASSUME Init PROVE TypeInv
  OBVIOUS
<1>1. MibTypeOK
  BY DeviceAssumption DEF Init, MibInit, MibTypeOK, EmptyString, Sensors
<1>2. Rows \in Sensors
  BY <1>1, RowsType
<1>3. EmptyRequest \in RequestType
  BY DEF EmptyRequest, RequestType, Versions, AccessModes, Pdus
<1>4. ctx \in Context
  BY DEF Init, Decoded, EmptyRequest, Context, Versions, AccessModes, Pdus, ErrorStatuses
<1>5. WellResolved(found)
  BY DEF Init, Miss, WellResolved, Resolved, Oid, Results, ValueTags, Accessors,
         ScalarAccessors, SensorAccessors
<1>6. base \in [field : [Fields -> Nat], label : [Sensors -> Nat],
                readCount : [Sensors -> Nat]]
  BY <1>1 DEF Init, Store, MibTypeOK
<1> QED
  BY <1>1, <1>2, <1>3, <1>4, <1>5, <1>6
  DEF Init, TypeInv, TypeOK, Passes, ReadPasses, WellResolved

\* Replacing the varbind at the current index keeps the list a list.
LEMMA ReplaceVarbind ==
  ASSUME NEW vbs \in Seq(Varbinds), NEW k \in 1 .. Len(vbs), NEW vb \in Varbinds
  PROVE  /\ [vbs EXCEPT ![k] = vb] \in Seq(Varbinds)
         /\ Len([vbs EXCEPT ![k] = vb]) = Len(vbs)
  OBVIOUS

\* Settling a fetch keeps the agent's own variables well-typed.
LEMMA SettleType ==
  ASSUME TypeInv, pass \in ReadPasses, index \in 1 .. Len(ctx.vbs),
         NEW result \in Results, NEW vb, result = "ok" => vb \in Varbinds,
         Settle(result, vb)
  PROVE  /\ pc' \in {"lookup", "reply"}
         /\ pass' \in Passes
         /\ index' \in Nat \ {0}
         /\ skips' \in Nat
         /\ ctx' \in Context
<1> DEFINE tr == Translate(ctx.version, result)
<1>1. /\ ctx \in Context /\ ctx.vbs \in Seq(Varbinds)
      /\ pass \in Passes /\ index \in Nat \ {0} /\ skips \in Nat
  BY DEF TypeInv, TypeOK, Context
<1>2. /\ tr.status \in ErrorStatuses
      /\ tr.exception \in Exceptions \cup {NoException}
      /\ ~tr.abort /\ tr.exception = NoException => result = "ok"
  BY TranslateType
<1>3. ASSUME NEW k \in Nat \ {0}, NEW p \in Passes, Turn(p, k)
      PROVE  /\ pc' = "lookup" /\ pass' \in Passes
             /\ index' \in Nat \ {0} /\ skips' \in Nat
  BY <1>3 DEF Turn
<1>4. ASSUME NEW v \in Varbinds
      PROVE  [ctx EXCEPT !.vbs[index] = v] \in Context
  <2>1. [ctx.vbs EXCEPT ![index] = v] \in Seq(Varbinds)
    BY <1>1, <1>4, ReplaceVarbind
  <2>2. [ctx EXCEPT !.vbs[index] = v] = [ctx EXCEPT !.vbs = [ctx.vbs EXCEPT ![index] = v]]
    BY <1>1 DEF Context
  <2> QED
    BY <1>1, <2>1, <2>2 DEF Context
<1>5. CASE pass # "answer" /\ tr.abort /\ Finish(tr.status, index)
  BY <1>1, <1>2, <1>5 DEF Finish, Context
<1>6. CASE pass = "probe" /\ ~tr.abort /\ Turn("probe", index + 1) /\ ctx' = ctx
  BY <1>1, <1>3, <1>6 DEF Passes, ReadPasses
<1>7. CASE /\ pass = "answer" /\ Turn("answer", index + 1)
           /\ ctx' = IF result = "ok" THEN [ctx EXCEPT !.vbs[index] = vb] ELSE ctx
  BY <1>1, <1>3, <1>4, <1>7 DEF Passes, ReadPasses
<1>8. CASE /\ pass = "single" /\ ~tr.abort /\ Turn("single", index + 1)
           /\ ctx' = IF tr.exception = NoException
                     THEN [ctx EXCEPT !.vbs[index] = vb]
                     ELSE [ctx EXCEPT !.vbs[index] =
                                        Exceptional(ctx.vbs[index], tr.exception)]
  <2>1. CASE tr.exception = NoException
    BY <1>1, <1>2, <1>3, <1>4, <1>8, <2>1 DEF Passes, ReadPasses
  <2>2. CASE tr.exception # NoException
    <3>1. ctx.vbs[index] \in Varbinds
      BY <1>1
    <3>2. Exceptional(ctx.vbs[index], tr.exception) \in Varbinds
      BY <1>2, <2>2, <3>1 DEF Exceptional, Varbinds, VarbindTags
    <3> QED
      BY <1>1, <1>3, <1>4, <1>8, <2>2, <3>2 DEF Passes, ReadPasses
  <2> QED
    BY <2>1, <2>2
<1> QED
  BY <1>5, <1>6, <1>7, <1>8 DEF Settle

-----------------------------------------------------------------------------
\* A lookup starts from an OID.
LEMMA LookupType ==
  ASSUME TypeInv, index \in 1 .. Len(ctx.vbs)
  PROVE  WellResolved(Lookup)
<1>1. ctx.vbs \in Seq(Varbinds)
  BY DEF TypeInv, TypeOK, Context
<1>2. ctx.vbs[index] \in Varbinds
  BY <1>1
<1>3. Current \in Oid
  BY <1>2 DEF Current, Varbinds, TypeInv, WellResolved, Resolved
<1>4. Rows \in Nat
  BY RowsType DEF TypeInv, TypeOK
<1> QED
  BY <1>3, <1>4, ResolveType, ResolveNextType DEF Lookup

\* Every step keeps the type invariant.
LEMMA StepType == TypeInv /\ [Next]_vars => TypeInv'
<1> SUFFICES ASSUME TypeInv, [Next]_vars PROVE TypeInv'
  OBVIOUS
<1>1. /\ ctx \in Context /\ ctx.vbs \in Seq(Varbinds)
      /\ ctx.errStatus \in ErrorStatuses /\ ctx.errIndex \in Nat
      /\ pass \in Passes /\ index \in Nat \ {0} /\ skips \in Nat
      /\ WellResolved(found) /\ MibTypeOK /\ accepted \in Nat
      /\ request \in RequestType /\ rowsSeen \subseteq Sensors
  BY DEF TypeInv, TypeOK, Context
<1>2. Rows \in Sensors /\ Sensors \subseteq Nat \ {0}
  BY <1>1, RowsType
<1>3. ASSUME UNCHANGED mibVars PROVE MibTypeOK'
  BY <1>1, <1>3 DEF mibVars, MibTypeOK
<1>4. ASSUME NEW p \in Passes, NEW k \in Nat \ {0}, Turn(p, k)
      PROVE  /\ pc' = "lookup" /\ pass' \in Passes
             /\ index' \in Nat \ {0} /\ skips' \in Nat
  BY <1>4 DEF Turn
<1>5. ASSUME NEW status \in ErrorStatuses, NEW at \in Nat, Finish(status, at)
      PROVE  /\ pc' = "reply" /\ ctx' \in Context
             /\ UNCHANGED <<pass, index, skips>>
  BY <1>1, <1>5 DEF Finish, Context
<1>6. ASSUME index <= Len(ctx.vbs)
      PROVE  /\ index \in 1 .. Len(ctx.vbs)
             /\ ctx.vbs[index] \in Varbinds
             /\ ctx.vbs[index].oid \in Oid /\ ctx.vbs[index].val \in Nat
  <2>1. index \in 1 .. Len(ctx.vbs)
    BY <1>1, <1>6
  <2>2. ctx.vbs[index] \in Varbinds
    BY <1>1, <2>1
  <2> QED
    BY <2>1, <2>2 DEF Varbinds
<1>7. ASSUME MibTypeOK', WellResolved(found)', UNCHANGED <<historyVars, accepted>>,
             outcome' \in {"none", "sent", "dropped"},
             pc' \in {"idle", "dispatch", "lookup", "call", "reply"},
             pass' \in Passes, index' \in Nat \ {0}, skips' \in Nat, ctx' \in Context,
             pc' = "call" => index' <= Len(ctx'.vbs)
      PROVE  TypeInv'
  BY <1>7, <1>1 DEF TypeInv, TypeOK, historyVars, WellResolved
<1>8. ASSUME NEW r \in Requests, Receive(r) PROVE TypeInv'
  <2>1. r \in RequestType
    BY AgentAssumption
  <2>2. Decoded(r) \in Context
    BY <2>1 DEF Decoded, RequestType, Context, ErrorStatuses
  <2>3. Store \in [field : [Fields -> Nat], label : [Sensors -> Nat],
                   readCount : [Sensors -> Nat]]
    BY <1>1 DEF Store, MibTypeOK
  <2> QED
    BY <1>1, <1>2, <1>3, <1>8, <2>1, <2>2, <2>3
    DEF Receive, TypeInv, TypeOK, WellResolved
<1>9. CASE Drop
  BY <1>1, <1>3, <1>7, <1>9 DEF Drop, TypeInv, TypeOK, WellResolved
<1>10. CASE Dispatch
  <2>1. FirstPass \in Passes
    BY DEF FirstPass, Passes, ReadPasses
  <2> QED
    BY <1>1, <1>3, <1>4, <1>7, <1>10, <2>1 DEF Dispatch, TypeInv, TypeOK, WellResolved
<1>11. CASE PassEnds
  <2>1. pass \in DOMAIN SecondPass => SecondPass[pass] \in Passes
    BY DEF SecondPass, Passes, ReadPasses
  <2>2. CASE pass \in DOMAIN SecondPass /\ Turn(SecondPass[pass], 1) /\ ctx' = ctx
    BY <1>1, <1>3, <1>4, <1>7, <1>11, <2>1, <2>2 DEF PassEnds, TypeInv, TypeOK, WellResolved
  <2>3. CASE Finish("noError", 0)
    BY <1>1, <1>3, <1>5, <1>7, <1>11, <2>3
    DEF PassEnds, TypeInv, TypeOK, WellResolved, ErrorStatuses
  <2> QED
    BY <1>11, <2>2, <2>3 DEF PassEnds
<1>12. CASE ReadLookup
  <2>1. WellResolved(Lookup) /\ Lookup.res \in Results
    BY <1>6, <1>12, LookupType DEF ReadLookup, WellResolved, Resolved
  <2>2. ASSUME NEW result \in Results \ {"ok"}, Settle(result, ctx.vbs[index]),
               UNCHANGED found
        PROVE  TypeInv'
    <3>1. /\ pc' \in {"lookup", "reply"} /\ pass' \in Passes
          /\ index' \in Nat \ {0} /\ skips' \in Nat /\ ctx' \in Context
      BY <1>6, <1>12, <2>2, SettleType DEF ReadLookup
    <3> QED
      BY <1>1, <1>3, <1>7, <1>12, <2>2, <3>1
      DEF ReadLookup, TypeInv, TypeOK, WellResolved
  <2>3. CASE Lookup.res # "ok" /\ Settle(Lookup.res, ctx.vbs[index]) /\ UNCHANGED found
    BY <2>1, <2>2, <2>3
  <2>4. CASE Settle("noSuchObject", ctx.vbs[index]) /\ UNCHANGED found
    BY <2>2, <2>4 DEF Results
  <2>5. CASE skips' = skips + 1 /\ found' = Lookup /\ UNCHANGED <<pc, pass, index, ctx>>
    BY <1>1, <1>3, <1>7, <1>12, <2>1, <2>5 DEF ReadLookup, TypeInv, TypeOK, WellResolved
  <2>6. CASE Settle("genErr", ctx.vbs[index]) /\ UNCHANGED found
    BY <2>2, <2>6 DEF Results
  <2>7. CASE /\ pc' = "call" /\ found' = Lookup
             /\ ctx' = IF pass = "answer"
                       THEN [ctx EXCEPT !.vbs[index].oid = Lookup.oid] ELSE ctx
             /\ UNCHANGED <<pass, index, skips>>
    <3>1. Lookup.oid \in Oid
      BY <2>1 DEF WellResolved, Resolved
    <3>2. [ctx.vbs[index] EXCEPT !.oid = Lookup.oid] \in Varbinds
      BY <1>6, <1>12, <3>1 DEF ReadLookup, Varbinds
    <3>3. [ctx.vbs EXCEPT ![index] = [ctx.vbs[index] EXCEPT !.oid = Lookup.oid]]
            \in Seq(Varbinds)
      BY <1>1, <1>6, <1>12, <3>2, ReplaceVarbind DEF ReadLookup
    <3>4. Len([ctx.vbs EXCEPT ![index] = [ctx.vbs[index] EXCEPT !.oid = Lookup.oid]])
            = Len(ctx.vbs)
      BY <1>1
    <3>5. ctx' \in Context /\ Len(ctx'.vbs) = Len(ctx.vbs)
      BY <1>1, <2>7, <3>3, <3>4 DEF Context
    <3> QED
      BY <1>1, <1>3, <1>7, <1>12, <2>1, <2>7, <3>5
      DEF ReadLookup, TypeInv, TypeOK, WellResolved
  <2> QED
    BY <1>12, <2>3, <2>4, <2>5, <2>6, <2>7 DEF ReadLookup
<1>13. CASE ReadCall
  <2>1. /\ MibTypeOK' /\ GetResult(found) \in Results
        /\ GetResult(found) = "ok" => GetValue(found) \in Nat
    BY <1>1, <1>13, GetterType DEF ReadCall
  <2> DEFINE vb == [oid |-> found.oid, tag |-> found.tag, val |-> GetValue(found)]
  <2>2. GetResult(found) = "ok" => vb \in Varbinds
    BY <1>1, <2>1 DEF WellResolved, Resolved, Varbinds, VarbindTags
  <2>3. /\ pc' \in {"lookup", "reply"} /\ pass' \in Passes
        /\ index' \in Nat \ {0} /\ skips' \in Nat /\ ctx' \in Context
    <3>1. Settle(GetResult(found), vb) /\ pass \in ReadPasses
      BY <1>13 DEF ReadCall
    <3>2. index \in 1 .. Len(ctx.vbs)
      BY <1>6, <1>13 DEF ReadCall, TypeInv
    <3> HIDE DEF vb
    <3> QED
      BY <2>1, <2>2, <3>1, <3>2, SettleType
  <2> QED
    BY <1>1, <1>7, <1>13, <2>1, <2>3 DEF ReadCall, TypeInv, TypeOK, WellResolved
<1>14. CASE Validate
  <2>1. CASE Turn("validate", index + 1) /\ ctx' = ctx
    BY <1>1, <1>3, <1>4, <1>7, <1>14, <2>1
    DEF Validate, TypeInv, TypeOK, WellResolved, Passes
  <2>2. ASSUME NEW result, Finish(V1Status(result), index) PROVE TypeInv'
    <3>1. V1Status(result) \in ErrorStatuses
      BY DEF V1Status, ErrorStatuses
    <3> QED
      BY <1>1, <1>3, <1>5, <1>7, <1>14, <2>2, <3>1
      DEF Validate, TypeInv, TypeOK, WellResolved
  <2> QED
    BY <1>14, <2>1, <2>2 DEF Validate
<1>15. CASE CommitLookup
  <2> DEFINE r == Resolve(ctx.vbs[index].oid, Rows)
  <2>1. WellResolved(r)
    BY <1>2, <1>6, <1>15, ResolveType DEF CommitLookup
  <2>2. CASE pc' = "call" /\ found' = r /\ UNCHANGED <<pass, index, skips, ctx>>
    BY <1>1, <1>3, <1>7, <1>15, <2>1, <2>2
    DEF CommitLookup, TypeInv, TypeOK, WellResolved
  <2>3. CASE Finish("genErr", index) /\ UNCHANGED found
    BY <1>1, <1>3, <1>5, <1>7, <1>15, <2>3
    DEF CommitLookup, TypeInv, TypeOK, WellResolved, ErrorStatuses
  <2> QED
    BY <1>15, <2>2, <2>3 DEF CommitLookup
<1>16. CASE CommitCall
  <2>1. MibTypeOK'
    <3>1. ctx.vbs[index].val \in Nat
      BY <1>6, <1>16 DEF CommitCall, TypeInv
    <3> QED
      BY <1>1, <1>16, <3>1, SetterType DEF CommitCall
  <2>2. CASE Turn("commit", index + 1) /\ ctx' = ctx
    BY <1>1, <1>4, <1>7, <1>16, <2>1, <2>2
    DEF CommitCall, TypeInv, TypeOK, WellResolved, Passes
  <2>3. CASE Finish("genErr", index)
    BY <1>1, <1>5, <1>7, <1>16, <2>1, <2>3
    DEF CommitCall, TypeInv, TypeOK, WellResolved, ErrorStatuses
  <2> QED
    BY <1>16, <2>2, <2>3 DEF CommitCall
<1>17. CASE Reply
  BY <1>1, <1>3, <1>7, <1>17 DEF Reply, TypeInv, TypeOK, WellResolved
<1>18. CASE Device
  <2>1. MibTypeOK' /\ RowPattern[NextPhase] \in Sensors
    BY <1>1, <1>18, RowsType
    DEF Device, SensorsChange, FirstReading, WifiChanges, MibTypeOK
  <2>2. rowsSeen' \subseteq Sensors
    BY <1>1, <1>18, <2>1 DEF Device
  <2> QED
    BY <1>1, <1>18, <2>1, <2>2 DEF Device, agentVars, TypeInv, TypeOK, WellResolved
<1>19. CASE UNCHANGED vars
  BY <1>1, <1>3, <1>19
  DEF vars, agentVars, historyVars, TypeInv, TypeOK, WellResolved
<1> QED
  BY <1>8, <1>9, <1>10, <1>11, <1>12, <1>13, <1>14, <1>15, <1>16, <1>17, <1>18, <1>19
  DEF Next, Agent

\* In every reachable state the request, the response under construction and
\* the data of the MIB are well-typed: no label or counter slot is indexed
\* outside its array, whatever row count the sensors report.
THEOREM TypeCorrect == Spec => []TypeOK
<1>1. TypeInv => TypeOK
  BY DEF TypeInv
<1> QED
  BY <1>1, InitType, StepType, PTL DEF Spec

-----------------------------------------------------------------------------
(***************************************************************************)
(* The two passes.  What makes the properties of a response inductive is   *)
(* which pass runs for which request, and what the first pass of a Set has *)
(* established so far: every varbind before the current one was acceptable *)
(* at some row count seen since the request came in.                       *)
(***************************************************************************)
Validated(vb) == \E n \in rowsSeen : Acceptable(vb, n)

Working == pc \in {"lookup", "call"}
Concluded == pc = "reply" \/ Answered

SamePdu ==
  /\ ctx.version = request.version
  /\ ctx.access = request.access
  /\ pc \in {"dispatch", "lookup", "call"} => ctx.pdu = request.pdu

PassFits ==
  Working =>
    /\ pass \in {"validate", "commit"} <=> request.pdu = "set"
    /\ pass = "single" => request.version # "v1"
    /\ request.pdu = "set" => request.access = "readwrite"
    /\ pc = "call" => pass # "validate"

Untouched ==
  pc = "dispatch" \/ (Working /\ pass \in {"probe", "validate", "commit"})
    => ctx.vbs = request.vbs

Echoed ==
  Concluded /\ (request.pdu = "set" \/ (ctx.version = "v1" /\ ctx.errStatus # "noError"))
    => ctx.vbs = request.vbs

RowsAreSeen == pc # "idle" => Rows \in rowsSeen

ValidatedSoFar ==
  /\ Working /\ pass = "validate" =>
       \A k \in 1 .. index - 1 : k <= Len(request.vbs) => Validated(request.vbs[k])
  /\ Working /\ pass = "commit" =>
       \A k \in DOMAIN request.vbs : Validated(request.vbs[k])

FirstFailureNamed ==
  Concluded /\ request.pdu = "set" /\ ctx.errStatus \notin {"noError", "genErr"} =>
    /\ ctx.errIndex \in DOMAIN request.vbs
    /\ \E n \in rowsSeen : ~Acceptable(request.vbs[ctx.errIndex], n)
    /\ \A k \in 1 .. ctx.errIndex - 1 : Validated(request.vbs[k])

PassInv ==
  /\ SamePdu
  /\ PassFits
  /\ Untouched
  /\ Echoed
  /\ RowsAreSeen
  /\ ValidatedSoFar
  /\ FirstFailureNamed

LEMMA InitPass == Init => PassInv
<1> SUFFICES ASSUME Init PROVE PassInv
  OBVIOUS
<1> QED
  BY DEF Init, Decoded, EmptyRequest, Working, Concluded, Answered, PassInv, SamePdu,
         PassFits, Untouched, Echoed, RowsAreSeen, ValidatedSoFar, FirstFailureNamed

\* Settling a fetch ends the handler with the varbinds it has, in any pass but
\* the second of a v1 read; or goes on, changing no varbind in the first pass.
LEMMA SettleEffect ==
  ASSUME TypeInv, pass \in ReadPasses, NEW result, NEW vb, Settle(result, vb)
  PROVE  /\ pass' = pass
         /\ ctx'.version = ctx.version /\ ctx'.access = ctx.access
         /\ \/ /\ pc' = "reply" /\ pass # "answer"
               /\ ctx'.vbs = ctx.vbs
            \/ /\ pc' = "lookup" /\ ctx'.pdu = ctx.pdu
               /\ pass = "probe" => ctx' = ctx
<1>1. ctx \in Context
  BY DEF TypeInv, TypeOK
<1>2. ASSUME NEW v
      PROVE  LET c == [ctx EXCEPT !.vbs[index] = v] IN
             c.version = ctx.version /\ c.access = ctx.access /\ c.pdu = ctx.pdu
  BY <1>1 DEF Context
<1>3. ASSUME NEW status, NEW at, Finish(status, at)
      PROVE  /\ pc' = "reply" /\ pass' = pass /\ ctx'.vbs = ctx.vbs
             /\ ctx'.version = ctx.version /\ ctx'.access = ctx.access
  BY <1>1, <1>3 DEF Finish, Context
<1> QED
  BY <1>1, <1>2, <1>3 DEF Settle, Turn, ReadPasses

\* The steps of a read, whose request is not a Set, keep the pass invariant.
LEMMA ReadStepPass ==
  ASSUME TypeInv, PassInv, ReadLookup \/ ReadCall
  PROVE  PassInv'
<1>1. /\ pass \in ReadPasses /\ Working
      /\ UNCHANGED <<request, base, rowsSeen, outcome, phase>>
  BY DEF ReadLookup, ReadCall, Working, mibVars, CallGetter, historyVars
<1>2. request.pdu # "set" /\ (pass = "single" => request.version # "v1")
  BY <1>1 DEF PassInv, PassFits, ReadPasses
<1>3. \/ \E result, vb : Settle(result, vb)
      \/ /\ pc' \in {"lookup", "call"} /\ pass' = pass
         /\ ctx' = ctx \/ (pass = "answer" /\ \E o : ctx' = [ctx EXCEPT !.vbs[index].oid = o])
  BY DEF ReadLookup, ReadCall
<1>4. ctx \in Context
  BY DEF TypeInv, TypeOK
<1>5. CASE \E result, vb : Settle(result, vb)
  BY <1>1, <1>2, <1>5, SettleEffect
  DEF PassInv, SamePdu, PassFits, Untouched, Echoed, RowsAreSeen, ValidatedSoFar,
      FirstFailureNamed, Working, Concluded, Answered, ReadPasses, Rows
<1>6. CASE /\ pc' \in {"lookup", "call"} /\ pass' = pass
           /\ ctx' = ctx \/ (pass = "answer" /\ \E o : ctx' = [ctx EXCEPT !.vbs[index].oid = o])
  <2>1. /\ ctx'.version = ctx.version /\ ctx'.access = ctx.access /\ ctx'.pdu = ctx.pdu
        /\ pass = "probe" => ctx' = ctx
    BY <1>4, <1>6 DEF Context
  <2> QED
    BY <1>1, <1>2, <1>6, <2>1
    DEF PassInv, SamePdu, PassFits, Untouched, Echoed, RowsAreSeen, ValidatedSoFar,
        FirstFailureNamed, Working, Concluded, Answered, ReadPasses, Rows
<1> QED
  BY <1>3, <1>5, <1>6

\* Every step keeps the pass invariant.
LEMMA StepPass == TypeInv /\ PassInv /\ [Next]_vars => PassInv'
<1> SUFFICES ASSUME TypeInv, PassInv, [Next]_vars PROVE PassInv'
  OBVIOUS
<1> USE DEF PassInv, SamePdu, PassFits, Untouched, Echoed, RowsAreSeen,
            ValidatedSoFar, FirstFailureNamed, Working, Concluded, Answered, Rows
<1>1. /\ ctx \in Context /\ ctx.vbs \in Seq(Varbinds)
      /\ index \in Nat \ {0} /\ request.vbs \in Seq(Varbinds)
  BY DEF TypeInv, TypeOK, Context, RequestType
<1>2. ASSUME NEW status, NEW at, Finish(status, at)
      PROVE  /\ pc' = "reply" /\ pass' = pass
             /\ ctx'.vbs = ctx.vbs /\ ctx'.version = ctx.version
             /\ ctx'.access = ctx.access
             /\ ctx'.errStatus = status /\ ctx'.errIndex = at
  BY <1>1, <1>2 DEF Finish, Context
<1>3. ASSUME NEW r \in Requests, Receive(r) PROVE PassInv'
  BY <1>3 DEF Receive, Decoded, mibVars
<1>4. CASE Drop
  BY <1>4 DEF Drop, mibVars, historyVars
<1>5. CASE Dispatch
  <2>1. request.pdu = "set" => request.access = "readwrite"
    BY <1>5 DEF Dispatch, Unanswerable
  <2>2. FirstPass = IF request.pdu = "set" THEN "validate"
                    ELSE IF request.version = "v1" THEN "probe" ELSE "single"
    BY <1>5 DEF Dispatch, FirstPass
  <2> QED
    BY <1>5, <2>1, <2>2 DEF Dispatch, Turn, mibVars, historyVars
<1>6. CASE PassEnds
  <2>1. CASE pass \in DOMAIN SecondPass /\ Turn(SecondPass[pass], 1) /\ ctx' = ctx
    <3>1. \/ pass = "probe" /\ pass' = "answer"
          \/ pass = "validate" /\ pass' = "commit"
      BY <2>1 DEF SecondPass, Turn
    <3>2. pass = "validate" => \A k \in DOMAIN request.vbs : Validated(request.vbs[k])
      <4> SUFFICES ASSUME pass = "validate", NEW k \in DOMAIN request.vbs
                   PROVE  Validated(request.vbs[k])
        OBVIOUS
      <4>1. k \in 1 .. index - 1 /\ k <= Len(request.vbs)
        BY <1>1, <1>6 DEF PassEnds
      <4> QED
        BY <1>6, <4>1 DEF PassEnds
    <3> QED
      BY <1>6, <2>1, <3>1, <3>2 DEF PassEnds, Turn, mibVars, historyVars, Validated
  <2>2. CASE pass \notin DOMAIN SecondPass /\ Finish("noError", 0)
    <3>1. pass \in {"answer", "single", "commit"}
      BY <2>2 DEF SecondPass, TypeInv, TypeOK, Passes, ReadPasses
    <3> QED
      BY <1>2, <1>6, <2>2, <3>1 DEF PassEnds, mibVars, historyVars
  <2> QED
    BY <1>6, <2>1, <2>2 DEF PassEnds
<1>7. CASE ReadLookup \/ ReadCall
  BY <1>7, ReadStepPass
<1>8. CASE Validate
  <2> DEFINE vb == request.vbs[index]
  <2>1. /\ ctx.vbs = request.vbs /\ request.pdu = "set" /\ index \in DOMAIN request.vbs
    BY <1>1, <1>8 DEF Validate
  <2>2. CASE Acceptable(vb, Rows) /\ Turn("validate", index + 1) /\ ctx' = ctx
    <3>1. Validated(vb)
      BY <1>8, <2>2 DEF Validate, Validated
    <3>2. \A k \in 1 .. index' - 1 : k <= Len(request.vbs) => Validated(request.vbs[k])
      <4> SUFFICES ASSUME NEW k \in 1 .. index' - 1, k <= Len(request.vbs)
                   PROVE  Validated(request.vbs[k])
        OBVIOUS
      <4>1. k = index \/ k \in 1 .. index - 1
        BY <1>1, <2>2 DEF Turn
      <4> QED
        BY <1>8, <3>1, <4>1 DEF Validate
    <3> QED
      BY <1>8, <2>1, <2>2, <3>2 DEF Validate, Turn, mibVars, historyVars, Validated
  <2>3. ASSUME NEW result, ~Acceptable(vb, Rows), Finish(V1Status(result), index)
        PROVE  PassInv'
    <3>1. \E n \in rowsSeen : ~Acceptable(vb, n)
      BY <1>8, <2>3 DEF Validate
    <3>2. \A k \in 1 .. index - 1 : Validated(request.vbs[k])
      <4> SUFFICES ASSUME NEW k \in 1 .. index - 1 PROVE Validated(request.vbs[k])
        OBVIOUS
      <4>1. k <= Len(request.vbs)
        BY <1>1, <2>1
      <4> QED
        BY <1>8, <4>1 DEF Validate
    <3> QED
      BY <1>2, <1>8, <2>1, <2>3, <3>1, <3>2 DEF Validate, mibVars, historyVars, Validated
  <2> QED
    BY <1>8, <2>1, <2>2, <2>3 DEF Validate, Acceptable
<1>9. CASE CommitLookup \/ CommitCall
  <2>1. /\ Working /\ pass = "commit" /\ pass' = pass
        /\ UNCHANGED <<request, base, rowsSeen, outcome, phase>>
        /\ \/ pc' \in {"lookup", "call"} /\ ctx' = ctx
           \/ Finish("genErr", index)
    BY <1>9 DEF CommitLookup, CommitCall, CallSetter, Turn, Finish, mibVars, historyVars
  <2> QED
    BY <1>2, <2>1 DEF Validated
<1>10. CASE Reply
  BY <1>10 DEF Reply, mibVars, historyVars, Validated
<1>11. CASE Device
  <2>1. /\ UNCHANGED <<pc, pass, index, ctx, outcome, request>>
        /\ rowsSeen \subseteq rowsSeen'
        /\ pc # "idle" => Rows' \in rowsSeen'
    BY <1>11
    DEF Device, agentVars, SensorsChange, FirstReading, WifiChanges
  <2> QED
    BY <2>1 DEF Validated
<1>12. CASE UNCHANGED vars
  BY <1>12 DEF vars, mibVars, agentVars, historyVars, Validated
<1> QED
  BY <1>3, <1>4, <1>5, <1>6, <1>7, <1>8, <1>9, <1>10, <1>11, <1>12 DEF Next, Agent

LEMMA PassInvariant == Spec => [](TypeInv /\ PassInv)
<1>1. Init => TypeInv /\ PassInv
  BY InitType, InitPass
<1>2. TypeInv /\ PassInv /\ [Next]_vars => (TypeInv /\ PassInv)'
  BY StepType, StepPass
<1> QED
  BY <1>1, <1>2, PTL DEF Spec

\* For every MIB and every behaviour of the device, the response to a Set, and
\* the error response to a v1 read, carry the varbinds of the request.
THEOREM Echo == Spec => []EchoesRequest
<1>1. PassInv => EchoesRequest
  BY DEF PassInv, Echoed, Concluded, EchoesRequest
<1> QED
  BY <1>1, PassInvariant, PTL

\* For every row pattern, the error index of a refused Set names the first
\* varbind that was found bad.
THEOREM FirstFailureWins == Spec => []SetErrorNamesFirstFailure
<1>1. PassInv => SetErrorNamesFirstFailure
  BY DEF PassInv, FirstFailureNamed, Concluded, Validated, SetErrorNamesFirstFailure
<1> QED
  BY <1>1, PassInvariant, PTL

\* A response that repeats its request is as long as the datagram it came in.
EchoFits ==
  /\ request.pdu = "set" => EncodedLen(request.vbs) <= OutCap
  /\ SetIsAnswered

\* A step of the dispatcher or of a handler leaves the request unconcluded.
LEMMA WorkGoesOn ==
  ASSUME Dispatch \/ PassEnds \/ ReadLookup \/ ReadCall \/ Validate \/ CommitLookup \/ CommitCall
  PROVE  pc' # "idle"
<1>1. ASSUME NEW p, NEW k, Turn(p, k) PROVE pc' # "idle"
  BY <1>1 DEF Turn
<1>2. ASSUME NEW status, NEW at, Finish(status, at) PROVE pc' # "idle"
  BY <1>2 DEF Finish
<1>3. ASSUME NEW result, NEW vb, Settle(result, vb) PROVE pc' # "idle"
  BY <1>1, <1>2, <1>3, Zenon DEF Settle
<1>4. CASE ReadLookup
  <2>1. CASE UNCHANGED pc
    BY <1>4, <2>1 DEF ReadLookup
  <2>2. CASE pc' = "call"
    BY <2>2
  <2> QED BY <1>3, <1>4, <2>1, <2>2, Zenon DEF ReadLookup
<1>5. CASE ReadCall
  BY <1>3, <1>5, Zenon DEF ReadCall
<1>6. CASE CommitLookup
  <2>1. pc' = "call" => pc' # "idle"
    OBVIOUS
  <2> QED BY <1>2, <1>6, <2>1, Zenon DEF CommitLookup
<1> QED BY <1>1, <1>2, <1>4, <1>5, <1>6, Zenon
        DEF Dispatch, PassEnds, Validate, CommitCall

LEMMA StepEchoFits == TypeInv /\ PassInv /\ EchoFits /\ [Next]_vars => EchoFits'
<1> SUFFICES ASSUME TypeInv, PassInv, EchoFits, [Next]_vars PROVE EchoFits'
  OBVIOUS
<1>1. ASSUME NEW r \in Requests, Receive(r) PROVE EchoFits'
  <2>1. pc' = "dispatch" /\ request' = r /\ EncodedLen(r.vbs) <= OutCap
    BY <1>1, AgentAssumption DEF Receive
  <2> QED BY <2>1 DEF EchoFits, SetIsAnswered
<1>2. CASE UNCHANGED request /\ pc' # "idle"
  BY <1>2 DEF EchoFits, SetIsAnswered
<1>3. CASE UNCHANGED <<request, pc, outcome>>
  BY <1>3 DEF EchoFits, SetIsAnswered
<1>4. CASE Drop
  <2>1. /\ pc = "dispatch" /\ UNCHANGED request
        /\ ctx.version = request.version /\ ctx.access = request.access /\ ctx.pdu = request.pdu
    BY <1>4 DEF Drop, historyVars, PassInv, SamePdu
  <2>2. request.pdu = "set" => request.version = "v3" \/ request.access # "readwrite"
    BY <1>4, <2>1 DEF Drop, Unanswerable
  <2> QED BY <2>1, <2>2 DEF EchoFits, SetIsAnswered
<1>5. CASE Reply
  <2>1. /\ pc = "reply" /\ UNCHANGED request
        /\ outcome' = IF EncodedLen(ctx.vbs) <= OutCap THEN "sent" ELSE "dropped"
    BY <1>5 DEF Reply, historyVars
  <2>2. request.pdu = "set" => ctx.vbs = request.vbs
    BY <2>1 DEF PassInv, Echoed, Concluded
  <2>3. request.pdu = "set" => outcome' = "sent"
    BY <2>1, <2>2 DEF EchoFits
  <2> QED BY <2>1, <2>3 DEF EchoFits, SetIsAnswered
<1>6. CASE Dispatch \/ PassEnds \/ ReadLookup \/ ReadCall \/ Validate \/ CommitLookup \/ CommitCall
  <2>1. UNCHANGED request
    BY <1>6, Zenon DEF Dispatch, PassEnds, ReadLookup, ReadCall, Validate, CommitLookup, CommitCall,
                       historyVars
  <2>2. pc' # "idle"
    BY <1>6, WorkGoesOn
  <2> QED BY <1>2, <2>1, <2>2
<1>7. CASE Device \/ UNCHANGED vars
  BY <1>3, <1>7, Zenon DEF Device, vars, agentVars, historyVars
<1> QED BY <1>1, <1>4, <1>5, <1>6, <1>7, Zenon DEF Next, Agent

\* However long the strings it wrote, a Set that a manager may send is
\* answered: only those without write access are dropped (snmp_message.c,
\* snmp_dispatch.c).
THEOREM SetsAreAnswered == Spec => []SetIsAnswered
<1>1. Init => EchoFits
  BY DEF Init, EmptyRequest, EchoFits, SetIsAnswered
<1>2. EchoFits => SetIsAnswered
  BY DEF EchoFits
<1> QED BY <1>1, <1>2, StepEchoFits, PassInvariant, PTL DEF Spec

-----------------------------------------------------------------------------
(***************************************************************************)
(* The answers of a v2c read.  Every varbind before the current one has    *)
(* been answered with what was true when it was looked up, the others are  *)
(* as they came; and what the registry found for the current one was true  *)
(* for a row count seen since the request arrived, though the row may have *)
(* gone in between.                                                        *)
(***************************************************************************)
GetTruth(seen, q, a) ==
  /\ a.oid = q.oid
  /\ \E n \in seen :
       LET r == Resolve(q.oid, n) IN
       IF r.res = "ok" THEN a.tag = r.tag ELSE a.tag = ExceptionOf[r.res]

NextTruth(seen, q, a) ==
  \/ \E n \in seen :
       LET r == ResolveNext(q.oid, n) IN
       IF r.res = "ok" THEN a.oid = r.oid /\ a.tag = r.tag
       ELSE a.oid = q.oid /\ a.tag = "endOfMibView"
  \/ a.oid = q.oid /\ a.tag = "noSuchInstance" /\ \E n, k \in seen : n # k

Truth(seen, pdu, q, a) == IF pdu = "get" THEN GetTruth(seen, q, a) ELSE NextTruth(seen, q, a)

V2cRead == request.version = "v2c" /\ request.pdu \in {"get", "getnext"}

ReadSoFar ==
  /\ pass = "single" /\ skips = 0
  /\ Len(ctx.vbs) = Len(request.vbs)
  /\ \A k \in 1 .. Len(request.vbs) :
       /\ k < index => Truth(rowsSeen, request.pdu, request.vbs[k], ctx.vbs[k])
       /\ ~(k < index) => ctx.vbs[k] = request.vbs[k]

FoundTrue ==
  /\ found.res = "ok"
  /\ \E n \in rowsSeen :
       found = IF request.pdu = "get" THEN Resolve(request.vbs[index].oid, n)
               ELSE ResolveNext(request.vbs[index].oid, n)

AllRead ==
  /\ Len(ctx.vbs) = Len(request.vbs)
  /\ \A k \in 1 .. Len(request.vbs) :
       Truth(rowsSeen, request.pdu, request.vbs[k], ctx.vbs[k])

TruthInv ==
  V2cRead =>
    /\ Working => ReadSoFar
    /\ pc = "call" => FoundTrue
    /\ Concluded /\ ctx.errStatus = "noError" => AllRead

\* What was true at an instant of the request remains so.
LEMMA TruthLasts ==
  ASSUME NEW seen, NEW more, seen \subseteq more, NEW pdu, NEW q, NEW a, Truth(seen, pdu, q, a)
  PROVE  Truth(more, pdu, q, a)
<1>1. CASE pdu = "get"
  <2>1. GetTruth(seen, q, a)
    BY <1>1 DEF Truth
  <2>2. GetTruth(more, q, a)
    BY <2>1, Zenon DEF GetTruth
  <2> QED BY <1>1, <2>2 DEF Truth
<1>2. CASE pdu # "get"
  <2>1. NextTruth(seen, q, a)
    BY <1>2 DEF Truth
  <2>2. NextTruth(more, q, a)
    BY <2>1, Zenon DEF NextTruth
  <2> QED BY <1>2, <2>2 DEF Truth
<1> QED BY <1>1, <1>2

\* A v2c fetch aborts the response, or answers its varbind and goes on.
LEMMA SettleSingle ==
  ASSUME TypeInv, pass = "single", ctx.version = "v2c", index \in 1 .. Len(ctx.vbs),
         NEW result \in Results, NEW vb, Settle(result, vb)
  PROVE  \/ pc' = "reply" /\ ctx'.errStatus # "noError"
         \/ /\ pc' = "lookup" /\ pass' = "single" /\ index' = index + 1 /\ skips' = 0
            /\ \E a : /\ ctx'.vbs = [ctx.vbs EXCEPT ![index] = a]
                      /\ \/ result = "ok" /\ a = vb
                         \/ /\ V2cException(result) # NoException
                            /\ a = Exceptional(ctx.vbs[index], V2cException(result))
<1> DEFINE tr == Translate(ctx.version, result)
<1>1. ctx \in Context
  BY DEF TypeInv, TypeOK
<1>2. /\ tr.abort <=> tr.status # "noError"
      /\ ~tr.abort /\ tr.exception = NoException => result = "ok"
  BY TranslateType
<1>3. ~tr.abort /\ tr.exception # NoException =>
        V2cException(result) # NoException /\ tr.exception = V2cException(result)
  BY DEF Translate, Translation, NoException
<1>4. \/ tr.abort /\ Finish(tr.status, index)
      \/ /\ ~tr.abort /\ Turn("single", index + 1)
         /\ ctx' = IF tr.exception = NoException
                   THEN [ctx EXCEPT !.vbs[index] = vb]
                   ELSE [ctx EXCEPT !.vbs[index] = Exceptional(ctx.vbs[index], tr.exception)]
  BY DEF Settle
<1> HIDE DEF tr
<1>5. CASE tr.abort /\ Finish(tr.status, index)
  BY <1>1, <1>2, <1>5 DEF Finish, Context
<1>6. CASE /\ ~tr.abort /\ Turn("single", index + 1)
           /\ ctx' = IF tr.exception = NoException
                     THEN [ctx EXCEPT !.vbs[index] = vb]
                     ELSE [ctx EXCEPT !.vbs[index] = Exceptional(ctx.vbs[index], tr.exception)]
  <2>1. ASSUME NEW a, ctx' = [ctx EXCEPT !.vbs[index] = a]
        PROVE  ctx'.vbs = [ctx.vbs EXCEPT ![index] = a]
    BY <1>1, <2>1 DEF Context
  <2>2. pc' = "lookup" /\ pass' = "single" /\ index' = index + 1 /\ skips' = 0
    BY <1>6 DEF Turn
  <2>3. CASE tr.exception = NoException
    BY <1>2, <1>6, <2>1, <2>2, <2>3
  <2>4. CASE tr.exception # NoException
    BY <1>3, <1>6, <2>1, <2>2, <2>4
  <2> QED BY <2>3, <2>4
<1> QED BY <1>4, <1>5, <1>6

LEMMA TruthSettled ==
  ASSUME TypeInv, PassInv, V2cRead, ReadSoFar, Working, index \in 1 .. Len(ctx.vbs),
         UNCHANGED <<request, rowsSeen>>,
         NEW result \in Results, NEW vb, Settle(result, vb),
         result = "ok" => Truth(rowsSeen, request.pdu, request.vbs[index], vb),
         V2cException(result) # NoException =>
           Truth(rowsSeen, request.pdu, request.vbs[index],
                 Exceptional(request.vbs[index], V2cException(result)))
  PROVE  TruthInv'
<1>1. /\ ctx \in Context /\ ctx.vbs \in Seq(Varbinds) /\ index \in Nat \ {0}
      /\ Len(ctx.vbs) = Len(request.vbs) /\ ctx.vbs[index] = request.vbs[index]
      /\ ctx.version = "v2c"
  BY DEF TypeInv, TypeOK, Context, ReadSoFar, PassInv, SamePdu, V2cRead
<1>2. CASE pc' = "reply" /\ ctx'.errStatus # "noError"
  BY <1>2 DEF TruthInv, Working, Concluded, Answered
<1>3. ASSUME NEW a, ctx'.vbs = [ctx.vbs EXCEPT ![index] = a],
             pc' = "lookup", pass' = "single", index' = index + 1, skips' = 0,
             Truth(rowsSeen, request.pdu, request.vbs[index], a)
      PROVE  TruthInv'
  <2>1. Len(ctx'.vbs) = Len(request'.vbs) /\ ctx'.vbs[index] = a
    BY <1>1, <1>3
  <2>2. ASSUME NEW k \in 1 .. Len(request.vbs)
        PROVE  /\ k < index' => Truth(rowsSeen, request.pdu, request.vbs[k], ctx'.vbs[k])
               /\ ~(k < index') => ctx'.vbs[k] = request.vbs[k]
    <3>1. CASE k = index
      BY <1>1, <1>3, <2>1, <3>1
    <3>2. CASE k # index
      <4>1. ctx'.vbs[k] = ctx.vbs[k]
        BY <1>1, <1>3, <3>2
      <4>2. k < index' <=> k < index
        BY <1>1, <1>3, <3>2
      <4> QED BY <4>1, <4>2, Zenon DEF ReadSoFar
    <3> QED BY <3>1, <3>2
  <2>3. ReadSoFar'
    BY <1>3, <2>1, <2>2, Zenon DEF ReadSoFar
  <2> QED BY <1>3, <2>3 DEF TruthInv, Concluded, Answered
<1>4. pass = "single"
  BY DEF ReadSoFar
<1>5. \/ pc' = "reply" /\ ctx'.errStatus # "noError"
      \/ /\ pc' = "lookup" /\ pass' = "single" /\ index' = index + 1 /\ skips' = 0
         /\ \E a : /\ ctx'.vbs = [ctx.vbs EXCEPT ![index] = a]
                   /\ \/ result = "ok" /\ a = vb
                      \/ /\ V2cException(result) # NoException
                         /\ a = Exceptional(ctx.vbs[index], V2cException(result))
  BY <1>1, <1>4, SettleSingle, Zenon
<1> QED BY <1>1, <1>2, <1>3, <1>5, Zenon

\* What the registry says of a missing instance is what the varbind reports.
LEMMA MissIsTrue ==
  ASSUME TypeInv, PassInv, V2cRead, ReadSoFar, pc = "lookup", index <= Len(ctx.vbs)
  PROVE  /\ Lookup = IF request.pdu = "get" THEN Resolve(request.vbs[index].oid, Rows)
                     ELSE ResolveNext(request.vbs[index].oid, Rows)
         /\ Rows \in rowsSeen
         /\ ~Hidden(Lookup)
         /\ Lookup.res \in Results
         /\ Lookup.res # "ok" =>
              Truth(rowsSeen, request.pdu, request.vbs[index],
                    Exceptional(request.vbs[index], V2cException(Lookup.res)))
<1> DEFINE q == request.vbs[index]
<1>1. /\ index \in Nat \ {0} /\ request.vbs \in Seq(Varbinds)
      /\ Len(ctx.vbs) = Len(request.vbs) /\ MibTypeOK
  BY DEF TypeInv, TypeOK, RequestType, ReadSoFar
<1>2. q \in Varbinds /\ index \in 1 .. Len(request.vbs)
  BY <1>1
<1>3. q.oid \in Oid /\ DOMAIN q = {"oid", "tag", "val"}
      /\ q = [oid |-> q.oid, tag |-> q.tag, val |-> q.val]
  BY <1>2 DEF Varbinds
<1>4. ctx.vbs[index] = q /\ skips = 0
  BY <1>1, <1>2 DEF ReadSoFar
<1>5. Rows \in Nat /\ Rows \in rowsSeen
  BY <1>1, RowsType DEF PassInv, RowsAreSeen
<1>6. ctx.pdu = request.pdu /\ ctx.version = "v2c" /\ request.pdu \in {"get", "getnext"}
  BY DEF PassInv, SamePdu, V2cRead
<1>7. ~Hidden(Lookup)
  BY <1>6 DEF Hidden
<1>8. ASSUME NEW e
      PROVE  Exceptional(q, e).oid = q.oid /\ Exceptional(q, e).tag = e
  BY <1>3 DEF Exceptional
<1> HIDE DEF q
<1>9. CASE request.pdu = "get"
  <2>1. Lookup = Resolve(q.oid, Rows)
    BY <1>4, <1>6, <1>9 DEF Lookup, Current
  <2>2. Lookup.res \in {"ok", "noSuchObject", "noSuchInstance"}
    BY <1>3, <1>5, <2>1, ResolveFacts
  <2>3. ASSUME Lookup.res # "ok"
        PROVE  Truth(rowsSeen, request.pdu, q, Exceptional(q, V2cException(Lookup.res)))
    <3>1. V2cException(Lookup.res) = ExceptionOf[Resolve(q.oid, Rows).res]
      BY <2>1, <2>2, <2>3 DEF V2cException, ExceptionOf
    <3>2. GetTruth(rowsSeen, q, Exceptional(q, V2cException(Lookup.res)))
      BY <1>5, <1>8, <2>1, <2>3, <3>1 DEF GetTruth
    <3> QED BY <1>9, <3>2 DEF Truth
  <2> QED BY <1>5, <1>7, <1>9, <2>1, <2>2, <2>3 DEF q, Results
<1>10. CASE request.pdu = "getnext"
  <2>1. Lookup = ResolveNext(q.oid, Rows)
    BY <1>4, <1>6, <1>10 DEF Lookup, Current
  <2>2. Lookup.res \in {"ok", "endOfView"}
    BY <1>3, <1>5, <2>1, ResolveNextFacts
  <2>3. ASSUME Lookup.res # "ok"
        PROVE  Truth(rowsSeen, request.pdu, q, Exceptional(q, V2cException(Lookup.res)))
    <3>1. V2cException(Lookup.res) = "endOfMibView"
      BY <2>2, <2>3 DEF V2cException
    <3>2. NextTruth(rowsSeen, q, Exceptional(q, V2cException(Lookup.res)))
      BY <1>5, <1>8, <2>1, <2>3, <3>1 DEF NextTruth
    <3> QED BY <1>10, <3>2 DEF Truth
  <2> QED BY <1>5, <1>7, <1>10, <2>1, <2>2, <2>3 DEF q, Results
<1> QED BY <1>6, <1>9, <1>10

\* The value a getter returns answers its varbind; so does noSuchInstance when
\* the row has gone since the lookup.
LEMMA CallIsTrue ==
  ASSUME TypeInv, PassInv, V2cRead, ReadSoFar, pc = "call", FoundTrue, NEW value
  PROVE  /\ Truth(rowsSeen, request.pdu, request.vbs[index],
                  [oid |-> found.oid, tag |-> found.tag, val |-> value])
         /\ V2cException(GetResult(found)) # NoException =>
              Truth(rowsSeen, request.pdu, request.vbs[index],
                    Exceptional(request.vbs[index], V2cException(GetResult(found))))
<1> DEFINE q == request.vbs[index]
           vb == [oid |-> found.oid, tag |-> found.tag, val |-> value]
<1>1. /\ index \in Nat \ {0} /\ request.vbs \in Seq(Varbinds)
      /\ Len(ctx.vbs) = Len(request.vbs) /\ MibTypeOK /\ index <= Len(ctx.vbs)
      /\ rowsSeen \subseteq Sensors
  BY DEF TypeInv, TypeOK, RequestType, ReadSoFar
<1>2. q \in Varbinds /\ index \in 1 .. Len(request.vbs)
  BY <1>1
<1>3. q.oid \in Oid /\ DOMAIN q = {"oid", "tag", "val"}
      /\ q = [oid |-> q.oid, tag |-> q.tag, val |-> q.val]
  BY <1>2 DEF Varbinds
<1>4. Rows \in Nat /\ Rows \in rowsSeen /\ rowsSeen \subseteq Nat
  BY <1>1, RowsType DEF PassInv, RowsAreSeen, Sensors
<1>5. request.pdu \in {"get", "getnext"}
  BY DEF V2cRead
<1>6. ASSUME NEW e
      PROVE  Exceptional(q, e).oid = q.oid /\ Exceptional(q, e).tag = e
  BY <1>3 DEF Exceptional
<1>7. V2cException(GetResult(found)) # NoException =>
        RowGone(found) /\ V2cException(GetResult(found)) = "noSuchInstance"
  BY DEF GetResult, V2cException, NoException
<1>8. RowGone(found) => found.accessor \in SensorAccessors /\ found.row > Rows
  BY DEF RowGone
<1> HIDE DEF q
<1>9. CASE request.pdu = "get"
  <2>1. PICK n \in rowsSeen : found = Resolve(q.oid, n)
    BY <1>9 DEF FoundTrue, q
  <2>2. found.oid = q.oid /\ found.res = "ok"
    BY <1>3, <1>4, <2>1, ResolveFacts DEF FoundTrue
  <2>3. GetTruth(rowsSeen, q, vb)
    BY <2>1, <2>2 DEF GetTruth
  <2>4. ASSUME RowGone(found) PROVE GetTruth(rowsSeen, q, Exceptional(q, "noSuchInstance"))
    <3>1. Resolve(q.oid, Rows).res = "noSuchInstance"
      BY <1>3, <1>4, <1>8, <2>1, <2>4, ResolveFacts
    <3> QED BY <1>4, <1>6, <3>1 DEF GetTruth, ExceptionOf
  <2> QED BY <1>7, <1>9, <2>3, <2>4, Zenon DEF Truth, q
<1>10. CASE request.pdu = "getnext"
  <2>1. PICK n \in rowsSeen : found = ResolveNext(q.oid, n)
    BY <1>10 DEF FoundTrue, q
  <2>2. NextTruth(rowsSeen, q, vb)
    BY <2>1 DEF NextTruth, FoundTrue
  <2>3. ASSUME RowGone(found) PROVE NextTruth(rowsSeen, q, Exceptional(q, "noSuchInstance"))
    <3>1. found.row <= n
      BY <1>3, <1>4, <1>8, <2>1, <2>3, ResolveNextFacts
    <3>2. found.row \in Nat
      BY DEF TypeInv, TypeOK, Resolved
    <3>3. n # Rows
      BY <1>4, <1>8, <2>3, <3>1, <3>2
    <3> QED BY <1>4, <1>6, <2>1, <3>3 DEF NextTruth
  <2>4. request.pdu # "get"
    BY <1>10
  <2> QED BY <1>7, <2>2, <2>3, <2>4, Zenon DEF Truth, q
<1> QED BY <1>5, <1>9, <1>10

\* Every step keeps the answers true.
LEMMA StepTruth == TypeInv /\ PassInv /\ TruthInv /\ [Next]_vars => TruthInv'
<1> SUFFICES ASSUME TypeInv, PassInv, TruthInv, [Next]_vars PROVE TruthInv'
  OBVIOUS
<1>1. ASSUME NEW r \in Requests, Receive(r) PROVE TruthInv'
  BY <1>1 DEF Receive, TruthInv, Working, Concluded, Answered
<1>2. CASE Drop
  BY <1>2 DEF Drop, TruthInv, Working, Concluded, Answered
<1>3. CASE Dispatch
  <2>1. /\ ctx' = ctx /\ pc' = "lookup" /\ pass' = FirstPass /\ index' = 1 /\ skips' = 0
        /\ request' = request /\ ctx.vbs = request.vbs
        /\ ctx.pdu = request.pdu /\ ctx.version = request.version
    BY <1>3 DEF Dispatch, Turn, historyVars, PassInv, Untouched, SamePdu
  <2>2. V2cRead => FirstPass = "single"
    BY <2>1 DEF V2cRead, FirstPass
  <2>3. V2cRead => ReadSoFar'
    BY <2>1, <2>2 DEF ReadSoFar
  <2> QED BY <2>1, <2>3 DEF TruthInv, V2cRead, Working, Concluded, Answered
<1>4. CASE PassEnds
  <2>1. UNCHANGED <<request, rowsSeen>> /\ Working /\ pc = "lookup"
    BY <1>4 DEF PassEnds, historyVars, Working
  <2> SUFFICES ASSUME V2cRead PROVE TruthInv'
    BY <2>1 DEF TruthInv, V2cRead
  <2>2. ReadSoFar
    BY <2>1 DEF TruthInv
  <2>3. Finish("noError", 0)
    BY <1>4, <2>2 DEF PassEnds, SecondPass, ReadSoFar
  <2>4. pc' = "reply" /\ ctx'.vbs = ctx.vbs
    BY <2>3 DEF Finish, TypeInv, TypeOK, Context
  <2>5. ASSUME NEW k \in 1 .. Len(request.vbs) PROVE k < index
    BY <1>4, <2>2, <2>5 DEF PassEnds, ReadSoFar, TypeInv, TypeOK, RequestType
  <2>6. AllRead'
    BY <2>1, <2>2, <2>4, <2>5, Zenon DEF ReadSoFar, AllRead
  <2> QED BY <2>4, <2>6 DEF TruthInv, Working
<1>5. CASE ReadLookup
  <2>1. UNCHANGED <<request, rowsSeen>> /\ Working /\ pc = "lookup" /\ index <= Len(ctx.vbs)
    BY <1>5 DEF ReadLookup, historyVars, Working
  <2> SUFFICES ASSUME V2cRead PROVE TruthInv'
    BY <2>1 DEF TruthInv, V2cRead
  <2>2. ReadSoFar
    BY <2>1 DEF TruthInv
  <2>3. /\ Lookup = IF request.pdu = "get" THEN Resolve(request.vbs[index].oid, Rows)
                    ELSE ResolveNext(request.vbs[index].oid, Rows)
        /\ Rows \in rowsSeen /\ ~Hidden(Lookup) /\ Lookup.res \in Results
        /\ Lookup.res # "ok" =>
             Truth(rowsSeen, request.pdu, request.vbs[index],
                   Exceptional(request.vbs[index], V2cException(Lookup.res)))
    BY <2>1, <2>2, MissIsTrue, Zenon
  <2>4. CASE Lookup.res # "ok" /\ Settle(Lookup.res, ctx.vbs[index])
    <3>1. index \in 1 .. Len(ctx.vbs)
      BY <2>1 DEF TypeInv, TypeOK, Context
    <3> QED BY <2>1, <2>2, <2>3, <2>4, <3>1, TruthSettled, Zenon
  <2>5. CASE /\ Lookup.res = "ok" /\ pc' = "call" /\ found' = Lookup
             /\ ctx' = IF pass = "answer"
                       THEN [ctx EXCEPT !.vbs[index].oid = Lookup.oid] ELSE ctx
             /\ UNCHANGED <<pass, index, skips>>
    <3>1. ctx' = ctx
      BY <2>2, <2>5 DEF ReadSoFar
    <3>2. ReadSoFar'
      BY <2>1, <2>2, <2>5, <3>1 DEF ReadSoFar
    <3>3. FoundTrue'
      BY <2>1, <2>3, <2>5, Zenon DEF FoundTrue
    <3> QED BY <2>5, <3>2, <3>3 DEF TruthInv, Concluded, Answered
  <2> QED BY <1>5, <2>3, <2>4, <2>5, Zenon DEF ReadLookup
<1>6. CASE ReadCall
  <2>1. UNCHANGED <<request, rowsSeen>> /\ Working /\ pc = "call" /\ MibTypeOK
    BY <1>6 DEF ReadCall, historyVars, Working, TypeInv, TypeOK
  <2> SUFFICES ASSUME V2cRead PROVE TruthInv'
    BY <2>1 DEF TruthInv, V2cRead
  <2>2. ReadSoFar /\ FoundTrue
    BY <2>1 DEF TruthInv
  <2>3. GetResult(found) \in Results
    BY DEF GetResult, Results
  <2>4. index \in 1 .. Len(ctx.vbs)
    BY <2>1 DEF TypeInv, TypeOK, Context
  <2> DEFINE vb == [oid |-> found.oid, tag |-> found.tag, val |-> GetValue(found)]
  <2>5. Settle(GetResult(found), vb)
    BY <1>6 DEF ReadCall
  <2>6. /\ Truth(rowsSeen, request.pdu, request.vbs[index], vb)
        /\ V2cException(GetResult(found)) # NoException =>
             Truth(rowsSeen, request.pdu, request.vbs[index],
                   Exceptional(request.vbs[index], V2cException(GetResult(found))))
    BY <2>1, <2>2, CallIsTrue, Zenon
  <2> HIDE DEF vb
  <2> QED BY <2>1, <2>2, <2>3, <2>4, <2>5, <2>6, TruthSettled, Zenon
<1>7. CASE Validate \/ CommitLookup \/ CommitCall
  <2>1. UNCHANGED request /\ request.pdu = "set"
    BY <1>7 DEF Validate, CommitLookup, CommitCall, historyVars, PassInv, PassFits, Working
  <2> QED BY <2>1 DEF TruthInv, V2cRead
<1>8. CASE Reply
  <2>1. pc = "reply" /\ pc' = "idle" /\ UNCHANGED <<ctx, request, rowsSeen>>
    BY <1>8 DEF Reply, historyVars
  <2> QED BY <2>1, Zenon DEF TruthInv, V2cRead, Working, Concluded, AllRead
<1>9. CASE Device
  <2>1. UNCHANGED <<agentVars, request>> /\ rowsSeen \subseteq rowsSeen'
    BY <1>9 DEF Device
  <2>2. ASSUME NEW q, NEW a, Truth(rowsSeen, request.pdu, q, a)
        PROVE  Truth(rowsSeen', request.pdu, q, a)
    BY <2>1, <2>2, TruthLasts
  <2>3. UNCHANGED <<pc, pass, index, skips, found, ctx, outcome>>
    BY <2>1 DEF agentVars
  <2>4. (ReadSoFar => ReadSoFar') /\ (AllRead => AllRead')
    BY <2>1, <2>2, <2>3, Zenon DEF ReadSoFar, AllRead
  <2>5. FoundTrue => FoundTrue'
    BY <2>1, <2>3, Zenon DEF FoundTrue
  <2> QED BY <2>1, <2>3, <2>4, <2>5, Zenon
          DEF TruthInv, V2cRead, Working, Concluded, Answered
<1>10. CASE UNCHANGED vars
  BY <1>10, Zenon
  DEF vars, agentVars, historyVars, TruthInv, V2cRead, Working, Concluded, Answered,
      ReadSoFar, AllRead, FoundTrue
<1> QED BY <1>1, <1>2, <1>3, <1>4, <1>5, <1>6, <1>7, <1>8, <1>9, <1>10, Zenon DEF Next, Agent

\* For every MIB and every behaviour of the sensors, each varbind of a v2c
\* response without an error reports what was true while the request was
\* served (snmp_pdu_get.c, snmp_pdu_getnext.c).
THEOREM AnswersWereTrue == Spec => []V2cAnswersWereTrue
<1>1. Init => TruthInv
  BY DEF Init, EmptyRequest, TruthInv, V2cRead
<1>2. TypeInv /\ PassInv /\ TruthInv => V2cAnswersWereTrue
  <2> SUFFICES ASSUME TypeInv, PassInv, TruthInv, Answered, ctx.version = "v2c",
                      request.pdu \in {"get", "getnext"}, ctx.errStatus = "noError",
                      NEW k \in DOMAIN request.vbs
               PROVE  IF request.pdu = "get" THEN GetWasTrue(request.vbs[k], ctx.vbs[k])
                      ELSE GetNextWasTrue(request.vbs[k], ctx.vbs[k])
    BY DEF V2cAnswersWereTrue
  <2>1. V2cRead /\ k \in 1 .. Len(request.vbs)
    BY DEF PassInv, SamePdu, V2cRead, TypeInv, TypeOK, RequestType
  <2>2. Truth(rowsSeen, request.pdu, request.vbs[k], ctx.vbs[k])
    BY <2>1, Zenon DEF TruthInv, Concluded, AllRead
  <2>3. CASE request.pdu = "get"
    BY <2>2, <2>3, Zenon DEF Truth, GetTruth, GetWasTrue
  <2>4. CASE request.pdu # "get"
    <3>1. ASSUME NEW m \in rowsSeen, NEW n \in rowsSeen, m # n
          PROVE  Cardinality(rowsSeen) > 1
      <4>1. IsFiniteSet(Sensors) /\ rowsSeen \subseteq Sensors
        BY FS_Interval, DeviceAssumption DEF Sensors, TypeInv, TypeOK
      <4>2. IsFiniteSet(rowsSeen)
        BY <4>1, FS_Subset
      <4>3. /\ Cardinality({m, n}) <= Cardinality(rowsSeen)
            /\ Cardinality({m, n}) = 2
        <5>1. {m, n} \subseteq rowsSeen
          OBVIOUS
        <5>2. IsFiniteSet({m}) /\ Cardinality({m}) = 1
          BY FS_Singleton
        <5>3. Cardinality({m} \cup {n}) = Cardinality({m}) + 1
          <6>1. n \notin {m}
            BY <3>1
          <6> QED BY <5>2, <6>1, FS_AddElement
        <5>4. {m} \cup {n} = {m, n}
          OBVIOUS
        <5>5. Cardinality({m, n}) <= Cardinality(rowsSeen)
          BY <4>2, <5>1, FS_Subset
        <5> QED BY <5>2, <5>3, <5>4, <5>5
      <4> QED BY <4>2, <4>3, FS_CardinalityType
    <3>2. NextTruth(rowsSeen, request.vbs[k], ctx.vbs[k])
      BY <2>2, <2>4, Zenon DEF Truth
    <3>3. GetNextWasTrue(request.vbs[k], ctx.vbs[k])
      BY <3>1, <3>2, Zenon DEF NextTruth, GetNextWasTrue
    <3> QED BY <2>4, <3>3
  <2> QED BY <2>3, <2>4
<1> QED BY <1>1, <1>2, StepTruth, PassInvariant, PTL DEF Spec

-----------------------------------------------------------------------------
\* Filling an empty label slot with its default shows no manager anything new.
LEMMA GetterInvisible ==
  ASSUME MibTypeOK, NEW r, CallGetter(r)
  PROVE  Visible(Store)' = Visible(Store)
<1>1. \A n \in Sensors : LabelOf(label'[n]) = LabelOf(label[n])
  BY DEF MibTypeOK, CallGetter, LabelAfterGet, LabelOf, DefaultLabel, EmptyString
<1>2. field' = field
  BY DEF CallGetter
<1> QED
  BY <1>1, <1>2 DEF Visible, Store

\* Only the call of a setter shows a manager anything new.
LEMMA OnlyCommitWrites ==
  ASSUME TypeInv, [Next]_vars, ~CommitCall
  PROVE  Visible(Store)' = Visible(Store)
<1>1. ASSUME UNCHANGED <<field, label, readCount>> PROVE Visible(Store)' = Visible(Store)
  BY <1>1 DEF Visible, Store
<1>2. ASSUME NEW r \in Requests, Receive(r) PROVE Visible(Store)' = Visible(Store)
  BY <1>1, <1>2 DEF Receive, mibVars
<1>3. CASE Drop \/ Dispatch \/ PassEnds \/ ReadLookup \/ Validate \/ CommitLookup \/ Reply
  BY <1>1, <1>3
  DEF Drop, Dispatch, PassEnds, ReadLookup, Validate, CommitLookup, Reply, mibVars
<1>4. CASE ReadCall
  BY <1>4, GetterInvisible DEF ReadCall, TypeInv, TypeOK
<1>5. CASE Device
  BY <1>1, <1>5 DEF Device, SensorsChange, FirstReading, WifiChanges
<1>6. CASE UNCHANGED vars
  BY <1>1, <1>6 DEF vars, mibVars
<1> QED BY <1>2, <1>3, <1>4, <1>5, <1>6 DEF Next, Agent

\* Nothing but the commit pass of a Set, all of whose varbinds have passed
\* validation and whose sender may write, changes what a manager can read.
THEOREM OnlySetsWrite == Spec => OnlyValidatedSetsWrite
<1> DEFINE Changes == Visible(Store)' # Visible(Store)
           Permitted == /\ pass = "commit"
                        /\ request.access = "readwrite"
                        /\ \A k \in DOMAIN request.vbs :
                             \E n \in rowsSeen : Acceptable(request.vbs[k], n)
<1>1. ASSUME TypeInv, PassInv, [Next]_vars PROVE [Changes => Permitted]_vars
  <2>1. CASE ~CommitCall
    BY <1>1, <2>1, OnlyCommitWrites
  <2>2. CASE CommitCall
    BY <1>1, <2>2
    DEF CommitCall, PassInv, PassFits, ValidatedSoFar, Working, Validated
  <2> QED BY <2>1, <2>2
<1> QED
  BY <1>1, PassInvariant, PTL DEF Spec, OnlyValidatedSetsWrite

-----------------------------------------------------------------------------
(***************************************************************************)
(* What a Set has written.  Before its second pass it is nothing, during   *)
(* that pass the varbinds before the current one, and when it concludes    *)
(* what its error status and index say.                                    *)
(***************************************************************************)
Stored(k) ==
  /\ field = WrittenPrefix(base, request.vbs, k).field
  /\ label = WrittenPrefix(base, request.vbs, k).label

FoundForSet ==
  found.res = "ok" /\ \E n \in Sensors : found = Resolve(request.vbs[index].oid, n)

WriteInv ==
  request.pdu = "set" =>
    /\ pc = "dispatch" \/ (Working /\ pass = "validate") => Stored(0)
    /\ Working /\ pass = "commit" => index - 1 <= Len(request.vbs) /\ Stored(index - 1)
    /\ pc = "call" => FoundForSet
    /\ Concluded => Stored(Applied)

\* The two parts of a prefix.
FieldPrefix(s, vbs, k) ==
  [o \in Fields |-> LastValue(vbs, FieldWrites(vbs, k, o), s.field[o])]
LabelPrefix(s, vbs, k) ==
  [n \in Sensors |-> LastValue(vbs, LabelWrites(vbs, k, n), s.label[n])]

LEMMA PrefixParts ==
  ASSUME NEW s \in [field : [Fields -> Nat], label : [Sensors -> Nat],
                    readCount : [Sensors -> Nat]],
         NEW vbs, NEW k
  PROVE  /\ WrittenPrefix(s, vbs, k).field = FieldPrefix(s, vbs, k)
         /\ WrittenPrefix(s, vbs, k).label = LabelPrefix(s, vbs, k)
  BY DEF WrittenPrefix, FieldPrefix, LabelPrefix

\* Nothing is written by no varbind.
LEMMA NothingWritten ==
  ASSUME NEW vbs, NEW old
  PROVE  /\ \A o : LastValue(vbs, FieldWrites(vbs, 0, o), old) = old
         /\ \A n : LastValue(vbs, LabelWrites(vbs, 0, n), old) = old
<1>1. (1 .. 0) = {}
  OBVIOUS
<1>2. /\ \A o : FieldWrites(vbs, 0, o) = {}
      /\ \A n : LabelWrites(vbs, 0, n) = {}
  BY <1>1, Zenon DEF FieldWrites, LabelWrites
<1> QED BY <1>2, Zenon DEF LastValue

\* The last writer counts.
LEMMA LastWriter ==
  ASSUME NEW vbs, NEW k \in Nat, NEW W, W \subseteq 1 .. k, NEW old
  PROVE  LastValue(vbs, W \cup {k + 1}, old) = vbs[k + 1].val
<1> DEFINE V == W \cup {k + 1}
<1>1. \A i \in V : k + 1 >= i
  OBVIOUS
<1>2. k + 1 \in V /\ \A x \in V : x >= k + 1 => x = k + 1
  OBVIOUS
<1> HIDE DEF V
<1>3. Max(V) = k + 1
  BY <1>1, <1>2, Zenon DEF Max
<1>4. V # {}
  BY <1>2
<1> QED BY <1>3, <1>4, Zenon DEF LastValue, V

\* One varbind written over the scalars, and over the labels.
WritesLabel(vb, n) ==
  LET r == Resolve(vb.oid, SensorMax) IN r.accessor = "sensorLabel" /\ r.row = n
FieldWith(f, vb) == [o \in Fields |-> IF vb.oid = o THEN vb.val ELSE f[o]]
LabelWith(l, vb) == [n \in Sensors |-> IF WritesLabel(vb, n) THEN vb.val ELSE l[n]]

\* One more varbind either writes a place last or leaves it.
LEMMA OneMoreField ==
  ASSUME NEW vbs, NEW k \in Nat, NEW old, NEW o
  PROVE  LastValue(vbs, FieldWrites(vbs, k + 1, o), old) =
           IF vbs[k + 1].oid = o THEN vbs[k + 1].val
           ELSE LastValue(vbs, FieldWrites(vbs, k, o), old)
<1>0. (1 .. k + 1) = (1 .. k) \cup {k + 1}
  OBVIOUS
<1>1. CASE vbs[k + 1].oid = o
  <2>1. FieldWrites(vbs, k + 1, o) = FieldWrites(vbs, k, o) \cup {k + 1}
    BY <1>0, <1>1, Zenon DEF FieldWrites
  <2>2. FieldWrites(vbs, k, o) \subseteq 1 .. k
    BY DEF FieldWrites
  <2>3. LastValue(vbs, FieldWrites(vbs, k, o) \cup {k + 1}, old) = vbs[k + 1].val
    BY <2>2, LastWriter
  <2> QED BY <1>1, <2>1, <2>3, Zenon
<1>2. CASE vbs[k + 1].oid # o
  <2>1. FieldWrites(vbs, k + 1, o) = FieldWrites(vbs, k, o)
    BY <1>0, <1>2, Zenon DEF FieldWrites
  <2> QED BY <1>2, <2>1, Zenon
<1> QED BY <1>1, <1>2

LEMMA OneMoreLabel ==
  ASSUME NEW vbs, NEW k \in Nat, NEW old, NEW n
  PROVE  LastValue(vbs, LabelWrites(vbs, k + 1, n), old) =
           IF WritesLabel(vbs[k + 1], n) THEN vbs[k + 1].val
           ELSE LastValue(vbs, LabelWrites(vbs, k, n), old)
<1> DEFINE Writes(i) == WritesLabel(vbs[i], n)
<1>0. (1 .. k + 1) = (1 .. k) \cup {k + 1}
  OBVIOUS
<1>1. \A j : LabelWrites(vbs, j, n) = {i \in 1 .. j : Writes(i)}
  BY DEF LabelWrites, WritesLabel
<1> HIDE DEF Writes
<1>2. CASE Writes(k + 1)
  <2>1. LabelWrites(vbs, k + 1, n) = LabelWrites(vbs, k, n) \cup {k + 1}
    <3>1. {i \in (1 .. k) \cup {k + 1} : Writes(i)}
            = {i \in 1 .. k : Writes(i)} \cup {k + 1}
      BY <1>2, Zenon
    <3> QED BY <1>0, <1>1, <3>1
  <2>2. LabelWrites(vbs, k, n) \subseteq 1 .. k
    BY <1>1
  <2>3. LastValue(vbs, LabelWrites(vbs, k, n) \cup {k + 1}, old) = vbs[k + 1].val
    BY <2>2, LastWriter
  <2> QED BY <1>2, <2>1, <2>3, Zenon DEF Writes
<1>3. CASE ~Writes(k + 1)
  <2>1. LabelWrites(vbs, k + 1, n) = LabelWrites(vbs, k, n)
    <3>1. {i \in (1 .. k) \cup {k + 1} : Writes(i)} = {i \in 1 .. k : Writes(i)}
      BY <1>3, Zenon
    <3> QED BY <1>0, <1>1, <3>1
  <2> QED BY <1>3, <2>1, Zenon DEF Writes
<1> QED BY <1>2, <1>3

\* The prefix that is one varbind longer is the shorter one with it written.
LEMMA PrefixGrows ==
  ASSUME NEW s, NEW vbs, NEW k \in Nat
  PROVE  /\ FieldPrefix(s, vbs, k + 1) = FieldWith(FieldPrefix(s, vbs, k), vbs[k + 1])
         /\ LabelPrefix(s, vbs, k + 1) = LabelWith(LabelPrefix(s, vbs, k), vbs[k + 1])
<1> DEFINE vb == vbs[k + 1]
<1>1. ASSUME NEW o \in Fields
      PROVE  FieldPrefix(s, vbs, k + 1)[o] = FieldWith(FieldPrefix(s, vbs, k), vb)[o]
  <2> DEFINE old == s.field[o]
  <2>1. LastValue(vbs, FieldWrites(vbs, k + 1, o), old) =
          IF vb.oid = o THEN vb.val ELSE LastValue(vbs, FieldWrites(vbs, k, o), old)
    BY OneMoreField
  <2>2. /\ FieldPrefix(s, vbs, k + 1)[o] = LastValue(vbs, FieldWrites(vbs, k + 1, o), old)
        /\ FieldPrefix(s, vbs, k)[o] = LastValue(vbs, FieldWrites(vbs, k, o), old)
    BY DEF FieldPrefix
  <2> HIDE DEF vb, old
  <2>3. FieldWith(FieldPrefix(s, vbs, k), vb)[o] =
          IF vb.oid = o THEN vb.val ELSE FieldPrefix(s, vbs, k)[o]
    BY DEF FieldWith
  <2> QED BY <2>1, <2>2, <2>3, Zenon
<1>2. ASSUME NEW m \in Sensors
      PROVE  LabelPrefix(s, vbs, k + 1)[m] = LabelWith(LabelPrefix(s, vbs, k), vb)[m]
  <2> DEFINE old == s.label[m]
  <2>1. LastValue(vbs, LabelWrites(vbs, k + 1, m), old) =
          IF WritesLabel(vb, m) THEN vb.val ELSE LastValue(vbs, LabelWrites(vbs, k, m), old)
    BY OneMoreLabel
  <2>2. /\ LabelPrefix(s, vbs, k + 1)[m] = LastValue(vbs, LabelWrites(vbs, k + 1, m), old)
        /\ LabelPrefix(s, vbs, k)[m] = LastValue(vbs, LabelWrites(vbs, k, m), old)
    BY DEF LabelPrefix
  <2> HIDE DEF vb, old
  <2>3. LabelWith(LabelPrefix(s, vbs, k), vb)[m] =
          IF WritesLabel(vb, m) THEN vb.val ELSE LabelPrefix(s, vbs, k)[m]
    BY DEF LabelWith
  <2> QED BY <2>1, <2>2, <2>3, Zenon
<1> HIDE DEF vb
<1>3. FieldPrefix(s, vbs, k + 1) = FieldWith(FieldPrefix(s, vbs, k), vb)
  BY <1>1 DEF FieldPrefix, FieldWith
<1>4. LabelPrefix(s, vbs, k + 1) = LabelWith(LabelPrefix(s, vbs, k), vb)
  BY <1>2 DEF LabelPrefix, LabelWith
<1> QED BY <1>3, <1>4 DEF vb

\* A setter that succeeds writes the object its varbind names, at whatever
\* row count the lookup found it; one that fails writes nothing.
LEMMA SetterStores ==
  ASSUME MibTypeOK, NEW vb \in Varbinds, NEW n \in Sensors,
         NEW r, r = Resolve(vb.oid, n), r.res = "ok", CallSetter(r, vb)
  PROVE  /\ SetResult(r, vb) = "ok" =>
              field' = FieldWith(field, vb) /\ label' = LabelWith(label, vb)
         /\ SetResult(r, vb) # "ok" => UNCHANGED <<field, label>>
<1>1. /\ n \in Nat /\ SensorMax \in Nat /\ n <= SensorMax /\ vb.oid \in Oid
      /\ field \in [Fields -> Nat] /\ label \in [Sensors -> Nat]
  <2>1. n \in Nat /\ SensorMax \in Nat /\ n <= SensorMax
    BY DeviceAssumption DEF Sensors
  <2>2. vb.oid \in Oid
    BY DEF Varbinds
  <2>3. field \in [Fields -> Nat] /\ label \in [Sensors -> Nat]
    BY DEF MibTypeOK
  <2> QED BY <2>1, <2>2, <2>3
<1>2. Resolve(vb.oid, SensorMax) = r /\ r.oid = vb.oid /\ WellResolved(r)
  <2>1. Resolve(vb.oid, n) = r
    OBVIOUS
  <2>2. Resolve(vb.oid, SensorMax) = r
    BY <1>1, <2>1, ResolveStable
  <2>3. r.oid = vb.oid
    BY <1>1, <2>1, ResolveFacts
  <2>4. WellResolved(r)
    BY <1>1, <2>1, ResolveType
  <2> QED BY <2>2, <2>3, <2>4
<1>3. vb.oid \in Fields => r.accessor \notin SensorAccessors
  BY <1>1, ScalarResolves DEF Fields
<1>4. CASE SetResult(r, vb) = "ok"
  <2>1. r.accessor \in {"sensorLabel", "string", "relay"}
    BY <1>4 DEF SetResult
  <2>2. CASE r.accessor = "sensorLabel"
    <3>1. vb.oid \notin Fields
      BY <1>3, <2>2 DEF SensorAccessors
    <3>2. field' = field /\ label' = [label EXCEPT ![r.row] = vb.val]
      BY <1>4, <2>2 DEF CallSetter, FieldAfterSet, LabelAfterSet
    <3>3. \A m : WritesLabel(vb, m) <=> r.row = m
      BY <1>2, <2>2, Zenon DEF WritesLabel
    <3>4. field' = FieldWith(field, vb)
      BY <1>1, <3>1, <3>2 DEF FieldWith
    <3>5. label' = LabelWith(label, vb)
      BY <1>1, <3>2, <3>3 DEF LabelWith
    <3> QED BY <1>4, <3>4, <3>5
  <2>3. CASE r.accessor \in {"string", "relay"}
    <3>1. vb.oid \in Fields
      BY <1>2, <2>3 DEF WellResolved
    <3>2. label' = label /\ field' = [field EXCEPT ![vb.oid] = vb.val]
      BY <1>2, <1>4, <2>3 DEF CallSetter, FieldAfterSet, LabelAfterSet
    <3>3. \A m : ~WritesLabel(vb, m)
      <4>1. r.accessor # "sensorLabel"
        BY <2>3
      <4> QED BY <1>2, <4>1, Zenon DEF WritesLabel
    <3>4. field' = FieldWith(field, vb)
      BY <1>1, <3>1, <3>2 DEF FieldWith
    <3>5. label' = LabelWith(label, vb)
      BY <1>1, <3>2, <3>3 DEF LabelWith
    <3> QED BY <1>4, <3>4, <3>5
  <2> QED BY <2>1, <2>2, <2>3
<1>5. CASE SetResult(r, vb) # "ok"
  BY <1>5 DEF CallSetter, FieldAfterSet, LabelAfterSet
<1> QED BY <1>4, <1>5

\* Every step keeps the record of what a Set has written.
LEMMA StepWrite == TypeInv /\ PassInv /\ WriteInv /\ [Next]_vars => WriteInv'
<1> SUFFICES ASSUME TypeInv, PassInv, WriteInv, [Next]_vars PROVE WriteInv'
  OBVIOUS
<1>1. /\ MibTypeOK /\ ctx \in Context /\ index \in Nat \ {0}
      /\ request.vbs \in Seq(Varbinds) /\ Len(request.vbs) \in Nat
      /\ base \in [field : [Fields -> Nat], label : [Sensors -> Nat],
                   readCount : [Sensors -> Nat]]
      /\ field \in [Fields -> Nat] /\ label \in [Sensors -> Nat]
  BY DEF TypeInv, TypeOK, MibTypeOK, RequestType
<1>2. ASSUME UNCHANGED <<field, label, base, request>>, NEW k
      PROVE  Stored(k)' <=> Stored(k)
  BY <1>2 DEF Stored
<1>3. ASSUME NEW status, NEW at, Finish(status, at)
      PROVE  /\ pc' = "reply" /\ pass' = pass
             /\ ctx'.errStatus = status /\ ctx'.errIndex = at
  BY <1>1, <1>3 DEF Finish, Context
<1>4. request.pdu = "set" /\ Working => ctx.vbs = request.vbs /\ pass \in {"validate", "commit"}
  BY DEF PassInv, PassFits, Untouched
<1>5. ASSUME NEW r \in Requests, Receive(r) PROVE WriteInv'
  <2>1. pc' = "dispatch" /\ UNCHANGED <<field, label>> /\ base' = Store
    BY <1>5 DEF Receive, mibVars
  <2>2. Stored(0)'
    <3>1. Store \in [field : [Fields -> Nat], label : [Sensors -> Nat],
                     readCount : [Sensors -> Nat]]
          /\ Store.field = field /\ Store.label = label
      BY <1>1 DEF Store, MibTypeOK
    <3> DEFINE s == Store
               v == request'.vbs
    <3>2. s \in [field : [Fields -> Nat], label : [Sensors -> Nat],
                 readCount : [Sensors -> Nat]]
          /\ s.field = field /\ s.label = label
      BY <3>1
    <3> HIDE DEF s, v
    <3>3. WrittenPrefix(s, v, 0).field = field
      <4>1. WrittenPrefix(s, v, 0).field = FieldPrefix(s, v, 0)
        BY <3>2, PrefixParts
      <4>2. \A o \in Fields : LastValue(v, FieldWrites(v, 0, o), s.field[o]) = field[o]
        BY <3>2, NothingWritten
      <4> QED BY <1>1, <4>1, <4>2 DEF FieldPrefix
    <3>4. WrittenPrefix(s, v, 0).label = label
      <4>1. WrittenPrefix(s, v, 0).label = LabelPrefix(s, v, 0)
        BY <3>2, PrefixParts
      <4>2. \A n \in Sensors : LastValue(v, LabelWrites(v, 0, n), s.label[n]) = label[n]
        BY <3>2, NothingWritten
      <4> QED BY <1>1, <4>1, <4>2 DEF LabelPrefix
    <3> QED BY <2>1, <3>3, <3>4 DEF Stored, s, v
  <2> QED BY <2>1, <2>2 DEF WriteInv, Working, Concluded, Answered
<1>6. CASE Drop
  <2>1. pc' = "idle" /\ outcome' = "dropped"
    BY <1>6 DEF Drop
  <2> QED BY <2>1 DEF WriteInv, Working, Concluded, Answered
<1>7. CASE Dispatch
  <2>1. /\ UNCHANGED <<field, label, base, request, ctx>>
        /\ pc = "dispatch" /\ pc' = "lookup" /\ pass' = FirstPass
    BY <1>7 DEF Dispatch, Turn, mibVars, historyVars
  <2>2. request.pdu = "set" => FirstPass = "validate" /\ Stored(0)
    BY <2>1 DEF FirstPass, WriteInv, PassInv, SamePdu
  <2> QED BY <1>2, <2>1, <2>2 DEF WriteInv, Working, Concluded, Answered
<1>8. CASE PassEnds
  <2>1. /\ UNCHANGED <<field, label, base, request>>
        /\ pc = "lookup" /\ index > Len(ctx.vbs) /\ Working
    BY <1>8 DEF PassEnds, mibVars, historyVars, Working
  <2> SUFFICES ASSUME request.pdu = "set" PROVE WriteInv'
    BY <2>1 DEF WriteInv
  <2>2. CASE pass = "validate" /\ Turn("commit", 1)
    <3>1. Stored(0)' /\ pc' = "lookup" /\ pass' = "commit" /\ index' = 1
      BY <1>2, <2>1, <2>2 DEF Turn, WriteInv
    <3>2. index' - 1 = 0 /\ 0 <= Len(request'.vbs)
      BY <1>1, <2>1, <3>1
    <3> QED BY <3>1, <3>2 DEF WriteInv, Working, Concluded, Answered
  <2>3. CASE pass = "commit" /\ Finish("noError", 0)
    <3>1. index - 1 <= Len(request.vbs) /\ Stored(index - 1) /\ ctx.vbs = request.vbs
      BY <1>4, <2>1, <2>3 DEF WriteInv
    <3>2. index - 1 = Len(request.vbs)
      BY <1>1, <2>1, <3>1
    <3>3. Stored(Len(request.vbs))'
      BY <1>2, <2>1, <3>1, <3>2
    <3>4. pc' = "reply" /\ ctx'.errStatus = "noError"
      BY <1>3, <2>3
    <3>5. Applied' = Len(request.vbs)'
      BY <3>4 DEF Applied
    <3> QED BY <3>3, <3>4, <3>5 DEF WriteInv, Working
  <2> QED BY <1>4, <1>8, <2>1, <2>2, <2>3 DEF PassEnds, SecondPass
<1>9. CASE ReadLookup \/ ReadCall
  <2>1. UNCHANGED request /\ request.pdu # "set"
    BY <1>4, <1>9 DEF ReadLookup, ReadCall, historyVars, ReadPasses, Working
  <2> QED BY <2>1 DEF WriteInv
<1>10. CASE Validate
  <2>1. UNCHANGED <<field, label, base, request>> /\ pass = "validate" /\ Working /\ pc = "lookup"
    BY <1>10 DEF Validate, mibVars, historyVars, Working
  <2>2. request.pdu = "set" => Stored(0)'
    BY <1>2, <2>1 DEF WriteInv
  <2>3. CASE Turn("validate", index + 1)
    BY <2>1, <2>2, <2>3 DEF Turn, WriteInv, Working, Concluded, Answered
  <2>4. ASSUME NEW result \in {"noSuchObject", "noSuchInstance", "notWritable", "wrongType"},
               Finish(V1Status(result), index)
        PROVE  WriteInv'
    <3>1. V1Status(result) \notin {"noError", "genErr"}
      BY DEF V1Status
    <3>2. pc' = "reply" /\ Applied' = 0
      BY <1>3, <2>4, <3>1 DEF Applied
    <3> QED BY <2>1, <2>2, <3>2 DEF WriteInv, Working
  <2>5. ASSUME NEW vb, vb = ctx.vbs[index]
        PROVE  Validation(Resolve(vb.oid, Rows), vb)
                 \in {"ok", "noSuchObject", "noSuchInstance", "notWritable", "wrongType"}
    <3>1. ctx.vbs[index] \in Varbinds
      BY <1>1, <1>10 DEF Validate, Context
    <3>2. vb.oid \in Oid
      BY <2>5, <3>1 DEF Varbinds
    <3>3. Rows \in Nat
      BY <1>1, RowsType
    <3> QED BY <3>2, <3>3, ResolveFacts DEF Validation
  <2> QED BY <1>10, <2>3, <2>4, <2>5 DEF Validate
<1>11. CASE CommitLookup
  <2>1. /\ UNCHANGED <<field, label, base, request>> /\ pass = "commit" /\ Working
        /\ pc = "lookup" /\ index <= Len(ctx.vbs)
    BY <1>11 DEF CommitLookup, mibVars, historyVars, Working
  <2> SUFFICES ASSUME request.pdu = "set" PROVE WriteInv'
    BY <2>1 DEF WriteInv
  <2>2. PICK i : i = index
    OBVIOUS
  <2>3. ctx.vbs = request.vbs /\ i - 1 <= Len(request.vbs) /\ Stored(i - 1)
    BY <1>4, <2>1, <2>2 DEF WriteInv
  <2>4. Stored(i - 1)'
    BY <1>2, <2>1, <2>3
  <2> DEFINE r == Resolve(ctx.vbs[index].oid, Rows)
  <2>5. CASE /\ r.res = "ok" /\ pc' = "call" /\ found' = r
             /\ UNCHANGED <<pass, index, skips, ctx>>
    <3>1. Rows \in Sensors
      BY <1>1, RowsType
    <3>2. FoundForSet'
      BY <2>1, <2>3, <2>5, <3>1 DEF FoundForSet
    <3> QED BY <2>1, <2>2, <2>3, <2>4, <2>5, <3>2 DEF WriteInv, Working, Concluded, Answered
  <2>6. CASE Finish("genErr", index)
    <3>1. pc' = "reply" /\ Applied' = i - 1
      BY <1>3, <2>2, <2>6 DEF Applied
    <3> QED BY <2>4, <3>1 DEF WriteInv, Working
  <2> QED BY <1>11, <2>5, <2>6 DEF CommitLookup
<1>12. CASE CommitCall
  <2>1. /\ UNCHANGED <<base, request>> /\ pass = "commit" /\ Working /\ pc = "call"
        /\ CallSetter(found, ctx.vbs[index])
    BY <1>12 DEF CommitCall, historyVars, Working
  <2> SUFFICES ASSUME request.pdu = "set" PROVE WriteInv'
    BY <2>1 DEF WriteInv
  <2>2. PICK i : i = index
    OBVIOUS
  <2>3. /\ ctx.vbs = request.vbs /\ i - 1 <= Len(request.vbs) /\ Stored(i - 1) /\ FoundForSet
        /\ i <= Len(request.vbs) /\ i \in Nat \ {0}
    BY <1>1, <1>4, <2>1, <2>2 DEF WriteInv, TypeInv
  <2> DEFINE vb == request.vbs[i]
  <2>4. vb \in Varbinds /\ ctx.vbs[index] = vb
    BY <1>1, <2>2, <2>3
  <2>5. PICK n \in Sensors : found = Resolve(vb.oid, n)
    BY <2>2, <2>3 DEF FoundForSet
  <2>6. found.res = "ok" /\ CallSetter(found, vb)
    BY <2>1, <2>3, <2>4 DEF FoundForSet
  <2> HIDE DEF vb
  <2>7. /\ SetResult(found, vb) = "ok" =>
             field' = FieldWith(field, vb) /\ label' = LabelWith(label, vb)
        /\ SetResult(found, vb) # "ok" => UNCHANGED <<field, label>>
    BY <1>1, <2>4, <2>5, <2>6, SetterStores
  <2>8. CASE SetResult(found, vb) = "ok" /\ Turn("commit", index + 1)
    <3> DEFINE v == request.vbs
               b == base
               f(j) == FieldPrefix(b, v, j)
               l(j) == LabelPrefix(b, v, j)
    <3>1. \A j : Stored(j) <=> field = f(j) /\ label = l(j)
      <4>1. v = request.vbs /\ b = base
        OBVIOUS
      <4> HIDE DEF v, b
      <4>2. ASSUME NEW j
            PROVE  WrittenPrefix(b, v, j).field = f(j) /\ WrittenPrefix(b, v, j).label = l(j)
        BY <1>1, <4>1, PrefixParts
      <4> QED BY <4>1, <4>2 DEF Stored
    <3>2. i - 1 \in Nat /\ (i - 1) + 1 = i
      BY <2>3
    <3>3. f(i) = FieldWith(f(i - 1), vb) /\ l(i) = LabelWith(l(i - 1), vb)
      <4>1. v[i] = vb
        BY DEF vb
      <4> HIDE DEF v, b
      <4>2. /\ FieldPrefix(b, v, (i - 1) + 1) = FieldWith(f(i - 1), v[(i - 1) + 1])
            /\ LabelPrefix(b, v, (i - 1) + 1) = LabelWith(l(i - 1), v[(i - 1) + 1])
        BY <3>2, PrefixGrows
      <4> QED BY <3>2, <4>1, <4>2
    <3>4. field = f(i - 1) /\ label = l(i - 1)
      BY <2>3, <3>1
    <3> HIDE DEF f, l
    <3>5. field' = f(i) /\ label' = l(i)
      BY <2>7, <2>8, <3>3, <3>4, Zenon
    <3> USE DEF f, l
    <3>6. Stored(i)'
      <4>1. base' = b /\ request'.vbs = v /\ b = base
        BY <2>1
      <4> HIDE DEF v, b
      <4>2. WrittenPrefix(b, v, i).field = f(i) /\ WrittenPrefix(b, v, i).label = l(i)
        BY <1>1, <4>1, PrefixParts
      <4> QED BY <3>5, <4>1, <4>2 DEF Stored
    <3>7. index' - 1 = i /\ pc' = "lookup" /\ pass' = "commit"
      BY <2>2, <2>3, <2>8 DEF Turn
    <3> QED BY <2>1, <2>3, <3>6, <3>7 DEF WriteInv, Working, Concluded, Answered
  <2>9. CASE SetResult(found, vb) # "ok" /\ Finish("genErr", index)
    <3>1. pc' = "reply" /\ Applied' = i - 1
      BY <1>3, <2>2, <2>9 DEF Applied
    <3>2. Stored(i - 1)'
      BY <1>2, <2>1, <2>3, <2>7, <2>9
    <3> QED BY <3>1, <3>2 DEF WriteInv, Working
  <2> QED BY <1>12, <2>4, <2>8, <2>9 DEF CommitCall
<1>13. CASE Reply
  <2>1. /\ UNCHANGED <<field, label, base, request, ctx>> /\ pc = "reply" /\ pc' = "idle"
    BY <1>13 DEF Reply, mibVars, historyVars
  <2>2. Applied' = Applied
    BY <2>1 DEF Applied
  <2>3. request.pdu = "set" => Stored(Applied)
    BY <2>1 DEF WriteInv, Concluded
  <2>4. request.pdu = "set" => Stored(Applied)'
    BY <1>2, <2>1, <2>2, <2>3
  <2> QED BY <2>1, <2>4 DEF WriteInv, Working, Concluded, Answered
<1>14. CASE Device \/ UNCHANGED vars
  <2>1. UNCHANGED <<field, label, base, request, ctx, pc, pass, index, found, outcome>>
    BY <1>14 DEF Device, SensorsChange, FirstReading, WifiChanges, agentVars, vars, mibVars,
                 historyVars
  <2>2. \A k : Stored(k)' <=> Stored(k)
    BY <1>2, <2>1
  <2>3. Applied' = Applied /\ (Working' <=> Working) /\ (Concluded' <=> Concluded)
        /\ (FoundForSet' <=> FoundForSet) /\ (index - 1)' = index - 1
    BY <2>1 DEF Applied, Working, Concluded, Answered, FoundForSet
  <2> QED BY <2>1, <2>2, <2>3 DEF WriteInv
<1> QED
  BY <1>5, <1>6, <1>7, <1>8, <1>9, <1>10, <1>11, <1>12, <1>13, <1>14 DEF Next, Agent

\* For every MIB, every behaviour of the table and every Set, the error status
\* and index tell exactly which prefix of the varbinds was written.
THEOREM SetsWritePrefixes == Spec => []SetWritesPrefix
<1>1. Init => WriteInv
  BY DEF Init, EmptyRequest, WriteInv
<1>2. WriteInv => SetWritesPrefix
  <2> SUFFICES ASSUME WriteInv, Answered, request.pdu = "set"
               PROVE  Visible(Store) = Visible(WrittenPrefix(base, request.vbs, Applied))
    BY DEF SetWritesPrefix
  <2>1. Stored(Applied)
    BY DEF WriteInv, Concluded
  <2> QED BY <2>1 DEF Stored, Visible, Store
<1> QED BY <1>1, <1>2, StepWrite, PassInvariant, PTL DEF Spec

-----------------------------------------------------------------------------
(***************************************************************************)
(* The read counters.  A request that carries no values of its own leaves  *)
(* the varbinds the second pass has not reached without one, so each value *)
(* in the list was put there by a getter that counted it.  A v2c read has  *)
(* one pass, so that nothing else is counted.                              *)
(***************************************************************************)
Counted(s) ==
  /\ readCount[s] >= base.readCount[s] + Delivered(s)
  /\ request.version = "v2c" => readCount[s] = base.readCount[s] + Delivered(s)

\* No varbind from the k-th on carries a value.
EmptyFrom(vbs, k) == \A j \in 1 .. Len(vbs) : j >= k => vbs[j].tag \notin ValueTags

CountInv ==
  AsksOnly =>
    /\ Working => EmptyFrom(ctx.vbs, IF pass = "probe" THEN 1 ELSE index)
    /\ pc = "call" => Genuine(found)
    /\ pc # "idle" \/ Answered => \A s \in Sensors : Counted(s)

\* What settling a fetch does to the varbinds and the position in the list.
LEMMA SettleReplaces ==
  ASSUME TypeInv, pass \in ReadPasses, index \in 1 .. Len(ctx.vbs),
         NEW result \in Results, NEW vb, Settle(result, vb)
  PROVE  \/ pc' = "reply" /\ result # "ok" /\ ctx'.vbs = ctx.vbs
         \/ pc' = "lookup" /\ pass = "probe" /\ pass' = "probe" /\ ctx' = ctx
         \/ /\ pc' = "lookup" /\ pass # "probe" /\ pass' = pass /\ index' = index + 1
            /\ \/ result = "ok" /\ ctx'.vbs = [ctx.vbs EXCEPT ![index] = vb]
               \/ result # "ok" /\ ctx'.vbs = ctx.vbs /\ pass = "answer"
               \/ result # "ok" /\ \E e \in Exceptions :
                    ctx'.vbs = [ctx.vbs EXCEPT ![index] = Exceptional(ctx.vbs[index], e)]
<1> DEFINE tr == Translate(ctx.version, result)
<1>1. ctx \in Context
  BY DEF TypeInv, TypeOK
<1>2. /\ tr.exception \in Exceptions \cup {NoException}
      /\ tr.abort => result # "ok"
      /\ ~tr.abort /\ tr.exception = NoException => result = "ok"
      /\ result = "ok" => tr.exception = NoException
  BY TranslateType
<1>3. ASSUME NEW a, ctx' = [ctx EXCEPT !.vbs[index] = a]
      PROVE  ctx'.vbs = [ctx.vbs EXCEPT ![index] = a]
  BY <1>1, <1>3 DEF Context
<1>4. ASSUME NEW status, NEW at, Finish(status, at)
      PROVE  pc' = "reply" /\ ctx'.vbs = ctx.vbs
  BY <1>1, <1>4 DEF Finish, Context
<1>5. \/ tr.abort /\ Finish(tr.status, index)
      \/ pass = "probe" /\ Turn("probe", index + 1) /\ ctx' = ctx
      \/ /\ pass = "answer" /\ Turn("answer", index + 1)
         /\ ctx' = IF result = "ok" THEN [ctx EXCEPT !.vbs[index] = vb] ELSE ctx
      \/ /\ pass = "single" /\ ~tr.abort /\ Turn("single", index + 1)
         /\ ctx' = IF tr.exception = NoException
                   THEN [ctx EXCEPT !.vbs[index] = vb]
                   ELSE [ctx EXCEPT !.vbs[index] = Exceptional(ctx.vbs[index], tr.exception)]
  BY DEF Settle
<1> HIDE DEF tr
<1>6. CASE tr.abort /\ Finish(tr.status, index)
  BY <1>2, <1>4, <1>6
<1>7. CASE pass = "probe" /\ Turn("probe", index + 1) /\ ctx' = ctx
  BY <1>7 DEF Turn
<1>8. CASE /\ pass = "answer" /\ Turn("answer", index + 1)
           /\ ctx' = IF result = "ok" THEN [ctx EXCEPT !.vbs[index] = vb] ELSE ctx
  BY <1>3, <1>8 DEF Turn
<1>9. CASE /\ pass = "single" /\ ~tr.abort /\ Turn("single", index + 1)
           /\ ctx' = IF tr.exception = NoException
                     THEN [ctx EXCEPT !.vbs[index] = vb]
                     ELSE [ctx EXCEPT !.vbs[index] = Exceptional(ctx.vbs[index], tr.exception)]
  <2>1. pc' = "lookup" /\ pass # "probe" /\ pass' = pass /\ index' = index + 1
    BY <1>9 DEF Turn
  <2>2. CASE tr.exception = NoException
    BY <1>2, <1>3, <1>9, <2>1, <2>2
  <2>3. CASE tr.exception # NoException
    BY <1>2, <1>3, <1>9, <2>1, <2>3
  <2> QED BY <2>2, <2>3
<1> QED BY <1>5, <1>6, <1>7, <1>8, <1>9

\* The current varbind, still without a value, is replaced by what a getter
\* fetched and counted, or by nothing that counts.
LEMMA SettleCounts ==
  ASSUME TypeInv, PassInv, TruthInv, CountInv, AsksOnly, Working, pass \in ReadPasses,
         index \in 1 .. Len(ctx.vbs), UNCHANGED <<request, base>>,
         NEW result \in Results, NEW vb, Settle(result, vb),
         \A s \in Sensors :
           readCount'[s] = readCount[s] + (IF result = "ok" /\ Delivers(vb, s) THEN 1 ELSE 0)
  PROVE  CountInv'
<1>1. /\ ctx \in Context /\ ctx.vbs \in Seq(Varbinds) /\ Len(ctx.vbs) \in Nat
      /\ index \in Nat /\ request.vbs \in Seq(Varbinds)
  BY DEF TypeInv, TypeOK, Context, RequestType
<1>2. PICK i \in 1 .. Len(ctx.vbs) : i = index
  OBVIOUS
<1>3. PICK v \in Seq(Varbinds) : v = ctx.vbs
  BY <1>1
<1>4. PICK w : w = ctx'.vbs
  OBVIOUS
<1>5. /\ EmptyFrom(v, IF pass = "probe" THEN 1 ELSE i)
      /\ \A s \in Sensors : Counted(s)
      /\ i \in 1 .. Len(v) /\ Len(v) \in Nat
  BY <1>1, <1>2, <1>3 DEF CountInv, Working
<1>6. request.version = "v2c" => pass = "single"
  BY DEF TruthInv, V2cRead, ReadSoFar, AsksOnly
<1>7. ASSUME NEW s \in Sensors
      PROVE  /\ readCount[s] \in Nat /\ base.readCount[s] \in Nat
             /\ Deliveries(v, Len(v), s) \in Nat
             /\ readCount[s] >= base.readCount[s] + Deliveries(v, Len(v), s)
             /\ request.version = "v2c" =>
                  readCount[s] = base.readCount[s] + Deliveries(v, Len(v), s)
             /\ ~Delivers(v[i], s)
  <2>1. readCount[s] \in Nat /\ base.readCount[s] \in Nat
    BY DEF TypeInv, TypeOK, MibTypeOK
  <2>2. Deliveries(v, Len(v), s) \in Nat
    BY <1>5, DeliveriesFinite
  <2>3. ~Delivers(v[i], s)
    BY <1>5 DEF EmptyFrom, Delivers
  <2> QED BY <1>3, <1>5, <2>1, <2>2, <2>3 DEF Counted, Delivered
<1>8. CASE pc' = "reply" /\ result # "ok" /\ w = v
  <2>1. \A s \in Sensors : Counted(s)'
    BY <1>4, <1>7, <1>8 DEF Counted, Delivered
  <2> QED BY <1>8, <2>1 DEF CountInv, Working
<1>9. CASE pc' = "lookup" /\ pass = "probe" /\ pass' = "probe" /\ ctx' = ctx
  <2>1. \A s \in Sensors : Counted(s)'
    <3> SUFFICES ASSUME NEW s \in Sensors PROVE Counted(s)'
      OBVIOUS
    <3>1. readCount'[s] >= base.readCount[s] + Deliveries(v, Len(v), s)
      <4>1. \/ readCount'[s] = readCount[s] + 1
            \/ readCount'[s] = readCount[s] + 0
        OBVIOUS
      <4> QED BY <1>7, <4>1
    <3>2. Delivered(s)' = Deliveries(v, Len(v), s)
      BY <1>3, <1>9 DEF Delivered
    <3>3. request'.version # "v2c"
      BY <1>6, <1>9
    <3> QED BY <3>1, <3>2, <3>3 DEF Counted
  <2>2. EmptyFrom(v, 1)
    BY <1>5, <1>9
  <2> QED BY <1>3, <1>9, <2>1, <2>2 DEF CountInv, Working
<1>10. ASSUME NEW a, w = [v EXCEPT ![i] = a], pc' = "lookup", pass' # "probe", index' = i + 1,
              \A s \in Sensors : result = "ok" /\ Delivers(vb, s) <=> Delivers(a, s)
       PROVE  CountInv'
  <2>1. w[i] = a /\ Len(w) = Len(v) /\ \A k \in 1 .. Len(v) : k # i => w[k] = v[k]
    BY <1>5, <1>10
  <2>2. \A s \in Sensors : Counted(s)'
    <3> SUFFICES ASSUME NEW s \in Sensors PROVE Counted(s)'
      OBVIOUS
    <3>1. Deliveries(w, Len(v), s)
            = Deliveries(v, Len(v), s) + (IF Delivers(w[i], s) THEN 1 ELSE 0)
      <4>1. PICK n \in Nat : n = Len(v)
        BY <1>5
      <4>2. i \in 1 .. n /\ ~Delivers(v[i], s) /\ SameBut(v, w, n, i)
        BY <1>5, <1>7, <2>1, <4>1 DEF SameBut
      <4>3. Deliveries(w, n, s) = Deliveries(v, n, s) + (IF Delivers(w[i], s) THEN 1 ELSE 0)
        BY <4>2, DeliveriesReplace
      <4> QED BY <4>1, <4>3
    <3>2. readCount'[s] = readCount[s] + (IF Delivers(w[i], s) THEN 1 ELSE 0)
      BY <1>10, <2>1
    <3>3. Delivered(s)' = Deliveries(w, Len(v), s)
      BY <1>4, <2>1 DEF Delivered
    <3> DEFINE counted == readCount[s]
               atFirst == base.readCount[s]
               listed == Deliveries(v, Len(v), s)
               more == IF Delivers(w[i], s) THEN 1 ELSE 0
    <3>4. /\ counted \in Nat /\ atFirst \in Nat /\ listed \in Nat /\ more \in Nat
          /\ counted >= atFirst + listed /\ (request.version = "v2c" => counted = atFirst + listed)
      BY <1>7
    <3>5. readCount'[s] = counted + more /\ Delivered(s)' = listed + more
      BY <3>1, <3>2, <3>3
    <3>6. base'.readCount[s] = atFirst /\ request' = request
      OBVIOUS
    <3> HIDE DEF counted, atFirst, listed, more
    <3> QED BY <3>4, <3>5, <3>6 DEF Counted
  <2>3. EmptyFrom(w, i + 1)
    <3> SUFFICES ASSUME NEW j \in 1 .. Len(v), j >= i + 1 PROVE w[j].tag \notin ValueTags
      BY <2>1 DEF EmptyFrom
    <3>1. j # i /\ j >= i /\ j >= 1
      BY <1>5
    <3> QED BY <1>5, <2>1, <3>1 DEF EmptyFrom
  <2> QED BY <1>4, <1>10, <2>2, <2>3 DEF CountInv, Working
<1>11. ASSUME NEW e \in Exceptions, NEW s \in Sensors PROVE ~Delivers(Exceptional(v[i], e), s)
  <2>1. Exceptional(v[i], e).tag = e
    BY <1>5 DEF Exceptional, Varbinds
  <2> QED BY <2>1 DEF Delivers, Exceptions, ValueTags
<1>12. CASE /\ pc' = "lookup" /\ pass # "probe" /\ pass' = pass /\ index' = i + 1
            /\ \/ result = "ok" /\ w = [v EXCEPT ![i] = vb]
               \/ result # "ok" /\ w = v /\ pass = "answer"
               \/ result # "ok" /\ \E e \in Exceptions :
                    w = [v EXCEPT ![i] = Exceptional(v[i], e)]
  <2>1. CASE result = "ok" /\ w = [v EXCEPT ![i] = vb]
    BY <1>10, <1>12, <2>1
  <2>2. CASE result # "ok" /\ w = v
    <3>1. w = [v EXCEPT ![i] = v[i]]
      BY <1>5, <2>2
    <3> QED BY <1>7, <1>10, <1>12, <2>2, <3>1
  <2>3. CASE result # "ok" /\ \E e \in Exceptions : w = [v EXCEPT ![i] = Exceptional(v[i], e)]
    BY <1>10, <1>11, <1>12, <2>3
  <2> QED BY <1>12, <2>1, <2>2, <2>3
<1>13. \/ pc' = "reply" /\ result # "ok" /\ ctx'.vbs = ctx.vbs
       \/ pc' = "lookup" /\ pass = "probe" /\ pass' = "probe" /\ ctx' = ctx
       \/ /\ pc' = "lookup" /\ pass # "probe" /\ pass' = pass /\ index' = index + 1
          /\ \/ result = "ok" /\ ctx'.vbs = [ctx.vbs EXCEPT ![index] = vb]
             \/ result # "ok" /\ ctx'.vbs = ctx.vbs /\ pass = "answer"
             \/ result # "ok" /\ \E e \in Exceptions :
                  ctx'.vbs = [ctx.vbs EXCEPT ![index] = Exceptional(ctx.vbs[index], e)]
  BY SettleReplaces
<1> QED BY <1>2, <1>3, <1>4, <1>8, <1>9, <1>12, <1>13

LEMMA StepCounts == TypeInv /\ PassInv /\ TruthInv /\ CountInv /\ [Next]_vars => CountInv'
<1> SUFFICES ASSUME TypeInv, PassInv, TruthInv, CountInv, [Next]_vars PROVE CountInv'
  OBVIOUS
<1>1. /\ ctx \in Context /\ ctx.vbs \in Seq(Varbinds) /\ Len(ctx.vbs) \in Nat
      /\ index \in Nat \ {0} /\ MibTypeOK /\ WellResolved(found)
  BY DEF TypeInv, TypeOK, Context
<1>2. ASSUME UNCHANGED <<readCount, base, request>>, ctx'.vbs = ctx.vbs
      PROVE  \A s \in Sensors : Counted(s)' <=> Counted(s)
  BY <1>2 DEF Counted, Delivered
<1>3. UNCHANGED request => (AsksOnly' <=> AsksOnly)
  BY DEF AsksOnly
<1>4. AsksOnly /\ ctx.vbs = request.vbs => EmptyFrom(ctx.vbs, 1)
  BY <1>1 DEF AsksOnly, EmptyFrom
<1>5. ASSUME NEW r \in Requests, Receive(r) PROVE CountInv'
  <2> SUFFICES ASSUME AsksOnly' PROVE CountInv'
    BY DEF CountInv
  <2>1. /\ pc' = "dispatch" /\ readCount' = readCount /\ base'.readCount = readCount
        /\ request' = r /\ ctx'.vbs = r.vbs
    BY <1>5 DEF Receive, mibVars, Store, Decoded
  <2>2. r.vbs \in Seq(Varbinds) /\ Len(r.vbs) \in Nat
    BY AgentAssumption DEF RequestType
  <2>3. ASSUME NEW s \in Sensors PROVE Counted(s)'
    <3>1. \A k \in 1 .. Len(r.vbs) : ~Delivers(r.vbs[k], s)
      BY <2>1, <2>2 DEF AsksOnly, Delivers
    <3>2. Deliveries(r.vbs, Len(r.vbs), s) = 0
      BY <2>2, <3>1, DeliveriesNone
    <3>3. Delivered(s)' = 0
      BY <2>1, <3>2 DEF Delivered
    <3>4. readCount[s] \in Nat
      BY <1>1 DEF MibTypeOK
    <3> QED BY <2>1, <3>3, <3>4 DEF Counted
  <2> QED BY <2>1, <2>3 DEF CountInv, Working
<1>6. CASE Drop
  <2>1. pc' = "idle" /\ outcome' = "dropped"
    BY <1>6 DEF Drop
  <2> QED BY <2>1 DEF CountInv, Working, Answered
<1>7. CASE Dispatch
  <2>1. /\ UNCHANGED <<readCount, base, request, ctx>> /\ pc = "dispatch" /\ pc' = "lookup"
        /\ index' = 1
    BY <1>7 DEF Dispatch, Turn, mibVars, historyVars
  <2>2. AsksOnly => EmptyFrom(ctx'.vbs, 1)
    BY <1>4, <2>1 DEF PassInv, Untouched
  <2> QED BY <1>2, <1>3, <2>1, <2>2 DEF CountInv, Working
<1>8. CASE PassEnds
  <2>1. /\ UNCHANGED <<readCount, base, request>> /\ pc = "lookup" /\ Working
        /\ ctx'.vbs = ctx.vbs /\ pc' \in {"lookup", "reply"}
        /\ pc' = "lookup" => index' = 1 /\ pass \in {"probe", "validate"}
    BY <1>1, <1>8 DEF PassEnds, Turn, Finish, Context, mibVars, historyVars, Working, SecondPass
  <2>2. AsksOnly /\ pc' = "lookup" => EmptyFrom(ctx'.vbs, 1)
    BY <1>4, <2>1 DEF PassInv, Untouched
  <2> QED BY <1>2, <1>3, <2>1, <2>2 DEF CountInv, Working
<1>9. CASE ReadLookup
  <2>1. /\ UNCHANGED <<readCount, base, request>> /\ pc = "lookup" /\ Working
        /\ index \in 1 .. Len(ctx.vbs) /\ pass \in ReadPasses
    BY <1>1, <1>9 DEF ReadLookup, mibVars, historyVars, Working
  <2> SUFFICES ASSUME AsksOnly PROVE CountInv'
    BY <1>3, <2>1 DEF CountInv
  <2>2. ctx.vbs[index] \in Varbinds
    BY <1>1, <2>1
  <2>3. ASSUME NEW result \in Results, result # "ok", Settle(result, ctx.vbs[index])
        PROVE  CountInv'
    <3>1. \A s \in Sensors : readCount'[s] = readCount[s] +
            (IF result = "ok" /\ Delivers(ctx.vbs[index], s) THEN 1 ELSE 0)
      BY <1>1, <2>1, <2>3 DEF MibTypeOK
    <3> QED BY <2>1, <2>3, <3>1, SettleCounts
  <2>4. Lookup.res \in Results
    BY <2>1, LookupType DEF WellResolved, Resolved
  <2>5. CASE UNCHANGED <<pc, pass, index, ctx>>
    BY <1>2, <1>3, <2>1, <2>5 DEF CountInv, Working
  <2>6. CASE /\ Lookup.res = "ok" /\ pc' = "call" /\ found' = Lookup
             /\ ctx' = IF pass = "answer"
                       THEN [ctx EXCEPT !.vbs[index].oid = Lookup.oid] ELSE ctx
             /\ UNCHANGED <<pass, index, skips>>
    <3>1. Genuine(found')
      <4>1. Current \in Oid
        BY <1>1, <2>2 DEF Current, WellResolved, Resolved, Varbinds
      <4>2. Rows \in Sensors
        BY <1>1, RowsType
      <4>3. Lookup.res = "ok" => Genuine(Lookup)
        BY <4>1, <4>2, LookupsAreGenuine DEF Lookup
      <4> QED BY <2>6, <4>3
    <3>2. CASE pass # "answer"
      BY <1>2, <1>3, <2>1, <2>6, <3>1, <3>2 DEF CountInv, Working
    <3>3. CASE pass = "answer"
      <4> DEFINE a == [ctx.vbs[index] EXCEPT !.oid = Lookup.oid]
      <4>1. ctx'.vbs = [ctx.vbs EXCEPT ![index] = a]
        BY <1>1, <2>6, <3>3 DEF Context
      <4>2. a.tag = ctx.vbs[index].tag
        BY <2>2 DEF Varbinds
      <4> HIDE DEF a
      <4>3. PICK v \in Seq(Varbinds) : v = ctx.vbs
        BY <1>1
      <4>4. PICK w : w = ctx'.vbs
        OBVIOUS
      <4>5. PICK n \in Nat : n = Len(v)
        BY <1>1, <4>3
      <4>6. Len(w) = n /\ \A k \in 1 .. n : w[k].tag = v[k].tag
        BY <2>1, <4>1, <4>2, <4>3, <4>4, <4>5
      <4>7. EmptyFrom(v, index) /\ index \in 1 .. n
        BY <2>1, <3>3, <4>3, <4>4, <4>5 DEF CountInv
      <4>8. EmptyFrom(w, index)
        BY <4>5, <4>6, <4>7 DEF EmptyFrom
      <4>9. ASSUME NEW s \in Sensors PROVE Counted(s)'
        <5>1. \A k \in 1 .. n : Delivers(w[k], s) <=> Delivers(v[k], s)
          <6>1. \A k \in 1 .. n : k # index => w[k] = v[k]
            BY <2>1, <4>1, <4>3, <4>4, <4>5
          <6>2. v[index].tag \notin ValueTags
            BY <4>5, <4>7 DEF EmptyFrom
          <6>3. ~Delivers(w[index], s) /\ ~Delivers(v[index], s)
            BY <4>6, <4>7, <6>2 DEF Delivers
          <6> QED BY <6>1, <6>3
        <5>2. Deliveries(w, n, s) = Deliveries(v, n, s)
          BY <5>1, DeliveriesSame
        <5>3. Counted(s)
          BY <2>1 DEF CountInv
        <5>4. Delivered(s)' = Delivered(s)
          BY <4>3, <4>4, <4>5, <4>6, <5>2 DEF Delivered
        <5> QED BY <2>1, <5>3, <5>4 DEF Counted
      <4> QED BY <2>6, <3>1, <3>3, <4>3, <4>4, <4>8, <4>9 DEF CountInv, Working
    <3> QED BY <3>2, <3>3
  <2>7. \/ Lookup.res # "ok" /\ Settle(Lookup.res, ctx.vbs[index])
        \/ Settle("noSuchObject", ctx.vbs[index])
        \/ Settle("genErr", ctx.vbs[index])
        \/ UNCHANGED <<pc, pass, index, ctx>>
        \/ /\ Lookup.res = "ok" /\ pc' = "call" /\ found' = Lookup
           /\ ctx' = IF pass = "answer"
                     THEN [ctx EXCEPT !.vbs[index].oid = Lookup.oid] ELSE ctx
           /\ UNCHANGED <<pass, index, skips>>
    BY <1>9 DEF ReadLookup
  <2>8. {"noSuchObject", "genErr"} \subseteq Results
    BY DEF Results
  <2> QED BY <2>3, <2>4, <2>5, <2>6, <2>7, <2>8, Zenon
<1>10. CASE ReadCall
  <2>1. /\ UNCHANGED <<base, request>> /\ pc = "call" /\ Working /\ pass \in ReadPasses
        /\ index \in 1 .. Len(ctx.vbs) /\ CallGetter(found)
    BY <1>1, <1>10 DEF ReadCall, historyVars, Working, TypeInv
  <2> SUFFICES ASSUME AsksOnly PROVE CountInv'
    BY <1>3, <2>1 DEF CountInv
  <2> DEFINE value == GetValue(found)
             vb == [oid |-> found.oid, tag |-> found.tag, val |-> value]
             result == GetResult(found)
  <2>2. Settle(result, vb)
    BY <1>10 DEF ReadCall
  <2>3. result \in Results
    BY <1>1, <2>1, GetterType
  <2>4. Genuine(found)
    BY <2>1 DEF CountInv
  <2> HIDE DEF value
  <2>5. ASSUME NEW s \in Sensors
        PROVE  readCount'[s] = readCount[s] + (IF result = "ok" /\ Delivers(vb, s) THEN 1 ELSE 0)
    <3>1. /\ GetResult(found) = "ok" =>
               readCount'[s] = readCount[s] + (IF Delivers(vb, s) THEN 1 ELSE 0)
          /\ GetResult(found) # "ok" => readCount'[s] = readCount[s]
      BY <1>1, <2>1, <2>4, GetterCounts
    <3>2. readCount[s] \in Nat
      BY <1>1 DEF MibTypeOK
    <3> HIDE DEF vb
    <3> QED BY <3>1, <3>2
  <2> HIDE DEF vb, result
  <2> QED BY <2>1, <2>2, <2>3, <2>5, SettleCounts
<1>11. CASE Validate \/ CommitLookup \/ CommitCall
  <2>1. UNCHANGED request /\ request.pdu = "set"
    BY <1>11 DEF Validate, CommitLookup, CommitCall, historyVars, PassInv, PassFits, Working
  <2> QED BY <1>3, <2>1 DEF CountInv, AsksOnly
<1>12. CASE Reply
  <2>1. /\ UNCHANGED <<readCount, base, request, ctx>> /\ pc = "reply" /\ pc' = "idle"
    BY <1>12 DEF Reply, mibVars, historyVars
  <2> QED BY <1>2, <1>3, <2>1 DEF CountInv, Working
<1>13. CASE Device \/ UNCHANGED vars
  <2>1. UNCHANGED <<readCount, base, request, ctx, pc, pass, index, found, outcome>>
    BY <1>13 DEF Device, SensorsChange, FirstReading, WifiChanges, agentVars, vars, mibVars,
                 historyVars
  <2> QED BY <1>2, <1>3, <2>1 DEF CountInv, Working, Answered
<1> QED
  BY <1>5, <1>6, <1>7, <1>8, <1>9, <1>10, <1>11, <1>12, <1>13 DEF Next, Agent

\* For every MIB and every behaviour of the sensors, each temperature a v2c
\* read delivers is counted exactly once, and none ever goes uncounted
\* (mib_sensor_table.c get_cell).
THEOREM ReadsCounted == Spec => []ReadsAreCounted
<1>1. Init => CountInv
  BY DEF Init, EmptyRequest, CountInv, AsksOnly
<1>2. TypeInv /\ PassInv /\ CountInv => ReadsAreCounted
  <2> SUFFICES ASSUME TypeInv, PassInv, CountInv, Answered, AsksOnly, NEW s \in Sensors
               PROVE  LET counted == readCount[s] - base.readCount[s]
                      IN  counted >= Delivered(s) /\ (ctx.version = "v2c" => counted = Delivered(s))
    BY DEF ReadsAreCounted
  <2>1. Counted(s) /\ ctx.version = request.version
    BY DEF CountInv, PassInv, SamePdu
  <2>2. /\ readCount[s] \in Nat /\ base.readCount[s] \in Nat /\ Delivered(s) \in Nat
    <3>1. Len(ctx.vbs) \in Nat
      BY DEF TypeInv, TypeOK, Context
    <3>2. Delivered(s) \in Nat
      BY <3>1, DeliveriesFinite DEF Delivered
    <3> QED BY <3>2 DEF TypeInv, TypeOK, MibTypeOK
  <2> QED BY <2>1, <2>2 DEF Counted
<1>3. Init => TruthInv
  BY DEF Init, EmptyRequest, TruthInv, V2cRead
<1> QED BY <1>1, <1>2, <1>3, StepCounts, StepTruth, PassInvariant, PTL DEF Spec

-----------------------------------------------------------------------------
(***************************************************************************)
(* Counter64 in a v1 read.  The first pass steps over the instances that   *)
(* hold one, so what it finds is another; while the row set stands still,  *)
(* everything between the request's name and the place it has reached is   *)
(* such an instance, and the row it found is there when it is read.        *)
(***************************************************************************)
V1Read == request.version = "v1" /\ request.pdu \in {"get", "getnext"}

OwnCounter64(vbs, asked) ==
  \A k \in 1 .. Len(vbs) : vbs[k].tag = "counter64" => asked[k].tag = "counter64"

SteppedOver(n, from, to) ==
  \A x \in Instances(n) :
    OidLess(from, x) => OidLess(to, x) \/ Resolve(x, n).tag = "counter64"

OnlyHidden(n, from) ==
  \A x \in Instances(n) : OidLess(from, x) => Resolve(x, n).tag = "counter64"

StillRows(n) == rowsSeen = {n} /\ request.pdu = "getnext"

WalkInv(n) ==
  StillRows(n) =>
    /\ pc = "lookup" /\ pass = "probe" /\ skips > 0 =>
         SteppedOver(n, request.vbs[index].oid, found.oid)
    /\ pc = "call" => (found.accessor \in SensorAccessors => found.row <= n)
    /\ Concluded /\ ctx.errStatus = "noSuchName" =>
         OnlyHidden(n, request.vbs[ctx.errIndex].oid)

HiddenInv ==
  V1Read =>
    /\ pc # "idle" \/ Answered => OwnCounter64(ctx.vbs, request.vbs)
    /\ pc = "call" => found.tag # "counter64"
    /\ \A n \in Sensors : WalkInv(n)

NameErrors == {"noSuchObject", "noSuchInstance", "endOfView"}

\* A v1 fetch ends the first pass with the error its result translates to, or
\* goes on to the next varbind.
LEMMA SettleV1 ==
  ASSUME TypeInv, pass \in {"probe", "answer"}, ctx.version = "v1",
         index \in 1 .. Len(ctx.vbs), NEW result \in Results, NEW vb, Settle(result, vb)
  PROVE  \/ /\ pc' = "reply" /\ pass = "probe" /\ ctx'.vbs = ctx.vbs /\ ctx'.errIndex = index
            /\ ctx'.errStatus = "noSuchName" => result \in NameErrors
         \/ /\ pc' = "lookup" /\ skips' = 0
            /\ \/ ctx'.vbs = ctx.vbs
               \/ result = "ok" /\ ctx'.vbs = [ctx.vbs EXCEPT ![index] = vb]
<1> DEFINE tr == Translate(ctx.version, result)
<1>1. ctx \in Context
  BY DEF TypeInv, TypeOK
<1>2. tr.abort => tr.status = V1Status(result)
  BY DEF Translate, Translation
<1>3. V1Status(result) = "noSuchName" => result \in NameErrors
  BY DEF V1Status, NameErrors
<1>4. \/ pass # "answer" /\ tr.abort /\ Finish(tr.status, index)
      \/ pass = "probe" /\ Turn("probe", index + 1) /\ ctx' = ctx
      \/ /\ pass = "answer" /\ Turn("answer", index + 1)
         /\ ctx' = IF result = "ok" THEN [ctx EXCEPT !.vbs[index] = vb] ELSE ctx
  BY DEF Settle
<1> HIDE DEF tr
<1>5. CASE pass # "answer" /\ tr.abort /\ Finish(tr.status, index)
  BY <1>1, <1>2, <1>3, <1>5 DEF Finish, Context
<1>6. CASE pass = "probe" /\ Turn("probe", index + 1) /\ ctx' = ctx
  BY <1>6 DEF Turn
<1>7. CASE /\ pass = "answer" /\ Turn("answer", index + 1)
           /\ ctx' = IF result = "ok" THEN [ctx EXCEPT !.vbs[index] = vb] ELSE ctx
  <2>1. result = "ok" => ctx'.vbs = [ctx.vbs EXCEPT ![index] = vb]
    BY <1>1, <1>7 DEF Context
  <2> QED BY <1>7, <2>1 DEF Turn
<1> QED BY <1>4, <1>5, <1>6, <1>7

\* So the invariant holds after it, when a value it puts into the response is
\* no Counter64 and an end of the view is one for this manager.
LEMMA HiddenSettled ==
  ASSUME TypeInv, PassInv, HiddenInv, V1Read, Working, pass \in {"probe", "answer"},
         index \in 1 .. Len(ctx.vbs), UNCHANGED <<request, rowsSeen>>,
         NEW result \in Results, NEW vb, Settle(result, vb),
         result = "ok" => vb.tag # "counter64",
         \A n \in Sensors : StillRows(n) /\ pass = "probe" /\ result \in NameErrors =>
           OnlyHidden(n, request.vbs[index].oid)
  PROVE  HiddenInv'
<1>1. /\ ctx.vbs \in Seq(Varbinds) /\ Len(ctx.vbs) \in Nat /\ ctx.version = "v1"
      /\ OwnCounter64(ctx.vbs, request.vbs)
  BY DEF TypeInv, TypeOK, Context, HiddenInv, Working, PassInv, SamePdu, V1Read
<1>2. \/ /\ pc' = "reply" /\ pass = "probe" /\ ctx'.vbs = ctx.vbs /\ ctx'.errIndex = index
         /\ ctx'.errStatus = "noSuchName" => result \in NameErrors
      \/ /\ pc' = "lookup" /\ skips' = 0
         /\ \/ ctx'.vbs = ctx.vbs
            \/ result = "ok" /\ ctx'.vbs = [ctx.vbs EXCEPT ![index] = vb]
  BY <1>1, SettleV1
<1>3. OwnCounter64(ctx'.vbs, request'.vbs)
  <2>1. ASSUME result = "ok", ctx'.vbs = [ctx.vbs EXCEPT ![index] = vb]
        PROVE  OwnCounter64(ctx'.vbs, request'.vbs)
    <3>1. PICK w : w = ctx'.vbs
      OBVIOUS
    <3>2. Len(w) = Len(ctx.vbs) /\ w[index] = vb
          /\ \A k \in 1 .. Len(ctx.vbs) : k # index => w[k] = ctx.vbs[k]
      BY <1>1, <2>1, <3>1
    <3>3. OwnCounter64(w, request.vbs)
      BY <1>1, <2>1, <3>2 DEF OwnCounter64
    <3> QED BY <3>1, <3>3
  <2> QED BY <1>1, <1>2, <2>1
<1>4. ASSUME NEW n \in Sensors PROVE WalkInv(n)'
  <2> SUFFICES ASSUME StillRows(n)' PROVE WalkInv(n)'
    BY DEF WalkInv
  <2>1. StillRows(n)
    BY DEF StillRows
  <2>2. CASE pc' = "lookup" /\ skips' = 0
    BY <2>2 DEF WalkInv, Concluded, Answered
  <2>3. CASE /\ pc' = "reply" /\ pass = "probe" /\ ctx'.errIndex = index
             /\ ctx'.errStatus = "noSuchName" => result \in NameErrors
    <3>1. ctx'.errStatus = "noSuchName" => OnlyHidden(n, request'.vbs[ctx'.errIndex].oid)
      BY <2>1, <2>3
    <3> QED BY <2>3, <3>1 DEF WalkInv
  <2> QED BY <1>2, <2>2, <2>3
<1> QED BY <1>2, <1>3, <1>4 DEF HiddenInv

\* Where the search stands, everything it has passed is a Counter64; so if it
\* finds none, or another, that is still so.
LEMMA WalkGoesOn ==
  ASSUME NEW n \in Nat, NEW from \in Oid, NEW at \in Oid, SteppedOver(n, from, at)
  PROVE  /\ ResolveNext(at, n).res # "ok" => OnlyHidden(n, from)
         /\ ResolveNext(at, n).res = "ok" /\ ResolveNext(at, n).tag = "counter64" =>
              SteppedOver(n, from, ResolveNext(at, n).oid)
<1>1. ResolveNext(at, n).res # "ok" => OnlyHidden(n, from)
  BY NothingFollows DEF SteppedOver, OnlyHidden
<1>2. ASSUME ResolveNext(at, n).res = "ok", ResolveNext(at, n).tag = "counter64"
      PROVE  SteppedOver(n, from, ResolveNext(at, n).oid)
  <2> DEFINE next == ResolveNext(at, n)
  <2>1. /\ next.oid \in Oid /\ Resolve(next.oid, n) = next
        /\ \A y \in Instances(n) : OidLess(at, y) => ~OidLess(y, next.oid)
    BY <1>2, NextResolves
  <2> HIDE DEF next
  <2> SUFFICES ASSUME NEW x \in Instances(n), OidLess(from, x)
               PROVE  OidLess(next.oid, x) \/ Resolve(x, n).tag = "counter64"
    BY DEF SteppedOver, next
  <2>2. CASE Resolve(x, n).tag = "counter64"
    BY <2>2
  <2>3. CASE OidLess(at, x)
    <3>1. x \in Oid /\ ~OidLess(x, next.oid)
      BY <2>1, <2>3, InstancesAreOids
    <3>2. OidLess(next.oid, x) \/ next.oid = x
      BY <2>1, <3>1, LessTotal
    <3>3. next.tag = "counter64"
      BY <1>2 DEF next
    <3> QED BY <2>1, <3>2, <3>3
  <2> QED BY <2>2, <2>3 DEF SteppedOver
<1> QED BY <1>1, <1>2

LEMMA StepHidden == TypeInv /\ PassInv /\ HiddenInv /\ [Next]_vars => HiddenInv'
<1> SUFFICES ASSUME TypeInv, PassInv, HiddenInv, [Next]_vars PROVE HiddenInv'
  OBVIOUS
<1>1. /\ ctx \in Context /\ ctx.vbs \in Seq(Varbinds) /\ Len(ctx.vbs) \in Nat
      /\ index \in Nat \ {0} /\ skips \in Nat /\ MibTypeOK /\ WellResolved(found)
      /\ Rows \in Sensors /\ Rows \in Nat
  BY RowsType DEF TypeInv, TypeOK, Context
<1>2. V1Read /\ Working => pass \in {"probe", "answer"}
  BY DEF PassInv, PassFits, V1Read, TypeInv, TypeOK, Passes, ReadPasses
<1>3. ASSUME NEW n \in Sensors, StillRows(n), pc # "idle" PROVE n = Rows
  BY <1>3 DEF StillRows, PassInv, RowsAreSeen
<1>4. ASSUME NEW r \in Requests, Receive(r) PROVE HiddenInv'
  <2>1. pc' = "dispatch" /\ request' = r /\ ctx'.vbs = r.vbs
    BY <1>4 DEF Receive, Decoded
  <2>2. OwnCounter64(ctx'.vbs, request'.vbs)
    BY <2>1 DEF OwnCounter64
  <2> QED BY <2>1, <2>2 DEF HiddenInv, WalkInv, Concluded, Answered
<1>5. CASE Drop
  <2>1. pc' = "idle" /\ outcome' = "dropped"
    BY <1>5 DEF Drop
  <2> QED BY <2>1 DEF HiddenInv, WalkInv, Concluded, Answered
<1>6. CASE Dispatch
  <2>1. /\ UNCHANGED <<request, ctx>> /\ pc = "dispatch" /\ pc' = "lookup" /\ skips' = 0
    BY <1>6 DEF Dispatch, Turn, historyVars
  <2> QED BY <2>1 DEF HiddenInv, V1Read, WalkInv, Concluded, Answered
<1>7. CASE PassEnds
  <2>1. /\ UNCHANGED request /\ pc = "lookup" /\ ctx'.vbs = ctx.vbs
        /\ \/ pc' = "lookup" /\ skips' = 0
           \/ pc' = "reply" /\ ctx'.errStatus = "noError"
    BY <1>1, <1>7 DEF PassEnds, Turn, Finish, Context, historyVars
  <2>2. ASSUME NEW n \in Sensors PROVE WalkInv(n)'
    BY <2>1 DEF WalkInv, Concluded, Answered
  <2> QED BY <2>1, <2>2 DEF HiddenInv, V1Read
<1>8. CASE ReadLookup
  <2>1. /\ UNCHANGED <<request, rowsSeen>> /\ pc = "lookup" /\ Working
        /\ index \in 1 .. Len(ctx.vbs)
    BY <1>1, <1>8 DEF ReadLookup, historyVars, Working
  <2> SUFFICES ASSUME V1Read PROVE HiddenInv'
    BY <2>1 DEF HiddenInv, V1Read
  <2>2. /\ pass \in {"probe", "answer"} /\ ctx.version = "v1" /\ ctx.pdu = request.pdu
        /\ OwnCounter64(ctx.vbs, request.vbs)
        /\ pass = "probe" => ctx.vbs = request.vbs
    BY <1>2, <2>1 DEF PassInv, SamePdu, Untouched, V1Read, HiddenInv
  <2>3. ctx.vbs[index] \in Varbinds
    BY <1>1, <2>1
  <2>4. ctx.vbs[index].oid \in Oid /\ found.oid \in Oid /\ Current \in Oid
    BY <1>1, <2>3 DEF Current, WellResolved, Resolved, Varbinds
  <2>5. ASSUME NEW n \in Sensors, StillRows(n)
        PROVE  /\ n = Rows /\ Lookup = ResolveNext(Current, n) /\ ctx.pdu = "getnext"
               /\ pass = "probe" => SteppedOver(n, request.vbs[index].oid, Current)
    <3>1. n = Rows /\ ctx.pdu = "getnext"
      BY <1>3, <2>1, <2>2, <2>5 DEF StillRows
    <3>2. ASSUME pass = "probe", skips = 0
          PROVE  SteppedOver(n, request.vbs[index].oid, Current)
      BY <2>2, <3>2 DEF SteppedOver, Current
    <3>3. ASSUME pass = "probe", skips # 0
          PROVE  SteppedOver(n, request.vbs[index].oid, Current)
      <4>1. WalkInv(n) /\ skips > 0
        BY <1>1, <3>3 DEF HiddenInv
      <4>2. SteppedOver(n, request.vbs[index].oid, found.oid)
        BY <2>1, <2>5, <3>3, <4>1 DEF WalkInv
      <4> QED BY <3>3, <4>2 DEF Current
    <3> QED BY <3>1, <3>2, <3>3 DEF Lookup
  <2>6. ASSUME NEW n \in Sensors, StillRows(n), pass = "probe"
        PROVE  /\ Lookup.res # "ok" => OnlyHidden(n, request.vbs[index].oid)
               /\ Hidden(Lookup) => SteppedOver(n, request.vbs[index].oid, Lookup.oid)
    <3>1. request.vbs[index].oid \in Oid /\ n \in Nat
      BY <1>1, <2>2, <2>4, <2>5, <2>6
    <3>2. SteppedOver(n, request.vbs[index].oid, Current) /\ Lookup = ResolveNext(Current, n)
      BY <2>5, <2>6
    <3> QED BY <2>4, <3>1, <3>2, WalkGoesOn DEF Hidden
  <2>7. CASE Lookup.res # "ok" /\ Settle(Lookup.res, ctx.vbs[index])
    <3>1. Lookup.res \in Results
      BY <2>1, LookupType DEF WellResolved, Resolved
    <3>2. \A n \in Sensors : StillRows(n) /\ pass = "probe" /\ Lookup.res \in NameErrors =>
            OnlyHidden(n, request.vbs[index].oid)
      BY <2>6, <2>7
    <3> QED BY <2>1, <2>2, <2>7, <3>1, <3>2, HiddenSettled
  <2>8. CASE ctx.pdu = "get" /\ Settle("noSuchObject", ctx.vbs[index])
    <3>1. \A n \in Sensors : ~StillRows(n)
      BY <2>2, <2>8 DEF StillRows
    <3>2. "noSuchObject" \in Results
      BY DEF Results
    <3> QED BY <2>1, <2>2, <2>8, <3>1, <3>2, HiddenSettled
  <2>9. CASE Settle("genErr", ctx.vbs[index])
    <3>1. "genErr" \in Results /\ "genErr" \notin NameErrors
      BY DEF Results, NameErrors
    <3> QED BY <2>1, <2>2, <2>9, <3>1, HiddenSettled
  <2>10. CASE Hidden(Lookup) /\ found' = Lookup /\ UNCHANGED <<pc, pass, index, ctx>>
    <3>1. ASSUME NEW n \in Sensors PROVE WalkInv(n)'
      <4> SUFFICES ASSUME StillRows(n)', pass = "probe"
                   PROVE  SteppedOver(n, request'.vbs[index'].oid, found'.oid)
        BY <2>1, <2>10 DEF WalkInv, Concluded, Answered
      <4>1. StillRows(n)
        BY <2>1 DEF StillRows
      <4>2. SteppedOver(n, request.vbs[index].oid, Lookup.oid)
        BY <2>6, <2>10, <4>1
      <4> QED BY <2>1, <2>10, <4>2
    <3> QED BY <2>1, <2>2, <2>10, <3>1 DEF HiddenInv
  <2>11. CASE /\ Lookup.res = "ok" /\ ~Hidden(Lookup) /\ pc' = "call" /\ found' = Lookup
              /\ ctx' = IF pass = "answer"
                        THEN [ctx EXCEPT !.vbs[index].oid = Lookup.oid] ELSE ctx
              /\ UNCHANGED <<pass, index, skips>>
    <3>1. found'.tag # "counter64"
      BY <2>2, <2>11 DEF Hidden
    <3>2. ASSUME NEW n \in Sensors PROVE WalkInv(n)'
      <4> SUFFICES ASSUME StillRows(n)'
                   PROVE  Lookup.accessor \in SensorAccessors => Lookup.row <= n
        BY <2>11 DEF WalkInv, Concluded, Answered
      <4>1. StillRows(n)
        BY <2>1 DEF StillRows
      <4>2. n \in Nat /\ Lookup = ResolveNext(Current, n)
        BY <1>1, <2>5, <4>1
      <4> QED BY <2>4, <4>2, ResolveNextFacts
    <3>3. OwnCounter64(ctx'.vbs, request'.vbs)
      <4>1. CASE pass # "answer"
        BY <2>1, <2>2, <2>11, <4>1
      <4>2. CASE pass = "answer"
        <5> DEFINE a == [ctx.vbs[index] EXCEPT !.oid = Lookup.oid]
        <5>1. ctx'.vbs = [ctx.vbs EXCEPT ![index] = a]
          BY <1>1, <2>11, <4>2 DEF Context
        <5>2. a.tag = ctx.vbs[index].tag
          BY <2>3 DEF Varbinds
        <5> HIDE DEF a
        <5>3. PICK w : w = ctx'.vbs
          OBVIOUS
        <5>4. Len(w) = Len(ctx.vbs) /\ \A k \in 1 .. Len(ctx.vbs) : w[k].tag = ctx.vbs[k].tag
          BY <1>1, <2>1, <5>1, <5>2, <5>3
        <5>5. OwnCounter64(w, request.vbs)
          BY <2>2, <5>4 DEF OwnCounter64
        <5> QED BY <2>1, <5>3, <5>5
      <4> QED BY <4>1, <4>2
    <3> QED BY <2>11, <3>1, <3>2, <3>3 DEF HiddenInv
  <2>12. \/ Lookup.res # "ok" /\ Settle(Lookup.res, ctx.vbs[index])
         \/ ctx.pdu = "get" /\ Settle("noSuchObject", ctx.vbs[index])
         \/ Settle("genErr", ctx.vbs[index])
         \/ Hidden(Lookup) /\ found' = Lookup /\ UNCHANGED <<pc, pass, index, ctx>>
         \/ /\ Lookup.res = "ok" /\ ~Hidden(Lookup) /\ pc' = "call" /\ found' = Lookup
            /\ ctx' = IF pass = "answer"
                      THEN [ctx EXCEPT !.vbs[index].oid = Lookup.oid] ELSE ctx
            /\ UNCHANGED <<pass, index, skips>>
    BY <1>8 DEF ReadLookup
  <2> QED BY <2>7, <2>8, <2>9, <2>10, <2>11, <2>12, Zenon
<1>9. CASE ReadCall
  <2>1. /\ UNCHANGED <<request, rowsSeen>> /\ pc = "call" /\ Working
        /\ index \in 1 .. Len(ctx.vbs) /\ CallGetter(found)
    BY <1>1, <1>9 DEF ReadCall, historyVars, Working, TypeInv
  <2> SUFFICES ASSUME V1Read PROVE HiddenInv'
    BY <2>1 DEF HiddenInv, V1Read
  <2>2. pass \in {"probe", "answer"} /\ found.tag # "counter64"
    BY <1>2, <2>1 DEF HiddenInv
  <2> DEFINE value == GetValue(found)
             vb == [oid |-> found.oid, tag |-> found.tag, val |-> value]
             result == GetResult(found)
  <2>3. Settle(result, vb)
    BY <1>9 DEF ReadCall
  <2>4. result \in Results
    BY <1>1, <2>1, GetterType
  <2> HIDE DEF value
  <2>5. vb.tag # "counter64"
    BY <2>2
  <2>6. ASSUME NEW n \in Sensors, StillRows(n) PROVE result \notin NameErrors
    <3>1. n = Rows /\ (found.accessor \in SensorAccessors => found.row <= n)
      <4>1. n = Rows
        BY <1>3, <2>1, <2>6
      <4>2. WalkInv(n)
        BY DEF HiddenInv
      <4> QED BY <2>1, <2>6, <4>1, <4>2 DEF WalkInv
    <3>2. found.row \in Nat
      BY <1>1 DEF WellResolved, Resolved
    <3>3. ~RowGone(found)
      BY <1>1, <3>1, <3>2 DEF RowGone
    <3> QED BY <3>3 DEF GetResult, NameErrors
  <2> HIDE DEF vb, result
  <2> QED BY <2>1, <2>2, <2>3, <2>4, <2>5, <2>6, HiddenSettled
<1>10. CASE Validate \/ CommitLookup \/ CommitCall
  <2>1. UNCHANGED request /\ request.pdu = "set"
    BY <1>10 DEF Validate, CommitLookup, CommitCall, historyVars, PassInv, PassFits, Working
  <2> QED BY <2>1 DEF HiddenInv, V1Read
<1>11. CASE Reply
  <2>1. /\ UNCHANGED <<request, ctx, rowsSeen>> /\ pc = "reply" /\ pc' = "idle"
    BY <1>11 DEF Reply, historyVars
  <2>2. ASSUME NEW n \in Sensors, WalkInv(n) PROVE WalkInv(n)'
    BY <2>1, <2>2 DEF WalkInv, StillRows, Concluded
  <2> QED BY <2>1, <2>2 DEF HiddenInv, V1Read
<1>12. CASE Device \/ UNCHANGED vars
  <2>1. UNCHANGED <<request, ctx, pc, pass, index, skips, found, outcome>>
    BY <1>12 DEF Device, agentVars, vars, historyVars
  <2>2. rowsSeen \subseteq rowsSeen' /\ (pc = "idle" => rowsSeen' = rowsSeen)
    BY <1>12 DEF Device, vars, historyVars
  <2>3. ASSUME NEW n \in Sensors, WalkInv(n) PROVE WalkInv(n)'
    <3> SUFFICES ASSUME StillRows(n)' PROVE WalkInv(n)'
      BY DEF WalkInv
    <3>1. StillRows(n)
      <4>1. CASE pc = "idle"
        BY <2>1, <2>2, <4>1 DEF StillRows
      <4>2. CASE pc # "idle"
        <5>1. Rows \in rowsSeen
          BY <4>2 DEF PassInv, RowsAreSeen
        <5> QED BY <2>1, <2>2, <5>1 DEF StillRows
      <4> QED BY <4>1, <4>2
    <3> QED BY <2>1, <2>3, <3>1 DEF WalkInv, Concluded, Answered
  <2> QED BY <2>1, <2>3 DEF HiddenInv, V1Read, Answered
<1> QED
  BY <1>4, <1>5, <1>6, <1>7, <1>8, <1>9, <1>10, <1>11, <1>12 DEF Next, Agent

\* For every MIB, a v1 manager sees no Counter64, and while the row set stands
\* still a walk ends for it only where nothing but Counter64 instances follow
\* (lookup_and_fetch).
THEOREM Counter64Hidden == Spec => []V1NeverSeesCounter64
<1>1. Init => HiddenInv
  BY DEF Init, EmptyRequest, HiddenInv, V1Read
<1>2. TypeInv /\ PassInv /\ HiddenInv => V1NeverSeesCounter64
  <2> SUFFICES ASSUME TypeInv, PassInv, HiddenInv, Answered, V1Read
               PROVE  /\ \A k \in DOMAIN ctx.vbs :
                           ctx.vbs[k].tag = "counter64" => request.vbs[k].tag = "counter64"
                      /\ ctx.errStatus = "noSuchName" /\ StillRows(Rows) =>
                           OnlyHidden(Rows, request.vbs[ctx.errIndex].oid)
    BY DEF V1NeverSeesCounter64, V1Read, StillRows, OnlyHidden, PassInv, SamePdu
  <2>1. DOMAIN ctx.vbs = 1 .. Len(ctx.vbs) /\ Rows \in Sensors
    BY RowsType DEF TypeInv, TypeOK, Context
  <2>2. OwnCounter64(ctx.vbs, request.vbs) /\ WalkInv(Rows)
    BY <2>1 DEF HiddenInv
  <2> QED BY <2>1, <2>2 DEF OwnCounter64, WalkInv, Concluded
<1> QED BY <1>1, <1>2, StepHidden, PassInvariant, PTL DEF Spec

-----------------------------------------------------------------------------
(***************************************************************************)
(* The agent implements SetService when the row set stands still and the   *)
(* setters take every value that validation lets through.  The second pass *)
(* of a Set then finds what the first one found and cannot fail, so that a *)
(* Set that is not refused has written all of its varbinds by the time it  *)
(* is answered.  The run set_partial shows a Set written in part where the *)
(* row set does change; a value out of a setter's range has the same end.  *)
(***************************************************************************)
OneRowCount == Len(RowPattern) = 1

SetterTakes(r, vb) ==
  CASE r.accessor = "sensorLabel" -> StringResult(vb, LabelMax) = "ok"
    [] r.accessor = "string" -> StringResult(vb, StringMax) = "ok"
    [] r.accessor = "relay" -> RelayResult(vb) = "ok"
    [] OTHER -> FALSE

Legal(vb) ==
  Acceptable(vb, RowPattern[1]) => SetterTakes(Resolve(vb.oid, RowPattern[1]), vb)

LegalSetsOnly ==
  \A r \in Requests : r.pdu = "set" => \A k \in DOMAIN r.vbs : Legal(r.vbs[k])

AtomicInv ==
  /\ rowsSeen = {RowPattern[1]}
  /\ request.pdu = "set" => \A k \in DOMAIN request.vbs : Legal(request.vbs[k])
  /\ pc # "idle" => outcome = "none"
  /\ pc # "idle" /\ request.pdu # "set" => Visible(Store) = Visible(base)
  /\ pc = "call" /\ request.pdu = "set" =>
       found = Resolve(request.vbs[index].oid, RowPattern[1])
  /\ pc = "reply" /\ request.pdu = "set" => ctx.errStatus # "genErr"

LEMMA InitAtomic == OneRowCount /\ Init => AtomicInv
  BY DEF OneRowCount, Init, MibInit, EmptyRequest, Rows, AtomicInv

\* What validation lets through, the setter of the object found takes.
LEMMA SetterTakesIt ==
  ASSUME NEW vb \in Varbinds, Legal(vb), Acceptable(vb, RowPattern[1]), Rows = RowPattern[1],
         Rows \in Nat
  PROVE  /\ Resolve(vb.oid, RowPattern[1]).res = "ok"
         /\ SetResult(Resolve(vb.oid, RowPattern[1]), vb) = "ok"
<1> DEFINE r == Resolve(vb.oid, RowPattern[1])
<1>1. r.res = "ok" /\ SetterTakes(r, vb)
  BY DEF Legal, Acceptable, Validation
<1>2. ~RowGone(r)
  <2>1. vb.oid \in Oid
    BY DEF Varbinds
  <2>2. r.accessor \in SensorAccessors => r.row <= Rows /\ r.row \in Nat
    BY <2>1, ResolveFacts, ResolveType DEF WellResolved, Resolved
  <2> QED BY <2>2 DEF RowGone
<1> HIDE DEF r
<1>3. SetResult(r, vb) = "ok"
  BY <1>1, <1>2 DEF SetResult, SetterTakes
<1> QED BY <1>1, <1>3 DEF r

LEMMA StepAtomic ==
  ASSUME OneRowCount, LegalSetsOnly, TypeInv, PassInv, WriteInv, AtomicInv, [Next]_vars
  PROVE  AtomicInv'
<1>1. /\ Rows = RowPattern[1] /\ Rows \in Nat /\ ctx \in Context /\ index \in Nat \ {0}
      /\ request.vbs \in Seq(Varbinds)
  <2>1. phase \in DOMAIN RowPattern /\ RowPattern \in Seq(Sensors)
    BY DeviceAssumption DEF TypeInv, TypeOK, MibTypeOK
  <2>2. phase = 1
    BY <2>1 DEF OneRowCount
  <2>3. Rows \in Nat
    BY RowsType DEF TypeInv, TypeOK
  <2> QED BY <2>2, <2>3 DEF Rows, TypeInv, TypeOK, RequestType
<1>2. ASSUME NEW status, NEW at, Finish(status, at)
      PROVE  pc' = "reply" /\ ctx'.errStatus = status
  BY <1>1, <1>2 DEF Finish, Context
<1>3. request.pdu = "set" /\ Working => ctx.vbs = request.vbs /\ pass \in {"validate", "commit"}
  BY DEF PassInv, PassFits, Untouched
\* The row set stands still, and what a getter does is not seen.
<1>4. ASSUME UNCHANGED <<request, base, outcome, rowsSeen>>, pc # "idle",
             request.pdu = "set" =>
               /\ pc' = "call" => found' = Resolve(request.vbs[index'].oid, RowPattern[1])
               /\ pc' = "reply" => ctx'.errStatus # "genErr"
      PROVE  AtomicInv'
  <2>1. outcome' = "none" /\ rowsSeen' = {RowPattern[1]}
    BY <1>4 DEF AtomicInv
  <2>2. request'.pdu = "set" => \A k \in DOMAIN request'.vbs : Legal(request'.vbs[k])
    BY <1>4 DEF AtomicInv
  <2>3. request'.pdu # "set" => (Visible(Store) = Visible(base))'
    <3>1. SUFFICES ASSUME request.pdu # "set" PROVE Visible(Store)' = Visible(base)'
      BY <1>4
    <3>2. ~CommitCall
      BY <3>1 DEF CommitCall, PassInv, PassFits, Working
    <3>3. Visible(Store)' = Visible(Store)
      BY <3>2, OnlyCommitWrites
    <3>4. Visible(base)' = Visible(base)
      BY <1>4 DEF Visible
    <3> QED BY <1>4, <3>1, <3>3, <3>4 DEF AtomicInv
  <2> QED BY <1>4, <2>1, <2>2, <2>3 DEF AtomicInv
<1>5. ASSUME NEW r \in Requests, Receive(r) PROVE AtomicInv'
  <2>1. /\ pc' = "dispatch" /\ outcome' = "none" /\ request' = r /\ base' = Store
        /\ rowsSeen' = {RowPattern[1]} /\ UNCHANGED storeVars
    BY <1>1, <1>5 DEF Receive, mibVars, storeVars
  <2>2. request'.pdu = "set" => \A k \in DOMAIN request'.vbs : Legal(request'.vbs[k])
    BY <2>1 DEF LegalSetsOnly
  <2>3. Visible(Store)' = Visible(base)'
    BY <2>1 DEF Visible, Store, storeVars
  <2> QED BY <2>1, <2>2, <2>3 DEF AtomicInv
<1>6. CASE Drop \/ Reply
  <2>1. pc' = "idle" /\ UNCHANGED <<request, base, rowsSeen>>
    BY <1>6 DEF Drop, Reply, historyVars
  <2> QED BY <2>1 DEF AtomicInv
<1>7. CASE Dispatch
  BY <1>4, <1>7 DEF Dispatch, Turn, historyVars
<1>8. CASE PassEnds
  <2>1. UNCHANGED <<request, base, outcome, rowsSeen>> /\ pc = "lookup"
    BY <1>8 DEF PassEnds, historyVars
  <2>2. pc' = "lookup" \/ (pc' = "reply" /\ ctx'.errStatus = "noError")
    BY <1>2, <1>8 DEF PassEnds, Turn
  <2> QED BY <1>4, <2>1, <2>2
<1>9. CASE ReadLookup \/ ReadCall
  <2>1. UNCHANGED <<request, base, outcome, rowsSeen>> /\ Working /\ pass \in ReadPasses
    BY <1>9 DEF ReadLookup, ReadCall, historyVars, Working
  <2>2. request.pdu # "set"
    BY <1>3, <2>1 DEF ReadPasses
  <2> QED BY <1>4, <2>1, <2>2 DEF Working
<1>10. CASE Validate
  <2>1. UNCHANGED <<request, base, outcome, rowsSeen>> /\ pc = "lookup" /\ index <= Len(ctx.vbs)
    BY <1>10 DEF Validate, historyVars
  <2>2. CASE Turn("validate", index + 1)
    BY <1>4, <2>1, <2>2 DEF Turn
  <2>3. ASSUME NEW vb, vb = ctx.vbs[index],
               Finish(V1Status(Validation(Resolve(vb.oid, Rows), vb)), index),
               Validation(Resolve(vb.oid, Rows), vb) # "ok"
        PROVE  AtomicInv'
    <3>1. vb \in Varbinds
      BY <1>1, <2>1, <2>3 DEF Context
    <3>2. vb.oid \in Oid
      BY <3>1 DEF Varbinds
    <3>3. Resolve(vb.oid, Rows).res \in {"ok", "noSuchObject", "noSuchInstance"}
      BY <1>1, <3>2, ResolveFacts
    <3>4. Validation(Resolve(vb.oid, Rows), vb)
            \in {"noSuchObject", "noSuchInstance", "notWritable", "wrongType"}
      BY <2>3, <3>3 DEF Validation
    <3>5. V1Status(Validation(Resolve(vb.oid, Rows), vb)) # "genErr"
      BY <3>4 DEF V1Status
    <3>6. pc' = "reply" /\ ctx'.errStatus # "genErr"
      BY <1>2, <2>3, <3>5
    <3> QED BY <1>4, <2>1, <3>6
  <2> QED BY <1>10, <2>2, <2>3 DEF Validate
<1>11. CASE CommitLookup \/ CommitCall
  <2>1. /\ UNCHANGED <<request, base, outcome, rowsSeen>> /\ Working /\ pass = "commit"
        /\ index <= Len(ctx.vbs)
    BY <1>11 DEF CommitLookup, CommitCall, historyVars, Working, TypeInv
  <2>2. SUFFICES ASSUME request.pdu = "set" PROVE AtomicInv'
    BY <1>4, <2>1 DEF Working
  <2>3. ctx.vbs = request.vbs /\ index \in DOMAIN request.vbs
    BY <1>1, <1>3, <2>1, <2>2
  <2> DEFINE vb == request.vbs[index]
  <2>4. vb \in Varbinds /\ Legal(vb) /\ Acceptable(vb, RowPattern[1])
    BY <1>1, <2>1, <2>2, <2>3 DEF AtomicInv, PassInv, ValidatedSoFar, Validated
  <2>5. /\ Resolve(vb.oid, RowPattern[1]).res = "ok"
        /\ SetResult(Resolve(vb.oid, RowPattern[1]), vb) = "ok"
    BY <1>1, <2>4, SetterTakesIt
  <2>6. CASE CommitLookup
    <3>1. pc' = "call" /\ found' = Resolve(vb.oid, RowPattern[1]) /\ index' = index
      BY <1>1, <2>3, <2>5, <2>6 DEF CommitLookup
    <3> QED BY <1>4, <2>1, <3>1 DEF Working
  <2>7. CASE CommitCall
    <3>1. found = Resolve(vb.oid, RowPattern[1])
      BY <2>2, <2>7 DEF CommitCall, AtomicInv
    <3>2. pc' = "lookup"
      BY <2>3, <2>5, <2>7, <3>1 DEF CommitCall, Turn
    <3> QED BY <1>4, <2>1, <3>2 DEF Working
  <2> QED BY <1>11, <2>6, <2>7
<1>12. CASE Device \/ UNCHANGED vars
  <2>1. UNCHANGED <<pc, index, found, ctx, outcome, request, base, rowsSeen, storeVars>>
    BY <1>12
    DEF Device, SensorsChange, OneRowCount, FirstReading, WifiChanges, agentVars, vars, mibVars,
        historyVars, storeVars
  <2>2. Visible(Store)' = Visible(Store) /\ Visible(base)' = Visible(base)
    BY <2>1 DEF Visible, Store, storeVars
  <2> QED BY <2>1, <2>2 DEF AtomicInv
<1> QED
  BY <1>5, <1>6, <1>7, <1>8, <1>9, <1>10, <1>11, <1>12 DEF Next, Agent

\* A label that shows the default is written over like an empty one.
LEMMA EffectOfSet ==
  ASSUME NEW s \in [field : [Fields -> Nat], label : [Sensors -> Nat],
                    readCount : [Sensors -> Nat]],
         NEW r, r.pdu = "set"
  PROVE  Effect(Visible(s), r) = Visible(WrittenPrefix(s, r.vbs, Len(r.vbs)))
<1> DEFINE k == Len(r.vbs)
           v == r.vbs
           shown == Visible(s)
           F == [o \in Fields |-> LastValue(v, FieldWrites(v, k, o), s.field[o])]
           L == [n \in Sensors |-> LastValue(v, LabelWrites(v, k, n), s.label[n])]
           M == [n \in Sensors |-> LastValue(v, LabelWrites(v, k, n), shown.label[n])]
<1>1. /\ WrittenPrefix(s, v, k).field = F /\ WrittenPrefix(s, v, k).label = L
      /\ WrittenPrefix(shown, v, k).field = F /\ WrittenPrefix(shown, v, k).label = M
  <2>1. /\ s.field \in [Fields -> Nat] /\ shown.field = s.field
        /\ shown = [field |-> shown.field, label |-> shown.label]
    BY DEF Visible
  <2> HIDE DEF shown
  <2> QED BY <2>1 DEF WrittenPrefix
<1>2. ASSUME NEW n \in Sensors PROVE LabelOf(M[n]) = LabelOf(L[n])
  <2>1. shown.label[n] = LabelOf(s.label[n])
    BY DEF Visible
  <2>2. \A x : LabelOf(LabelOf(x)) = LabelOf(x)
    BY DEF LabelOf, DefaultLabel, EmptyString
  <2> HIDE DEF k, v, shown
  <2> QED BY <2>1, <2>2 DEF LastValue
<1>3. Visible(WrittenPrefix(shown, v, k)) = Visible(WrittenPrefix(s, v, k))
  <2> HIDE DEF F, L, M, k, v, shown
  <2> QED BY <1>1, <1>2 DEF Visible
<1> QED BY <1>3 DEF Effect

\* A Set that has written nothing shows nothing.
LEMMA NothingStored ==
  ASSUME base \in [field : [Fields -> Nat], label : [Sensors -> Nat],
                   readCount : [Sensors -> Nat]],
         Stored(0)
  PROVE  Visible(Store) = Visible(base)
<1> DEFINE v == request.vbs
           b == base
<1>1. /\ b \in [field : [Fields -> Nat], label : [Sensors -> Nat], readCount : [Sensors -> Nat]]
      /\ field = WrittenPrefix(b, v, 0).field /\ label = WrittenPrefix(b, v, 0).label
  BY DEF Stored
<1> HIDE DEF v, b
<1>2. field = FieldPrefix(b, v, 0) /\ label = LabelPrefix(b, v, 0)
  BY <1>1, PrefixParts
<1>3. field = b.field
  <2>1. \A o \in Fields : LastValue(v, FieldWrites(v, 0, o), b.field[o]) = b.field[o]
    BY NothingWritten
  <2> QED BY <1>1, <1>2, <2>1 DEF FieldPrefix
<1>4. label = b.label
  <2>1. \A n \in Sensors : LastValue(v, LabelWrites(v, 0, n), b.label[n]) = b.label[n]
    BY NothingWritten
  <2> QED BY <1>1, <1>2, <2>1 DEF LabelPrefix
<1> QED BY <1>3, <1>4 DEF Visible, Store, b

\* Every step of the agent is one of the service, or a stutter.
LEMMA ServiceStep ==
  ASSUME TypeInv, PassInv, EchoFits, WriteInv, AtomicInv, AtomicInv', [Next]_vars
  PROVE  [Service!Next]_<<ObjectsSeen, request, Verdict>>
<1>1. /\ base \in [field : [Fields -> Nat], label : [Sensors -> Nat],
                   readCount : [Sensors -> Nat]]
      /\ ctx \in Context /\ outcome \in {"none", "sent", "dropped"}
  BY DEF TypeInv, TypeOK
<1>2. pc # "idle" => Verdict = "none" /\ ObjectsSeen = Visible(base)
  BY DEF AtomicInv, Verdict, ObjectsSeen
<1>3. CASE UNCHANGED <<request, base, outcome>> /\ pc # "idle" /\ pc' # "idle"
  <2>1. Verdict' = Verdict /\ ObjectsSeen' = ObjectsSeen
    BY <1>3 DEF AtomicInv, Verdict, ObjectsSeen, Visible
  <2> QED BY <1>3, <2>1
<1>4. ASSUME NEW r \in Requests, Receive(r) PROVE Service!Submit
  <2>1. pc = "idle" /\ pc' # "idle" /\ outcome' = "none" /\ base' = Store
    BY <1>4 DEF Receive
  <2>2. Visible(base)' = Visible(Store)
    BY <2>1 DEF Visible
  <2> QED BY <2>1, <2>2 DEF Service!Submit, Verdict, ObjectsSeen
<1>5. CASE Drop
  <2>1. pc = "dispatch" /\ pc' = "idle" /\ outcome' = "dropped" /\ UNCHANGED <<request, base>>
    BY <1>5 DEF Drop, historyVars
  <2>2. Visible(Store)' = Visible(Store)
    BY <1>5, OnlyCommitWrites DEF Drop, CommitCall
  <2>3. Visible(Store) = Visible(base)
    <3>1. CASE request.pdu = "set"
      <4>1. Stored(0)
        BY <2>1, <3>1 DEF WriteInv
      <4> QED BY <4>1, <1>1, NothingStored
    <3>2. CASE request.pdu # "set"
      BY <2>1, <3>2 DEF AtomicInv
    <3> QED BY <3>1, <3>2
  <2>4. Verdict' = "refused" /\ ObjectsSeen' = ObjectsSeen
    BY <1>2, <2>1, <2>2, <2>3 DEF Verdict, ObjectsSeen
  <2> QED BY <1>2, <2>1, <2>4 DEF Service!Next, Service!Refuse
<1>6. CASE Reply
  <2>1. /\ pc = "reply" /\ pc' = "idle" /\ UNCHANGED <<request, base, ctx>>
        /\ outcome' = IF EncodedLen(ctx.vbs) <= OutCap THEN "sent" ELSE "dropped"
    BY <1>6 DEF Reply, historyVars
  <2>2. Visible(Store)' = Visible(Store)
    BY <1>6, OnlyCommitWrites DEF Reply, CommitCall
  <2>3. ObjectsSeen = Visible(base) /\ ObjectsSeen' = Visible(Store) /\ Verdict = "none"
    BY <1>2, <2>1, <2>2 DEF ObjectsSeen
  <2>4. Verdict' = IF outcome' = "sent" /\ ctx.errStatus = "noError" THEN "success" ELSE "refused"
    BY <2>1 DEF Verdict
  <2>5. CASE request.pdu # "set"
    <3>1. ObjectsSeen' = ObjectsSeen
      BY <2>1, <2>3, <2>5 DEF AtomicInv
    <3>2. Effect(ObjectsSeen, request) = ObjectsSeen
      BY <2>5 DEF Effect
    <3> QED BY <2>1, <2>3, <2>4, <3>1, <3>2
            DEF Service!Next, Service!Succeed, Service!Refuse
  <2>6. CASE request.pdu = "set"
    <3>1. Stored(Applied)
      BY <2>1, <2>6 DEF WriteInv, Concluded
    <3>2. outcome' = "sent"
      <4>1. ctx.vbs = request.vbs
        BY <2>1, <2>6 DEF PassInv, Echoed, Concluded
      <4> QED BY <2>1, <2>6, <4>1 DEF EchoFits
    <3>3. CASE ctx.errStatus = "noError"
      <4>1. Visible(Store) = Visible(WrittenPrefix(base, request.vbs, Len(request.vbs)))
        BY <3>1, <3>3 DEF Applied, Stored, Visible, Store
      <4>2. Effect(Visible(base), request)
              = Visible(WrittenPrefix(base, request.vbs, Len(request.vbs)))
        BY <1>1, <2>6, EffectOfSet
      <4>3. ObjectsSeen' = Effect(ObjectsSeen, request)
        BY <2>3, <4>1, <4>2
      <4> QED BY <2>1, <2>3, <2>4, <3>2, <3>3, <4>3 DEF Service!Next, Service!Succeed
    <3>4. CASE ctx.errStatus # "noError"
      <4>1. Stored(0)
        BY <2>1, <2>6, <3>1, <3>4 DEF Applied, AtomicInv
      <4>2. Visible(Store) = Visible(base)
        BY <1>1, <4>1, NothingStored
      <4> QED BY <2>1, <2>3, <2>4, <3>4, <4>2 DEF Service!Next, Service!Refuse
    <3> QED BY <3>3, <3>4
  <2> QED BY <2>5, <2>6
<1>7. CASE Dispatch \/ PassEnds \/ ReadLookup \/ ReadCall \/ Validate \/ CommitLookup \/ CommitCall
  <2>1. UNCHANGED <<request, base, outcome>> /\ pc # "idle"
    BY <1>7
    DEF Dispatch, PassEnds, ReadLookup, ReadCall, Validate, CommitLookup, CommitCall, historyVars
  <2>2. pc' # "idle"
    BY <1>7, WorkGoesOn
  <2> QED BY <1>3, <2>1, <2>2
<1>8. CASE Device \/ UNCHANGED vars
  <2>1. UNCHANGED <<pc, ctx, outcome, request, base, storeVars>>
    BY <1>8 DEF Device, SensorsChange, FirstReading, WifiChanges, agentVars, vars, mibVars,
                historyVars, storeVars
  <2>2. Verdict' = Verdict /\ ObjectsSeen' = ObjectsSeen
    BY <2>1 DEF Verdict, ObjectsSeen, Visible, Store, storeVars
  <2> QED BY <2>1, <2>2
<1> QED BY <1>4, <1>5, <1>6, <1>7, <1>8 DEF Next, Agent, Service!Next

\* For every MIB and every set of requests: where the row set stands still and
\* the setters take what validation lets through, a request acts on the
\* writable objects at once or not at all, and the answer tells which.
THEOREM Atomic ==
  ASSUME OneRowCount, LegalSetsOnly
  PROVE  Spec => ActsAtomically
<1>1. Init => AtomicInv /\ WriteInv /\ EchoFits
  BY InitAtomic DEF Init, EmptyRequest, WriteInv, EchoFits, SetIsAnswered
<1>2. TypeInv /\ PassInv /\ WriteInv /\ AtomicInv /\ [Next]_vars => AtomicInv'
  BY StepAtomic
<1>3. Init => Service!Init
  BY DeviceAssumption
  DEF Init, MibInit, Service!Init, ObjectsSeen, Verdict, Visible, Store, LabelOf
<1>4. TypeInv /\ PassInv /\ EchoFits /\ WriteInv /\ AtomicInv /\ AtomicInv' /\ [Next]_vars
        => [Service!Next]_<<ObjectsSeen, request, Verdict>>
  BY ServiceStep
<1> QED
  BY <1>1, <1>2, <1>3, <1>4, StepWrite, StepEchoFits, PassInvariant, PTL
  DEF Spec, ActsAtomically, Service!Spec
=============================================================================
