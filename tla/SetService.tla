----------------------------- MODULE SetService -----------------------------
(***************************************************************************)
(* What RFC 1157 and docs/architecture.md promise a manager of the agent:  *)
(* a request either succeeds, and then its whole effect on the writable    *)
(* objects happens at once, or it is refused and has none.                 *)
(***************************************************************************)
CONSTANTS
  Boot,           \* the writable objects at boot
  Effect(_, _)    \* Effect(s, r): the objects s after request r

VARIABLES
  objects,        \* the writable objects, as a manager can read them
  pending,        \* the last request
  verdict         \* "none" until it is answered

Init == objects = Boot /\ verdict = "none"

Submit ==
  /\ verdict' = "none"
  /\ UNCHANGED objects

Succeed ==
  /\ verdict = "none"
  /\ verdict' = "success"
  /\ objects' = Effect(objects, pending)
  /\ UNCHANGED pending

Refuse ==
  /\ verdict = "none"
  /\ verdict' = "refused"
  /\ UNCHANGED <<objects, pending>>

Next == Submit \/ Succeed \/ Refuse

Spec == Init /\ [][Next]_<<objects, pending, verdict>>
=============================================================================
