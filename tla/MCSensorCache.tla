---------------------------- MODULE MCSensorCache ----------------------------
(***************************************************************************)
(* A reading below zero and the highest one, and initialisations with or   *)
(* without the mutex.                                                      *)
(***************************************************************************)
EXTENDS SensorCache

ColdAndWarm == {-8, 2000}
AnyInit == {"ok", "noLock", "noTask"}
=============================================================================
