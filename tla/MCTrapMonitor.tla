---------------------------- MODULE MCTrapMonitor ----------------------------
(***************************************************************************)
(* The default threshold and hysteresis, and a reading on either side of   *)
(* each comparison with them.                                              *)
(***************************************************************************)
EXTENDS TrapMonitor

Boundary == {294, 295, 299, 300}
=============================================================================
