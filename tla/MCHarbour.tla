---------------------------- MODULE MCHarbour ----------------------------
(***************************************************************************)
(* Harbour on one map with three ports, sailed again and again.            *)
(***************************************************************************)
EXTENDS Harbour, TLC

CONSTANTS norge, p1, p2, p3

OneMap == norge :> {p1, p2, p3}
==========================================================================
