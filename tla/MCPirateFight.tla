-------------------------- MODULE MCPirateFight --------------------------
(***************************************************************************)
(* PirateFight with one provision to eat and times of a few frames.        *)
(***************************************************************************)
EXTENDS PirateFight

CONSTANT brod

Prices == [f \in {brod} |-> 1]
==========================================================================
