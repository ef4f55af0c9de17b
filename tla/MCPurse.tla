----------------------------- MODULE MCPurse -----------------------------
(***************************************************************************)
(* Purse with a small shop: two provisions, at two prices.                 *)
(***************************************************************************)
EXTENDS Purse, TLC

CONSTANTS brod, epler

Prices == brod :> 2 @@ epler :> 1
==========================================================================
