------------------------------- MODULE MCBuyer -------------------------------
(***************************************************************************)
(* A small instance of BuyerAgent: one buyer beside a handler that serves  *)
(* anybody.                                                                *)
(***************************************************************************)
EXTENDS MCGateway, BuyerAgent
==============================================================================
