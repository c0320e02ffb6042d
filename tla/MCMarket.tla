------------------------------ MODULE MCMarket ------------------------------
(***************************************************************************)
(* A small instance of ExampleMarket: two accounts that may each bet up to *)
(* MaxStake on both sides, so that shares of three units divide unevenly.  *)
(***************************************************************************)
EXTENDS PayoutMirror, TLC
==============================================================================
