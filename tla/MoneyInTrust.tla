----------------------------- MODULE MoneyInTrust -----------------------------
(***************************************************************************)
(* What a contract that holds other people's money promises, whoever gets  *)
(* it in the end and whatever decides it: money is taken for a purpose     *)
(* once, kept whole and apart, and paid out whole and once.  AgentJob      *)
(* keeps the escrow of each job so, PredgeValidatorBond the bond on each   *)
(* request and PredgeRefundArbiter the bond behind each ruling.            *)
(***************************************************************************)
EXTENDS Naturals

CONSTANTS Keys,   \* what money is held for
          Sums    \* what may be taken

VARIABLES phase,   \* of each key: nothing taken yet, held, or paid out
          held,    \* the money held for each key
          balance  \* all of it

trustVars == <<phase, held, balance>>

TrustInit ==
    /\ phase = [k \in Keys |-> "none"]
    /\ held = [k \in Keys |-> 0]
    /\ balance = 0

Take(k, sum) ==
    /\ phase[k] = "none"
    /\ phase' = [phase EXCEPT ![k] = "held"]
    /\ held' = [held EXCEPT ![k] = sum]
    /\ balance' = balance + sum

PayOut(k) ==
    /\ phase[k] = "held"
    /\ phase' = [phase EXCEPT ![k] = "paid"]
    /\ held' = [held EXCEPT ![k] = 0]
    /\ balance' = balance - held[k]

TrustNext == \E k \in Keys : PayOut(k) \/ \E sum \in Sums : Take(k, sum)

TrustSpec == TrustInit /\ [][TrustNext]_trustVars
==============================================================================
