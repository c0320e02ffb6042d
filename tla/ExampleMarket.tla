---------------------------- MODULE ExampleMarket ----------------------------
(***************************************************************************)
(* contracts/ExampleMarket.sol beside the PredgeOracle it obeys: a         *)
(* parimutuel pool that opens only on a committed, unresolved market,      *)
(* takes stakes until the deadline or the resolution, freezes a payout     *)
(* rule, and lets every staker withdraw once.                              *)
(*                                                                         *)
(* claim() hands control to the recipient in the middle of its work, so    *)
(* it is two steps, claim and claimReturns; between them the recipient     *)
(* may call anything, the oracle included, at the same timestamp.  calls   *)
(* is the stack of transfers in progress.                                  *)
(***************************************************************************)
EXTENDS PredgeOracle, Functions, Sequences, SequencesExt

CONSTANTS Bets,             \* what one bet may carry as msg.value
          Deadlines,        \* betting deadlines a deployer may choose
          ResolutionGrace,  \* RESOLUTION_GRACE
          MaxStake          \* bound on one account's stake on one side

NoId == "not deployed"

ASSUME MarketAssumption ==
    /\ NoId \notin Markets
    /\ Bets \subseteq Nat
    /\ Deadlines \subseteq Nat
    /\ ResolutionGrace \in Nat
    /\ MaxStake \in Nat
    /\ IsFiniteSet(Accounts)

VARIABLES marketId,         \* immutable; NoId before the constructor ran
          bettingDeadline,  \* immutable
          yesPool, noPool,
          yesStake, noStake,
          claimed,
          mode,
          finalOutcome,
          lock,             \* _lock
          calls,            \* recipients of the transfers in progress
          balance           \* address(this).balance

poolVars == <<yesPool, noPool, yesStake, noStake>>
deployVars == <<marketId, bettingDeadline>>
marketVars == <<deployVars, poolVars, claimed, mode, finalOutcome, lock, calls,
                balance>>
marketAllVars == <<oracleAllVars, marketVars>>

Modes == {"Open", "PayoutYes", "PayoutNo", "Refund"}

deployed == marketId # NoId
resolutionDeadline == bettingDeadline + ResolutionGrace

------------------------------------------------------------------------------
MarketInit ==
    /\ OracleInit
    /\ marketId = NoId
    /\ bettingDeadline = 0
    /\ yesPool = 0 /\ noPool = 0
    /\ yesStake = [a \in Accounts |-> 0]
    /\ noStake = [a \in Accounts |-> 0]
    /\ claimed = [a \in Accounts |-> FALSE]
    /\ mode = "Open"
    /\ finalOutcome = "Unresolved"
    /\ lock = 0
    /\ calls = <<>>
    /\ balance = 0

\* The pool can only open on a call already committed and not yet resolved.
construct(m, deadline) ==
    /\ ~deployed
    /\ deadline > now
    /\ isCommitted(m)
    /\ ~isResolved(m)
    /\ marketId' = m
    /\ bettingDeadline' = deadline
    /\ UNCHANGED <<poolVars, claimed, mode, finalOutcome, lock, calls, balance>>

isOpen_IgnoresResolution == deployed /\ now < bettingDeadline

isOpen == deployed /\ now < bettingDeadline /\ ~isResolved(marketId)

_bet(sender, isYes, value) ==
    /\ value # 0
    /\ isOpen
    /\ \/ /\ isYes
          /\ yesStake[sender] + value <= MaxStake
          /\ yesStake' = [yesStake EXCEPT ![sender] = @ + value]
          /\ yesPool' = yesPool + value
          /\ UNCHANGED <<noStake, noPool>>
       \/ /\ ~isYes
          /\ noStake[sender] + value <= MaxStake
          /\ noStake' = [noStake EXCEPT ![sender] = @ + value]
          /\ noPool' = noPool + value
          /\ UNCHANGED <<yesStake, yesPool>>
    /\ balance' = balance + value
    /\ UNCHANGED <<deployVars, claimed, mode, finalOutcome, lock, calls>>

betYes(sender, value) == _bet(sender, TRUE, value)
betNo(sender, value) == _bet(sender, FALSE, value)

------------------------------------------------------------------------------
(* Settlement. *)

\* The payout rule an outcome asks for: nobody wins against an empty side.
modeFor(outcome) ==
    CASE outcome = "Yes" /\ yesPool # 0 -> "PayoutYes"
      [] outcome = "No" /\ noPool # 0 -> "PayoutNo"
      [] OTHER -> "Refund"

\* Slips the properties below must notice; none is part of the specification.
\* Each stands before the operator it distorts.
settle_VoidsEarly ==
    /\ deployed /\ mode = "Open"
    /\ \/ isResolved(marketId) /\ mode' = modeFor(market[marketId].outcome)
       \/ now > bettingDeadline /\ mode' = "Refund"
    /\ finalOutcome' = market[marketId].outcome
    /\ UNCHANGED <<deployVars, poolVars, claimed, lock, calls, balance>>

settle_NeverVoids ==
    /\ deployed /\ mode = "Open"
    /\ isResolved(marketId) /\ mode' = modeFor(market[marketId].outcome)
    /\ finalOutcome' = market[marketId].outcome
    /\ UNCHANGED <<deployVars, poolVars, claimed, lock, calls, balance>>

settle ==
    /\ deployed
    /\ mode = "Open"
    /\ \/ /\ isResolved(marketId)
          /\ mode' = modeFor(market[marketId].outcome)
          /\ finalOutcome' = market[marketId].outcome
       \/ /\ ~isResolved(marketId)
          /\ now > resolutionDeadline
          /\ mode' = "Refund"
          /\ UNCHANGED finalOutcome
    /\ UNCHANGED <<deployVars, poolVars, claimed, lock, calls, balance>>

------------------------------------------------------------------------------
(* Payouts. *)

\* A winner's stake and his share of the losing pool, rounded down.
share(s, winning, losing) == s + (s * losing) \div winning

\* What an account is owed under a payout rule, claimed or not.
entitlement(a, m) ==
    CASE m = "Refund" -> yesStake[a] + noStake[a]
      [] m = "PayoutYes" /\ yesStake[a] # 0 -> share(yesStake[a], yesPool, noPool)
      [] m = "PayoutNo" /\ noStake[a] # 0 -> share(noStake[a], noPool, yesPool)
      [] OTHER -> 0

payoutOf(a) == IF claimed[a] THEN 0 ELSE entitlement(a, mode)

\* Everything up to the transfer: the money is gone, the recipient in control.
claim_PaysFirst(sender) ==
    /\ lock # 1
    /\ mode # "Open" /\ ~claimed[sender] /\ payoutOf(sender) # 0
    /\ lock' = 1
    /\ balance' = balance - payoutOf(sender)
    /\ calls' = Append(calls, sender)
    /\ UNCHANGED <<deployVars, poolVars, claimed, mode, finalOutcome>>

claim(sender) ==
    /\ lock # 1
    /\ mode # "Open"
    /\ ~claimed[sender]
    /\ payoutOf(sender) # 0
    /\ lock' = 1
    /\ claimed' = [claimed EXCEPT ![sender] = TRUE]
    /\ balance' = balance - payoutOf(sender)
    /\ calls' = Append(calls, sender)
    /\ UNCHANGED <<deployVars, poolVars, mode, finalOutcome>>

\* The recipient gives control back and the guard is released.
claimReturns ==
    /\ calls # <<>>
    /\ calls' = Front(calls)
    /\ lock' = 0
    /\ UNCHANGED <<deployVars, poolVars, claimed, mode, finalOutcome, balance>>

------------------------------------------------------------------------------
\* One call to the pool, by a transaction or by a recipient in mid-transfer.
MarketStep ==
    \/ \E m \in Markets, d \in Deadlines : construct(m, d)
    \/ \E a \in Accounts, v \in Bets : betYes(a, v) \/ betNo(a, v)
    \/ settle
    \/ \E a \in Accounts : claim(a)
    \/ claimReturns

\* Time stands still inside a transaction.
NextBlock == AdvanceTime /\ calls = <<>> /\ UNCHANGED <<oracleVars, marketVars>>

MarketNext ==
    \/ OracleStep /\ UNCHANGED <<now, marketVars>>
    \/ MarketStep /\ UNCHANGED oracleAllVars
    \/ NextBlock

MarketSpec == MarketInit /\ [][MarketNext]_marketAllVars

\* Blocks keep coming, a transfer in progress ends, somebody settles (anyone
\* may), and a staker who is owed money keeps trying to claim it.
MarketFairness ==
    /\ WF_marketAllVars(NextBlock)
    /\ WF_marketAllVars(claimReturns /\ UNCHANGED oracleAllVars)
    /\ WF_marketAllVars(settle /\ UNCHANGED oracleAllVars)
    /\ \A a \in Accounts : WF_marketAllVars(claim(a) /\ UNCHANGED oracleAllVars)

MarketFairSpec == MarketSpec /\ MarketFairness

------------------------------------------------------------------------------
(* Properties. *)

MarketTypeOK ==
    /\ OracleTypeOK
    /\ marketId \in Markets \cup {NoId}
    /\ bettingDeadline \in Nat
    /\ yesPool \in Nat /\ noPool \in Nat
    /\ yesStake \in [Accounts -> Nat]
    /\ noStake \in [Accounts -> Nat]
    /\ claimed \in [Accounts -> BOOLEAN]
    /\ mode \in Modes
    /\ finalOutcome \in Outcomes
    /\ lock \in {0, 1}
    /\ calls \in Seq(Accounts)
    /\ balance \in Nat

outstanding == SumFunction([a \in Accounts |-> payoutOf(a)])

winners ==
    {a \in Accounts : \/ mode = "PayoutYes" /\ yesStake[a] # 0
                      \/ mode = "PayoutNo" /\ noStake[a] # 0}

\* What is still owed never exceeds what is held, however the stakes divide and
\* also while a recipient holds control ("the contract can never promise more
\* than it holds"); until settlement every stake is still there.
Solvent ==
    /\ outstanding <= balance
    /\ mode = "Open" => balance = SumFunction(yesStake) + SumFunction(noStake)

\* Nothing is confiscated: refunds leave no remainder, and what rounding leaves
\* behind after a payout is less than one unit per winner (ROUNDING).
OnlyDustIsLeft ==
    /\ mode = "Refund" => balance = outstanding
    /\ mode \in {"PayoutYes", "PayoutNo"} =>
          balance - outstanding < Cardinality(winners)

\* The pool is well formed and its money accounted for, to the last unit.
MarketSound ==
    /\ MarketTypeOK
    /\ Solvent
    /\ OnlyDustIsLeft

\* The payout rule is the oracle's verdict, on a side somebody staked; without
\* a verdict the pool voids only after the grace window, and a verdict that
\* could have been obeyed is never passed over.
SettlementObeysOracle ==
    /\ mode = "PayoutYes" => finalOutcome = "Yes" /\ yesPool > 0
    /\ mode = "PayoutNo" => finalOutcome = "No" /\ noPool > 0
    /\ finalOutcome # "Unresolved" => finalOutcome = market[marketId].outcome
    /\ mode = "Refund" /\ finalOutcome = "Unresolved" =>
          /\ now > resolutionDeadline
          /\ isResolved(marketId) => market[marketId].resolvedAt > resolutionDeadline
    /\ mode = "Refund" /\ finalOutcome = "Yes" => yesPool = 0
    /\ mode = "Refund" /\ finalOutcome = "No" => noPool = 0

\* At most one transfer is in progress, and the lock says so.
OneTransferAtATime == Len(calls) = lock

\* What an account gets if the pool were settled now.
prospect(a) ==
    entitlement(a, IF mode = "Open" /\ isResolved(marketId)
                   THEN modeFor(market[marketId].outcome)
                   ELSE mode)

\* From the moment the oracle speaks, or the pool voids, nobody's entitlement
\* moves again: not by a late bet on the known winner, not by the order in
\* which accounts settle and claim, not by a verdict that comes after voiding.
EntitlementsAreFixed ==
    [][deployed /\ (isResolved(marketId) \/ mode # "Open") =>
         \A a \in Accounts : prospect(a)' = prospect(a)]_marketAllVars

\* No pool stays locked because a market was never resolved (RESOLUTION_GRACE),
\* and everyone owed something is paid, whatever the other recipients do.
EveryoneIsPaid ==
    /\ deployed ~> mode # "Open"
    /\ \A a \in Accounts : payoutOf(a) > 0 ~> claimed[a]
==============================================================================
