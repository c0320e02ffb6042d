---------------------------- MODULE PayoutMirror ----------------------------
(***************************************************************************)
(* market/payout.mjs, the arithmetic a bettor's agent uses to know what    *)
(* ExampleMarket will do: when settle() works and with which rule, what an *)
(* account is owed, and what a whole book leaves behind.  Written once in  *)
(* Solidity and once in JavaScript, the two must never part.               *)
(***************************************************************************)
EXTENDS ExampleMarket

Null == "would revert"

\* What settle() would decide, from the values of the view functions.
settlementMode(s) ==
    CASE s.resolved /\ s.outcome = "Yes" -> IF s.yesPool = 0 THEN "Refund" ELSE "PayoutYes"
      [] s.resolved /\ s.outcome = "No" -> IF s.noPool = 0 THEN "Refund" ELSE "PayoutNo"
      [] s.resolved /\ s.outcome \notin {"Yes", "No"} -> "Refund"
      [] ~s.resolved /\ s.now <= s.resolutionDeadline -> Null
      [] OTHER -> "Refund"

\* What one account is owed, out of its two stakes and the two pools.
mirroredPayout_RoundsUp(m, p) ==
    CASE m = "Refund" -> p.yesStake + p.noStake
      [] m = "PayoutYes" /\ p.yesStake # 0 ->
           p.yesStake + (p.yesStake * p.noPool + p.yesPool - 1) \div p.yesPool
      [] m = "PayoutNo" /\ p.noStake # 0 ->
           p.noStake + (p.noStake * p.yesPool + p.noPool - 1) \div p.noPool
      [] OTHER -> 0

mirroredPayout(m, p) ==
    CASE m = "Refund" -> p.yesStake + p.noStake
      [] m = "PayoutYes" /\ p.yesStake # 0 ->
           p.yesStake + (p.yesStake * p.noPool) \div p.yesPool
      [] m = "PayoutNo" /\ p.noStake # 0 ->
           p.noStake + (p.noStake * p.yesPool) \div p.noPool
      [] OTHER -> 0

\* A book maps each address to what it staked: pools and payouts from the book
\* alone, and the dust that stays.
distribute(m, book) ==
    LET bettors == DOMAIN book
        yes == SumFunction([b \in bettors |-> book[b].yes])
        no == SumFunction([b \in bettors |-> book[b].no])
        payouts == [b \in bettors |->
                      mirroredPayout(m, [yesStake |-> book[b].yes, noStake |-> book[b].no,
                                         yesPool |-> yes, noPool |-> no])]
        all == SumFunction(payouts)
    IN  [payouts |-> payouts, total |-> all, pool |-> yes + no,
         dust |-> yes + no - all]

invariantHolds(m, book) == distribute(m, book).total <= distribute(m, book).pool

------------------------------------------------------------------------------
\* The stakes as the contract holds them.
bookOf == [a \in Accounts |-> [yes |-> yesStake[a], no |-> noStake[a]]]

views == [resolved |-> isResolved(marketId), outcome |-> market[marketId].outcome,
          yesPool |-> yesPool, noPool |-> noPool, now |-> now,
          resolutionDeadline |-> resolutionDeadline]

\* The rule the mirror foresees is the one the contract froze, unless the
\* oracle spoke only after the pool had voided.
foreseen == settlementMode(views)

\* The mirror agrees with the contract in every state: it foresees a
\* settlement exactly when one is possible, and the rule it will freeze; it
\* owes every account what the contract owes it under that rule; its books
\* never promise more than the pool; and once settled the contract holds what
\* is not yet claimed and the mirror's dust.
PayoutMirrorAgrees ==
    deployed =>
        /\ mode = "Open" /\ isResolved(marketId) =>
              foreseen = modeFor(market[marketId].outcome)
        /\ mode = "Open" /\ ~isResolved(marketId) =>
              foreseen = IF now > resolutionDeadline THEN "Refund" ELSE Null
        /\ mode # "Open" => foreseen = mode \/ finalOutcome = "Unresolved"
        /\ \A m \in Modes :
              /\ invariantHolds(m, bookOf)
              /\ \A a \in Accounts : distribute(m, bookOf).payouts[a] = entitlement(a, m)
        /\ mode # "Open" => balance = outstanding + distribute(mode, bookOf).dust
==============================================================================
