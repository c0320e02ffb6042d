------------------------- MODULE PredgeSignalVaultV2 -------------------------
(***************************************************************************)
(* contracts/PredgeSignalVaultV2.sol beside the PredgeOracle it reads: the *)
(* vault of PredgeSignalVault, with a rebalance that names a market, is    *)
(* refused unless that market is committed and open, and is filed as a     *)
(* decision to be scored when the oracle speaks.  vault/score.mjs scores   *)
(* the same decisions off the chain; its operators stand beside those of   *)
(* the contract they mirror.                                               *)
(***************************************************************************)
EXTENDS PredgeOracle, Integers, FiniteSetsExt, Sequences

CONSTANTS Amounts, MaxDeposit, MaxRebalances   \* as in PredgeSignalVault

\* An address is one of 2^160.
ASSUME VaultV2Assumption ==
    /\ Amounts \subseteq Nat /\ MaxDeposit \in Nat /\ MaxRebalances \in Nat
    /\ IsFiniteSet(Accounts)

VARIABLES posture, rebalanceCount, totalDeposits, vaultOwner, keeper, paused,
          lastSignalHash, balanceOf, held,     \* as in PredgeSignalVault
          lastMarketId,
          decisions                            \* _decisions, by sequence number

depositVars == <<balanceOf, totalDeposits, held>>
postureVars == <<posture, rebalanceCount, lastSignalHash, lastMarketId, decisions>>
roleVars == <<vaultOwner, keeper, paused>>
vaultVars == <<depositVars, postureVars, roleVars>>
vaultAllVars == <<oracleAllVars, vaultVars>>

Postures == {-1, 0, 1}
Int8 == -2..2                      \* the postures and a value on either side
MarketIds == Markets \cup {ZeroHash}   \* market ids a caller may name
Decisions == [marketId : Markets, signalHash : Hashes,
              timestamp : Nat, direction : Postures]
Scores == {"Pending", "Correct", "Wrong", "NoClaim"}

------------------------------------------------------------------------------
VaultInit ==
    /\ OracleInit
    /\ posture = 0
    /\ rebalanceCount = 0
    /\ totalDeposits = 0
    /\ vaultOwner \in Accounts
    /\ keeper \in Accounts
    /\ paused = FALSE
    /\ lastSignalHash = ZeroHash
    /\ lastMarketId = ZeroHash
    /\ balanceOf = [a \in Accounts |-> 0]
    /\ held = 0
    /\ decisions = <<>>

deposit(sender, value) ==
    /\ ~paused
    /\ value # 0
    /\ balanceOf[sender] + value <= MaxDeposit
    /\ balanceOf' = [balanceOf EXCEPT ![sender] = @ + value]
    /\ totalDeposits' = totalDeposits + value
    /\ held' = held + value
    /\ UNCHANGED <<postureVars, roleVars>>

pay(sender, amount) ==
    /\ amount <= held
    /\ balanceOf' = [balanceOf EXCEPT ![sender] = @ - amount]
    /\ totalDeposits' = totalDeposits - amount
    /\ held' = held - amount
    /\ UNCHANGED <<postureVars, roleVars>>

\* Slips the properties below must notice; none is part of the specification.
\* Each stands before the operator it distorts.
withdraw_StopsWhenPaused(sender, amount) ==
    ~paused /\ amount # 0 /\ amount <= balanceOf[sender] /\ pay(sender, amount)

withdraw(sender, amount) ==
    /\ amount # 0
    /\ amount <= balanceOf[sender]
    /\ pay(sender, amount)

------------------------------------------------------------------------------
(* Decisions. *)

\* The record so far is `filed`; one decision is added to it.
steer(filed, marketId, signalHash, direction) ==
    /\ posture' = direction
    /\ lastSignalHash' = signalHash
    /\ lastMarketId' = marketId
    /\ rebalanceCount' = rebalanceCount + 1
    /\ decisions' = Append(filed, [marketId |-> marketId, signalHash |-> signalHash,
                                   timestamp |-> now, direction |-> direction])
    /\ UNCHANGED <<depositVars, roleVars>>

mayRebalance(sender, marketId, signalHash, direction) ==
    /\ sender = keeper /\ ~paused
    /\ direction \in Postures /\ marketId # ZeroHash /\ signalHash # ZeroHash
    /\ rebalanceCount < MaxRebalances

rebalance_InHindsight(sender, marketId, signalHash, direction) ==
    /\ mayRebalance(sender, marketId, signalHash, direction)
    /\ isCommitted(marketId)
    /\ steer(decisions, marketId, signalHash, direction)

rebalance_WhenPaused(sender, marketId, signalHash, direction) ==
    /\ sender = keeper
    /\ direction \in Postures /\ marketId # ZeroHash /\ signalHash # ZeroHash
    /\ rebalanceCount < MaxRebalances
    /\ isCommitted(marketId) /\ ~isResolved(marketId)
    /\ steer(decisions, marketId, signalHash, direction)

rebalance(sender, marketId, signalHash, direction) ==
    /\ mayRebalance(sender, marketId, signalHash, direction)
    /\ isCommitted(marketId)
    /\ ~isResolved(marketId)
    /\ steer(decisions, marketId, signalHash, direction)

setKeeper(sender, newKeeper) ==
    /\ sender = vaultOwner
    /\ newKeeper # ZeroAddress
    /\ keeper' = newKeeper
    /\ UNCHANGED <<depositVars, postureVars, vaultOwner, paused>>

setPaused(sender, p) ==
    /\ sender = vaultOwner
    /\ paused' = p
    /\ UNCHANGED <<depositVars, postureVars, vaultOwner, keeper>>

------------------------------------------------------------------------------
(* Scores. *)

_score_DefaultHit(direction, outcome) ==
    CASE direction = 0 \/ outcome = "Invalid" -> "NoClaim"
      [] OTHER -> IF outcome \in {"Unresolved", IF direction > 0 THEN "Yes" ELSE "No"}
                  THEN "Correct" ELSE "Wrong"

_score(direction, outcome) ==
    CASE direction = 0 -> "NoClaim"
      [] direction # 0 /\ outcome = "Unresolved" -> "Pending"
      [] direction # 0 /\ outcome = "Invalid" -> "NoClaim"
      [] OTHER -> IF (direction > 0) = (outcome = "Yes") THEN "Correct" ELSE "Wrong"

scoreOf(seq) ==
    _score(decisions[seq].direction, market[decisions[seq].marketId].outcome)

\* The four counters over an inclusive range of sequence numbers; outside the record,
\* and so of an empty one, the contract has no answer (NoSuchDecision).
answersFor(from, to) == from # 0 /\ from <= to /\ to <= rebalanceCount

trackRecord(from, to) ==
    [s \in Scores |-> Cardinality({seq \in from..to : scoreOf(seq) = s})]

\* vault/score.mjs: the same rule over the ordinals of the two enums.
OUTCOME == [Unresolved |-> 0, Yes |-> 1, No |-> 2, Invalid |-> 3]
SCORE == [Pending |-> 0, Correct |-> 1, Wrong |-> 2, NoClaim |-> 3]

scoreDecision(d, o) ==
    IF d = 0 THEN SCORE.NoClaim
    ELSE IF o = OUTCOME.Unresolved THEN SCORE.Pending
    ELSE IF o = OUTCOME.Invalid THEN SCORE.NoClaim
    ELSE IF (d > 0) = (o = OUTCOME.Yes) THEN SCORE.Correct
    ELSE SCORE.Wrong

\* What the tally of the whole record shows; no hit rate before a scored call.
tallyTrackRecord(ds) ==
    LET count(s) == Cardinality({i \in DOMAIN ds :
                       scoreDecision(ds[i].direction, OUTCOME[ds[i].outcome]) = s})
        scored == count(SCORE.Correct) + count(SCORE.Wrong)
    IN [correct |-> count(SCORE.Correct), wrong |-> count(SCORE.Wrong),
        noClaim |-> count(SCORE.NoClaim), total |-> Len(ds),
        pending |-> Len(ds) - scored - count(SCORE.NoClaim),
        hitRate |-> IF scored = 0 THEN <<>> ELSE <<count(SCORE.Correct), scored>>]

------------------------------------------------------------------------------
VaultStep ==
    \E sender \in Accounts :
        \/ \E v \in Amounts : deposit(sender, v) \/ withdraw(sender, v)
        \/ \E m \in MarketIds, h \in Bytes32, d \in Int8 : rebalance(sender, m, h, d)
        \/ \E k \in Accounts \cup {ZeroAddress} : setKeeper(sender, k)
        \/ \E p \in BOOLEAN : setPaused(sender, p)

VaultNext ==
    \/ OracleStep /\ UNCHANGED <<now, vaultVars>>
    \/ VaultStep /\ UNCHANGED oracleAllVars
    \/ AdvanceTime /\ UNCHANGED <<oracleVars, vaultVars>>

VaultSpec == VaultInit /\ [][VaultNext]_vaultAllVars

------------------------------------------------------------------------------
(* Properties. *)

VaultTypeOK ==
    /\ OracleTypeOK
    /\ posture \in Postures
    /\ totalDeposits \in Nat
    /\ vaultOwner \in Accounts
    /\ keeper \in Accounts
    /\ paused \in BOOLEAN
    /\ lastSignalHash \in Bytes32
    /\ lastMarketId \in MarketIds
    /\ balanceOf \in [Accounts -> Nat]
    /\ held \in Nat
    /\ decisions \in Seq(Decisions)
    /\ rebalanceCount = Len(decisions)

\* The contract holds what it owes to all depositors together, so there is enough
\* to pay any one of them in full.
DepositsAreBacked ==
    /\ held = totalDeposits
    /\ totalDeposits = SumFunction(balanceOf)
    /\ \A a \in Accounts : balanceOf[a] <= held

\* Every deposit is backed and can be taken out in full in the next transaction,
\* whatever the owner, the keeper and the oracle's publisher did, a pause
\* included.
DepositsCanLeave ==
    /\ DepositsAreBacked
    /\ \A a \in Accounts :
          balanceOf[a] > 0 => ENABLED withdraw(a, balanceOf[a])

\* Every filed decision is a forward call: its market was committed no later
\* than the decision was taken, and the outcome, if there is one by now, was
\* recorded no earlier.  The standing posture is the last of them.
DecisionsAreForward ==
    /\ \A i \in DOMAIN decisions :
          LET d == decisions[i] IN
          /\ isCommitted(d.marketId)
          /\ market[d.marketId].committedAt <= d.timestamp
          /\ isResolved(d.marketId) => d.timestamp <= market[d.marketId].resolvedAt
    /\ posture = IF decisions = <<>> THEN 0 ELSE decisions[Len(decisions)].direction

\* A filed decision is never amended or dropped, and a score that is out never
\* changes again: not by a later decision on the same market, nor by a rotation
\* of keeper or publisher.
ScoresAreFinal ==
    [][\A i \in DOMAIN decisions :
        /\ i \in DOMAIN decisions' /\ decisions'[i] = decisions[i]
        /\ scoreOf(i) # "Pending" => scoreOf(i)' = scoreOf(i)]_vaultAllVars

\* A keeper or a page that scores off the chain (score.mjs) reports, for every
\* decision and for the whole record where it answers for it, what the chain reports,
\* and a hit rate exactly when some directional call has settled.
MirrorAgrees ==
    LET filed == [i \in DOMAIN decisions |->
                    [direction |-> decisions[i].direction,
                     outcome |-> market[decisions[i].marketId].outcome]]
        tally == tallyTrackRecord(filed)
        record == trackRecord(1, rebalanceCount)
        settledCalls == {i \in DOMAIN decisions :
                           /\ decisions[i].direction # 0
                           /\ market[decisions[i].marketId].outcome \in {"Yes", "No"}}
    IN /\ \A i \in DOMAIN filed :
             scoreDecision(filed[i].direction, OUTCOME[filed[i].outcome])
                = SCORE[scoreOf(i)]
       /\ answersFor(1, rebalanceCount) =>
             /\ tally.correct = record["Correct"] /\ tally.wrong = record["Wrong"]
             /\ tally.noClaim = record["NoClaim"] /\ tally.pending = record["Pending"]
       /\ (tally.hitRate = <<>>) = (settledCalls = {})

\* The vault's storage is well formed, its deposits are there, its record is one of
\* forward calls, and what is reported of it off the chain what the chain reports.
VaultInv == VaultTypeOK /\ DepositsAreBacked /\ DecisionsAreForward /\ MirrorAgrees

------------------------------------------------------------------------------
V1 == INSTANCE PredgeSignalVault

\* The gate only takes behaviour away: whatever this vault does, the first vault
\* could have done, so every promise made to its depositors still holds.
ImplementsV1 == V1!VaultSpec
==============================================================================
