------------------------- MODULE PredgeRefundArbiter -------------------------
(***************************************************************************)
(* contracts/PredgeRefundArbiter.sol in the arbiter's seat of the Refund   *)
(* Protocol, which contracts/MockRefundProtocol.sol stands in for.         *)
(*                                                                         *)
(* Parties file the hash of their evidence, the operator rules on a filing *)
(* and stakes a bond behind the ruling, and the bond goes back after a     *)
(* window or to whoever shows that the filing is not what the ruling       *)
(* cites.  A refund happens inside the ruling: if the protocol refuses the *)
(* call, the ruling is undone with it.                                     *)
(*                                                                         *)
(* challenge and reclaim write before they pay, so each is one action.     *)
(* uint96(msg.value) is the value: no account holds 2^96 of the native     *)
(* coin.                                                                   *)
(***************************************************************************)
EXTENDS Naturals, FiniteSetsExt

CONSTANTS Accounts,         \* addresses that can send transactions
          ZeroAddress,      \* address(0)
          This,             \* address(this), which sends no transactions
          Payments,         \* payment ids of the Refund Protocol
          Hashes,           \* non-zero bytes32 values
          ZeroHash,         \* bytes32(0)
          Amounts,          \* values a ruling may carry; minimum bonds
          Windows,          \* challenge windows an owner may set
          Recipients,       \* recipients whose lockup is ever set
          Lockups,          \* lockups, in seconds
          MaxTime           \* bound on the clock

\* A payment id is one of 2^256.
ASSUME ArbiterAssumption ==
    /\ ZeroAddress \notin Accounts
    /\ This \notin Accounts
    /\ ZeroHash \notin Hashes
    /\ Amounts \subseteq Nat
    /\ Windows \subseteq Nat
    /\ Lockups \subseteq Nat
    /\ MaxTime \in Nat
    /\ IsFiniteSet(Payments)

VARIABLES now,              \* block.timestamp
          arbiterOwner,     \* owner
          operator,         \* the key that rules
          challengeWindow, minBond,
          rulingCount, slashCount,
          rulings,
          filedEvidence,
          bonds,            \* address(this).balance
          seat,             \* MockRefundProtocol.arbiter
          refundCount,      \* of the protocol
          refunded,
          lockupSeconds

paramVars == <<challengeWindow, minBond>>
roleVars == <<arbiterOwner, operator>>
rulingVars == <<rulings, rulingCount, slashCount, bonds>>
protocolVars == <<seat, refundCount, refunded, lockupSeconds>>
arbiterVars == <<now, paramVars, roleVars, rulingVars, filedEvidence, protocolVars>>

Directions == {"None", "Refund", "Release"}

Rulings == [evidenceHash : Hashes \cup {ZeroHash}, bond : Nat, ruledAt : Nat,
            decidedBy : Accounts \cup {ZeroAddress},
            evidenceFrom : Accounts \cup {ZeroAddress},
            direction : Directions, settled : BOOLEAN]

\* An unwritten storage slot.
NoRuling == [evidenceHash |-> ZeroHash, bond |-> 0, ruledAt |-> 0,
             decidedBy |-> ZeroAddress, evidenceFrom |-> ZeroAddress,
             direction |-> "None", settled |-> FALSE]

ruled(p) == rulings[p].ruledAt # 0
open(p) == ruled(p) /\ ~rulings[p].settled

\* The citation is not what the cited party filed.
misquoted(p) ==
    filedEvidence[p][rulings[p].evidenceFrom] # rulings[p].evidenceHash

wouldSlash(p) == open(p) /\ misquoted(p)

------------------------------------------------------------------------------
\* Both contracts as deployed: the deployer holds the seat and hands it over.
ArbiterInit ==
    /\ now = 1
    /\ arbiterOwner \in Accounts
    /\ operator \in Accounts
    /\ challengeWindow \in Windows
    /\ minBond \in Amounts
    /\ rulingCount = 0 /\ slashCount = 0
    /\ rulings = [p \in Payments |-> NoRuling]
    /\ filedEvidence = [p \in Payments |->
                          [a \in Accounts \cup {ZeroAddress} |-> ZeroHash]]
    /\ bonds = 0
    /\ seat = arbiterOwner
    /\ refundCount = 0
    /\ refunded = [p \in Payments |-> FALSE]
    /\ lockupSeconds = [x \in Recipients |-> 0]

------------------------------------------------------------------------------
(* MockRefundProtocol. *)

setArbiter(sender, newArbiter) ==
    /\ sender = seat
    /\ seat' = newArbiter
    /\ UNCHANGED <<refundCount, refunded, lockupSeconds>>

refundByArbiter(sender, p) ==
    /\ sender = seat
    /\ refunded' = [refunded EXCEPT ![p] = TRUE]
    /\ refundCount' = refundCount + 1
    /\ UNCHANGED <<seat, lockupSeconds>>

mockSetLockupSeconds(sender, recipient, s) ==
    /\ sender = seat
    /\ lockupSeconds' = [lockupSeconds EXCEPT ![recipient] = s]
    /\ UNCHANGED <<seat, refundCount, refunded>>

------------------------------------------------------------------------------
(* PredgeRefundArbiter. *)

file(sender, p, evidenceHash) ==
    /\ filedEvidence' = [filedEvidence EXCEPT ![p][sender] = evidenceHash]
    /\ UNCHANGED <<paramVars, roleVars, rulingVars, protocolVars>>

\* Slips the properties below must notice; none is part of the specification.
\* Each stands before the operator it distorts.
fileEvidence_Revises(sender, p, evidenceHash) ==
    /\ evidenceHash # ZeroHash
    /\ sender \notin {operator, arbiterOwner}
    /\ file(sender, p, evidenceHash)

fileEvidence(sender, p, evidenceHash) ==
    /\ evidenceHash # ZeroHash
    /\ sender \notin {operator, arbiterOwner}
    /\ filedEvidence[p][sender] = ZeroHash
    /\ file(sender, p, evidenceHash)

\* The whole write of rule, with the call into the protocol.
commit(sender, value, p, from, evidenceHash, direction) ==
    /\ rulings' = [rulings EXCEPT ![p] =
                      [evidenceHash |-> evidenceHash, bond |-> value,
                       ruledAt |-> now, decidedBy |-> sender,
                       evidenceFrom |-> from, direction |-> direction,
                       settled |-> FALSE]]
    /\ bonds' = bonds + value
    /\ rulingCount' = rulingCount + 1
    /\ \/ direction = "Refund" /\ refundByArbiter(This, p)
       \/ direction = "Release" /\ UNCHANGED protocolVars
    /\ UNCHANGED <<paramVars, roleVars, slashCount, filedEvidence>>

rule_BeforeFiling(sender, value, p, from, evidenceHash, direction) ==
    /\ sender = operator /\ evidenceHash # ZeroHash /\ from # ZeroAddress
    /\ value >= minBond
    /\ ~ruled(p)
    /\ commit(sender, value, p, from, evidenceHash, direction)

rule_Again(sender, value, p, from, evidenceHash, direction) ==
    /\ sender = operator /\ evidenceHash # ZeroHash /\ from # ZeroAddress
    /\ value >= minBond
    /\ filedEvidence[p][from] = evidenceHash
    /\ commit(sender, value, p, from, evidenceHash, direction)

rule(sender, value, p, from, evidenceHash, direction) ==
    /\ sender = operator
    /\ evidenceHash # ZeroHash
    /\ from # ZeroAddress
    /\ direction # "None"
    /\ value >= minBond
    /\ filedEvidence[p][from] = evidenceHash
    /\ ~ruled(p)
    /\ commit(sender, value, p, from, evidenceHash, direction)

payOut(p) ==
    /\ bonds >= rulings[p].bond
    /\ bonds' = bonds - rulings[p].bond
    /\ rulings' = [rulings EXCEPT ![p].settled = TRUE, ![p].bond = 0]

\* Anyone may, and is paid the bond.
challenge(p) ==
    /\ wouldSlash(p)
    /\ payOut(p)
    /\ slashCount' = slashCount + 1
    /\ UNCHANGED <<paramVars, roleVars, rulingCount, filedEvidence, protocolVars>>

reclaim_KeepsBond(sender, p) ==
    /\ sender = operator /\ open(p)
    /\ now >= rulings[p].ruledAt + challengeWindow
    /\ bonds >= rulings[p].bond
    /\ bonds' = bonds - rulings[p].bond
    /\ rulings' = [rulings EXCEPT ![p].settled = TRUE]
    /\ UNCHANGED <<paramVars, roleVars, rulingCount, slashCount, filedEvidence,
                   protocolVars>>

\* The operator of the day, under the window of the day.
reclaim(sender, p) ==
    /\ sender = operator
    /\ open(p)
    /\ now >= rulings[p].ruledAt + challengeWindow
    /\ payOut(p)
    /\ UNCHANGED <<paramVars, roleVars, rulingCount, slashCount, filedEvidence,
                   protocolVars>>

setOperator(sender, newOperator) ==
    /\ sender = arbiterOwner
    /\ newOperator # ZeroAddress
    /\ operator' = newOperator
    /\ UNCHANGED <<paramVars, arbiterOwner, rulingVars, filedEvidence, protocolVars>>

setLockupSeconds(sender, recipient, s) ==
    /\ sender = arbiterOwner
    /\ mockSetLockupSeconds(This, recipient, s)
    /\ UNCHANGED <<paramVars, roleVars, rulingVars, filedEvidence>>

setParams(sender, window, bond) ==
    /\ sender = arbiterOwner
    /\ challengeWindow' = window
    /\ minBond' = bond
    /\ UNCHANGED <<roleVars, rulingVars, filedEvidence, protocolVars>>

------------------------------------------------------------------------------
\* What the holder of the seat does when it is not the arbiter contract; one
\* refund per payment is a bound.
ProtocolStep ==
    /\ \E sender \in Accounts :
          \/ \E a \in Accounts \cup {This} : setArbiter(sender, a)
          \/ \E p \in Payments : ~refunded[p] /\ refundByArbiter(sender, p)
          \/ \E x \in Recipients, s \in Lockups : mockSetLockupSeconds(sender, x, s)
    /\ UNCHANGED <<paramVars, roleVars, rulingVars, filedEvidence>>

ArbiterStep ==
    \E p \in Payments :
        \/ challenge(p)
        \/ \E sender \in Accounts, h \in Hashes \cup {ZeroHash} :
              \/ fileEvidence(sender, p, h)
              \/ \E from \in Accounts \cup {ZeroAddress}, v \in Amounts,
                    d \in Directions : rule(sender, v, p, from, h, d)
        \/ \E sender \in Accounts : reclaim(sender, p)

OwnerStep ==
    \E sender \in Accounts :
        \/ \E o \in Accounts \cup {ZeroAddress} : setOperator(sender, o)
        \/ \E w \in Windows, b \in Amounts : setParams(sender, w, b)
        \/ \E x \in Recipients, s \in Lockups : setLockupSeconds(sender, x, s)

AdvanceTime ==
    /\ now < MaxTime
    /\ now' = now + 1
    /\ UNCHANGED <<paramVars, roleVars, rulingVars, filedEvidence, protocolVars>>

ArbiterNext ==
    \/ (ProtocolStep \/ ArbiterStep \/ OwnerStep) /\ UNCHANGED now
    \/ AdvanceTime

ArbiterSpec == ArbiterInit /\ [][ArbiterNext]_arbiterVars

------------------------------------------------------------------------------
(* Properties. *)

ArbiterTypeOK ==
    /\ now \in Nat \ {0}
    /\ arbiterOwner \in Accounts
    /\ operator \in Accounts
    /\ challengeWindow \in Nat
    /\ minBond \in Nat
    /\ rulingCount \in Nat
    /\ slashCount \in Nat
    /\ rulings \in [Payments -> Rulings]
    /\ filedEvidence \in [Payments -> [Accounts \cup {ZeroAddress} ->
                                         Hashes \cup {ZeroHash}]]
    /\ bonds \in Nat
    /\ seat \in Accounts \cup {This}
    /\ refundCount \in Nat
    /\ refunded \in [Payments -> BOOLEAN]
    /\ lockupSeconds \in [Recipients -> Nat]

\* The bonds held are exactly those of the rulings still open, and a settled
\* ruling has none: no bond leaves twice and none is stranded.
OpenBondsAreHeld ==
    /\ bonds = SumFunction([p \in Payments |-> rulings[p].bond])
    /\ \A p \in Payments : rulings[p].bond > 0 => open(p)

\* An honest ruling is unslashable, and every ruling is honest in the sense of
\* challenge: whatever the parties file, amend or race, no open ruling ever cites
\* anything but the filing it rests on (PredgeRefundArbiter.sol, rule).
NoRulingIsSlashable ==
    /\ \A p \in Payments : ~wouldSlash(p)
    /\ slashCount = 0

\* The arbiter's storage is well formed, its bonds are there, and every open ruling is
\* honest.
ArbiterInv == ArbiterTypeOK /\ OpenBondsAreHeld /\ NoRulingIsSlashable

\* The evidence of a ruling, its author and its direction never change, it is
\* settled once, and no filing behind it does: the record precedes the money and
\* cannot be rewritten, by the parties or by a later operator.
RulingsAreFinal ==
    [][\A p \in Payments :
        /\ ruled(p) =>
              /\ ruled(p)' /\ rulings'[p].ruledAt = rulings[p].ruledAt
              /\ rulings'[p].evidenceHash = rulings[p].evidenceHash
              /\ rulings'[p].evidenceFrom = rulings[p].evidenceFrom
              /\ rulings'[p].decidedBy = rulings[p].decidedBy
              /\ rulings'[p].direction = rulings[p].direction
              /\ rulings[p].settled => rulings'[p].settled
        /\ \A a \in Accounts : filedEvidence[p][a] # ZeroHash =>
              filedEvidence'[p][a] = filedEvidence[p][a]]_arbiterVars

\* From the day the contract holds the seat, it holds it for good, and money is
\* refunded only by a ruling to refund, made in the same transaction by the
\* operator, on evidence that somebody had filed before.
RefundsFollowEvidence ==
    [][seat = This =>
        /\ seat' = This
        /\ \A p \in Payments : refunded'[p] # refunded[p] =>
              /\ ~ruled(p) /\ rulings'[p].direction = "Refund"
              /\ rulings'[p].decidedBy = operator
              /\ filedEvidence[p][rulings'[p].evidenceFrom]
                    = rulings'[p].evidenceHash
              /\ rulings'[p].evidenceHash # ZeroHash]_arbiterVars

------------------------------------------------------------------------------
RulingPhase(p) ==
    IF ~ruled(p) THEN "none" ELSE IF rulings[p].settled THEN "paid" ELSE "held"

Backing == INSTANCE MoneyInTrust WITH
    Keys <- Payments,
    Sums <- Amounts,
    phase <- [p \in Payments |-> RulingPhase(p)],
    held <- [p \in Payments |-> rulings[p].bond],
    balance <- bonds

\* The bond behind a ruling is taken with the ruling, kept whole through changes of
\* operator, window and minimum, and paid out once.
BondsInTrust == Backing!TrustSpec
==============================================================================
