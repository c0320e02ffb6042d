-------------------------- MODULE PredgeSignalVault --------------------------
(***************************************************************************)
(* contracts/PredgeSignalVault.sol: deposits of native USDC behind one     *)
(* posture (short, flat or long) that only the keeper may change.  It is   *)
(* what vault-keeper.mjs drives (VaultKeeper), and what its successor      *)
(* PredgeSignalVaultV2 is shown to implement.                              *)
(*                                                                         *)
(* withdraw writes before it pays and a failing payment reverts it, so a   *)
(* recipient that calls back finds the state of the next transaction:      *)
(* one action.  attestationRef is text no contract reads.                  *)
(***************************************************************************)
EXTENDS Integers, FiniteSets

CONSTANTS Accounts,       \* addresses that can send transactions
          ZeroAddress,    \* address(0)
          Hashes,         \* non-zero bytes32 values
          ZeroHash,       \* bytes32(0)
          Amounts,        \* what a call may carry or ask for
          MaxDeposit,     \* bound on one account's deposit
          MaxRebalances   \* bound on rebalanceCount

\* An address is one of 2^160.
ASSUME VaultAssumption ==
    /\ IsFiniteSet(Accounts)
    /\ ZeroAddress \notin Accounts
    /\ ZeroHash \notin Hashes
    /\ Amounts \subseteq Nat
    /\ MaxDeposit \in Nat
    /\ MaxRebalances \in Nat

VARIABLES posture, rebalanceCount, totalDeposits,
          vaultOwner,     \* owner
          keeper,         \* the only address that rebalances
          paused,
          lastSignalHash,
          balanceOf,
          held            \* address(this).balance

depositVars == <<balanceOf, totalDeposits, held>>
postureVars == <<posture, rebalanceCount, lastSignalHash>>
roleVars == <<vaultOwner, keeper, paused>>
vaultVars == <<depositVars, postureVars, roleVars>>

Postures == {-1, 0, 1}
Int8 == -2..2   \* the postures and a value on either side

------------------------------------------------------------------------------
VaultInit ==
    /\ posture = 0
    /\ rebalanceCount = 0
    /\ totalDeposits = 0
    /\ vaultOwner \in Accounts
    /\ keeper \in Accounts
    /\ paused = FALSE
    /\ lastSignalHash = ZeroHash
    /\ balanceOf = [a \in Accounts |-> 0]
    /\ held = 0

deposit(sender, value) ==
    /\ ~paused
    /\ value # 0
    /\ balanceOf[sender] + value <= MaxDeposit
    /\ balanceOf' = [balanceOf EXCEPT ![sender] = @ + value]
    /\ totalDeposits' = totalDeposits + value
    /\ held' = held + value
    /\ UNCHANGED <<postureVars, roleVars>>

\* A paused vault still pays out.
withdraw(sender, amount) ==
    /\ amount # 0
    /\ amount <= balanceOf[sender]
    /\ amount <= held
    /\ balanceOf' = [balanceOf EXCEPT ![sender] = @ - amount]
    /\ totalDeposits' = totalDeposits - amount
    /\ held' = held - amount
    /\ UNCHANGED <<postureVars, roleVars>>

rebalance(sender, signalHash, direction) ==
    /\ sender = keeper
    /\ ~paused
    /\ direction \in Postures
    /\ rebalanceCount < MaxRebalances
    /\ posture' = direction
    /\ lastSignalHash' = signalHash
    /\ rebalanceCount' = rebalanceCount + 1
    /\ UNCHANGED <<depositVars, roleVars>>

setKeeper(sender, newKeeper) ==
    /\ sender = vaultOwner
    /\ newKeeper # ZeroAddress
    /\ keeper' = newKeeper
    /\ UNCHANGED <<depositVars, postureVars, vaultOwner, paused>>

setPaused(sender, p) ==
    /\ sender = vaultOwner
    /\ paused' = p
    /\ UNCHANGED <<depositVars, postureVars, vaultOwner, keeper>>

\* What depositors and the owner may do at any time.
CustomerStep ==
    \/ \E a \in Accounts, v \in Amounts : deposit(a, v) \/ withdraw(a, v)
    \/ \E a \in Accounts, k \in Accounts \cup {ZeroAddress} : setKeeper(a, k)
    \/ \E a \in Accounts, p \in BOOLEAN : setPaused(a, p)

VaultNext ==
    \/ CustomerStep
    \/ \E a \in Accounts, h \in Hashes \cup {ZeroHash}, d \in Int8 :
          rebalance(a, h, d)

VaultSpec == VaultInit /\ [][VaultNext]_vaultVars

------------------------------------------------------------------------------
VaultTypeOK ==
    /\ posture \in Postures
    /\ rebalanceCount \in Nat
    /\ totalDeposits \in Nat
    /\ vaultOwner \in Accounts
    /\ keeper \in Accounts
    /\ paused \in BOOLEAN
    /\ lastSignalHash \in Hashes \cup {ZeroHash}
    /\ balanceOf \in [Accounts -> Nat]
    /\ held \in Nat
==============================================================================
