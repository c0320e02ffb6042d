---------------------------- MODULE PredgeOracle ----------------------------
(***************************************************************************)
(* contracts/PredgeOracle.sol: the outcome-resolution registry.  The       *)
(* publisher commits to a market before its outcome is knowable and later  *)
(* records the outcome; each is written exactly once.                      *)
(*                                                                         *)
(* A call that reverts leaves no trace, so only the calls that succeed are *)
(* actions, with the contract's requires as their guards.  Several calls   *)
(* can carry the same timestamp: the clock has a step of its own.          *)
(* attestationRef holds free text no contract reads and is left out.       *)
(***************************************************************************)
EXTENDS Naturals, FiniteSets

CONSTANTS Accounts,    \* addresses that can send transactions
          ZeroAddress, \* address(0)
          Markets,     \* market ids
          Hashes,      \* non-zero bytes32 values
          ZeroHash,    \* bytes32(0)
          MaxTime      \* bound on the clock

ASSUME OracleAssumption ==
    /\ ZeroAddress \notin Accounts
    /\ ZeroHash \notin Hashes
    /\ IsFiniteSet(Markets)
    /\ MaxTime \in Nat

VARIABLES now,             \* block.timestamp
          oracleOwner,     \* owner
          publisher,       \* the only address that commits and resolves
          market,          \* _markets
          commitCount,
          resolutionCount

oracleVars == <<oracleOwner, publisher, market, commitCount, resolutionCount>>
oracleAllVars == <<now, oracleVars>>

Bytes32 == Hashes \cup {ZeroHash}
Outcomes == {"Unresolved", "Yes", "No", "Invalid"}

MarketRecords ==
    [preCommitHash : Bytes32, contentHash : Bytes32,
     committedAt : Nat, resolvedAt : Nat, outcome : Outcomes]

\* An unwritten storage slot.
NoMarket ==
    [preCommitHash |-> ZeroHash, contentHash |-> ZeroHash,
     committedAt |-> 0, resolvedAt |-> 0, outcome |-> "Unresolved"]

------------------------------------------------------------------------------
(* The free views. *)

isCommitted(m) == market[m].committedAt # 0
isResolved(m) == market[m].outcome # "Unresolved"

------------------------------------------------------------------------------
OracleInit ==
    /\ now = 1
    /\ oracleOwner \in Accounts
    /\ publisher \in Accounts
    /\ market = [m \in Markets |-> NoMarket]
    /\ commitCount = 0
    /\ resolutionCount = 0

writeCommitment(m, preCommitHash) ==
    /\ market' = [market EXCEPT ![m].preCommitHash = preCommitHash,
                                ![m].committedAt = now]
    /\ commitCount' = commitCount + 1
    /\ UNCHANGED <<oracleOwner, publisher, resolutionCount>>

writeResolution(m, outcome, contentHash) ==
    /\ market' = [market EXCEPT ![m].outcome = outcome,
                                ![m].contentHash = contentHash,
                                ![m].resolvedAt = now]
    /\ resolutionCount' = resolutionCount + 1
    /\ UNCHANGED <<oracleOwner, publisher, commitCount>>

\* Slips the properties below must notice; none is part of the specification.
commitMarket_Overwrites(sender, m, preCommitHash) ==
    /\ sender = publisher /\ preCommitHash # ZeroHash
    /\ writeCommitment(m, preCommitHash)

postResolution_Uncommitted(sender, m, outcome, contentHash) ==
    /\ sender = publisher /\ outcome # "Unresolved" /\ contentHash # ZeroHash
    /\ market[m].outcome = "Unresolved"
    /\ writeResolution(m, outcome, contentHash)

commitMarket(sender, m, preCommitHash) ==
    /\ sender = publisher
    /\ preCommitHash # ZeroHash
    /\ market[m].committedAt = 0
    /\ writeCommitment(m, preCommitHash)

postResolution(sender, m, outcome, contentHash) ==
    /\ sender = publisher
    /\ outcome # "Unresolved"
    /\ contentHash # ZeroHash
    /\ market[m].committedAt # 0
    /\ market[m].outcome = "Unresolved"
    /\ writeResolution(m, outcome, contentHash)

setPublisher(sender, newPublisher) ==
    /\ sender = oracleOwner
    /\ newPublisher # ZeroAddress
    /\ publisher' = newPublisher
    /\ UNCHANGED <<oracleOwner, market, commitCount, resolutionCount>>

\* One transaction to the oracle.
OracleStep ==
    \E sender \in Accounts :
        \/ \E m \in Markets, h \in Bytes32 : commitMarket(sender, m, h)
        \/ \E m \in Markets, o \in Outcomes, h \in Bytes32 :
              postResolution(sender, m, o, h)
        \/ \E p \in Accounts \cup {ZeroAddress} : setPublisher(sender, p)

\* A later block.
AdvanceTime == now < MaxTime /\ now' = now + 1

OracleNext ==
    \/ OracleStep /\ UNCHANGED now
    \/ AdvanceTime /\ UNCHANGED oracleVars

OracleSpec == OracleInit /\ [][OracleNext]_oracleAllVars

------------------------------------------------------------------------------
OracleTypeOK ==
    /\ now \in Nat \ {0}
    /\ oracleOwner \in Accounts
    /\ publisher \in Accounts
    /\ market \in [Markets -> MarketRecords]
    /\ commitCount \in Nat
    /\ resolutionCount \in Nat

\* A recorded outcome rests on a commitment the chain stamped no later than
\* the outcome and no later than now, and both carry the hashes that make them
\* checkable: commit, then resolve (PredgeOracle.sol, THE GUARANTEE).
CommitPrecedesResolution ==
    \A m \in Markets :
        /\ isResolved(m) => /\ isCommitted(m)
                            /\ market[m].committedAt <= market[m].resolvedAt
                            /\ market[m].resolvedAt <= now
                            /\ market[m].contentHash # ZeroHash
        /\ isCommitted(m) => /\ market[m].preCommitHash # ZeroHash
                             /\ market[m].committedAt <= now

\* The two public counters count exactly the committed and the resolved
\* markets, so a reader can audit the registry's size from them.
CountersMatchRecords ==
    /\ commitCount = Cardinality({m \in Markets : isCommitted(m)})
    /\ resolutionCount = Cardinality({m \in Markets : isResolved(m)})

\* The registry's state is well formed, consistent and fully counted.
OracleInv ==
    /\ OracleTypeOK
    /\ CommitPrecedesResolution
    /\ CountersMatchRecords

\* A commitment never changes once made, nor a resolution once recorded,
\* whoever the publisher is by then: there is no edit path.
RecordsArePermanent ==
    [][\A m \in Markets :
        /\ isCommitted(m) =>
              /\ market'[m].preCommitHash = market[m].preCommitHash
              /\ market'[m].committedAt = market[m].committedAt
        /\ isResolved(m) => market'[m] = market[m]]_oracleAllVars

------------------------------------------------------------------------------
(* The oracle as an implementation of the abstract registry. *)

Registry == INSTANCE CommitBeforeOutcome WITH
    Keys <- Markets,
    Contents <- Hashes,
    Verdicts <- (Outcomes \ {"Unresolved"}) \X Hashes,
    seals <- {[key |-> m, content |-> market[m].preCommitHash,
               at |-> market[m].committedAt] :
                  m \in {mm \in Markets : isCommitted(mm)}},
    openings <- {[key |-> m,
                  verdict |-> <<market[m].outcome, market[m].contentHash>>,
                  at |-> market[m].resolvedAt] :
                  m \in {mm \in Markets : isResolved(mm)}},
    clock <- now

\* Every behaviour of the oracle is a behaviour of the abstract registry.
ImplementsRegistry == Registry!RegSpec
==============================================================================
