------------------------- MODULE PredgeValidatorBond -------------------------
(***************************************************************************)
(* contracts/PredgeValidatorBond.sol beside the AgentJob it reads: the     *)
(* validator stakes a bond and commits an acceptance test against a job,   *)
(* records a verdict, and gets the bond back after the dispute window      *)
(* unless somebody shows that the verdict contradicts the deliverable the  *)
(* provider submitted.                                                     *)
(*                                                                         *)
(* challenge and reclaim write before they transfer and a transfer that    *)
(* fails undoes them, so each is one step.  submittedAt is a history       *)
(* variable, the block time of a job's Submitted event: the contracts keep *)
(* no such record.                                                         *)
(***************************************************************************)
EXTENDS AgentJob, FiniteSets

CONSTANTS DisputeWindow,  \* disputeWindow, set once by the constructor
          MaxTime         \* bound on the clock

\* A request hash is one of 2^256.
ASSUME BondAssumption ==
    DisputeWindow \in Nat /\ MaxTime \in Nat /\ IsFiniteSet(Specs)

VARIABLES now,            \* block.timestamp
          bondOwner,      \* owner
          validator,
          stakes,
          totalBonded,
          slashCount,
          bondBalance,    \* address(this).balance of the bond contract
          submittedAt     \* history, see above

bondVars == <<bondOwner, validator, stakes, totalBonded, slashCount, bondBalance>>
bondAllVars == <<now, jobVars, submittedAt, bondVars>>

StakeRecords ==
    [expected : Deliverables \cup {ZeroHash}, bond : 0 .. U96 - 1,
     stakedAt : Nat, score : {0, 100}, scored : BOOLEAN, closed : BOOLEAN,
     jobId : 0 .. MaxJobs, scoredAt : Nat]

NoStake == [expected |-> ZeroHash, bond |-> 0, stakedAt |-> 0, score |-> 0,
            scored |-> FALSE, closed |-> FALSE, jobId |-> 0, scoredAt |-> 0]

\* job.jobs(id): any id can be asked for, unwritten slots read as zeros.
jobAt(j) == IF j \in JobIds THEN jobs[j] ELSE NoJob

isStaked(r) == stakes[r].stakedAt # 0

\* The verdict on r contradicts the deliverable on the job.
lied(r) ==
    LET matches == jobAt(stakes[r].jobId).deliverable = stakes[r].expected
    IN  \/ stakes[r].score = 100 /\ ~matches
        \/ stakes[r].score = 0 /\ matches

delivered(r) == jobAt(stakes[r].jobId).state \in {"Submitted", "Completed", "Rejected"}

wouldSlash(r) == stakes[r].scored /\ ~stakes[r].closed /\ delivered(r) /\ lied(r)

------------------------------------------------------------------------------
BondInit ==
    /\ JobInit
    /\ now = 1
    /\ bondOwner \in Accounts
    /\ validator \in Accounts
    /\ stakes = [r \in Specs |-> NoStake]
    /\ totalBonded = 0
    /\ slashCount = 0
    /\ bondBalance = 0
    /\ submittedAt = [j \in JobIds |-> 0]

writeStake(r, expected, j, value) ==
    /\ stakes' = [stakes EXCEPT ![r].expected = expected, ![r].bond = value % U96,
                                ![r].stakedAt = now, ![r].jobId = j]
    /\ totalBonded' = totalBonded + (value % U96)
    /\ bondBalance' = bondBalance + value
    /\ UNCHANGED <<bondOwner, validator, slashCount>>

writeScore(r, score) ==
    /\ stakes' = [stakes EXCEPT ![r].score = score, ![r].scored = TRUE,
                                ![r].scoredAt = now]
    /\ UNCHANGED <<bondOwner, validator, totalBonded, slashCount, bondBalance>>

\* The bond leaves, to a challenger or to the validator.
close(r) ==
    /\ stakes' = [stakes EXCEPT ![r].closed = TRUE, ![r].bond = 0]
    /\ totalBonded' = totalBonded - stakes[r].bond
    /\ bondBalance' = bondBalance - stakes[r].bond
    /\ UNCHANGED <<bondOwner, validator>>

\* Slips the properties below must notice; none is part of the specification.
stakeAndCommit_AnyJob(sender, r, expected, j, value) ==
    /\ sender = validator
    /\ expected # ZeroHash /\ value # 0 /\ ~isStaked(r)
    /\ writeStake(r, expected, j, value)

challenge_BeforeSubmission(r) ==
    /\ isStaked(r) /\ stakes[r].scored /\ ~stakes[r].closed /\ lied(r)
    /\ close(r)
    /\ slashCount' = slashCount + 1

reclaim_FromStake(sender, r) ==
    /\ sender = validator
    /\ isStaked(r) /\ stakes[r].scored /\ ~stakes[r].closed
    /\ now >= stakes[r].stakedAt + DisputeWindow
    /\ close(r)
    /\ UNCHANGED slashCount

reclaim_OneBlockLate(sender, r) ==
    /\ sender = validator
    /\ isStaked(r) /\ stakes[r].scored /\ ~stakes[r].closed
    /\ now > stakes[r].scoredAt + DisputeWindow
    /\ close(r)
    /\ UNCHANGED slashCount

\* uint96 sums are checked: a stake that would overflow totalBonded reverts.
stakeAndCommit(sender, r, expected, j, value) ==
    /\ sender = validator
    /\ expected # ZeroHash
    /\ value # 0
    /\ ~isStaked(r)
    /\ jobAt(j).specHash = r
    /\ jobAt(j).evaluator = validator
    /\ jobAt(j).provider # validator
    /\ totalBonded + (value % U96) < U96
    /\ writeStake(r, expected, j, value)

recordScore(sender, r, score) ==
    /\ sender = validator
    /\ isStaked(r)
    /\ ~stakes[r].scored
    /\ writeScore(r, score)

\* Anyone may call it and nobody supplies evidence.
challenge(r) ==
    /\ isStaked(r)
    /\ stakes[r].scored
    /\ ~stakes[r].closed
    /\ delivered(r)
    /\ lied(r)
    /\ close(r)
    /\ slashCount' = slashCount + 1

reclaim(sender, r) ==
    /\ sender = validator
    /\ isStaked(r)
    /\ stakes[r].scored
    /\ ~stakes[r].closed
    /\ now >= stakes[r].scoredAt + DisputeWindow
    /\ close(r)
    /\ UNCHANGED slashCount

setValidator(sender, newValidator) ==
    /\ sender = bondOwner
    /\ newValidator # ZeroAddress
    /\ validator' = newValidator
    /\ UNCHANGED <<bondOwner, stakes, totalBonded, slashCount, bondBalance>>

------------------------------------------------------------------------------
\* One transaction to the bond contract.
BondStep ==
    \/ \E sender \in Accounts, r \in Specs :
          \/ \E e \in Deliverables \cup {ZeroHash}, j \in 0 .. MaxJobs, v \in Amounts :
                stakeAndCommit(sender, r, e, j, v)
          \/ \E score \in {0, 100} : recordScore(sender, r, score)
          \/ reclaim(sender, r)
    \/ \E r \in Specs : challenge(r)
    \/ \E sender \in Accounts, v \in Accounts \cup {ZeroAddress} :
          setValidator(sender, v)

noteSubmission ==
    submittedAt' = [j \in JobIds |->
        IF jobs[j].state = "Open" /\ jobs'[j].state = "Submitted"
        THEN now ELSE submittedAt[j]]

\* One transaction to the job contract, with the time of a submission noted.
NotedJobStep == JobStep /\ noteSubmission

NextBlock == now < MaxTime /\ now' = now + 1

BondNext ==
    \/ NotedJobStep /\ UNCHANGED <<now, bondVars>>
    \/ BondStep /\ UNCHANGED <<now, jobVars, submittedAt>>
    \/ NextBlock /\ UNCHANGED <<jobVars, submittedAt, bondVars>>

BondSpec == BondInit /\ [][BondNext]_bondAllVars

\* Blocks keep coming, and whoever holds the validator's key sweeps the bonds
\* whose window has passed (script/reclaim-bonds.mjs).
BondFairness ==
    /\ WF_bondAllVars(NextBlock /\ UNCHANGED <<jobVars, submittedAt, bondVars>>)
    /\ \A r \in Specs :
          WF_bondAllVars((\E a \in Accounts : reclaim(a, r))
                         /\ UNCHANGED <<now, jobVars, submittedAt>>)

BondFairSpec == BondSpec /\ BondFairness

------------------------------------------------------------------------------
(* Properties. *)

BondTypeOK ==
    /\ JobTypeOK
    /\ now \in Nat \ {0}
    /\ bondOwner \in Accounts
    /\ validator \in Accounts
    /\ stakes \in [Specs -> StakeRecords]
    /\ totalBonded \in 0 .. U96 - 1
    /\ slashCount \in Nat
    /\ bondBalance \in Nat
    /\ submittedAt \in [JobIds -> Nat]

\* Nobody's money is anybody else's: the job contract holds the escrows of its
\* undecided jobs and no more, and every unit the bond contract reports as staked is
\* there and belongs to an open stake, so a bond is paid out once, to a challenger or
\* back, never both.
BondsAreBacked ==
    /\ EscrowIsHeld
    /\ bondBalance = totalBonded
    /\ totalBonded = SumFunction([r \in Specs |-> stakes[r].bond])
    /\ \A r \in Specs : stakes[r].bond > 0 <=> isStaked(r) /\ ~stakes[r].closed

\* A bond is tied for good to an existing job about the same test, judged by the
\* validator that staked and worked on by somebody else ("the bond can only
\* ever be attached to a job this validator actually judges").
BondIsBoundToItsJob ==
    \A r \in Specs : isStaked(r) =>
        LET j == jobAt(stakes[r].jobId)
        IN  /\ j.state # "None"
            /\ j.specHash = r
            /\ j.provider # j.evaluator
            /\ stakes[r].expected # ZeroHash

\* Jobs and bonds are well formed, all money is there, and every bond tied to its job.
BondInv == BondTypeOK /\ BondsAreBacked /\ BondIsBoundToItsJob

\* "An honest verdict is unslashable": the slashes ever taken are no more than
\* the closed verdicts that the deliverables, as they stand at any later time,
\* contradict.
OnlyLiesAreSlashed ==
    slashCount <= Cardinality({r \in Specs :
                                 stakes[r].closed /\ delivered(r) /\ lied(r)})

verdictStands(r) ==
    /\ stakes[r].scored /\ delivered(r) => /\ lied(r)' = lied(r)
                                           /\ stakes'[r].scored /\ delivered(r)'
    /\ stakes[r].closed => stakes'[r] = stakes[r]

\* Once a verdict and a deliverable are both on-chain, whether the one
\* contradicts the other is settled for good, by whoever submits, decides,
\* scores or rotates the validator afterwards; the jobs themselves only go forward.
VerdictsAreFinal ==
    [][(\A r \in Specs : verdictStands(r)) /\ (\A j \in JobIds : jobStands(j))]_bondAllVars

\* A stake that closes before a full window has passed since its verdict was
\* slashed; the validator alone cannot close it (the dispute window runs from
\* the VERDICT).
EarlyCloseIsASlash ==
    [][\A r \in Specs :
        ~stakes[r].closed /\ stakes'[r].closed
          /\ now < stakes[r].scoredAt + DisputeWindow => slashCount' > slashCount]_bondAllVars

\* No bond with a verdict stays locked in the contract.
ScoredBondsClose ==
    \A r \in Specs :
        stakes[r].scored /\ stakes[r].scoredAt + DisputeWindow <= MaxTime
            ~> stakes[r].closed

------------------------------------------------------------------------------
EscrowPhase(j) ==
    CASE jobs[j].state = "None" -> "none"
      [] jobs[j].state \in {"Open", "Submitted"} -> "held"
      [] OTHER -> "paid"

Escrows == INSTANCE MoneyInTrust WITH
    Keys <- JobIds,
    Sums <- Amounts,
    phase <- [j \in JobIds |-> EscrowPhase(j)],
    held <- [j \in JobIds |-> jobs[j].escrow],
    balance <- jobBalance

StakePhase(r) ==
    IF stakes[r].closed THEN "paid" ELSE IF isStaked(r) THEN "held" ELSE "none"

Stakes == INSTANCE MoneyInTrust WITH
    Keys <- Specs,
    Sums <- Amounts,
    phase <- [r \in Specs |-> StakePhase(r)],
    held <- [r \in Specs |-> stakes[r].bond],
    balance <- bondBalance

\* Whoever wins in the end, a client's escrow and a validator's bond are taken once,
\* kept whole and paid out once: no job, no verdict, no challenge, no reclaim and no
\* change of validator reaches another's money or the same money twice.
HoldsInTrust == Escrows!TrustSpec /\ Stakes!TrustSpec

(* A sentence of the contract's comments that the code does not bear out. *)

\* disputeWindow is "seconds a verdict stays challengeable after scoring": a
\* verdict that is contradicted when its bond is reclaimed could be challenged
\* during a whole window before.
FullWindowToChallenge ==
    [][\A r \in Specs :
        ~stakes[r].closed /\ stakes'[r].closed /\ slashCount' = slashCount
          /\ wouldSlash(r) =>
              now >= submittedAt[stakes[r].jobId] + DisputeWindow]_bondAllVars
==============================================================================
