------------------------------ MODULE AgentJob ------------------------------
(***************************************************************************)
(* contracts/AgentJob.sol: a client escrows USDC on a job and names the    *)
(* provider, the evaluator and the acceptance test; the provider submits a *)
(* deliverable; the evaluator pays the provider or refunds the client.     *)
(*                                                                         *)
(* complete and reject write before they transfer and a transfer that      *)
(* fails undoes them, so a recipient that calls back in mid-transfer can   *)
(* do no more than a transaction that follows: each is one step.  reason   *)
(* (the hash of a signed verdict no contract reads) is left out.           *)
(***************************************************************************)
EXTENDS Integers, FiniteSetsExt

CONSTANTS Accounts,      \* addresses that can send transactions
          ZeroAddress,   \* address(0)
          Specs,         \* non-zero request hashes a job or a bond may name
          Deliverables,  \* non-zero hashes of what can be delivered
          ZeroHash,      \* bytes32(0)
          Amounts,       \* what one call may carry as msg.value
          U96,           \* 2^96, the width of escrow and bond
          MaxJobs        \* bound on the number of jobs

\* No call carries 2^96 units of the native coin: its supply is smaller.
ASSUME JobAssumption ==
    /\ ZeroAddress \notin Accounts
    /\ ZeroHash \notin Specs \cup Deliverables
    /\ U96 \in Nat \ {0}
    /\ Amounts \subseteq 0 .. U96 - 1
    /\ MaxJobs \in Nat

VARIABLES jobCount, jobs,
          jobBalance       \* address(this).balance of the job contract

jobVars == <<jobCount, jobs, jobBalance>>

JobIds == 1 .. MaxJobs
States == {"None", "Open", "Submitted", "Completed", "Rejected"}

JobRecords ==
    [client : Accounts \cup {ZeroAddress}, provider : Accounts \cup {ZeroAddress},
     evaluator : Accounts \cup {ZeroAddress}, escrow : 0 .. U96 - 1,
     specHash : Specs \cup {ZeroHash},
     deliverable : Deliverables \cup {ZeroHash}, state : States]

\* An unwritten storage slot.
NoJob == [client |-> ZeroAddress, provider |-> ZeroAddress,
          evaluator |-> ZeroAddress, escrow |-> 0, specHash |-> ZeroHash,
          deliverable |-> ZeroHash, state |-> "None"]

------------------------------------------------------------------------------
JobInit ==
    /\ jobCount = 0
    /\ jobs = [j \in JobIds |-> NoJob]
    /\ jobBalance = 0

createJob(sender, provider, evaluator, specHash, value) ==
    /\ jobCount < MaxJobs
    /\ provider # ZeroAddress /\ evaluator # ZeroAddress
    /\ value # 0
    /\ jobCount' = jobCount + 1
    /\ jobs' = [jobs EXCEPT ![jobCount + 1] =
                  [client |-> sender, provider |-> provider,
                   evaluator |-> evaluator, escrow |-> value % U96,
                   specHash |-> specHash, deliverable |-> ZeroHash,
                   state |-> "Open"]]
    /\ jobBalance' = jobBalance + value

\* Slips the properties below must notice; none is part of the specification.
submit_Again(sender, j, deliverable) ==
    /\ sender = jobs[j].provider
    /\ jobs[j].state \in {"Open", "Submitted"}
    /\ jobs' = [jobs EXCEPT ![j].deliverable = deliverable, ![j].state = "Submitted"]
    /\ UNCHANGED <<jobCount, jobBalance>>

decide_KeepsEscrow(sender, j, verdict) ==
    /\ sender = jobs[j].evaluator
    /\ jobs[j].state = "Submitted"
    /\ jobs' = [jobs EXCEPT ![j].state = verdict]
    /\ jobBalance' = jobBalance - jobs[j].escrow
    /\ UNCHANGED jobCount

submit(sender, j, deliverable) ==
    /\ sender = jobs[j].provider
    /\ jobs[j].state = "Open"
    /\ jobs' = [jobs EXCEPT ![j].deliverable = deliverable, ![j].state = "Submitted"]
    /\ UNCHANGED <<jobCount, jobBalance>>

\* complete pays the provider, reject refunds the client: the escrow leaves.
decide(sender, j, verdict) ==
    /\ sender = jobs[j].evaluator
    /\ jobs[j].state = "Submitted"
    /\ jobs' = [jobs EXCEPT ![j].escrow = 0, ![j].state = verdict]
    /\ jobBalance' = jobBalance - jobs[j].escrow
    /\ UNCHANGED jobCount

complete(sender, j) == decide(sender, j, "Completed")
reject(sender, j) == decide(sender, j, "Rejected")

\* One transaction to the job contract.
JobStep ==
    \E sender \in Accounts :
        \/ \E p, e \in Accounts \cup {ZeroAddress}, s \in Specs, v \in Amounts :
              createJob(sender, p, e, s, v)
        \/ \E j \in JobIds, d \in Deliverables \cup {ZeroHash} : submit(sender, j, d)
        \/ \E j \in JobIds : complete(sender, j) \/ reject(sender, j)

JobSpec == JobInit /\ [][JobStep]_jobVars

------------------------------------------------------------------------------
JobTypeOK ==
    /\ jobCount \in 0 .. MaxJobs
    /\ jobs \in [JobIds -> JobRecords]
    /\ jobBalance \in Nat

totalEscrow == SumFunction([j \in JobIds |-> jobs[j].escrow])

\* The contract holds exactly the escrows of the undecided jobs: a decided job
\* owes nothing, an undecided one still has its money.
EscrowIsHeld ==
    /\ jobBalance = totalEscrow
    /\ \A j \in JobIds : jobs[j].escrow > 0 <=> jobs[j].state \in {"Open", "Submitted"}

isSubmitted(j) == jobs[j].state \in {"Submitted", "Completed", "Rejected"}

\* What a bond compares a verdict with cannot be rewritten: the deliverable is
\* final from Submitted on, a decided job never changes again, and no job
\* changes its parties, its test or its place.
jobStands(j) ==
    /\ jobs[j].state # "None" =>
         /\ jobs'[j].client = jobs[j].client
         /\ jobs'[j].provider = jobs[j].provider
         /\ jobs'[j].evaluator = jobs[j].evaluator
         /\ jobs'[j].specHash = jobs[j].specHash
    /\ isSubmitted(j) => jobs'[j].deliverable = jobs[j].deliverable /\ isSubmitted(j)'
    /\ jobs[j].state \in {"Completed", "Rejected"} => jobs'[j] = jobs[j]
==============================================================================
