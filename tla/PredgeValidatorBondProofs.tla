---------------------- MODULE PredgeValidatorBondProofs ----------------------
(***************************************************************************)
(* PredgeValidatorBond beside AgentJob for every set of accounts, tests,   *)
(* deliverables and amounts and every dispute window: a bond stays tied to *)
(* its job, a verdict cannot be made a lie or cleared of one afterwards,   *)
(* only lies are slashed, and each contract holds exactly the escrows and  *)
(* bonds it owes.                                                          *)
(*                                                                         *)
(* And LiveLoop on top of the two, for every number of loops, of demos of  *)
(* one wallet, of strangers' jobs, calls lost and processes that die: the  *)
(* scripts are users of the bond like any other, the loops pay only for    *)
(* verdicts both registries hold and waste no more money than answers were *)
(* lost, and a demo judges nothing but what it delivered.                  *)
(***************************************************************************)
EXTENDS LiveLoop, SumTheorems

------------------------------------------------------------------------------
(* The inductive invariant. *)

\* Ids are given out in order, and a slot without a job is about no test.
JobsAreNumbered ==
    /\ jobCount \in 0 .. MaxJobs
    /\ jobs \in [JobIds -> JobRecords]
    /\ \A j \in JobIds : /\ jobs[j].state = "None" <=> j > jobCount
                         /\ jobs[j].state = "None" => jobs[j].specHash = ZeroHash

\* A stake is scored after it is posted and closes after it is scored: a stake
\* without a verdict can therefore not be written over.
StakesGoForward ==
    /\ now \in Nat \ {0} /\ slashCount \in Nat
    /\ validator \in Accounts
    /\ stakes \in [Specs -> StakeRecords]
    /\ \A r \in Specs : /\ stakes[r].scored => isStaked(r)
                        /\ stakes[r].closed => stakes[r].scored

BondIInv == JobsAreNumbered /\ StakesGoForward /\ BondIsBoundToItsJob

------------------------------------------------------------------------------
(* The jobs. *)

LEMMA JobStepCases ==
    ASSUME JobStep
    PROVE  \E sender \in Accounts :
              \/ \E p, e \in Accounts \cup {ZeroAddress}, s \in Specs, v \in Amounts :
                    createJob(sender, p, e, s, v)
              \/ \E j \in JobIds, d \in Deliverables \cup {ZeroHash} : submit(sender, j, d)
              \/ \E j \in JobIds, verdict \in {"Completed", "Rejected"} :
                    decide(sender, j, verdict)
BY DEF JobStep, complete, reject

\* What the job contract does to one job: it keeps its parties, its test and, once
\* there, its deliverable.
LEMMA JobStepKeepsJobs ==
    ASSUME JobsAreNumbered, JobStep
    PROVE  JobsAreNumbered' /\ \A j \in JobIds : jobStands(j)
<1>1. jobCount \in Nat /\ jobCount <= MaxJobs /\ MaxJobs \in Nat
  BY JobAssumption DEF JobsAreNumbered
<1>2. jobs \in [JobIds -> JobRecords]
  BY DEF JobsAreNumbered
<1>3. ASSUME NEW sender \in Accounts, NEW p \in Accounts \cup {ZeroAddress},
             NEW e \in Accounts \cup {ZeroAddress}, NEW s \in Specs, NEW v \in Amounts,
             createJob(sender, p, e, s, v)
      PROVE  JobsAreNumbered' /\ \A j \in JobIds : jobStands(j)
  <2> DEFINE job == [client |-> sender, provider |-> p, evaluator |-> e,
                     escrow |-> v % U96, specHash |-> s, deliverable |-> ZeroHash,
                     state |-> "Open"]
  <2>1. jobCount + 1 \in JobIds /\ jobs[jobCount + 1].state = "None"
    BY <1>1, <1>3 DEF createJob, JobIds, JobsAreNumbered
  <2>2. v % U96 \in 0 .. U96 - 1
    BY JobAssumption
  <2>3. job \in JobRecords /\ job.state = "Open"
    BY <2>2 DEF JobRecords, States
  <2>4. jobs' = [jobs EXCEPT ![jobCount + 1] = job] /\ jobCount' = jobCount + 1
        /\ jobCount < MaxJobs
    BY <1>3 DEF createJob
  <2> HIDE DEF job
  <2>5. jobs' \in [JobIds -> JobRecords] /\ jobs'[jobCount + 1] = job
        /\ \A j \in JobIds \ {jobCount + 1} : jobs'[j] = jobs[j]
    BY <1>2, <2>1, <2>3, <2>4
  <2>6. \A j \in JobIds : jobStands(j)
    BY <2>1, <2>5 DEF jobStands, isSubmitted
  <2>7. ASSUME NEW j \in JobIds 
        PROVE  /\ jobs'[j].state = "None" <=> j > jobCount'
               /\ jobs'[j].state = "None" => jobs'[j].specHash = ZeroHash
    <3>1. j \in Nat
      BY DEF JobIds
    <3>2. CASE j = jobCount + 1
      BY <1>1, <2>3, <2>4, <2>5, <3>2
    <3>3. CASE j # jobCount + 1
      BY <1>1, <2>4, <2>5, <3>1, <3>3 DEF JobsAreNumbered
    <3> QED
      BY <3>2, <3>3
  <2>8. jobCount' \in 0 .. MaxJobs
    BY <1>1, <2>4
  <2> QED
    BY <2>5, <2>6, <2>7, <2>8 DEF JobsAreNumbered
<1>4. ASSUME NEW sender \in Accounts, NEW i \in JobIds,
             NEW d \in Deliverables \cup {ZeroHash}, submit(sender, i, d)
      PROVE  JobsAreNumbered' /\ \A j \in JobIds : jobStands(j)
  <2> DEFINE job == [jobs[i] EXCEPT !.deliverable = d, !.state = "Submitted"]
  <2>1. jobs[i] \in JobRecords /\ jobs[i].state = "Open"
    BY <1>2, <1>4 DEF submit
  <2>2. /\ job \in JobRecords /\ job.state = "Submitted"
        /\ job.client = jobs[i].client
        /\ job.provider = jobs[i].provider /\ job.evaluator = jobs[i].evaluator
        /\ job.specHash = jobs[i].specHash
    BY <2>1 DEF JobRecords, States
  <2>3. jobs' = [jobs EXCEPT ![i] = job] /\ jobCount' = jobCount
    BY <1>2, <1>4, <2>1 DEF submit, JobRecords
  <2> HIDE DEF job
  <2>4. jobs' \in [JobIds -> JobRecords] /\ jobs'[i] = job
        /\ \A j \in JobIds \ {i} : jobs'[j] = jobs[j]
    BY <1>2, <2>2, <2>3
  <2>5. \A j \in JobIds : jobStands(j)
    BY <2>1, <2>2, <2>4 DEF jobStands, isSubmitted
  <2>6. \A j \in JobIds : /\ jobs'[j].state = "None" <=> jobs[j].state = "None"
                          /\ jobs'[j].specHash = jobs[j].specHash
    BY <2>1, <2>2, <2>4
  <2> QED
    BY <2>3, <2>4, <2>5, <2>6 DEF JobsAreNumbered
<1>5. ASSUME NEW sender \in Accounts, NEW i \in JobIds,
             NEW verdict \in {"Completed", "Rejected"}, decide(sender, i, verdict)
      PROVE  JobsAreNumbered' /\ \A j \in JobIds : jobStands(j)
  <2> DEFINE job == [jobs[i] EXCEPT !.escrow = 0, !.state = verdict]
  <2>1. jobs[i] \in JobRecords /\ jobs[i].state = "Submitted"
    BY <1>2, <1>5 DEF decide
  <2>2. 0 \in 0 .. U96 - 1
    BY JobAssumption
  <2>3. /\ job \in JobRecords /\ job.state = verdict
        /\ job.client = jobs[i].client
        /\ job.provider = jobs[i].provider /\ job.evaluator = jobs[i].evaluator
        /\ job.specHash = jobs[i].specHash /\ job.deliverable = jobs[i].deliverable
    BY <2>1, <2>2 DEF JobRecords, States
  <2>4. jobs' = [jobs EXCEPT ![i] = job] /\ jobCount' = jobCount
    BY <1>2, <1>5, <2>1 DEF decide, JobRecords
  <2> HIDE DEF job
  <2>5. jobs' \in [JobIds -> JobRecords] /\ jobs'[i] = job
        /\ \A j \in JobIds \ {i} : jobs'[j] = jobs[j]
    BY <1>2, <2>3, <2>4
  <2>6. \A j \in JobIds : jobStands(j)
    BY <2>1, <2>3, <2>5 DEF jobStands, isSubmitted
  <2>7. \A j \in JobIds : /\ jobs'[j].state = "None" <=> jobs[j].state = "None"
                          /\ jobs'[j].specHash = jobs[j].specHash
    BY <2>1, <2>3, <2>5
  <2> QED
    BY <2>4, <2>5, <2>6, <2>7 DEF JobsAreNumbered
<1> QED
  BY <1>3, <1>4, <1>5, JobStepCases

------------------------------------------------------------------------------
(* The stakes. *)

LEMMA BondStepCases ==
    ASSUME BondStep
    PROVE  \/ \E sender \in Accounts, r \in Specs :
                 \/ \E e \in Deliverables \cup {ZeroHash}, j \in 0 .. MaxJobs,
                       v \in Amounts : stakeAndCommit(sender, r, e, j, v)
                 \/ \E score \in {0, 100} : recordScore(sender, r, score)
                 \/ reclaim(sender, r)
           \/ \E r \in Specs : challenge(r)
           \/ \E sender \in Accounts, v \in Accounts \cup {ZeroAddress} :
                 setValidator(sender, v)
BY DEF BondStep

\* What a transaction on the bond of r does to it: it is posted on a job that fits,
\* scored, or closed.
posted(r) ==
    /\ ~isStaked(r) /\ isStaked(r)'
    /\ ~stakes'[r].scored /\ ~stakes'[r].closed
    /\ stakes'[r].expected # ZeroHash
    /\ jobAt(stakes'[r].jobId).specHash = r
    /\ jobAt(stakes'[r].jobId).evaluator # jobAt(stakes'[r].jobId).provider

judged(r) ==
    /\ isStaked(r) /\ ~stakes[r].scored
    /\ isStaked(r)' /\ stakes'[r].scored
    /\ stakes'[r].closed = stakes[r].closed
    /\ stakes'[r].expected = stakes[r].expected /\ stakes'[r].jobId = stakes[r].jobId

closed(r) ==
    /\ isStaked(r) /\ stakes[r].scored /\ ~stakes[r].closed
    /\ isStaked(r)' /\ stakes'[r].scored /\ stakes'[r].closed
    /\ stakes'[r].score = stakes[r].score /\ stakes'[r].expected = stakes[r].expected
    /\ stakes'[r].jobId = stakes[r].jobId /\ stakes'[r].scoredAt = stakes[r].scoredAt

elsewhere(r) ==
    stakes' \in [Specs -> StakeRecords] /\ \A s \in Specs \ {r} : stakes'[s] = stakes[s]

LEMMA StakeEffect ==
    ASSUME BondIInv, NEW sender \in Accounts, NEW r \in Specs,
           NEW e \in Deliverables \cup {ZeroHash}, NEW j \in 0 .. MaxJobs,
           NEW v \in Amounts, stakeAndCommit(sender, r, e, j, v)
    PROVE  posted(r) /\ elsewhere(r) /\ slashCount' = slashCount /\ validator' = validator
<1>1. /\ stakes \in [Specs -> StakeRecords] /\ stakes[r] \in StakeRecords
      /\ now \in Nat \ {0}
  BY DEF BondIInv, StakesGoForward
<1>2. v % U96 \in 0 .. U96 - 1
  BY JobAssumption
<1> DEFINE s == [stakes[r] EXCEPT !.expected = e, !.bond = v % U96,
                                  !.stakedAt = now, !.jobId = j]
<1>3. /\ s \in StakeRecords /\ s.expected = e /\ s.stakedAt = now /\ s.jobId = j
      /\ s.scored = stakes[r].scored /\ s.closed = stakes[r].closed
  BY <1>1, <1>2 DEF StakeRecords
<1>4. stakes' = [stakes EXCEPT ![r] = s]
  BY <1>1 DEF stakeAndCommit, writeStake, StakeRecords
<1> HIDE DEF s
<1>5. stakes'[r] = s /\ elsewhere(r)
  BY <1>1, <1>3, <1>4 DEF elsewhere
<1>6. ~isStaked(r) /\ e # ZeroHash
      /\ jobAt(j).specHash = r /\ jobAt(j).evaluator # jobAt(j).provider
  BY DEF stakeAndCommit
<1>7. ~stakes[r].scored /\ ~stakes[r].closed
  BY <1>6 DEF BondIInv, StakesGoForward
<1>8. UNCHANGED <<slashCount, validator>>
  BY DEF stakeAndCommit, writeStake
<1> QED
  BY <1>1, <1>3, <1>5, <1>6, <1>7, <1>8 DEF posted, isStaked

LEMMA ScoreEffect ==
    ASSUME BondIInv, NEW sender \in Accounts, NEW r \in Specs,
           NEW score \in {0, 100}, recordScore(sender, r, score)
    PROVE  judged(r) /\ elsewhere(r) /\ slashCount' = slashCount /\ validator' = validator
<1>1. /\ stakes \in [Specs -> StakeRecords] /\ stakes[r] \in StakeRecords
      /\ now \in Nat \ {0}
  BY DEF BondIInv, StakesGoForward
<1> DEFINE s == [stakes[r] EXCEPT !.score = score, !.scored = TRUE, !.scoredAt = now]
<1>2. /\ s \in StakeRecords /\ s.scored /\ s.closed = stakes[r].closed
      /\ s.expected = stakes[r].expected /\ s.stakedAt = stakes[r].stakedAt
      /\ s.jobId = stakes[r].jobId
  BY <1>1 DEF StakeRecords
<1>3. stakes' = [stakes EXCEPT ![r] = s]
  BY <1>1 DEF recordScore, writeScore, StakeRecords
<1> HIDE DEF s
<1>4. stakes'[r] = s /\ elsewhere(r)
  BY <1>1, <1>2, <1>3 DEF elsewhere
<1>5. isStaked(r) /\ ~stakes[r].scored /\ UNCHANGED <<slashCount, validator>>
  BY DEF recordScore, writeScore
<1> QED
  BY <1>2, <1>4, <1>5 DEF judged, isStaked

LEMMA CloseEffect ==
    ASSUME BondIInv, NEW r \in Specs, close(r),
           isStaked(r), stakes[r].scored, ~stakes[r].closed
    PROVE  closed(r) /\ elsewhere(r) /\ validator' = validator
<1>1. stakes \in [Specs -> StakeRecords] /\ stakes[r] \in StakeRecords
  BY DEF BondIInv, StakesGoForward
<1>2. 0 \in 0 .. U96 - 1
  BY JobAssumption
<1> DEFINE s == [stakes[r] EXCEPT !.closed = TRUE, !.bond = 0]
<1>3. /\ s \in StakeRecords /\ s.closed /\ s.scored = stakes[r].scored
      /\ s.score = stakes[r].score /\ s.expected = stakes[r].expected
      /\ s.stakedAt = stakes[r].stakedAt /\ s.jobId = stakes[r].jobId
      /\ s.scoredAt = stakes[r].scoredAt
  BY <1>1, <1>2 DEF StakeRecords
<1>4. stakes' = [stakes EXCEPT ![r] = s]
  BY <1>1 DEF close, StakeRecords
<1> HIDE DEF s
<1>5. stakes'[r] = s /\ elsewhere(r)
  BY <1>1, <1>3, <1>4 DEF elsewhere
<1>6. validator' = validator
  BY DEF close
<1> QED
  BY <1>3, <1>5, <1>6 DEF closed, isStaked

\* Every transaction to the bond contract, by what it does.
LEMMA BondStepEffect ==
    ASSUME BondIInv, BondStep
    PROVE  \/ UNCHANGED <<stakes, slashCount>> /\ validator' \in Accounts
           \/ \E r \in Specs :
                 /\ elsewhere(r) /\ validator' = validator
                 /\ \/ posted(r) /\ slashCount' = slashCount
                    \/ judged(r) /\ slashCount' = slashCount
                    \/ /\ closed(r) /\ slashCount' = slashCount
                       /\ now >= stakes[r].scoredAt + DisputeWindow
                    \/ /\ closed(r) /\ slashCount' = slashCount + 1
                       /\ delivered(r) /\ lied(r)
<1>1. ASSUME NEW sender \in Accounts, NEW r \in Specs, reclaim(sender, r)
      PROVE  /\ closed(r) /\ elsewhere(r) /\ validator' = validator
             /\ slashCount' = slashCount /\ now >= stakes[r].scoredAt + DisputeWindow
  BY <1>1, CloseEffect DEF reclaim
<1>2. ASSUME NEW r \in Specs, challenge(r)
      PROVE  /\ closed(r) /\ elsewhere(r) /\ validator' = validator
             /\ slashCount' = slashCount + 1 /\ delivered(r) /\ lied(r)
  BY <1>2, CloseEffect DEF challenge
<1>3. ASSUME NEW sender \in Accounts, NEW v \in Accounts \cup {ZeroAddress},
             setValidator(sender, v)
      PROVE  UNCHANGED <<stakes, slashCount>> /\ validator' \in Accounts
  BY <1>3 DEF setValidator
<1> QED
  BY <1>1, <1>2, <1>3, StakeEffect, ScoreEffect, BondStepCases

------------------------------------------------------------------------------
(* The invariant holds. *)

\* The jobs stand still under the bonds, or the other way round.
LEMMA BondNextCases ==
    ASSUME [BondNext]_bondAllVars
    PROVE  \/ JobStep /\ UNCHANGED <<now, validator, stakes, slashCount>>
           \/ BondStep /\ UNCHANGED <<now, jobCount, jobs>>
           \/ now < MaxTime /\ now' = now + 1
              /\ UNCHANGED <<validator, stakes, slashCount, jobCount, jobs>>
           \/ UNCHANGED <<now, validator, stakes, slashCount, jobCount, jobs>>
BY DEF BondNext, NotedJobStep, NextBlock, bondAllVars, bondVars, jobVars

\* A bond knows its job by the number: a job in the place it had, as it was.
LEMMA JobsStandStill ==
    ASSUME UNCHANGED jobs, NEW j
    PROVE  jobAt(j)' = jobAt(j)
BY DEF jobAt

\* Under every step, whoever takes it: the contracts' own users and the loops below.
LEMMA BondStepInv ==
    ASSUME BondIInv, [BondNext]_bondAllVars
    PROVE  BondIInv'
<1> USE DEF BondIInv
<1>1. CASE JobStep /\ UNCHANGED <<now, validator, stakes, slashCount>>
  <2>1. JobsAreNumbered' /\ \A j \in JobIds : jobStands(j)
    BY <1>1, JobStepKeepsJobs
  <2>2. StakesGoForward'
    BY <1>1 DEF StakesGoForward, isStaked
  <2>3. ASSUME NEW j \in JobIds, jobs[j].state # "None"
        PROVE  /\ jobs'[j].state # "None"
               /\ jobs'[j].specHash = jobs[j].specHash
               /\ jobs'[j].provider = jobs[j].provider
               /\ jobs'[j].evaluator = jobs[j].evaluator
    <3>1. jobCount \in Nat
      BY JobAssumption DEF JobsAreNumbered
    <3>2. jobCount' = jobCount \/ jobCount' = jobCount + 1
      BY <1>1, JobStepCases DEF createJob, submit, decide
    <3> QED
      BY <2>1, <2>3, <3>1, <3>2, JobAssumption DEF JobsAreNumbered, jobStands, JobIds
  <2>4. BondIsBoundToItsJob'
    BY <1>1, <2>3 DEF BondIsBoundToItsJob, isStaked, jobAt, NoJob
  <2> QED
    BY <2>1, <2>2, <2>4
<1>2. CASE BondStep /\ UNCHANGED <<now, jobCount, jobs>>
  <2>1. JobsAreNumbered'
    BY <1>2 DEF JobsAreNumbered
  <2>2. CASE UNCHANGED <<stakes, slashCount>> /\ validator' \in Accounts
    BY <1>2, <2>1, <2>2
       DEF StakesGoForward, BondIsBoundToItsJob, isStaked, jobAt
  <2>3. ASSUME NEW r \in Specs, elsewhere(r), validator' = validator,
               slashCount' \in Nat, posted(r) \/ judged(r) \/ closed(r)
        PROVE  BondIInv'
    <3>1. StakesGoForward'
      BY <1>2, <2>3 DEF StakesGoForward, elsewhere, posted, judged, closed, isStaked
    <3>2. ASSUME NEW s \in Specs, isStaked(s)'
          PROVE  LET j == jobAt(stakes'[s].jobId)
                 IN  /\ j.state # "None" /\ j.specHash = s
                     /\ j.provider # j.evaluator /\ stakes'[s].expected # ZeroHash
      <4>1. CASE s # r
        BY <2>3, <3>2, <4>1 DEF elsewhere, BondIsBoundToItsJob, isStaked
      <4>2. CASE s = r /\ posted(r)
        <5>1. jobAt(stakes'[r].jobId).specHash # ZeroHash
          BY <4>2, JobAssumption DEF posted
        <5>2. stakes'[r].jobId \in JobIds
          BY <5>1 DEF jobAt, NoJob
        <5>3. jobs[stakes'[r].jobId].state # "None"
          BY <5>1, <5>2 DEF jobAt, JobsAreNumbered
        <5>4. jobs[stakes'[r].jobId].provider # jobs[stakes'[r].jobId].evaluator
          BY <4>2, <5>2 DEF posted, jobAt
        <5> QED
          BY <4>2, <5>2, <5>3, <5>4 DEF posted, jobAt
      <4>3. CASE s = r /\ (judged(r) \/ closed(r))
        BY <4>3 DEF judged, closed, BondIsBoundToItsJob
      <4> QED
        BY <2>3, <4>1, <4>2, <4>3
    <3> QED
      BY <1>2, <2>1, <3>1, <3>2 DEF BondIsBoundToItsJob, jobAt
  <2>4. slashCount \in Nat
    BY DEF StakesGoForward
  <2> QED
    BY <1>2, <2>2, <2>3, <2>4, BondStepEffect
<1>3. CASE /\ now' \in {now, now + 1}
           /\ UNCHANGED <<validator, stakes, slashCount, jobCount, jobs>>
  BY <1>3 DEF JobsAreNumbered, StakesGoForward, BondIsBoundToItsJob, isStaked, jobAt
<1> QED
  BY <1>1, <1>2, <1>3, BondNextCases

LEMMA BondInitInv == BondInit => BondIInv
<1> SUFFICES ASSUME BondInit PROVE BondIInv
  OBVIOUS
<1>1. NoJob \in JobRecords /\ NoJob.state = "None" /\ NoJob.specHash = ZeroHash
  BY JobAssumption DEF NoJob, JobRecords, States
<1>2. JobsAreNumbered
  BY <1>1, JobAssumption DEF BondInit, JobInit, JobsAreNumbered, JobIds
<1>3. NoStake \in StakeRecords /\ NoStake.stakedAt = 0
      /\ ~NoStake.scored /\ ~NoStake.closed
  BY JobAssumption DEF NoStake, StakeRecords
<1>4. StakesGoForward
  BY <1>3 DEF BondInit, StakesGoForward
<1>5. BondIsBoundToItsJob
  BY <1>3 DEF BondInit, BondIsBoundToItsJob, isStaked
<1> QED
  BY <1>2, <1>4, <1>5 DEF BondIInv

LEMMA BondIInvHolds == BondSpec => []BondIInv
<1>1. BondIInv /\ [BondNext]_bondAllVars => BondIInv'
  BY BondStepInv
<1> QED
  BY <1>1, BondInitInv, PTL DEF BondSpec

------------------------------------------------------------------------------
(* The theorems. *)

\* A bond is attached for good to a job about the same test that its validator
\* judges and somebody else works on.
THEOREM BondStaysBound == BondSpec => []BondIsBoundToItsJob
<1>1. BondIInv => BondIsBoundToItsJob
  BY DEF BondIInv
<1> QED
  BY <1>1, BondIInvHolds, PTL

\* The jobs in the eyes of the bonds: what is delivered stays so, and the same.
LEMMA DeliveredStands ==
    ASSUME BondIInv, [BondNext]_bondAllVars, NEW j
    PROVE  /\ \A i \in JobIds : jobStands(i)
           /\ jobAt(j).state \in {"Submitted", "Completed", "Rejected"} =>
                /\ jobAt(j)'.state \in {"Submitted", "Completed", "Rejected"}
                /\ jobAt(j)'.deliverable = jobAt(j).deliverable
<1>1. \A i \in JobIds : jobStands(i)
  <2>1. CASE JobStep
    BY <2>1, JobStepKeepsJobs DEF BondIInv
  <2>2. CASE UNCHANGED jobs
    BY <2>2 DEF jobStands, isSubmitted
  <2> QED
    BY <2>1, <2>2, BondNextCases
<1> QED
  BY <1>1 DEF jobAt, NoJob, jobStands, isSubmitted

LEMMA VerdictsStand ==
    ASSUME BondIInv, [BondNext]_bondAllVars, NEW r \in Specs
    PROVE  verdictStands(r)
<1>1. stakes[r].closed => stakes[r].scored
  BY DEF BondIInv, StakesGoForward
<1>2. CASE stakes'[r] = stakes[r]
  BY <1>2, DeliveredStands DEF verdictStands, delivered, lied
<1>3. CASE posted(r) \/ judged(r)
  <2>1. ~stakes[r].scored
    BY <1>3 DEF posted, judged, BondIInv, StakesGoForward
  <2> QED
    BY <1>1, <2>1 DEF verdictStands
<1>4. CASE closed(r)
  BY <1>4, DeliveredStands DEF closed, verdictStands, delivered, lied
<1> QED
  BY <1>2, <1>3, <1>4, BondNextCases, BondStepEffect DEF elsewhere

\* Whether a verdict contradicts the deliverable is settled once both are on-chain,
\* however jobs are decided and validators rotated afterwards.
THEOREM BondVerdictsAreFinal == BondSpec => VerdictsAreFinal
<1>1. BondIInv /\ [BondNext]_bondAllVars
        => [(\A r \in Specs : verdictStands(r)) /\ (\A j \in JobIds : jobStands(j))]_bondAllVars
  BY VerdictsStand, DeliveredStands
<1> QED
  BY <1>1, BondIInvHolds, PTL DEF BondSpec, VerdictsAreFinal

\* Before a full window has passed since the verdict, only a slash closes a bond.
THEOREM BondClosesEarlyBySlash == BondSpec => EarlyCloseIsASlash
<1>1. BondIInv /\ [BondNext]_bondAllVars
        => [\A r \in Specs :
              ~stakes[r].closed /\ stakes'[r].closed
                /\ now < stakes[r].scoredAt + DisputeWindow => slashCount' > slashCount]_bondAllVars
  <2> SUFFICES ASSUME BondIInv, [BondNext]_bondAllVars, NEW r \in Specs,
                      ~stakes[r].closed, stakes'[r].closed,
                      now < stakes[r].scoredAt + DisputeWindow
               PROVE  slashCount' > slashCount
    OBVIOUS
  <2>1. /\ now \in Nat /\ slashCount \in Nat /\ DisputeWindow \in Nat
        /\ stakes[r].scoredAt \in Nat
    BY BondAssumption DEF BondIInv, StakesGoForward, StakeRecords
  <2>2. BondStep
    BY BondNextCases
  <2>3. closed(r) => /\ \/ now >= stakes[r].scoredAt + DisputeWindow
                        \/ slashCount' = slashCount + 1
    BY <2>2, BondStepEffect DEF elsewhere, posted, judged, closed
  <2>4. closed(r)
    BY <2>2, BondStepEffect DEF elsewhere, posted, judged
  <2> QED
    BY <2>1, <2>3, <2>4
<1> QED
  BY <1>1, BondIInvHolds, PTL DEF BondSpec, EarlyCloseIsASlash

\* The bonds that a challenge could rightly have taken.
slashable == {r \in Specs : stakes[r].closed /\ delivered(r) /\ lied(r)}

LEMMA SlashableIsFinite == IsFiniteSet(slashable) /\ IsFiniteSet(slashable')
BY BondAssumption, FS_Subset DEF slashable

\* "An honest verdict is unslashable": every slash is one closed verdict more that
\* the deliverables contradict, and no such verdict is ever cleared.
THEOREM OnlyLiarsPay == BondSpec => []OnlyLiesAreSlashed
<1>1. BondInit => OnlyLiesAreSlashed
  <2> SUFFICES ASSUME BondInit PROVE OnlyLiesAreSlashed
    OBVIOUS
  <2>1. slashCount = 0 /\ Cardinality(slashable) \in Nat
    BY SlashableIsFinite, FS_CardinalityType DEF BondInit
  <2> QED
    BY <2>1 DEF OnlyLiesAreSlashed, slashable
<1>2. BondIInv /\ OnlyLiesAreSlashed /\ [BondNext]_bondAllVars => OnlyLiesAreSlashed'
  <2> SUFFICES ASSUME BondIInv, OnlyLiesAreSlashed, [BondNext]_bondAllVars
               PROVE  OnlyLiesAreSlashed'
    OBVIOUS
  <2>1. slashable \subseteq slashable'
    BY VerdictsStand DEF slashable, verdictStands, BondIInv, StakesGoForward
  <2>2. /\ slashCount \in Nat /\ slashCount <= Cardinality(slashable)
        /\ Cardinality(slashable) \in Nat /\ Cardinality(slashable') \in Nat
    BY SlashableIsFinite, FS_CardinalityType
       DEF BondIInv, StakesGoForward, OnlyLiesAreSlashed, slashable
  <2>3. Cardinality(slashable) <= Cardinality(slashable')
    BY <2>1, SlashableIsFinite, FS_Subset
  <2>4. slashCount' <= Cardinality(slashable')
    <3>1. CASE slashCount' = slashCount
      BY <2>2, <2>3, <3>1
    <3>2. ASSUME NEW r \in Specs, closed(r), slashCount' = slashCount + 1,
                 delivered(r), lied(r)
          PROVE  slashCount' <= Cardinality(slashable')
      <4>1. r \notin slashable /\ r \in slashable'
        BY <3>2, VerdictsStand DEF slashable, closed, verdictStands
      <4>2. /\ IsFiniteSet(slashable \cup {r})
            /\ Cardinality(slashable \cup {r}) = Cardinality(slashable) + 1
        BY <4>1, SlashableIsFinite, FS_AddElement
      <4>3. Cardinality(slashable \cup {r}) <= Cardinality(slashable')
        BY <2>1, <4>1, SlashableIsFinite, FS_Subset
      <4> QED
        BY <2>2, <3>2, <4>2, <4>3
    <3> QED
      BY <3>1, <3>2, BondNextCases, BondStepEffect
  <2> QED
    BY <2>4 DEF OnlyLiesAreSlashed, slashable
<1> QED
  BY <1>1, <1>2, BondIInvHolds, PTL DEF BondSpec

------------------------------------------------------------------------------
(* The money: every escrow and every bond is there, and nothing else is. *)

\* One job changes: the escrows change by what it has more or less.
LEMMA EscrowMoves ==
    ASSUME JobTypeOK, jobs' \in [JobIds -> JobRecords], NEW j \in JobIds,
           \A i \in JobIds \ {j} : jobs'[i] = jobs[i]
    PROVE  /\ totalEscrow' = totalEscrow + jobs'[j].escrow - jobs[j].escrow
           /\ totalEscrow \in Nat /\ totalEscrow' \in Nat
           /\ jobs[j].escrow \in Nat /\ jobs'[j].escrow \in Nat
<1> DEFINE f == [i \in JobIds |-> jobs[i].escrow]
           g == [i \in JobIds |-> jobs'[i].escrow]
<1>1. IsFiniteSet(JobIds)
  BY JobAssumption, FS_Interval DEF JobIds
<1>2. \A i \in JobIds : f[i] \in Nat /\ g[i] \in Nat
  BY JobAssumption DEF JobTypeOK, JobRecords
<1>3. \A i \in JobIds \ {j} : g[i] = f[i]
  OBVIOUS
<1>4. totalEscrow = SumFunctionOnSet(f, JobIds) /\ totalEscrow' = SumFunctionOnSet(g, JobIds)
  BY DEF totalEscrow, SumFunction
<1> HIDE DEF f, g
<1>5. /\ SumFunctionOnSet(g, JobIds) = SumFunctionOnSet(f, JobIds) + g[j] - f[j]
      /\ SumFunctionOnSet(f, JobIds) \in Nat /\ SumFunctionOnSet(g, JobIds) \in Nat
  BY <1>1, <1>2, <1>3, SumUpdate, SumNat
<1> QED
  BY <1>2, <1>4, <1>5 DEF f, g

\* Each transaction to the job contract moves one escrow and as much money.
LEMMA JobStepKeepsMoney ==
    ASSUME JobsAreNumbered, JobTypeOK, EscrowIsHeld, JobStep
    PROVE  JobTypeOK' /\ EscrowIsHeld'
<1>1. /\ jobCount \in Nat /\ jobCount <= MaxJobs /\ MaxJobs \in Nat
      /\ jobs \in [JobIds -> JobRecords] /\ jobBalance \in Nat
  BY JobAssumption DEF JobsAreNumbered, JobTypeOK
<1>2. JobsAreNumbered'
  BY JobStepKeepsJobs
<1>3. jobs' \in [JobIds -> JobRecords] /\ jobCount' \in 0 .. MaxJobs
  BY <1>2 DEF JobsAreNumbered
<1>4. ASSUME NEW j \in JobIds, \A i \in JobIds \ {j} : jobs'[i] = jobs[i],
             jobBalance' = jobBalance + jobs'[j].escrow - jobs[j].escrow,
             jobs'[j].escrow > 0 <=> jobs'[j].state \in {"Open", "Submitted"}
      PROVE  JobTypeOK' /\ EscrowIsHeld'
  <2>1. /\ totalEscrow' = totalEscrow + jobs'[j].escrow - jobs[j].escrow
        /\ totalEscrow' \in Nat
    BY <1>3, <1>4, EscrowMoves
  <2>2. jobBalance' = totalEscrow'
    BY <1>4, <2>1 DEF EscrowIsHeld
  <2>3. \A i \in JobIds : jobs'[i].escrow > 0 <=> jobs'[i].state \in {"Open", "Submitted"}
    BY <1>4 DEF EscrowIsHeld
  <2>4. JobTypeOK'
    BY <1>3, <2>1, <2>2 DEF JobTypeOK
  <2> QED
    BY <2>2, <2>3, <2>4 DEF EscrowIsHeld
<1>5. ASSUME NEW sender \in Accounts, NEW p \in Accounts \cup {ZeroAddress},
             NEW e \in Accounts \cup {ZeroAddress}, NEW s \in Specs, NEW v \in Amounts,
             createJob(sender, p, e, s, v)
      PROVE  JobTypeOK' /\ EscrowIsHeld'
  <2>1. v % U96 = v /\ v \in Nat /\ v > 0
    BY <1>5, JobAssumption DEF createJob
  <2>2. jobCount + 1 \in JobIds /\ jobs[jobCount + 1].state = "None"
    BY <1>1, <1>5 DEF createJob, JobIds, JobsAreNumbered
  <2>3. jobs[jobCount + 1].escrow = 0
    BY <1>1, <2>2, JobAssumption DEF EscrowIsHeld, JobRecords
  <2>4. /\ jobs'[jobCount + 1].escrow = v /\ jobs'[jobCount + 1].state = "Open"
        /\ \A i \in JobIds \ {jobCount + 1} : jobs'[i] = jobs[i]
    BY <1>1, <1>5, <2>1, <2>2 DEF createJob
  <2>5. jobBalance' = jobBalance + v
    BY <1>5 DEF createJob
  <2> QED
    BY <1>1, <1>4, <2>1, <2>2, <2>3, <2>4, <2>5
<1>6. ASSUME NEW sender \in Accounts, NEW j \in JobIds,
             NEW d \in Deliverables \cup {ZeroHash}, submit(sender, j, d)
      PROVE  JobTypeOK' /\ EscrowIsHeld'
  <2>1. jobs[j] \in JobRecords /\ jobs[j].state = "Open"
    BY <1>1, <1>6 DEF submit
  <2>2. /\ jobs'[j].escrow = jobs[j].escrow /\ jobs'[j].state = "Submitted"
        /\ \A i \in JobIds \ {j} : jobs'[i] = jobs[i]
    BY <1>1, <1>6, <2>1 DEF submit, JobRecords
  <2>3. jobs[j].escrow \in Nat /\ jobs[j].escrow > 0
    BY <2>1, JobAssumption DEF EscrowIsHeld, JobRecords
  <2>4. jobBalance' = jobBalance + jobs'[j].escrow - jobs[j].escrow
    BY <1>1, <1>6, <2>2, <2>3 DEF submit
  <2> QED
    BY <1>4, <2>2, <2>3, <2>4
<1>7. ASSUME NEW sender \in Accounts, NEW j \in JobIds,
             NEW verdict \in {"Completed", "Rejected"}, decide(sender, j, verdict)
      PROVE  JobTypeOK' /\ EscrowIsHeld'
  <2>1. jobs[j] \in JobRecords
    BY <1>1
  <2>2. /\ jobs'[j].escrow = 0 /\ jobs'[j].state = verdict
        /\ \A i \in JobIds \ {j} : jobs'[i] = jobs[i]
    BY <1>1, <1>7, <2>1 DEF decide, JobRecords
  <2>3. jobs[j].escrow \in Nat /\ jobBalance' = jobBalance - jobs[j].escrow
    BY <1>7, <2>1, JobAssumption DEF decide, JobRecords
  <2> QED
    BY <1>1, <1>4, <2>2, <2>3
<1> QED
  BY <1>5, <1>6, <1>7, JobStepCases

\* Before the first job nothing is owed.
LEMMA NoJobNoMoney == JobInit => JobTypeOK /\ EscrowIsHeld
<1> SUFFICES ASSUME JobInit PROVE JobTypeOK /\ EscrowIsHeld
  OBVIOUS
<1>1. NoJob \in JobRecords /\ NoJob.state = "None" /\ NoJob.escrow = 0
  BY JobAssumption DEF NoJob, JobRecords, States
<1>2. JobTypeOK
  BY <1>1, JobAssumption DEF JobInit, JobTypeOK
<1> DEFINE f == [j \in JobIds |-> jobs[j].escrow]
<1>3. \A j \in JobIds : f[j] = 0
  BY <1>1 DEF JobInit
<1>4. totalEscrow = SumFunctionOnSet(f, JobIds)
  BY DEF totalEscrow, SumFunction
<1>5. totalEscrow = 0
  <2>1. IsFiniteSet(JobIds)
    BY JobAssumption, FS_Interval DEF JobIds
  <2> HIDE DEF f
  <2> QED
    BY <1>3, <1>4, <2>1, SumZero
<1> QED
  BY <1>1, <1>2, <1>5 DEF JobInit, EscrowIsHeld

\* One stake changes: the bonds change by what it has more or less.
bondSum == SumFunction([r \in Specs |-> stakes[r].bond])

LEMMA BondMoves ==
    ASSUME BondTypeOK, NEW r \in Specs, elsewhere(r)
    PROVE  /\ bondSum' = bondSum + stakes'[r].bond - stakes[r].bond
           /\ bondSum \in Nat /\ bondSum' \in Nat
           /\ stakes[r].bond \in Nat /\ stakes'[r].bond \in Nat
<1> DEFINE f == [q \in Specs |-> stakes[q].bond]
           g == [q \in Specs |-> stakes'[q].bond]
<1>1. \A q \in Specs : f[q] \in Nat /\ g[q] \in Nat
  BY JobAssumption DEF BondTypeOK, elsewhere, StakeRecords
<1>2. \A q \in Specs \ {r} : g[q] = f[q]
  BY DEF elsewhere
<1>3. bondSum = SumFunctionOnSet(f, Specs) /\ bondSum' = SumFunctionOnSet(g, Specs)
  BY DEF bondSum, SumFunction
<1> HIDE DEF f, g
<1>4. /\ SumFunctionOnSet(g, Specs) = SumFunctionOnSet(f, Specs) + g[r] - f[r]
      /\ SumFunctionOnSet(f, Specs) \in Nat /\ SumFunctionOnSet(g, Specs) \in Nat
  BY <1>1, <1>2, BondAssumption, SumUpdate, SumNat
<1> QED
  BY <1>1, <1>3, <1>4 DEF f, g

\* What the bond contract owes and has, apart from the jobs.
StakesAreBacked ==
    /\ bondOwner \in Accounts /\ validator \in Accounts
    /\ slashCount \in Nat
    /\ stakes \in [Specs -> StakeRecords]
    /\ totalBonded \in 0 .. U96 - 1
    /\ bondBalance = totalBonded
    /\ totalBonded = bondSum
    /\ \A r \in Specs : stakes[r].bond > 0 <=> isStaked(r) /\ ~stakes[r].closed

\* Each transaction to the bond contract moves one bond, as much money and as much
\* of the total it reports.
LEMMA BondStepKeepsMoney ==
    ASSUME BondIInv, BondTypeOK, StakesAreBacked, BondStep
    PROVE  StakesAreBacked'
<1>1. /\ stakes \in [Specs -> StakeRecords] /\ totalBonded \in Nat /\ totalBonded < U96
      /\ U96 \in Nat /\ slashCount \in Nat /\ now \in Nat \ {0}
  BY JobAssumption DEF BondTypeOK
<1>2. ASSUME NEW r \in Specs, elsewhere(r),
             UNCHANGED <<bondOwner, validator>>, slashCount' \in Nat,
             totalBonded' = totalBonded + stakes'[r].bond - stakes[r].bond,
             bondBalance' = bondBalance + stakes'[r].bond - stakes[r].bond,
             totalBonded' < U96,
             stakes'[r].bond > 0 <=> isStaked(r)' /\ ~stakes'[r].closed
      PROVE  StakesAreBacked'
  <2>1. /\ bondSum' = bondSum + stakes'[r].bond - stakes[r].bond
        /\ bondSum' \in Nat
    BY <1>2, BondMoves
  <2>2. totalBonded' = bondSum' /\ bondBalance' = totalBonded'
    BY <1>2, <2>1 DEF StakesAreBacked
  <2>3. totalBonded' \in 0 .. U96 - 1
    BY <1>1, <1>2, <2>1, <2>2
  <2>4. \A q \in Specs : stakes'[q].bond > 0 <=> isStaked(q)' /\ ~stakes'[q].closed
    BY <1>2 DEF elsewhere, StakesAreBacked, isStaked
  <2>5. stakes' \in [Specs -> StakeRecords]
    BY <1>2 DEF elsewhere
  <2> QED
    BY <1>2, <2>2, <2>3, <2>4, <2>5 DEF StakesAreBacked
<1>3. ASSUME NEW sender \in Accounts, NEW r \in Specs,
             NEW e \in Deliverables \cup {ZeroHash}, NEW j \in 0 .. MaxJobs,
             NEW v \in Amounts, stakeAndCommit(sender, r, e, j, v)
      PROVE  StakesAreBacked'
  <2>1. v % U96 = v /\ v \in Nat /\ v > 0
    BY <1>3, JobAssumption DEF stakeAndCommit
  <2>2. posted(r) /\ elsewhere(r)
    BY <1>3, StakeEffect
  <2>3. stakes[r] \in StakeRecords
    BY <1>1
  <2>4. stakes[r].bond = 0
    <3>1. ~(stakes[r].bond > 0)
      BY <2>2 DEF posted, StakesAreBacked
    <3> QED
      BY <2>3, <3>1, JobAssumption DEF StakeRecords
  <2>5. stakes'[r].bond = v
    BY <1>1, <1>3, <2>1, <2>3 DEF stakeAndCommit, writeStake, StakeRecords
  <2>6. /\ totalBonded' = totalBonded + v /\ bondBalance' = bondBalance + v
        /\ totalBonded + v < U96 /\ UNCHANGED <<bondOwner, validator, slashCount>>
    BY <1>3, <2>1 DEF stakeAndCommit, writeStake
  <2>7. stakes'[r].bond > 0 <=> isStaked(r)' /\ ~stakes'[r].closed
    BY <2>1, <2>2, <2>5 DEF posted
  <2>8. bondBalance \in Nat
    BY DEF BondTypeOK
  <2> QED
    BY <1>1, <1>2, <2>1, <2>2, <2>4, <2>5, <2>6, <2>7, <2>8
<1>4. ASSUME NEW sender \in Accounts, NEW r \in Specs, NEW score \in {0, 100},
             recordScore(sender, r, score)
      PROVE  StakesAreBacked'
  <2>1. judged(r) /\ elsewhere(r)
    BY <1>4, ScoreEffect
  <2>2. stakes[r] \in StakeRecords
    BY <1>1
  <2>3. stakes'[r].bond = stakes[r].bond
    BY <1>1, <1>4, <2>2 DEF recordScore, writeScore, StakeRecords
  <2>4. stakes[r].bond \in Nat /\ bondBalance \in Nat
    BY <2>2, JobAssumption DEF StakeRecords, BondTypeOK
  <2>5. UNCHANGED <<bondOwner, validator, slashCount, totalBonded, bondBalance>>
    BY <1>4 DEF recordScore, writeScore
  <2>6. stakes'[r].bond > 0 <=> isStaked(r)' /\ ~stakes'[r].closed
    BY <2>1, <2>3 DEF judged, StakesAreBacked
  <2> QED
    BY <1>1, <1>2, <2>1, <2>3, <2>4, <2>5, <2>6
<1>5. ASSUME NEW r \in Specs, close(r), isStaked(r), stakes[r].scored,
             ~stakes[r].closed, slashCount' \in Nat
      PROVE  StakesAreBacked'
  <2>1. closed(r) /\ elsewhere(r)
    BY <1>5, CloseEffect
  <2>2. stakes[r] \in StakeRecords
    BY <1>1
  <2>3. stakes'[r].bond = 0
    BY <1>1, <1>5, <2>2 DEF close, StakeRecords
  <2>4. stakes[r].bond \in Nat /\ bondBalance \in Nat
    BY <2>2, JobAssumption DEF StakeRecords, BondTypeOK
  <2>5. /\ totalBonded' = totalBonded - stakes[r].bond
        /\ bondBalance' = bondBalance - stakes[r].bond
        /\ UNCHANGED <<bondOwner, validator>>
    BY <1>5 DEF close
  <2>6. stakes'[r].bond > 0 <=> isStaked(r)' /\ ~stakes'[r].closed
    BY <2>1, <2>3 DEF closed
  <2>7. totalBonded' < U96
    BY <1>1, <2>4, <2>5
  <2> QED
    BY <1>1, <1>2, <1>5, <2>1, <2>3, <2>4, <2>5, <2>6, <2>7
<1>6. ASSUME NEW sender \in Accounts, NEW v \in Accounts \cup {ZeroAddress},
             setValidator(sender, v)
      PROVE  StakesAreBacked'
  <2>1. /\ UNCHANGED <<bondOwner, stakes, totalBonded, slashCount, bondBalance>>
        /\ validator' \in Accounts
    BY <1>6 DEF setValidator
  <2> QED
    BY <2>1 DEF StakesAreBacked, bondSum, isStaked
<1>7. ASSUME NEW sender \in Accounts, NEW r \in Specs, reclaim(sender, r)
      PROVE  StakesAreBacked'
  BY <1>1, <1>5, <1>7 DEF reclaim
<1>8. ASSUME NEW r \in Specs, challenge(r) PROVE StakesAreBacked'
  <2>1. slashCount' \in Nat
    BY <1>1, <1>8 DEF challenge
  <2> QED
    BY <1>5, <1>8, <2>1 DEF challenge
<1> QED
  BY <1>3, <1>4, <1>6, <1>7, <1>8, BondStepCases

\* The types and the money together.
BondMoneyInv == BondTypeOK /\ BondsAreBacked

LEMMA MoneyParts ==
    BondMoneyInv <=> /\ JobTypeOK /\ EscrowIsHeld /\ StakesAreBacked
                     /\ now \in Nat \ {0} /\ submittedAt \in [JobIds -> Nat]
<1>1. BondMoneyInv => StakesAreBacked
  BY DEF BondMoneyInv, BondTypeOK, BondsAreBacked, StakesAreBacked, bondSum
<1>2. StakesAreBacked => bondBalance \in Nat
  BY JobAssumption DEF StakesAreBacked
<1> QED
  BY <1>1, <1>2 DEF BondMoneyInv, BondTypeOK, BondsAreBacked, StakesAreBacked, bondSum

LEMMA MoneyPartsNext ==
    BondMoneyInv' <=> /\ JobTypeOK' /\ EscrowIsHeld' /\ StakesAreBacked'
                      /\ now' \in Nat \ {0} /\ submittedAt' \in [JobIds -> Nat]
<1>1. BondMoneyInv' => StakesAreBacked'
  BY DEF BondMoneyInv, BondTypeOK, BondsAreBacked, StakesAreBacked, bondSum
<1>2. StakesAreBacked' => bondBalance' \in Nat
  BY JobAssumption DEF StakesAreBacked
<1> QED
  BY <1>1, <1>2 DEF BondMoneyInv, BondTypeOK, BondsAreBacked, StakesAreBacked, bondSum

LEMMA BondMoneyHolds == BondSpec => []BondMoneyInv
<1>1. BondInit => BondMoneyInv
  <2> SUFFICES ASSUME BondInit PROVE BondMoneyInv
    OBVIOUS
  <2>1. JobTypeOK /\ EscrowIsHeld
    BY NoJobNoMoney DEF BondInit
  <2>2. /\ NoStake \in StakeRecords /\ NoStake.bond = 0 /\ NoStake.stakedAt = 0
        /\ 0 \in 0 .. U96 - 1
    BY JobAssumption DEF NoStake, StakeRecords
  <2> DEFINE f == [r \in Specs |-> stakes[r].bond]
  <2>3. \A r \in Specs : f[r] = 0
    BY <2>2 DEF BondInit
  <2>4. bondSum = SumFunctionOnSet(f, Specs)
    BY DEF bondSum, SumFunction
  <2>5. bondSum = 0
    <3> HIDE DEF f
    <3> QED
      BY <2>3, <2>4, BondAssumption, SumZero
  <2>6. StakesAreBacked
    BY <2>2, <2>5 DEF BondInit, StakesAreBacked, isStaked
  <2> QED
    BY <2>1, <2>6, MoneyParts DEF BondInit
<1>2. BondIInv /\ BondMoneyInv /\ [BondNext]_bondAllVars => BondMoneyInv'
  <2> SUFFICES ASSUME BondIInv, BondMoneyInv, [BondNext]_bondAllVars PROVE BondMoneyInv'
    OBVIOUS
  <2>1. /\ JobTypeOK /\ EscrowIsHeld /\ StakesAreBacked /\ BondTypeOK /\ JobsAreNumbered
        /\ now \in Nat \ {0} /\ submittedAt \in [JobIds -> Nat]
    BY MoneyParts DEF BondMoneyInv, BondIInv
  <2>2. CASE NotedJobStep /\ UNCHANGED <<now, bondVars>>
    <3>1. JobTypeOK' /\ EscrowIsHeld'
      BY <2>1, <2>2, JobStepKeepsMoney DEF NotedJobStep
    <3>2. StakesAreBacked'
      BY <2>1, <2>2 DEF bondVars, StakesAreBacked, bondSum, isStaked
    <3>3. submittedAt' \in [JobIds -> Nat]
      BY <2>1, <2>2 DEF NotedJobStep, noteSubmission
    <3> QED
      BY <2>1, <2>2, <3>1, <3>2, <3>3, MoneyPartsNext
  <2>3. CASE BondStep /\ UNCHANGED <<now, jobVars, submittedAt>>
    <3>1. JobTypeOK' /\ EscrowIsHeld'
      BY <2>1, <2>3 DEF jobVars, JobTypeOK, EscrowIsHeld, totalEscrow
    <3>2. StakesAreBacked'
      BY <2>1, <2>3, BondStepKeepsMoney
    <3> QED
      BY <2>1, <2>3, <3>1, <3>2, MoneyPartsNext
  <2>4. CASE now' \in {now, now + 1} /\ UNCHANGED <<jobVars, submittedAt, bondVars>>
    <3>1. JobTypeOK' /\ EscrowIsHeld'
      BY <2>1, <2>4 DEF jobVars, JobTypeOK, EscrowIsHeld, totalEscrow
    <3>2. StakesAreBacked'
      BY <2>1, <2>4 DEF bondVars, StakesAreBacked, bondSum, isStaked
    <3> QED
      BY <2>1, <2>4, <3>1, <3>2, MoneyPartsNext
  <2> QED
    BY <2>2, <2>3, <2>4 DEF BondNext, NextBlock, bondAllVars
<1> QED
  BY <1>1, <1>2, BondIInvHolds, PTL DEF BondSpec

\* Jobs and bonds are well formed, each contract holds what it owes, and no bond is on
\* a job that is not its own.
THEOREM BondHonest == BondSpec => []BondInv
<1>1. BondIInv /\ BondMoneyInv => BondInv
  BY DEF BondIInv, BondMoneyInv, BondInv
<1> QED
  BY <1>1, BondIInvHolds, BondMoneyHolds, PTL

\* Nobody's money is anybody else's: each contract holds exactly what its undecided
\* jobs or its open stakes are owed, so no escrow and no bond is paid out twice.
THEOREM BondMoneyIsThere == BondSpec => []BondsAreBacked
<1>1. BondMoneyInv => BondsAreBacked
  BY DEF BondMoneyInv
<1> QED
  BY <1>1, BondMoneyHolds, PTL
------------------------------------------------------------------------------
(* Both contracts hold money in trust. *)

\* No amount is cut off.
LEMMA WholeAmounts == \A v \in Amounts : v % U96 = v /\ v \in Nat
BY JobAssumption

\* A transaction to the job contract takes the money of a new job, pays out that of a
\* decided one, or moves none.
LEMMA JobStepInTrust ==
    ASSUME JobsAreNumbered, JobStep
    PROVE  [Escrows!TrustNext]_(Escrows!trustVars)
<1> DEFINE phase == [j \in JobIds |-> EscrowPhase(j)]
           escrows == [j \in JobIds |-> jobs[j].escrow]
<1>1. jobs \in [JobIds -> JobRecords] /\ jobCount \in Nat /\ MaxJobs \in Nat
  BY JobAssumption DEF JobsAreNumbered
<1>2. ASSUME NEW n \in JobIds, NEW job, jobs' = [jobs EXCEPT ![n] = job],
             NEW p, \/ job.state \in {"Open", "Submitted"} /\ p = "held"
                    \/ job.state \in {"Completed", "Rejected"} /\ p = "paid"
      PROVE  /\ phase' = [phase EXCEPT ![n] = p]
             /\ escrows' = [escrows EXCEPT ![n] = job.escrow]
  <2>1. jobs'[n] = job /\ \A i \in JobIds \ {n} : jobs'[i] = jobs[i]
    BY <1>1, <1>2
  <2>2. EscrowPhase(n)' = p /\ \A i \in JobIds \ {n} : EscrowPhase(i)' = EscrowPhase(i)
    BY <1>2, <2>1 DEF EscrowPhase
  <2> QED
    BY <2>1, <2>2
<1>3. ASSUME NEW sender \in Accounts, NEW p \in Accounts \cup {ZeroAddress},
             NEW e \in Accounts \cup {ZeroAddress}, NEW s \in Specs, NEW v \in Amounts,
             createJob(sender, p, e, s, v)
      PROVE  Escrows!TrustNext
  <2> DEFINE job == [client |-> sender, provider |-> p, evaluator |-> e,
                     escrow |-> v % U96, specHash |-> s, deliverable |-> ZeroHash,
                     state |-> "Open"]
             n == jobCount + 1
  <2>1. n \in JobIds /\ jobs[n].state = "None"
    BY <1>1, <1>3 DEF createJob, JobIds, JobsAreNumbered
  <2>2. job.escrow = v /\ job.state = "Open"
    BY WholeAmounts
  <2>3. jobs' = [jobs EXCEPT ![n] = job] /\ jobBalance' = jobBalance + v
    BY <1>3 DEF createJob
  <2> HIDE DEF job, n
  <2>4. /\ phase' = [phase EXCEPT ![n] = "held"] /\ escrows' = [escrows EXCEPT ![n] = v]
    <3>1. phase' = [phase EXCEPT ![n] = "held"] /\ escrows' = [escrows EXCEPT ![n] = job.escrow]
      <4> HIDE DEF phase, escrows
      <4> QED
        BY <1>2, <2>1, <2>2, <2>3
    <3> QED
      BY <2>2, <3>1
  <2>5. phase[n] = "none"
    BY <2>1 DEF EscrowPhase
  <2> QED
    BY <2>1, <2>3, <2>4, <2>5 DEF Escrows!TrustNext, Escrows!Take
<1>4. ASSUME NEW sender \in Accounts, NEW i \in JobIds,
             NEW d \in Deliverables \cup {ZeroHash}, submit(sender, i, d)
      PROVE  UNCHANGED Escrows!trustVars
  <2> DEFINE job == [jobs[i] EXCEPT !.deliverable = d, !.state = "Submitted"]
  <2>1. jobs[i] \in JobRecords /\ jobs[i].state = "Open"
    BY <1>1, <1>4 DEF submit
  <2>2. job.state = "Submitted" /\ job.escrow = jobs[i].escrow
    BY <2>1 DEF JobRecords
  <2>3. jobs' = [jobs EXCEPT ![i] = job] /\ jobBalance' = jobBalance
    BY <1>1, <1>4, <2>1 DEF submit, JobRecords
  <2> HIDE DEF job
  <2>4. jobs'[i] = job /\ \A j \in JobIds \ {i} : jobs'[j] = jobs[j]
    BY <1>1, <2>3
  <2>5. \A j \in JobIds : EscrowPhase(j)' = EscrowPhase(j) /\ jobs'[j].escrow = jobs[j].escrow
    BY <2>1, <2>2, <2>4 DEF EscrowPhase
  <2> QED
    BY <2>3, <2>5 DEF Escrows!trustVars
<1>5. ASSUME NEW sender \in Accounts, NEW i \in JobIds,
             NEW verdict \in {"Completed", "Rejected"}, decide(sender, i, verdict)
      PROVE  Escrows!TrustNext
  <2> DEFINE job == [jobs[i] EXCEPT !.escrow = 0, !.state = verdict]
  <2>1. jobs[i] \in JobRecords /\ jobs[i].state = "Submitted"
    BY <1>1, <1>5 DEF decide
  <2>2. job.state = verdict /\ job.escrow = 0
    BY <2>1 DEF JobRecords
  <2>3. jobs' = [jobs EXCEPT ![i] = job] /\ jobBalance' = jobBalance - jobs[i].escrow
    BY <1>1, <1>5, <2>1 DEF decide, JobRecords
  <2> HIDE DEF job
  <2>4. phase' = [phase EXCEPT ![i] = "paid"] /\ escrows' = [escrows EXCEPT ![i] = 0]
    BY <1>2, <2>1, <2>2, <2>3
  <2>5. phase[i] = "held" /\ escrows[i] = jobs[i].escrow
    BY <2>1 DEF EscrowPhase
  <2> QED
    BY <2>3, <2>4, <2>5 DEF Escrows!TrustNext, Escrows!PayOut
<1> QED
  BY <1>3, <1>4, <1>5, JobStepCases

\* A transaction to the bond contract takes a bond, pays one out, or moves none.
LEMMA BondStepInTrust ==
    ASSUME BondIInv, BondStep
    PROVE  [Stakes!TrustNext]_(Stakes!trustVars)
<1> DEFINE phase == [r \in Specs |-> StakePhase(r)]
           staked == [r \in Specs |-> stakes[r].bond]
<1>1. /\ stakes \in [Specs -> StakeRecords] /\ now \in Nat \ {0}
      /\ \A r \in Specs : /\ stakes[r].scored => isStaked(r)
                          /\ stakes[r].closed => stakes[r].scored
  BY DEF BondIInv, StakesGoForward
<1>2. ASSUME NEW r \in Specs, NEW s, stakes' = [stakes EXCEPT ![r] = s],
             NEW p, \/ s.closed /\ p = "paid"
                    \/ ~s.closed /\ s.stakedAt # 0 /\ p = "held"
      PROVE  /\ phase' = [phase EXCEPT ![r] = p]
             /\ staked' = [staked EXCEPT ![r] = s.bond]
  <2>1. stakes'[r] = s /\ \A q \in Specs \ {r} : stakes'[q] = stakes[q]
    BY <1>1, <1>2
  <2>2. StakePhase(r)' = p
    <3>1. CASE s.closed /\ p = "paid"
      BY <2>1, <3>1 DEF StakePhase
    <3>2. CASE ~s.closed /\ s.stakedAt # 0 /\ p = "held"
      BY <2>1, <3>2 DEF StakePhase, isStaked
    <3> QED
      BY <1>2, <3>1, <3>2
  <2>3. \A q \in Specs \ {r} : StakePhase(q)' = StakePhase(q)
    BY <2>1 DEF StakePhase, isStaked
  <2> QED
    BY <2>1, <2>2, <2>3
<1>3. ASSUME NEW sender \in Accounts, NEW r \in Specs,
             NEW e \in Deliverables \cup {ZeroHash}, NEW j \in 0 .. MaxJobs,
             NEW v \in Amounts, stakeAndCommit(sender, r, e, j, v)
      PROVE  Stakes!TrustNext
  <2> DEFINE s == [stakes[r] EXCEPT !.expected = e, !.bond = v % U96,
                                    !.stakedAt = now, !.jobId = j]
  <2>1. stakes[r] \in StakeRecords /\ ~isStaked(r) /\ ~stakes[r].closed
    BY <1>1, <1>3 DEF stakeAndCommit
  <2>2. s.bond = v /\ s.stakedAt = now /\ ~s.closed
    BY <2>1, WholeAmounts DEF StakeRecords
  <2>3. stakes' = [stakes EXCEPT ![r] = s] /\ bondBalance' = bondBalance + v
    BY <1>1, <1>3, <2>1 DEF stakeAndCommit, writeStake, StakeRecords
  <2> HIDE DEF s
  <2>4. /\ phase' = [phase EXCEPT ![r] = "held"] /\ staked' = [staked EXCEPT ![r] = v]
    BY <1>1, <1>2, <2>2, <2>3
  <2>5. phase[r] = "none"
    BY <2>1 DEF StakePhase
  <2> QED
    BY <2>3, <2>4, <2>5 DEF Stakes!TrustNext, Stakes!Take
<1>4. ASSUME NEW sender \in Accounts, NEW r \in Specs, NEW score \in {0, 100},
             recordScore(sender, r, score)
      PROVE  UNCHANGED Stakes!trustVars
  <2> DEFINE s == [stakes[r] EXCEPT !.score = score, !.scored = TRUE, !.scoredAt = now]
  <2>1. stakes[r] \in StakeRecords /\ isStaked(r) /\ ~stakes[r].closed
    BY <1>1, <1>4 DEF recordScore
  <2>2. s.bond = stakes[r].bond /\ s.stakedAt = stakes[r].stakedAt /\ ~s.closed
    BY <2>1 DEF StakeRecords
  <2>3. stakes' = [stakes EXCEPT ![r] = s] /\ bondBalance' = bondBalance
    BY <1>1, <1>4, <2>1 DEF recordScore, writeScore, StakeRecords
  <2> HIDE DEF s
  <2>4. phase' = [phase EXCEPT ![r] = "held"] /\ staked' = [staked EXCEPT ![r] = s.bond]
    BY <1>2, <2>1, <2>2, <2>3 DEF isStaked
  <2>5. phase[r] = "held" /\ staked[r] = s.bond
    BY <2>1, <2>2 DEF StakePhase
  <2>6. /\ phase = [q \in Specs |-> phase[q]] /\ staked = [q \in Specs |-> staked[q]]
    OBVIOUS
  <2> HIDE DEF phase, staked
  <2>7. phase' = phase /\ staked' = staked
    BY <2>4, <2>5, <2>6
  <2> USE DEF phase, staked
  <2> QED
    BY <2>3, <2>7 DEF Stakes!trustVars
<1>5. ASSUME NEW r \in Specs, isStaked(r), ~stakes[r].closed, close(r)
      PROVE  Stakes!TrustNext
  <2> DEFINE s == [stakes[r] EXCEPT !.closed = TRUE, !.bond = 0]
  <2>1. stakes \in [Specs -> StakeRecords] /\ stakes[r] \in StakeRecords /\ close(r)
    BY <1>1, <1>5
  <2>2. s.bond = 0 /\ s.closed
    BY <2>1 DEF StakeRecords
  <2>3. stakes' = [stakes EXCEPT ![r] = s]
    BY <2>1 DEF close, StakeRecords
  <2>4. bondBalance' = bondBalance - stakes[r].bond
    BY <2>1 DEF close
  <2> HIDE DEF s
  <2>5. phase' = [phase EXCEPT ![r] = "paid"] /\ staked' = [staked EXCEPT ![r] = 0]
    BY <1>2, <2>2, <2>3
  <2>6. phase[r] = "held" /\ staked[r] = stakes[r].bond
    BY <1>5 DEF StakePhase
  <2> QED
    BY <2>4, <2>5, <2>6 DEF Stakes!TrustNext, Stakes!PayOut
<1>6. ASSUME UNCHANGED <<stakes, bondBalance>> PROVE UNCHANGED Stakes!trustVars
  BY <1>6 DEF Stakes!trustVars, StakePhase, isStaked
<1> QED
  BY <1>3, <1>4, <1>5, <1>6, BondStepCases DEF reclaim, challenge, setValidator

\* Every escrow and every bond is taken once, kept whole and paid out once, whatever
\* the jobs, the verdicts and the validators come to.
THEOREM BondHoldsInTrust == BondSpec => HoldsInTrust
<1>1. BondInit => Escrows!TrustInit /\ Stakes!TrustInit
  BY DEF BondInit, JobInit, NoJob, NoStake, EscrowPhase, StakePhase, isStaked,
         Escrows!TrustInit, Stakes!TrustInit
<1>2. BondIInv /\ [BondNext]_bondAllVars =>
         [Escrows!TrustNext]_(Escrows!trustVars) /\ [Stakes!TrustNext]_(Stakes!trustVars)
  <2> SUFFICES ASSUME BondIInv, [BondNext]_bondAllVars
               PROVE  /\ [Escrows!TrustNext]_(Escrows!trustVars)
                      /\ [Stakes!TrustNext]_(Stakes!trustVars)
    OBVIOUS
  <2>1. UNCHANGED jobVars => UNCHANGED Escrows!trustVars
    BY DEF jobVars, Escrows!trustVars, EscrowPhase
  <2>2. UNCHANGED bondVars => UNCHANGED Stakes!trustVars
    BY DEF bondVars, Stakes!trustVars, StakePhase, isStaked
  <2>3. CASE JobStep /\ UNCHANGED bondVars
    BY <2>2, <2>3, JobStepInTrust DEF BondIInv
  <2>4. CASE BondStep /\ UNCHANGED jobVars
    BY <2>1, <2>4, BondStepInTrust
  <2> QED
    BY <2>1, <2>2, <2>3, <2>4 DEF BondNext, NotedJobStep, bondAllVars
<1> QED
  BY <1>1, <1>2, BondIInvHolds, PTL DEF BondSpec, HoldsInTrust, Escrows!TrustSpec, Stakes!TrustSpec

\* The bond contract and its users are users of the job contract like any other: what
\* AgentJob promises it promises beside them.
THEOREM BondUsesTheJobs == BondSpec => JobSpec
<1>1. BondInit => JobInit
  BY DEF BondInit
<1>2. [BondNext]_bondAllVars => [JobStep]_jobVars
  BY DEF BondNext, NotedJobStep, bondAllVars
<1> QED
  BY <1>1, <1>2, PTL DEF BondSpec, JobSpec

------------------------------------------------------------------------------
(* LiveLoop: what the steps of a loop have done. *)

\* One wallet holds both contracts, and no call of the loops hands them over.
Seats ==
    /\ bondOwner = Wallet /\ validator = Wallet
    /\ registryOwner = Wallet /\ registryValidator = Wallet

registryTyped == ValidationRegistry!ValidatorTypeOK
isRequested(r) == ValidationRegistry!isRequested(r)
isValidated(r) == ValidationRegistry!isValidated(r)

\* Before its step k + 1 a loop about r, whose job is j, can rely on what its first k
\* steps did, whoever else has moved since.
DoneUpTo(k, r, j) ==
    /\ k >= 1 => isRequested(r)
    /\ k >= 2 => j \in JobIds /\ jobs[j].client = Wallet /\ jobs[j].specHash = r
    /\ k >= 3 => isStaked(r)
    /\ k >= 4 => isSubmitted(j)
    /\ k >= 5 => isValidated(r)
    /\ k >= 6 => stakes[r].scored
    /\ k >= 7 => jobs[j].state = "Completed"
    /\ k >= 8 => payments[r] >= 1

\* A client's work on a job: good, or garbage.
holdsWork(d, good, j) ==
    /\ j \in JobIds /\ isSubmitted(j) /\ jobs[j].provider = DemoWallet
    /\ jobs[j].deliverable = IF good THEN Want[d] ELSE Garbage

\* On the mainnet the wallet's jobs are the derived key's, carry the bytes the signal
\* is the hash of and are paid after the verdict, and no other job is decided by the
\* wallet; on the testnet the demos' wallet decides by what it delivered itself.
jobIsApart(j) ==
    /\ network = "mainnet" /\ jobs[j].client = Wallet /\ jobs[j].state # "None" =>
          /\ jobs[j].specHash \in Specs
          /\ jobs[j].provider = ProviderWallet /\ jobs[j].evaluator = Wallet
          /\ isSubmitted(j) => jobs[j].deliverable = Sha256[jobs[j].specHash]
          /\ jobs[j].state # "Rejected"
          /\ jobs[j].state = "Completed" => DoneUpTo(6, jobs[j].specHash, j)
    /\ network = "mainnet" /\ jobs[j].client # Wallet /\ jobs[j].evaluator = Wallet =>
          jobs[j].state \notin {"Completed", "Rejected"}
    /\ network = "testnet" /\ jobs[j].evaluator = DemoWallet
          /\ jobs[j].state \in {"Completed", "Rejected"} =>
             /\ jobs[j].provider = DemoWallet
             /\ jobs[j].state = "Completed" <=> jobs[j].deliverable # Garbage

JobsAreApart == \A j \in JobIds : jobIsApart(j)

\* Both registries hold only verdicts that are the right ones, and the bonds hang on
\* the wallet's own jobs.
VerdictsArePass ==
    /\ slashCount = 0
    /\ \A r \in Specs :
          /\ isStaked(r) => /\ network = "mainnet" /\ stakes[r].expected = Sha256[r]
                            /\ jobAt(stakes[r].jobId).client = Wallet
          /\ stakes[r].scored => stakes[r].score = 100
          /\ isValidated(r) => validation[r].response = 100

\* A call on its way was due when it was sent, and still is.
CallIsDue(c) ==
    /\ c.by \in Loops => /\ network = "mainnet"
                         /\ \E k \in 1 .. 8 : c.step = Steps[k] /\ DoneUpTo(k - 1, c.r, c.job)
    /\ c.by \in Demos => /\ network = "testnet" /\ c.r = DemoSpec[c.by]
                         /\ c.step \in {"createJob", "submit", "complete", "reject"}
                         /\ demo[c.by].at # "idle"
                         /\ c.step = "complete" =>
                               demo[c.by].good /\ holdsWork(c.by, TRUE, c.job)
                         /\ c.step = "reject" =>
                               ~demo[c.by].good /\ holdsWork(c.by, FALSE, c.job)
    /\ c.step \in {"submit", "complete", "reject"} => c.job \in JobIds

\* Loop l with progress p has on its wire w the call its progress names, and what the
\* steps before it did still stands.
loopIs(l, w, p) ==
    /\ p.at # "idle" => network = "mainnet"
    /\ w.at # "quiet" => p.at = "busy"
    /\ w.at \in {"send", "wait"} =>
          w.call = [step |-> Steps[p.k], r |-> p.r, job |-> p.job, by |-> l]
    /\ p.at = "busy" => DoneUpTo(p.k - 1, p.r, p.job)
    /\ w.at = "ok" => DoneUpTo(p.k, p.r, w.log)
    /\ p.at = "done" => \E j \in JobIds : DoneUpTo(8, p.r, j)

stepOf(p) ==
    CASE p.at = "createJob" -> "createJob"
      [] p.at = "submit" -> "submit"
      [] OTHER -> IF p.good THEN "complete" ELSE "reject"

\* A demo's own job is there once its creation is answered, at or below the id it read,
\* and its work is on the job with that id before it decides.
demoIs(d, w, p) ==
    /\ p.at # "idle" => network = "testnet"
    /\ w.at # "quiet" => p.at \in {"createJob", "submit", "decide"}
    /\ w.at \in {"send", "wait"} =>
          w.call = [step |-> stepOf(p), r |-> DemoSpec[d], job |-> p.job, by |-> d]
    /\ p.at = "createJob" /\ w.at = "ok" => \E j \in JobIds : ownJob(d, j)
    /\ p.at \in {"submit", "decide", "done"} =>
          \E j \in JobIds : j \in 1 .. p.job /\ ownJob(d, j)
    /\ p.at = "decide" \/ (p.at = "submit" /\ w.at = "ok") => holdsWork(d, p.good, p.job)

LoopFacts(l) == loopIs(l, wire[l], loop[l])
DemoFacts(d) == demoIs(d, wire[d], demo[d])

LoopParts ==
    /\ network \in {"mainnet", "testnet"}
    /\ wire \in [Clients -> WireStates(Calls, 0 .. MaxJobs)]
    /\ mempool \in Seq(Accepted(Calls))
    /\ faults \in 0 .. MaxFaults
    /\ loop \in [Loops -> LoopStates]
    /\ demo \in [Demos -> DemoStates]
    /\ receipts \in SUBSET Specs
    /\ sweep \in SweepStates

ContractsInv ==
    /\ BondIInv
    /\ submittedAt \in [JobIds -> Nat]
    /\ registryTyped
    /\ payments \in [Specs -> Nat]
    /\ Seats /\ JobsAreApart /\ VerdictsArePass

\* Every call on its way is due.
CallsAreDue == \A i \in DOMAIN mempool : CallIsDue(mempool[i].call)

ClientsInv ==
    /\ LoopParts /\ CallsAreDue
    /\ \A l \in Loops : LoopFacts(l)
    /\ \A d \in Demos : DemoFacts(d)

LoopIInv == ContractsInv /\ ClientsInv
------------------------------------------------------------------------------
(* What a mined call does. *)

LEMMA LoopSeats ==
    /\ Wallet \in Accounts /\ ProviderWallet \in Accounts /\ DemoWallet \in Accounts
    /\ Wallet # ProviderWallet
    /\ ZeroAddress \notin Accounts
    /\ Clients = Loops \cup Demos /\ Loops \cap Demos = {}
    /\ ZeroHash \notin Specs
    /\ \A r \in Specs : Sha256[r] \in Deliverables
    /\ \A d \in Demos : /\ DemoSpec[d] \in Specs
                        /\ Want[d] \in Deliverables /\ Want[d] # Garbage
    /\ Garbage \in Deliverables
    /\ Escrow \in Amounts /\ Bond \in Amounts
BY LoopAssumption, JobAssumption

LEMMA StepNames ==
    /\ Len(Steps) = 8
    /\ Steps[1] = "validationRequest" /\ Steps[2] = "createJob"
    /\ Steps[3] = "stakeAndCommit" /\ Steps[4] = "submit"
    /\ Steps[5] = "validationResponse" /\ Steps[6] = "recordScore"
    /\ Steps[7] = "complete" /\ Steps[8] = "payForRoute"
    /\ Range(Steps) = {Steps[k] : k \in 1 .. 8}
<1>1. DOMAIN Steps = 1 .. 8
  BY DEF Steps
<1> QED
  BY <1>1 DEF Steps, Range

\* A call's step gives its place in the loop.
LEMMA StepPlaces ==
    ASSUME NEW k \in 1 .. 8
    PROVE  /\ Steps[k] = "validationRequest" <=> k = 1
           /\ Steps[k] = "createJob" <=> k = 2
           /\ Steps[k] = "stakeAndCommit" <=> k = 3
           /\ Steps[k] = "submit" <=> k = 4
           /\ Steps[k] = "validationResponse" <=> k = 5
           /\ Steps[k] = "recordScore" <=> k = 6
           /\ Steps[k] = "complete" <=> k = 7
           /\ Steps[k] = "payForRoute" <=> k = 8
           /\ Steps[k] # "reject"
<1>1. k = 1 \/ k = 2 \/ k = 3 \/ k = 4 \/ k = 5 \/ k = 6 \/ k = 7 \/ k = 8
  OBVIOUS
<1> QED
  BY <1>1, StepNames

LEMMA StepsDiffer ==
    ASSUME NEW k \in 1 .. 8, NEW m \in 1 .. 8, Steps[k] = Steps[m]
    PROVE  k = m
<1>1. /\ Steps[k] = "validationRequest" <=> k = 1
      /\ Steps[k] = "createJob" <=> k = 2
      /\ Steps[k] = "stakeAndCommit" <=> k = 3
      /\ Steps[k] = "submit" <=> k = 4
      /\ Steps[k] = "validationResponse" <=> k = 5
      /\ Steps[k] = "recordScore" <=> k = 6
      /\ Steps[k] = "complete" <=> k = 7
      /\ Steps[k] = "payForRoute" <=> k = 8
  BY StepPlaces
<1>2. m = 1 \/ m = 2 \/ m = 3 \/ m = 4 \/ m = 5 \/ m = 6 \/ m = 7 \/ m = 8
  OBVIOUS
<1>3. /\ (m = 1 => k = 1) /\ (m = 2 => k = 2) /\ (m = 3 => k = 3) /\ (m = 4 => k = 4)
      /\ (m = 5 => k = 5) /\ (m = 6 => k = 6) /\ (m = 7 => k = 7) /\ (m = 8 => k = 8)
  BY <1>1, StepNames
<1> QED
  BY <1>2, <1>3

LEMMA CallIs ==
    ASSUME NEW c \in Calls
    PROVE  /\ c.r \in Specs /\ c.job \in 0 .. MaxJobs /\ c.by \in Clients
           /\ c.by \in Loops <=> c.by \notin Demos
           /\ walletOf(c) \in Accounts
           /\ c.by \in Demos => walletOf(c) = DemoWallet
           /\ c.by \in Loops /\ c.step = "submit" => walletOf(c) = ProviderWallet
           /\ c.by \in Loops /\ c.step # "submit" => walletOf(c) = Wallet
BY LoopSeats DEF Calls, walletOf

\* What became of job j, and by which call.
jobMade(c, j) ==
    /\ c.step = "createJob" /\ j = jobCount + 1 /\ jobCount' = j
    /\ jobs[j].state = "None" /\ jobs'[j].state = "Open" /\ jobs'[j].specHash = c.r
    /\ c.by \in Loops => /\ jobs'[j].client = Wallet /\ jobs'[j].provider = ProviderWallet
                         /\ jobs'[j].evaluator = Wallet
    /\ c.by \in Demos => jobs'[j].client = DemoWallet

sameParties(j) ==
    /\ jobs'[j].client = jobs[j].client
    /\ jobs'[j].provider = jobs[j].provider /\ jobs'[j].evaluator = jobs[j].evaluator
    /\ jobs'[j].specHash = jobs[j].specHash

jobSubmitted(c, j) ==
    /\ c.step = "submit" /\ j = c.job /\ jobCount' = jobCount
    /\ jobs[j].provider = walletOf(c) /\ jobs[j].state = "Open"
    /\ jobs'[j].state = "Submitted"
    /\ jobs'[j].deliverable = IF c.by \in Demos THEN work(c.by) ELSE Sha256[c.r]
    /\ sameParties(j)

jobDecided(c, j) ==
    /\ c.step \in {"complete", "reject"} /\ j = c.job /\ jobCount' = jobCount
    /\ jobs[j].evaluator = walletOf(c) /\ jobs[j].state = "Submitted"
    /\ jobs'[j].state = IF c.step = "complete" THEN "Completed" ELSE "Rejected"
    /\ jobs'[j].deliverable = jobs[j].deliverable
    /\ sameParties(j)

LEMMA JobCallEffect ==
    ASSUME BondIInv, NEW c \in Calls, jobCall(c),
           c.step \in {"submit", "complete", "reject"} => c.job \in JobIds
    PROVE  /\ \E j \in JobIds :
                 /\ \A i \in JobIds \ {j} : jobs'[i] = jobs[i]
                 /\ jobMade(c, j) \/ jobSubmitted(c, j) \/ jobDecided(c, j)
           /\ JobStep
<1>1. /\ jobs \in [JobIds -> JobRecords] /\ jobCount \in Nat /\ MaxJobs \in Nat
      /\ \A j \in JobIds : jobs[j].state = "None" <=> j > jobCount
  BY JobAssumption DEF BondIInv, JobsAreNumbered
<1>2. /\ c.r \in Specs /\ c.by \in Clients /\ walletOf(c) \in Accounts
      /\ c.by \in Loops <=> c.by \notin Demos
  BY CallIs
<1>3. ASSUME NEW a \in Accounts, NEW p \in Accounts, NEW e \in Accounts,
             c.step = "createJob", createJob(a, p, e, c.r, Escrow),
             c.by \in Loops => a = Wallet /\ p = ProviderWallet /\ e = Wallet,
             c.by \in Demos => a = DemoWallet
      PROVE  /\ \E j \in JobIds : /\ \A i \in JobIds \ {j} : jobs'[i] = jobs[i]
                                  /\ jobMade(c, j)
             /\ JobStep
  <2>1. jobCount + 1 \in JobIds
    BY <1>1, <1>3 DEF createJob, JobIds
  <2>2. /\ jobs'[jobCount + 1].state = "Open" /\ jobs'[jobCount + 1].specHash = c.r
        /\ jobs'[jobCount + 1].client = a /\ jobs'[jobCount + 1].provider = p /\ jobs'[jobCount + 1].evaluator = e
        /\ jobCount' = jobCount + 1
        /\ \A i \in JobIds \ {jobCount + 1} : jobs'[i] = jobs[i]
    BY <1>1, <1>3, <2>1 DEF createJob
  <2>3. jobs[jobCount + 1].state = "None"
    BY <1>1, <2>1
  <2>4. JobStep
    BY <1>2, <1>3, LoopSeats DEF JobStep
  <2> QED
    BY <1>3, <2>1, <2>2, <2>3, <2>4 DEF jobMade
<1>4. ASSUME c.step = "createJob"
      PROVE  \/ c.by \in Loops /\ createJob(Wallet, ProviderWallet, Wallet, c.r, Escrow)
             \/ c.by \in Demos /\ createJob(DemoWallet, DemoWallet, DemoWallet, c.r, Escrow)
  BY <1>4 DEF jobCall
<1> DEFINE delivery == IF c.by \in Demos THEN work(c.by) ELSE Sha256[c.r]
<1>d. delivery \in Deliverables
  BY <1>2, LoopSeats DEF work
<1>5. ASSUME c.step = "submit", c.job \in JobIds, submit(walletOf(c), c.job, delivery)
      PROVE  /\ \E j \in JobIds : /\ \A i \in JobIds \ {j} : jobs'[i] = jobs[i]
                                  /\ jobSubmitted(c, j)
             /\ JobStep
  <2>1. jobs[c.job] \in JobRecords
    BY <1>1, <1>5
  <2>2. /\ jobs'[c.job].state = "Submitted" /\ jobs'[c.job].deliverable = delivery
        /\ sameParties(c.job) /\ jobCount' = jobCount
        /\ \A i \in JobIds \ {c.job} : jobs'[i] = jobs[i]
    BY <1>1, <1>5, <2>1 DEF submit, JobRecords, sameParties
  <2>3. JobStep
    BY <1>2, <1>5, <1>d DEF JobStep
  <2> QED
    BY <1>5, <2>2, <2>3 DEF jobSubmitted, submit
<1>6. ASSUME c.step \in {"complete", "reject"}, c.job \in JobIds,
             NEW verdict, verdict = IF c.step = "complete" THEN "Completed" ELSE "Rejected",
             decide(walletOf(c), c.job, verdict)
      PROVE  /\ \E j \in JobIds : /\ \A i \in JobIds \ {j} : jobs'[i] = jobs[i]
                                  /\ jobDecided(c, j)
             /\ JobStep
  <2>1. jobs[c.job] \in JobRecords
    BY <1>1, <1>6
  <2>2. /\ jobs'[c.job].state = verdict
        /\ jobs'[c.job].deliverable = jobs[c.job].deliverable
        /\ sameParties(c.job) /\ jobCount' = jobCount
        /\ \A i \in JobIds \ {c.job} : jobs'[i] = jobs[i]
    BY <1>1, <1>6, <2>1 DEF decide, JobRecords, sameParties
  <2>3. JobStep
    BY <1>2, <1>6 DEF JobStep, complete, reject
  <2> QED
    BY <1>6, <2>2, <2>3 DEF jobDecided, decide
<1>7. \/ c.step = "createJob"
      \/ c.step = "submit" /\ submit(walletOf(c), c.job, delivery)
      \/ c.step = "complete" /\ decide(walletOf(c), c.job, "Completed")
      \/ c.step = "reject" /\ decide(walletOf(c), c.job, "Rejected")
  BY DEF jobCall, complete, reject
<1>8. CASE c.step = "createJob"
  BY <1>2, <1>3, <1>4, <1>8, LoopSeats
<1> QED
  BY <1>5, <1>6, <1>7, <1>8

\* A submission's time is noted, and nothing else is taken for one.
LEMMA JobCallIsNoted ==
    ASSUME BondIInv, submittedAt \in [JobIds -> Nat], NEW c \in Calls, jobCall(c),
           c.step \in {"submit", "complete", "reject"} => c.job \in JobIds
    PROVE  NotedJobStep /\ submittedAt' \in [JobIds -> Nat]
<1>1. PICK j \in JobIds : /\ \A i \in JobIds \ {j} : jobs'[i] = jobs[i]
                          /\ jobMade(c, j) \/ jobSubmitted(c, j) \/ jobDecided(c, j)
  BY JobCallEffect
<1>2. submittedAt' = IF c.step # "submit" THEN submittedAt
                     ELSE [submittedAt EXCEPT ![c.job] = now]
  BY DEF jobCall
<1>3. \A i \in JobIds : jobs[i].state = "Open" /\ jobs'[i].state = "Submitted"
                           <=> c.step = "submit" /\ i = c.job
  BY <1>1 DEF jobMade, jobSubmitted, jobDecided
<1> DEFINE noted == [i \in JobIds |->
                IF jobs[i].state = "Open" /\ jobs'[i].state = "Submitted"
                THEN now ELSE submittedAt[i]]
<1>4. now \in Nat
  BY DEF BondIInv, StakesGoForward
<1>5. submittedAt' \in [JobIds -> Nat]
  BY <1>2, <1>4
<1>6. \A i \in JobIds : submittedAt'[i] = noted[i]
  BY <1>2, <1>3
<1>7. submittedAt' = noted
  BY <1>5, <1>6
<1> QED
  BY <1>5, <1>7, JobCallEffect DEF NotedJobStep, noteSubmission

\* The two calls on a signal's bond, and the sweep's.
LEMMA BondCallEffect ==
    ASSUME BondIInv, NEW c \in Calls, bondCall(c)
    PROVE  /\ BondStep /\ elsewhere(c.r) /\ slashCount' = slashCount
           /\ UNCHANGED <<bondOwner, validator>>
           /\ \/ /\ c.step = "stakeAndCommit" /\ posted(c.r)
                 /\ stakes'[c.r].expected = Sha256[c.r] /\ stakes'[c.r].jobId = c.job
              \/ c.step = "recordScore" /\ judged(c.r) /\ stakes'[c.r].score = 100
<1>1. c.r \in Specs /\ c.job \in 0 .. MaxJobs
  BY CallIs
<1>2. stakes \in [Specs -> StakeRecords] /\ stakes[c.r] \in StakeRecords
  BY <1>1 DEF BondIInv, StakesGoForward
<1>3. CASE c.step = "stakeAndCommit" /\ stakeAndCommit(Wallet, c.r, Sha256[c.r], c.job, Bond)
  <2>1. posted(c.r) /\ elsewhere(c.r) /\ slashCount' = slashCount
    BY <1>1, <1>3, LoopSeats, StakeEffect
  <2>2. /\ stakes'[c.r].expected = Sha256[c.r] /\ stakes'[c.r].jobId = c.job
        /\ UNCHANGED <<bondOwner, validator>>
    BY <1>1, <1>2, <1>3 DEF stakeAndCommit, writeStake, StakeRecords
  <2>3. BondStep
    BY <1>1, <1>3, LoopSeats DEF BondStep
  <2> QED
    BY <1>3, <2>1, <2>2, <2>3
<1>4. CASE c.step = "recordScore" /\ recordScore(Wallet, c.r, 100)
  <2>1. judged(c.r) /\ elsewhere(c.r) /\ slashCount' = slashCount
    BY <1>1, <1>4, LoopSeats, ScoreEffect
  <2>2. stakes'[c.r].score = 100 /\ UNCHANGED <<bondOwner, validator>>
    BY <1>1, <1>2, <1>4 DEF recordScore, writeScore, StakeRecords
  <2>3. BondStep
    BY <1>1, <1>4, LoopSeats DEF BondStep
  <2> QED
    BY <1>4, <2>1, <2>2, <2>3
<1> QED
  BY <1>3, <1>4 DEF bondCall

LEMMA SweepEffect ==
    ASSUME BondIInv, NEW r \in Specs, reclaim(Wallet, r)
    PROVE  /\ BondStep /\ elsewhere(r) /\ closed(r) /\ slashCount' = slashCount
           /\ UNCHANGED <<bondOwner, validator>>
<1>1. BondStep
  BY LoopSeats DEF BondStep
<1> QED
  BY <1>1, CloseEffect DEF reclaim, close

\* A request, the wallet's own or a stranger's.
LEMMA RequestEffect ==
    ASSUME registryTyped, NEW q \in Specs, ValidationRegistry!validationRequest(Wallet, 0, q),
           now' = now
    PROVE  /\ registryTyped'
           /\ UNCHANGED <<registryOwner, registryValidator>>
           /\ \A r \in Specs \ {q} : validation'[r] = validation[r]
           /\ ~isRequested(q) /\ isRequested(q)' /\ isValidated(q)' = isValidated(q)
           /\ validation'[q].response = validation[q].response
<1> DEFINE V == [validator : Accounts \cup {ZeroAddress}, agentId : {0},
                 responseHash : Specs \cup {ZeroHash}, requestedAt : Nat, respondedAt : Nat,
                 response : 0 .. 100, hasResponse : BOOLEAN]
<1>1. registryTyped <=> /\ now \in Nat \ {0} /\ registryOwner \in Accounts
                        /\ registryValidator \in Accounts /\ validation \in [Specs -> V]
                        /\ requestCount \in Nat /\ responseCount \in Nat
  BY DEF registryTyped, ValidationRegistry!ValidatorTypeOK, ValidationRegistry!Validations
<1>2. registryTyped' <=> /\ now' \in Nat \ {0} /\ registryOwner' \in Accounts
                         /\ registryValidator' \in Accounts /\ validation' \in [Specs -> V]
                         /\ requestCount' \in Nat /\ responseCount' \in Nat
  BY DEF registryTyped, ValidationRegistry!ValidatorTypeOK, ValidationRegistry!Validations
<1>3. validation[q] \in V
  BY <1>1
<1> DEFINE v == [validation[q] EXCEPT !.validator = Wallet, !.agentId = 0,
                                      !.requestedAt = now]
<1>4. /\ v \in V /\ v.requestedAt = now /\ v.hasResponse = validation[q].hasResponse
      /\ v.response = validation[q].response
  BY <1>1, <1>3, LoopSeats
<1>5. /\ validation' = [validation EXCEPT ![q] = v]
      /\ requestCount' = requestCount + 1 /\ responseCount' = responseCount
      /\ UNCHANGED <<registryOwner, registryValidator>>
      /\ ~isRequested(q)
  BY <1>1, <1>3
     DEF ValidationRegistry!validationRequest, ValidationRegistry!writeRequest,
         ValidationRegistry!isRequested, isRequested
<1> HIDE DEF v, V
<1>6. /\ validation' \in [Specs -> V] /\ validation'[q] = v
      /\ \A r \in Specs \ {q} : validation'[r] = validation[r]
  BY <1>1, <1>4, <1>5
<1>7. registryTyped'
  BY <1>1, <1>2, <1>5, <1>6
<1> QED
  BY <1>1, <1>4, <1>5, <1>6, <1>7
     DEF isRequested, isValidated, ValidationRegistry!isRequested,
         ValidationRegistry!isValidated

\* The two calls to the registry.
LEMMA RegistryCallEffect ==
    ASSUME registryTyped, NEW c \in Calls, registryCall(c), now' = now
    PROVE  /\ registryTyped'
           /\ UNCHANGED <<registryOwner, registryValidator>>
           /\ \A r \in Specs \ {c.r} : validation'[r] = validation[r]
           /\ \/ /\ c.step = "validationRequest" /\ ~isRequested(c.r) /\ isRequested(c.r)'
                 /\ isValidated(c.r)' = isValidated(c.r)
                 /\ validation'[c.r].response = validation[c.r].response
              \/ /\ c.step = "validationResponse" /\ isRequested(c.r) /\ ~isValidated(c.r)
                 /\ isRequested(c.r)' /\ isValidated(c.r)'
                 /\ validation'[c.r].response = 100
<1> DEFINE V == [validator : Accounts \cup {ZeroAddress}, agentId : {0},
                 responseHash : Specs \cup {ZeroHash}, requestedAt : Nat, respondedAt : Nat,
                 response : 0 .. 100, hasResponse : BOOLEAN]
<1>1. registryTyped <=> /\ now \in Nat \ {0} /\ registryOwner \in Accounts
                        /\ registryValidator \in Accounts /\ validation \in [Specs -> V]
                        /\ requestCount \in Nat /\ responseCount \in Nat
  BY DEF registryTyped, ValidationRegistry!ValidatorTypeOK, ValidationRegistry!Validations
<1>2. registryTyped' <=> /\ now' \in Nat \ {0} /\ registryOwner' \in Accounts
                         /\ registryValidator' \in Accounts /\ validation' \in [Specs -> V]
                         /\ requestCount' \in Nat /\ responseCount' \in Nat
  BY DEF registryTyped, ValidationRegistry!ValidatorTypeOK, ValidationRegistry!Validations
<1>3. c.r \in Specs
  BY CallIs
<1>4. validation[c.r] \in V
  BY <1>1, <1>3
<1>5. CASE c.step = "validationRequest" /\ ValidationRegistry!validationRequest(Wallet, 0, c.r)
  BY <1>3, <1>5, RequestEffect
<1>6. CASE c.step = "validationResponse"
           /\ ValidationRegistry!validationResponse(Wallet, c.r, 100, c.r)
  <2> DEFINE v == [validation[c.r] EXCEPT !.response = 100, !.responseHash = c.r,
                                          !.respondedAt = now, !.hasResponse = TRUE]
  <2>1. /\ v \in V /\ v.requestedAt = validation[c.r].requestedAt /\ v.hasResponse
        /\ v.response = 100
    <3>1. now \in Nat /\ 100 \in 0 .. 100 /\ c.r \in Specs \cup {ZeroHash}
      BY <1>1, <1>3
    <3> QED
      BY <1>4, <3>1
  <2>2. /\ validation' = [validation EXCEPT ![c.r] = v]
        /\ responseCount' = responseCount + 1 /\ requestCount' = requestCount
        /\ UNCHANGED <<registryOwner, registryValidator>>
        /\ isRequested(c.r) /\ ~isValidated(c.r)
    BY <1>1, <1>3, <1>4, <1>6
       DEF ValidationRegistry!validationResponse, ValidationRegistry!writeResponse,
           ValidationRegistry!isRequested, isRequested,
           ValidationRegistry!isValidated, isValidated
  <2> HIDE DEF v, V
  <2>3. /\ validation' \in [Specs -> V] /\ validation'[c.r] = v
        /\ \A r \in Specs \ {c.r} : validation'[r] = validation[r]
    BY <1>1, <1>3, <2>1, <2>2
  <2>4. registryTyped'
    BY <1>1, <1>2, <2>2, <2>3
  <2> QED
    BY <1>1, <1>6, <2>1, <2>2, <2>3, <2>4
       DEF isRequested, isValidated, ValidationRegistry!isRequested,
           ValidationRegistry!isValidated
<1> QED
  BY <1>5, <1>6 DEF registryCall
------------------------------------------------------------------------------
(* The contracts only go forward under the loops' calls. *)

Onward ==
    /\ network' = network
    /\ \A r \in Specs : /\ isRequested(r) => isRequested(r)'
                        /\ isValidated(r) => isValidated(r)'
                        /\ isStaked(r) => isStaked(r)'
                        /\ stakes[r].scored => stakes'[r].scored
                        /\ payments[r] >= 1 => payments'[r] >= 1
    /\ \A j \in JobIds : jobStands(j)

LEMMA DoneStays ==
    ASSUME BondIInv, Onward, NEW r \in Specs, NEW j, NEW k \in 0 .. 8, DoneUpTo(k, r, j)
    PROVE  DoneUpTo(k, r, j)'
<1>1. k >= 2 => /\ j \in JobIds /\ jobs[j].state # "None" /\ jobs[j].specHash = r
                /\ jobStands(j)
  BY LoopSeats DEF DoneUpTo, BondIInv, JobsAreNumbered, Onward
<1>2. k >= 2 => jobs'[j].client = Wallet /\ jobs'[j].specHash = r
  BY <1>1 DEF jobStands, DoneUpTo
<1>3. k >= 4 => isSubmitted(j)'
  BY <1>1 DEF DoneUpTo, jobStands
<1>4. k >= 7 => jobs'[j].state = "Completed"
  BY <1>1 DEF DoneUpTo, jobStands
<1> QED
  BY <1>1, <1>2, <1>3, <1>4 DEF DoneUpTo, Onward

LEMMA DoneLess ==
    ASSUME NEW r, NEW j, NEW k \in 0 .. 8, NEW m \in 0 .. k, DoneUpTo(k, r, j)
    PROVE  DoneUpTo(m, r, j)
BY DEF DoneUpTo

\* What is due of a loop's call, by its step.
LEMMA LoopCallIsDue ==
    ASSUME NEW c \in Calls, CallIsDue(c), c.by \in Loops, NEW k \in 1 .. 8, c.step = Steps[k]
    PROVE  network = "mainnet" /\ DoneUpTo(k - 1, c.r, c.job)
<1>1. PICK m \in 1 .. 8 : c.step = Steps[m] /\ DoneUpTo(m - 1, c.r, c.job)
  BY DEF CallIsDue
<1>2. m = k
  BY <1>1, StepsDiffer
<1> QED
  BY <1>1, <1>2 DEF CallIsDue

LEMMA LoopNeverRejects ==
    ASSUME NEW c \in Calls, CallIsDue(c), c.by \in Loops
    PROVE  c.step # "reject"
BY StepPlaces DEF CallIsDue

\* A job that does not move stays apart: what its payment rests on still stands.
LEMMA ApartStays ==
    ASSUME BondIInv, Onward, NEW i \in JobIds, jobs'[i] = jobs[i], jobIsApart(i)
    PROVE  jobIsApart(i)'
<1>1. PICK q : q = jobs[i].specHash
  OBVIOUS
<1>2. q \in Specs /\ DoneUpTo(6, q, i) => DoneUpTo(6, q, i)'
  BY DoneStays
<1>3. DoneUpTo(6, jobs[i].specHash, i)' <=> DoneUpTo(6, q, i)'
  BY <1>1 DEF DoneUpTo
<1>4. network' = network /\ jobs'[i].specHash = q
  BY <1>1 DEF Onward
<1> QED
  BY <1>1, <1>2, <1>3, <1>4 DEF jobIsApart, isSubmitted

\* A transaction to the job contract, whoever sends it: all but the job it is about.
LEMMA JobMoveKeeps ==
    ASSUME ContractsInv, NotedJobStep,
           UNCHANGED <<now, network, bondVars, registryVars, payments>>
    PROVE  /\ Onward /\ [BondNext]_bondAllVars /\ BondIInv'
           /\ submittedAt' \in [JobIds -> Nat] /\ registryTyped'
           /\ payments' \in [Specs -> Nat] /\ Seats' /\ VerdictsArePass'
           /\ \A i \in JobIds : jobs'[i] = jobs[i] => jobIsApart(i)'
<1>0. BondIInv /\ submittedAt \in [JobIds -> Nat] /\ now \in Nat
  BY DEF ContractsInv, BondIInv, StakesGoForward
<1>1. submittedAt' \in [JobIds -> Nat]
  BY <1>0 DEF NotedJobStep, noteSubmission
<1>2. [BondNext]_bondAllVars
  BY <1>0 DEF BondNext
<1>3. BondIInv'
  BY <1>0, <1>2, BondStepInv
<1>4. \A j \in JobIds : jobStands(j)
  BY <1>0, <1>2, DeliveredStands
<1>5. Onward
  BY <1>4 DEF Onward, bondVars, registryVars, isRequested, isValidated, isStaked,
     ValidationRegistry!isRequested, ValidationRegistry!isValidated
<1>6. registryTyped' /\ payments' \in [Specs -> Nat]
  BY DEF ContractsInv, registryTyped, registryVars, ValidationRegistry!ValidatorTypeOK
<1>7. Seats'
  BY DEF ContractsInv, Seats, bondVars, registryVars
<1>8. VerdictsArePass'
  <2>1. ASSUME NEW r \in Specs, isStaked(r)
        PROVE  jobAt(stakes[r].jobId)'.client = Wallet
    <3>1. /\ jobAt(stakes[r].jobId).client = Wallet /\ jobAt(stakes[r].jobId).state # "None"
      BY <1>0, <2>1 DEF ContractsInv, VerdictsArePass, BondIInv, BondIsBoundToItsJob
    <3>2. stakes[r].jobId \in JobIds
      BY <3>1 DEF jobAt, NoJob
    <3> QED
      BY <1>4, <3>1, <3>2 DEF jobAt, jobStands, bondVars
  <2> QED
    BY <2>1 DEF ContractsInv, VerdictsArePass, bondVars, registryVars, isStaked, isValidated,
       ValidationRegistry!isValidated
<1>9. \A i \in JobIds : jobs'[i] = jobs[i] => jobIsApart(i)'
  BY <1>0, <1>5, ApartStays DEF ContractsInv, JobsAreApart
<1> QED
  BY <1>1, <1>2, <1>3, <1>5, <1>6, <1>7, <1>8, <1>9

\* A call of the operator's own to the job contract.
LEMMA JobCallKeeps ==
    ASSUME ContractsInv, NEW c \in Calls, CallIsDue(c), jobCall(c),
           now' = now, network' = network
    PROVE  ContractsInv' /\ Onward /\ [BondNext]_bondAllVars
<1>0. /\ BondIInv /\ submittedAt \in [JobIds -> Nat]
      /\ UNCHANGED <<bondVars, registryVars, payments>>
      /\ c.step \in {"submit", "complete", "reject"} => c.job \in JobIds
  BY DEF ContractsInv, jobCall, CallIsDue
<1>1. NotedJobStep
  BY <1>0, JobCallIsNoted
<1>2. /\ Onward /\ [BondNext]_bondAllVars /\ BondIInv'
      /\ submittedAt' \in [JobIds -> Nat] /\ registryTyped'
      /\ payments' \in [Specs -> Nat] /\ Seats' /\ VerdictsArePass'
      /\ \A i \in JobIds : jobs'[i] = jobs[i] => jobIsApart(i)'
  BY <1>0, <1>1, JobMoveKeeps
<1>3. PICK j \in JobIds : /\ \A i \in JobIds \ {j} : jobs'[i] = jobs[i]
                          /\ jobMade(c, j) \/ jobSubmitted(c, j) \/ jobDecided(c, j)
  BY <1>0, JobCallEffect
<1>4. /\ c.r \in Specs /\ c.by \in Clients /\ jobIsApart(j)
      /\ c.by \in Loops \/ c.by \in Demos
      /\ c.by \in Loops => network = "mainnet"
      /\ c.by \in Demos => network = "testnet" /\ walletOf(c) = DemoWallet
  BY CallIs, LoopSeats DEF CallIsDue, ContractsInv, JobsAreApart
<1>5. ASSUME jobMade(c, j) PROVE jobIsApart(j)'
  <2>1. /\ jobs'[j].state = "Open" /\ jobs'[j].specHash = c.r
        /\ network' = "mainnet" =>
              jobs'[j].provider = ProviderWallet /\ jobs'[j].evaluator = Wallet
    BY <1>4, <1>5 DEF jobMade
  <2>2. ~isSubmitted(j)'
    BY <2>1 DEF isSubmitted
  <2> QED
    BY <1>4, <2>1, <2>2 DEF jobIsApart
<1>6. ASSUME jobSubmitted(c, j) PROVE jobIsApart(j)'
  <2>1. jobs[j].state = "Open" /\ jobs'[j].state = "Submitted"
    BY <1>6 DEF jobSubmitted
  <2>2. CASE c.by \in Loops
    <3>1. DoneUpTo(3, c.r, c.job)
      <4>1. c.step = Steps[4]
        BY <1>6, StepNames DEF jobSubmitted
      <4> QED
        BY <2>2, <4>1, LoopCallIsDue
    <3>2. jobs[j].specHash = c.r /\ c.by \notin Demos
      BY <1>6, <2>2, <3>1, LoopSeats DEF DoneUpTo, jobSubmitted
    <3>3. jobs'[j].deliverable = Sha256[jobs'[j].specHash]
      BY <1>6, <3>2 DEF jobSubmitted, sameParties
    <3> QED
      BY <1>4, <1>6, <2>1, <3>3 DEF jobSubmitted, sameParties, jobIsApart
  <2>3. CASE c.by \in Demos
    BY <1>4, <2>1, <2>3 DEF jobIsApart
  <2> QED
    BY <1>4, <2>2, <2>3
<1>7. ASSUME jobDecided(c, j) PROVE jobIsApart(j)'
  <2>1. jobs[j].state = "Submitted" /\ isSubmitted(j)
    BY <1>7 DEF jobDecided, isSubmitted
  <2>2. CASE c.by \in Loops
    <3>1. c.step = Steps[7] /\ c.step = "complete"
      BY <1>7, <2>2, LoopNeverRejects, StepNames DEF jobDecided
    <3>2. DoneUpTo(6, c.r, j) /\ jobs[j].specHash = c.r /\ jobs[j].client = Wallet
      <4>1. c.step = Steps[7]
        BY <3>1
      <4>2. DoneUpTo(7 - 1, c.r, c.job)
        BY <2>2, <4>1, LoopCallIsDue
      <4>3. DoneUpTo(6, c.r, c.job)
        BY <4>2
      <4> QED
        BY <1>7, <4>3 DEF DoneUpTo, jobDecided
    <3>3. DoneUpTo(6, c.r, j)'
      BY <1>0, <1>2, <1>4, <3>2, DoneStays
    <3>4. jobs'[j].specHash = c.r /\ jobs'[j].client = Wallet
      BY <1>7, <3>2 DEF jobDecided, sameParties
    <3>5. DoneUpTo(6, jobs[j].specHash, j)'
      BY <3>3, <3>4 DEF DoneUpTo
    <3> QED
      BY <1>4, <1>7, <2>1, <2>2, <3>1, <3>4, <3>5
         DEF jobDecided, sameParties, jobIsApart, isSubmitted
  <2>3. CASE c.by \in Demos
    <3>1. holdsWork(c.by, c.step = "complete", j)
      BY <1>7, <2>3 DEF CallIsDue, jobDecided
    <3>2. /\ jobs'[j].provider = DemoWallet
          /\ jobs'[j].deliverable = IF c.step = "complete" THEN Want[c.by] ELSE Garbage
      BY <1>7, <3>1 DEF holdsWork, jobDecided, sameParties
    <3>3. jobs'[j].state = "Completed" <=> jobs'[j].deliverable # Garbage
      BY <1>7, <2>3, <3>2, LoopSeats DEF jobDecided
    <3> QED
      BY <1>4, <2>3, <3>2, <3>3 DEF jobIsApart
  <2> QED
    BY <1>4, <2>2, <2>3
<1> QED
  BY <1>2, <1>3, <1>5, <1>6, <1>7 DEF ContractsInv, JobsAreApart

\* What a stranger does to job j.
strangersMove(s, j) ==
    \/ jobs[j].specHash = ZeroHash /\ jobs'[j].state = "Open" /\ jobs'[j].client = s
    \/ /\ jobs[j].provider = s /\ jobs[j].state = "Open"
       /\ jobs'[j].state = "Submitted" /\ sameParties(j)
    \/ jobs[j].evaluator = s /\ jobs[j].state = "Submitted" /\ sameParties(j)

LEMMA StrangersEffect ==
    ASSUME BondIInv, NEW s \in Accounts, strangerJob(s)
    PROVE  /\ JobStep
           /\ \E j \in JobIds : /\ \A i \in JobIds \ {j} : jobs'[i] = jobs[i]
                                /\ strangersMove(s, j)
<1>1. /\ jobs \in [JobIds -> JobRecords] /\ jobCount \in Nat /\ MaxJobs \in Nat
      /\ \A j \in JobIds : /\ jobs[j].state = "None" <=> j > jobCount
                           /\ jobs[j].state = "None" => jobs[j].specHash = ZeroHash
  BY JobAssumption DEF BondIInv, JobsAreNumbered
<1>2. ASSUME NEW o \in OtherJobs,
             createJob(s, o.provider, o.evaluator, o.specHash, Escrow)
      PROVE  /\ JobStep
             /\ \E j \in JobIds : /\ \A i \in JobIds \ {j} : jobs'[i] = jobs[i]
                                  /\ strangersMove(s, j)
  <2>1. o.provider \in Accounts /\ o.evaluator \in Accounts /\ o.specHash \in Specs
    BY LoopAssumption
  <2>2. JobStep
    BY <1>2, <2>1, LoopSeats DEF JobStep
  <2>3. jobCount + 1 \in JobIds
    BY <1>1, <1>2 DEF createJob, JobIds
  <2>4. /\ jobs'[jobCount + 1].state = "Open" /\ jobs'[jobCount + 1].client = s
        /\ \A i \in JobIds \ {jobCount + 1} : jobs'[i] = jobs[i]
    BY <1>1, <1>2, <2>3 DEF createJob
  <2>5. jobs[jobCount + 1].specHash = ZeroHash
    BY <1>1, <2>3
  <2> QED
    BY <2>2, <2>3, <2>4, <2>5 DEF strangersMove
<1>3. ASSUME NEW j \in JobIds, NEW d \in Deliverables, submit(s, j, d)
      PROVE  /\ JobStep /\ \A i \in JobIds \ {j} : jobs'[i] = jobs[i]
             /\ strangersMove(s, j)
  <2>1. jobs[j] \in JobRecords
    BY <1>1
  <2>2. /\ jobs'[j].state = "Submitted" /\ sameParties(j)
        /\ \A i \in JobIds \ {j} : jobs'[i] = jobs[i]
    BY <1>1, <1>3, <2>1 DEF submit, JobRecords, sameParties
  <2>3. JobStep
    BY <1>3 DEF JobStep
  <2> QED
    BY <1>3, <2>2, <2>3 DEF strangersMove, submit
<1>4. ASSUME NEW j \in JobIds, NEW verdict \in {"Completed", "Rejected"},
             decide(s, j, verdict)
      PROVE  /\ JobStep /\ \A i \in JobIds \ {j} : jobs'[i] = jobs[i]
             /\ strangersMove(s, j)
  <2>1. jobs[j] \in JobRecords
    BY <1>1
  <2>2. /\ sameParties(j) /\ \A i \in JobIds \ {j} : jobs'[i] = jobs[i]
    BY <1>1, <1>4, <2>1 DEF decide, JobRecords, sameParties
  <2>3. JobStep
    BY <1>4 DEF JobStep, complete, reject
  <2> QED
    BY <1>4, <2>2, <2>3 DEF strangersMove, decide
<1> QED
  BY <1>2, <1>3, <1>4 DEF strangerJob, complete, reject

\* Nothing a stranger does to the jobs makes the operator's look decided.
LEMMA StrangersKeep ==
    ASSUME ContractsInv, NEW s \in Accounts \ operators, strangerJob(s), noteSubmission,
           network \in {"mainnet", "testnet"},
           UNCHANGED <<now, network, bondVars, registryVars, payments>>
    PROVE  ContractsInv' /\ Onward /\ [BondNext]_bondAllVars
<1>1. PICK j \in JobIds : /\ \A i \in JobIds \ {j} : jobs'[i] = jobs[i]
                          /\ strangersMove(s, j)
  BY StrangersEffect DEF ContractsInv
<1>2. NotedJobStep
  BY StrangersEffect DEF ContractsInv, NotedJobStep
<1>3. /\ Onward /\ [BondNext]_bondAllVars /\ BondIInv'
      /\ submittedAt' \in [JobIds -> Nat] /\ registryTyped'
      /\ payments' \in [Specs -> Nat] /\ Seats' /\ VerdictsArePass'
      /\ \A i \in JobIds : jobs'[i] = jobs[i] => jobIsApart(i)'
  BY <1>2, JobMoveKeeps
<1>4. /\ network = "mainnet" => s # Wallet /\ s # ProviderWallet
      /\ network = "testnet" => s # DemoWallet
  BY DEF operators
<1>5. jobIsApart(j) /\ network' = network
  BY DEF ContractsInv, JobsAreApart
<1>6. jobIsApart(j)'
  <2>1. CASE jobs'[j].state = "Open" /\ jobs'[j].client = s
    BY <1>4, <1>5, <2>1 DEF jobIsApart
  <2>2. CASE /\ jobs[j].provider = s /\ jobs[j].state = "Open"
             /\ jobs'[j].state = "Submitted" /\ sameParties(j)
    BY <1>4, <1>5, <2>2 DEF jobIsApart, sameParties
  <2>3. CASE jobs[j].evaluator = s /\ jobs[j].state = "Submitted" /\ sameParties(j)
    BY <1>4, <1>5, <2>3 DEF jobIsApart, sameParties
  <2> QED
    BY <1>1, <2>1, <2>2, <2>3 DEF strangersMove
<1> QED
  BY <1>1, <1>3, <1>6 DEF ContractsInv, JobsAreApart

\* One bond of the loops is posted, judged or given back; the jobs stand still.
LEMMA BondMoveKeeps ==
    ASSUME ContractsInv, BondStep, NEW r \in Specs, elsewhere(r), slashCount' = slashCount,
           UNCHANGED <<bondOwner, validator>>,
           UNCHANGED <<now, network, jobVars, submittedAt, registryVars, payments>>,
           \/ /\ posted(r) /\ network = "mainnet" /\ stakes'[r].expected = Sha256[r]
              /\ jobAt(stakes'[r].jobId).client = Wallet
           \/ judged(r) /\ stakes'[r].score = 100
           \/ closed(r)
    PROVE  ContractsInv' /\ Onward /\ [BondNext]_bondAllVars
<1>1. BondIInv /\ JobsAreApart /\ VerdictsArePass
  BY DEF ContractsInv
<1>2. [BondNext]_bondAllVars
  BY DEF BondNext
<1>3. BondIInv'
  BY <1>1, <1>2, BondStepInv
<1>4. Onward
  <2>1. \A j \in JobIds : jobStands(j)
    BY <1>1, <1>2, DeliveredStands
  <2>2. ASSUME NEW s \in Specs
        PROVE  /\ isStaked(s) => isStaked(s)'
               /\ stakes[s].scored => stakes'[s].scored
    <3>1. CASE s # r
      BY <3>1 DEF elsewhere, isStaked
    <3>2. CASE s = r
      BY <1>1, <3>2 DEF posted, judged, closed, BondIInv, StakesGoForward
    <3> QED
      BY <3>1, <3>2
  <2> QED
    BY <2>1, <2>2 DEF Onward, registryVars, isRequested, isValidated,
       ValidationRegistry!isRequested, ValidationRegistry!isValidated
<1>5. registryTyped' /\ payments' \in [Specs -> Nat] /\ submittedAt' \in [JobIds -> Nat]
  BY DEF ContractsInv, registryTyped, registryVars, ValidationRegistry!ValidatorTypeOK
<1>6. Seats'
  BY DEF ContractsInv, Seats, registryVars
<1>7. VerdictsArePass'
  <2>1. ASSUME NEW s \in Specs
        PROVE  /\ isStaked(s)' => /\ network' = "mainnet" /\ stakes'[s].expected = Sha256[s]
                                  /\ jobAt(stakes[s].jobId)'.client = Wallet
               /\ stakes'[s].scored => stakes'[s].score = 100
    <3>1. jobAt(stakes[s].jobId)' = jobAt(stakes'[s].jobId)
      BY DEF jobAt, jobVars
    <3>2. CASE s # r
      BY <1>1, <3>1, <3>2 DEF elsewhere, VerdictsArePass, isStaked
    <3>3. CASE s = r
      BY <1>1, <3>1, <3>3 DEF posted, judged, closed, VerdictsArePass
    <3> QED
      BY <3>2, <3>3
  <2> QED
    BY <1>1, <2>1 DEF VerdictsArePass, registryVars, isValidated,
       ValidationRegistry!isValidated
<1>8. \A j \in JobIds : jobIsApart(j)'
  BY <1>1, <1>4, ApartStays DEF JobsAreApart, jobVars
<1> QED
  BY <1>2, <1>3, <1>4, <1>5, <1>6, <1>7, <1>8 DEF ContractsInv, JobsAreApart

\* The registry or the settlement moves, and nothing else.
LEMMA RegistryMoveKeeps ==
    ASSUME ContractsInv, registryTyped', payments' \in [Specs -> Nat],
           UNCHANGED <<network, jobVars, submittedAt, bondVars, registryOwner, registryValidator>>,
           now' = now \/ NextBlock,
           \A r \in Specs : /\ isRequested(r) => isRequested(r)'
                            /\ isValidated(r) => isValidated(r)'
                            /\ isValidated(r)' => \/ validation'[r].response = 100
                                                  \/ /\ isValidated(r)
                                                     /\ validation'[r].response
                                                          = validation[r].response
                            /\ payments[r] >= 1 => payments'[r] >= 1
    PROVE  ContractsInv' /\ Onward /\ [BondNext]_bondAllVars
<1>0. BondIInv /\ JobsAreApart /\ VerdictsArePass
  BY DEF ContractsInv
<1>1. [BondNext]_bondAllVars
  BY DEF BondNext, bondAllVars
<1>2. BondIInv'
  BY <1>0, <1>1, BondStepInv
<1>3. Onward
  <2>1. \A j \in JobIds : jobStands(j)
    BY <1>0, <1>1, DeliveredStands
  <2> QED
    BY <2>1 DEF Onward, bondVars, isStaked
<1>4. submittedAt' \in [JobIds -> Nat]
  BY DEF ContractsInv
<1>5. Seats'
  BY DEF ContractsInv, Seats, bondVars
<1>6. VerdictsArePass'
  BY <1>0 DEF VerdictsArePass, bondVars, isStaked, jobAt, jobVars
<1>7. \A j \in JobIds : jobIsApart(j)'
  BY <1>0, <1>3, ApartStays DEF JobsAreApart, jobVars
<1> QED
  BY <1>1, <1>2, <1>3, <1>4, <1>5, <1>6, <1>7 DEF ContractsInv, JobsAreApart

\* A mined call, of whichever contract.
LEMMA CallKeeps ==
    ASSUME ContractsInv, NEW c \in Calls, CallIsDue(c), now' = now, network' = network,
           jobCall(c) \/ bondCall(c) \/ registryCall(c) \/ settlementCall(c)
    PROVE  ContractsInv' /\ Onward /\ [BondNext]_bondAllVars
<1>0. BondIInv /\ registryTyped /\ c.r \in Specs /\ payments \in [Specs -> Nat]
  BY CallIs DEF ContractsInv
<1>1. CASE bondCall(c)
  <2>1. /\ BondStep /\ elsewhere(c.r) /\ slashCount' = slashCount
        /\ UNCHANGED <<bondOwner, validator>>
        /\ \/ /\ c.step = "stakeAndCommit" /\ posted(c.r)
              /\ stakes'[c.r].expected = Sha256[c.r] /\ stakes'[c.r].jobId = c.job
           \/ c.step = "recordScore" /\ judged(c.r) /\ stakes'[c.r].score = 100
    BY <1>0, <1>1, BondCallEffect
  <2>2. ASSUME c.step = "stakeAndCommit"
        PROVE  network = "mainnet" /\ jobAt(c.job).client = Wallet
    <3>1. c.by \in Loops
      BY <2>2, CallIs DEF CallIsDue
    <3>2. c.step = Steps[3]
      BY <2>2, StepNames
    <3>3. network = "mainnet" /\ DoneUpTo(3 - 1, c.r, c.job)
      BY <3>1, <3>2, LoopCallIsDue
    <3> QED
      BY <3>3 DEF DoneUpTo, jobAt
  <2>3. UNCHANGED <<now, jobVars, submittedAt, registryVars, payments>>
    BY <1>1 DEF bondCall
  <2> QED
    BY <1>0, <2>1, <2>2, <2>3, BondMoveKeeps
<1>2. CASE registryCall(c)
  <2>1. /\ registryTyped'
        /\ UNCHANGED <<registryOwner, registryValidator>>
        /\ \A r \in Specs \ {c.r} : validation'[r] = validation[r]
        /\ \/ /\ c.step = "validationRequest" /\ ~isRequested(c.r) /\ isRequested(c.r)'
              /\ isValidated(c.r)' = isValidated(c.r)
              /\ validation'[c.r].response = validation[c.r].response
           \/ /\ c.step = "validationResponse" /\ isRequested(c.r) /\ ~isValidated(c.r)
              /\ isRequested(c.r)' /\ isValidated(c.r)'
              /\ validation'[c.r].response = 100
    BY <1>0, <1>2, RegistryCallEffect
  <2>2. UNCHANGED <<jobVars, submittedAt, bondVars, payments>>
    BY <1>2 DEF registryCall
  <2>3. ASSUME NEW r \in Specs
        PROVE  /\ isRequested(r) => isRequested(r)'
               /\ isValidated(r) => isValidated(r)'
               /\ isValidated(r)' => \/ validation'[r].response = 100
                                     \/ /\ isValidated(r)
                                        /\ validation'[r].response = validation[r].response
    <3>1. CASE r = c.r
      BY <2>1, <3>1
    <3>2. CASE r # c.r
      BY <2>1, <3>2 DEF isRequested, isValidated,
         ValidationRegistry!isRequested, ValidationRegistry!isValidated
    <3> QED
      BY <3>1, <3>2
  <2> QED
    BY <1>0, <2>1, <2>2, <2>3, RegistryMoveKeeps
<1>3. CASE settlementCall(c)
  <2>1. /\ payments' = [payments EXCEPT ![c.r] = payments[c.r] + 1]
        /\ UNCHANGED <<jobVars, submittedAt, bondVars, registryVars>>
    BY <1>3 DEF settlementCall
  <2>2. payments' \in [Specs -> Nat] /\ \A r \in Specs : payments'[r] >= payments[r]
    BY <1>0, <2>1
  <2>3. \A r \in Specs : payments[r] >= 1 => payments'[r] >= 1
    BY <1>0, <2>2
  <2>4. registryTyped'
    BY <1>0, <2>1 DEF registryTyped, registryVars, ValidationRegistry!ValidatorTypeOK
  <2> QED
    BY <2>1, <2>2, <2>3, <2>4, RegistryMoveKeeps
       DEF registryVars, isRequested, isValidated,
           ValidationRegistry!isRequested, ValidationRegistry!isValidated
<1>4. CASE jobCall(c)
  BY <1>4, JobCallKeeps
<1> QED
  BY <1>1, <1>2, <1>3, <1>4

\* What a step does to the contracts.
LEMMA ChainCases ==
    ASSUME LoopParts, [LoopNext]_loopAllVars
    PROVE  \/ \E i \in DOMAIN mempool :
                 /\ mine(i) /\ now' = now /\ mempool[i].call \in Calls
                 /\ \/ jobCall(mempool[i].call) \/ bondCall(mempool[i].call)
                    \/ registryCall(mempool[i].call) \/ settlementCall(mempool[i].call)
           \/ \E r \in Specs :
                 /\ reclaim(Wallet, r)
                 /\ UNCHANGED <<now, jobVars, submittedAt, registryVars, payments>>
           \/ strangerStep
           \/ UNCHANGED contractVars /\ (now' = now \/ NextBlock)
<1>1. ASSUME NEW i \in DOMAIN mempool, mine(i)
      PROVE  mempool[i].call \in Calls
  <2>1. mempool[i] \in Accepted(Calls)
    BY DEF LoopParts
  <2> QED
    BY <2>1 DEF Accepted
<1>2. CASE \E i \in DOMAIN mempool : mine(i)
  BY <1>1, <1>2 DEF mine
<1>3. CASE \E c \in Clients : Send(c)
  BY <1>3 DEF Send
<1>4. CASE \E l \in Loops :
              (\E r \in Specs : startLoop(l, r)) \/ nextStep(l) \/ loopDies(l)
  BY <1>4 DEF startLoop, nextStep, loopDies
<1>5. CASE \E d \in Demos :
              \/ \E good \in BOOLEAN : startDemo(d, good)
              \/ readJobCount(d) \/ evaluate(d) \/ demoEnds(d)
  BY <1>5 DEF startDemo, readJobCount, evaluate, demoEnds
<1>6. CASE SweepStep
  <2>1. CASE reclaimPicked
    <3>1. ASSUME reclaim(Wallet, sweep.picked) PROVE \E r \in Specs : reclaim(Wallet, r)
      <4>1. sweep.picked \in Specs
        BY <2>1 DEF reclaimPicked, LoopParts, SweepStates
      <4> QED
        BY <3>1, <4>1
    <3> QED
      BY <2>1, <3>1 DEF reclaimPicked, contractVars
  <2> QED
    BY <1>6, <2>1 DEF SweepStep, startSweep, look, endSweep
<1>7. CASE passTime
  BY <1>7 DEF passTime
<1>8. CASE UNCHANGED loopAllVars
  BY <1>8 DEF loopAllVars
<1> QED
  BY <1>2, <1>3, <1>4, <1>5, <1>6, <1>7, <1>8 DEF LoopNext

LEMMA NetworkStands ==
    ASSUME [LoopNext]_loopAllVars
    PROVE  network' = network
BY DEF LoopNext, Send, mine, startLoop, nextStep, loopDies, startDemo, readJobCount, evaluate,
   demoEnds, SweepStep, startSweep, look, reclaimPicked, endSweep, strangerStep, passTime,
   scriptVars, loopAllVars

\* Every step leaves the contracts right and only takes them on.
LEMMA ContractsKeep ==
    ASSUME ContractsInv, LoopParts, CallsAreDue, [LoopNext]_loopAllVars
    PROVE  ContractsInv' /\ Onward /\ [BondNext]_bondAllVars
<1>1. network' = network
  BY NetworkStands
<1>2. ASSUME NEW i \in DOMAIN mempool, now' = now, mempool[i].call \in Calls,
             \/ jobCall(mempool[i].call) \/ bondCall(mempool[i].call)
             \/ registryCall(mempool[i].call) \/ settlementCall(mempool[i].call)
      PROVE  ContractsInv' /\ Onward /\ [BondNext]_bondAllVars
  <2>1. PICK c \in Calls : c = mempool[i].call
    BY <1>2
  <2>2. CallIsDue(c)
    BY <2>1 DEF CallsAreDue
  <2> QED
    BY <1>1, <1>2, <2>1, <2>2, CallKeeps
<1>3. ASSUME NEW r \in Specs, reclaim(Wallet, r),
             UNCHANGED <<now, jobVars, submittedAt, registryVars, payments>>
      PROVE  ContractsInv' /\ Onward /\ [BondNext]_bondAllVars
  BY <1>1, <1>3, SweepEffect, BondMoveKeeps DEF ContractsInv
<1>4. CASE UNCHANGED contractVars /\ (now' = now \/ NextBlock)
  <2>1. registryTyped'
    BY <1>4 DEF ContractsInv, registryTyped, contractVars, registryVars, NextBlock,
       ValidationRegistry!ValidatorTypeOK
  <2>2. UNCHANGED <<jobVars, submittedAt, bondVars, registryVars, payments>>
    BY <1>4 DEF contractVars
  <2> QED
    BY <1>1, <1>4, <2>1, <2>2, RegistryMoveKeeps
       DEF ContractsInv, registryVars, isRequested, isValidated,
           ValidationRegistry!isRequested, ValidationRegistry!isValidated
<1>5. CASE strangerStep
  <2>1. UNCHANGED <<now, bondVars, payments>>
    BY <1>5 DEF strangerStep
  <2>2. CASE /\ \E s \in Accounts \ operators : strangerJob(s)
             /\ noteSubmission /\ UNCHANGED registryVars
    BY <1>1, <2>1, <2>2, StrangersKeep DEF LoopParts
  <2>3. ASSUME NEW r \in Specs, ValidationRegistry!validationRequest(Wallet, 0, r),
               UNCHANGED <<jobVars, submittedAt>>
        PROVE  ContractsInv' /\ Onward /\ [BondNext]_bondAllVars
    <3>1. /\ registryTyped' /\ UNCHANGED <<registryOwner, registryValidator>>
          /\ \A q \in Specs \ {r} : validation'[q] = validation[q]
          /\ ~isRequested(r) /\ isRequested(r)' /\ isValidated(r)' = isValidated(r)
          /\ validation'[r].response = validation[r].response
      BY <2>1, <2>3, RequestEffect DEF ContractsInv
    <3>2. ASSUME NEW q \in Specs
          PROVE  /\ isRequested(q) => isRequested(q)'
                 /\ isValidated(q) => isValidated(q)'
                 /\ isValidated(q)' =>
                       isValidated(q) /\ validation'[q].response = validation[q].response
      <4>1. CASE q = r
        BY <3>1, <4>1
      <4>2. CASE q # r
        BY <3>1, <4>2 DEF isRequested, isValidated,
           ValidationRegistry!isRequested, ValidationRegistry!isValidated
      <4> QED
        BY <4>1, <4>2
    <3> QED
      BY <1>1, <2>1, <2>3, <3>1, <3>2, RegistryMoveKeeps DEF ContractsInv
  <2> QED
    BY <1>5, <2>2, <2>3 DEF strangerStep
<1> QED
  BY <1>2, <1>3, <1>4, <1>5, ChainCases

------------------------------------------------------------------------------
(* The processes. *)

LogIds == 0 .. MaxJobs
LoopWires == WireStates(Calls, LogIds)

\* A demo keeps what it set out to deliver.
DemosGoOn ==
    \A d \in Demos : demo[d].at # "idle" =>
        demo'[d].at # "idle" /\ demo'[d].good = demo[d].good

\* What is on the job contract about a demo's work stays there.
LEMMA WorkStays ==
    ASSUME BondIInv, Onward, NEW d \in Demos, NEW good, NEW j
    PROVE  /\ holdsWork(d, good, j) => holdsWork(d, good, j)'
           /\ j \in JobIds /\ ownJob(d, j) => ownJob(d, j)' /\ j <= jobCount
<1>1. j \in JobIds /\ isSubmitted(j) => jobs[j].state # "None"
  BY DEF isSubmitted
<1>2. j \in JobIds /\ ownJob(d, j) => jobs[j].state # "None" /\ j <= jobCount
  BY LoopSeats, JobAssumption DEF ownJob, BondIInv, JobsAreNumbered, JobIds
<1>3. j \in JobIds => jobStands(j)
  BY DEF Onward
<1> QED
  BY <1>1, <1>2, <1>3 DEF holdsWork, ownJob, jobStands

LEMMA DueStays ==
    ASSUME BondIInv, Onward, DemosGoOn, NEW c \in Calls, CallIsDue(c)
    PROVE  CallIsDue(c)'
<1>1. c.r \in Specs
  BY CallIs
<1>2. ASSUME NEW k \in 1 .. 8, DoneUpTo(k - 1, c.r, c.job)
      PROVE  DoneUpTo(k - 1, c.r, c.job)'
  <2>1. k - 1 \in 0 .. 8
    OBVIOUS
  <2> QED
    BY <1>1, <1>2, <2>1, DoneStays
<1>3. ASSUME c.by \in Demos, NEW good, holdsWork(c.by, good, c.job)
      PROVE  holdsWork(c.by, good, c.job)'
  BY <1>3, WorkStays
<1>4. network' = network
  BY DEF Onward
<1> QED
  BY <1>2, <1>3, <1>4 DEF CallIsDue, DemosGoOn

LEMMA DemoIsStays ==
    ASSUME BondIInv, Onward, NEW d \in Demos, NEW w, NEW p, demoIs(d, w, p)
    PROVE  demoIs(d, w, p)'
<1>1. /\ holdsWork(d, p.good, p.job) => holdsWork(d, p.good, p.job)'
      /\ \A j \in JobIds : ownJob(d, j) => ownJob(d, j)'
      /\ network' = network
  BY WorkStays DEF Onward
<1> QED
  BY <1>1 DEF demoIs

LEMMA LoopIsStays ==
    ASSUME BondIInv, Onward, NEW l, NEW w, NEW p \in LoopStates, loopIs(l, w, p)
    PROVE  loopIs(l, w, p)'
<1>1. CASE p.at = "busy"
  <2>1. p.k \in 1 .. 8 /\ p.r \in Specs
    BY <1>1, StepNames, LoopSeats DEF LoopStates
  <2>2. p.k \in 0 .. 8 /\ p.k - 1 \in 0 .. 8
    BY <2>1
  <2>3. DoneUpTo(p.k - 1, p.r, p.job)'
    BY <1>1, <2>1, <2>2, DoneStays DEF loopIs
  <2>4. w.at = "ok" => DoneUpTo(p.k, p.r, w.log)'
    BY <2>1, <2>2, DoneStays DEF loopIs
  <2> QED
    BY <1>1, <2>3, <2>4 DEF loopIs, Onward
<1>2. CASE p.at = "done"
  <2>1. p.r \in Specs /\ 8 \in 0 .. 8
    BY <1>2, LoopSeats DEF LoopStates
  <2>2. \A j \in JobIds : DoneUpTo(8, p.r, j) => DoneUpTo(8, p.r, j)'
    BY <2>1, DoneStays
  <2> QED
    BY <1>2, <2>2 DEF loopIs, Onward
<1>3. CASE p.at \notin {"busy", "done"}
  BY <1>3 DEF loopIs, Onward
<1> QED
  BY <1>1, <1>2, <1>3

LEMMA CallsStayDue ==
    ASSUME BondIInv, LoopParts, CallsAreDue, Onward, DemosGoOn,
           \A i \in DOMAIN mempool' :
              \/ \E k \in DOMAIN mempool : mempool'[i].call = mempool[k].call
              \/ \E c \in Calls : mempool'[i].call = c /\ CallIsDue(c)
    PROVE  CallsAreDue'
<1>1. ASSUME NEW i \in DOMAIN mempool' PROVE CallIsDue(mempool[i].call)'
  <2>1. \E c \in Calls : mempool'[i].call = c /\ CallIsDue(c)
    <3>1. ASSUME NEW k \in DOMAIN mempool
          PROVE  \E c \in Calls : mempool[k].call = c /\ CallIsDue(c)
      <4>1. mempool[k] \in Accepted(Calls)
        BY DEF LoopParts
      <4>2. mempool[k].call \in Calls
        BY <4>1 DEF Accepted
      <4> QED
        BY <4>2 DEF CallsAreDue
    <3> QED
      BY <3>1
  <2>2. PICK c \in Calls : mempool'[i].call = c /\ CallIsDue(c)
    BY <2>1
  <2>3. CallIsDue(c)'
    BY <2>2, DueStays
  <2> QED
    BY <2>2, <2>3
<1> QED
  BY <1>1 DEF CallsAreDue

\* One by one: whoever did not move is where it was, and what it relies on stands.
LEMMA ClientsKeep ==
    ASSUME BondIInv, ClientsInv, Onward, LoopParts', CallsAreDue',
           \A l \in Loops : (wire'[l] = wire[l] /\ loop'[l] = loop[l]) \/ LoopFacts(l)',
           \A d \in Demos : (wire'[d] = wire[d] /\ demo'[d] = demo[d]) \/ DemoFacts(d)'
    PROVE  ClientsInv'
<1>1. ASSUME NEW l \in Loops PROVE LoopFacts(l)'
  <2>1. CASE wire'[l] = wire[l] /\ loop'[l] = loop[l]
    <3>1. loop[l] \in LoopStates
      BY DEF ClientsInv, LoopParts
    <3>2. PICK p \in LoopStates : p = loop[l]
      BY <3>1
    <3>w. PICK w : w = wire[l]
      OBVIOUS
    <3>3. loopIs(l, w, p)
      BY <3>2, <3>w DEF ClientsInv, LoopFacts
    <3>4. loopIs(l, w, p)'
      BY <3>3, LoopIsStays
    <3> QED
      BY <2>1, <3>2, <3>w, <3>4 DEF LoopFacts
  <2> QED
    BY <2>1
<1>2. ASSUME NEW d \in Demos PROVE DemoFacts(d)'
  <2>1. CASE wire'[d] = wire[d] /\ demo'[d] = demo[d]
    <3>1. PICK w, p : w = wire[d] /\ p = demo[d]
      OBVIOUS
    <3>2. demoIs(d, w, p)'
      BY <3>1, DemoIsStays DEF ClientsInv, DemoFacts
    <3> QED
      BY <2>1, <3>1, <3>2 DEF DemoFacts
  <2> QED
    BY <2>1
<1> QED
  BY <1>1, <1>2 DEF ClientsInv

------------------------------------------------------------------------------
(* Their turns. *)

\* A loop's turn, in which it sends nothing into the mempool.
LEMMA LoopTurn ==
    ASSUME BondIInv, ClientsInv, NEW l \in Loops, NEW w \in LoopWires, NEW p \in LoopStates,
           wire' = [wire EXCEPT ![l] = w], loop' = [loop EXCEPT ![l] = p], loopIs(l, w, p)',
           Onward, UNCHANGED <<contractVars, mempool, demo, sweep>>,
           faults' \in 0 .. MaxFaults, receipts' \subseteq Specs
    PROVE  ClientsInv'
<1>1. /\ wire \in [Clients -> LoopWires] /\ loop \in [Loops -> LoopStates] /\ l \in Clients
      /\ l \notin Demos
  BY LoopSeats DEF ClientsInv, LoopParts, LoopWires, LogIds
<1>2. /\ wire'[l] = w /\ loop'[l] = p
      /\ \A c \in Clients \ {l} : wire'[c] = wire[c]
      /\ \A m \in Loops \ {l} : loop'[m] = loop[m]
      /\ wire' \in [Clients -> LoopWires] /\ loop' \in [Loops -> LoopStates]
  BY <1>1
<1>3. LoopParts'
  BY <1>2 DEF ClientsInv, LoopParts, LoopWires, LogIds, Onward
<1>4. DemosGoOn
  BY DEF DemosGoOn
<1>5. CallsAreDue'
  BY <1>4, CallsStayDue DEF ClientsInv
<1>6. LoopFacts(l)'
  BY <1>2 DEF LoopFacts
<1> QED
  BY <1>1, <1>2, <1>3, <1>5, <1>6, LoopSeats, ClientsKeep

\* A loop turns to its k-th step.
LEMMA TurnsToStep ==
    ASSUME network = "mainnet", NEW l \in Loops, NEW k \in 1 .. 8, NEW r \in Specs,
           NEW j \in LogIds
    PROVE  LET w == [at |-> "send", tries |-> 0,
                     call |-> [step |-> Steps[k], r |-> r, job |-> j, by |-> l]]
               p == [at |-> "busy", k |-> k, r |-> r, job |-> j]
           IN  /\ w \in LoopWires /\ p \in LoopStates
               /\ loopIs(l, w, p) <=> DoneUpTo(k - 1, r, j)
<1> DEFINE call == [step |-> Steps[k], r |-> r, job |-> j, by |-> l]
<1>1. call \in Calls
  BY StepNames, LoopSeats DEF Calls, LogIds
<1>2. 0 \in 0 .. MaxTries - 1
  BY RetryAssumption
<1>3. [at |-> "send", call |-> call, tries |-> 0] \in LoopWires
  BY <1>1, <1>2 DEF LoopWires, WireStates
<1>4. [at |-> "busy", k |-> k, r |-> r, job |-> j] \in LoopStates
  BY StepNames DEF LoopStates, LogIds
<1> QED
  BY <1>3, <1>4 DEF loopIs

LEMMA StartKeeps ==
    ASSUME BondIInv, ClientsInv, Onward, NEW l \in Loops, NEW r \in Specs, startLoop(l, r)
    PROVE  ClientsInv'
<1> DEFINE w == [at |-> "send", tries |-> 0,
                 call |-> [step |-> Steps[1], r |-> r, job |-> 0, by |-> l]]
           p == [at |-> "busy", k |-> 1, r |-> r, job |-> 0]
<1>1. 0 \in LogIds /\ 1 \in 1 .. 8
  BY JobAssumption DEF LogIds
<1>2. w \in LoopWires /\ p \in LoopStates /\ (loopIs(l, w, p) <=> DoneUpTo(1 - 1, r, 0))
  BY <1>1, TurnsToStep DEF startLoop
<1>3. DoneUpTo(1 - 1, r, 0)
  BY DEF DoneUpTo
<1>4. /\ wire' = [wire EXCEPT ![l] = w] /\ loop' = [loop EXCEPT ![l] = p]
      /\ UNCHANGED <<contractVars, mempool, demo, sweep, faults, receipts>>
  BY DEF startLoop, doStep, issue, hear
<1> HIDE DEF w, p
<1>5. loopIs(l, w, p)'
  BY <1>2, <1>3, LoopIsStays
<1> QED
  BY <1>2, <1>4, <1>5, LoopTurn DEF ClientsInv, LoopParts

LEMMA NextStepKeeps ==
    ASSUME BondIInv, ClientsInv, Onward, NEW l \in Loops, nextStep(l)
    PROVE  ClientsInv'
<1>0. /\ wire[l] \in LoopWires /\ loop[l] \in LoopStates /\ LoopFacts(l) /\ wire[l].at = "ok"
  BY LoopSeats DEF ClientsInv, LoopParts, LoopWires, LogIds, nextStep
<1>1. PICK k \in 1 .. 8, r \in Specs, j \in LogIds :
          /\ network = "mainnet" /\ loop[l].k = k /\ loop[l].r = r /\ wire[l].log = j /\ DoneUpTo(k, r, j)
  <2>1. loop[l].at = "busy" /\ DoneUpTo(loop[l].k, loop[l].r, wire[l].log)
        /\ network = "mainnet"
    BY <1>0 DEF LoopFacts, loopIs
  <2>2. loop[l].k \in 1 .. 8 /\ loop[l].r \in Specs
    BY <1>0, <2>1, StepNames DEF LoopStates
  <2>3. wire[l].log \in LogIds
    BY <1>0 DEF LoopWires, WireStates, Quiet
  <2> QED
    BY <2>1, <2>2, <2>3
<1>2. UNCHANGED <<contractVars, mempool, demo, sweep, faults>>
  BY DEF nextStep, doStep, issue, hangUp
<1>3. CASE k < 8
  <2> DEFINE w == [at |-> "send", tries |-> 0,
                   call |-> [step |-> Steps[k + 1], r |-> r, job |-> j, by |-> l]]
             p == [at |-> "busy", k |-> k + 1, r |-> r, job |-> j]
  <2>1. k + 1 \in 1 .. 8 /\ k + 1 - 1 = k
    BY <1>3
  <2>2. w \in LoopWires /\ p \in LoopStates /\ (loopIs(l, w, p) <=> DoneUpTo(k, r, j))
    BY <1>1, <2>1, TurnsToStep
  <2>3. /\ wire' = [wire EXCEPT ![l] = w] /\ loop' = [loop EXCEPT ![l] = p]
        /\ receipts' = receipts
    BY <1>1, <1>3, StepNames DEF nextStep, doStep, issue, hear, jobIdFrom
  <2> HIDE DEF w, p
  <2>4. loopIs(l, w, p)'
    BY <1>1, <2>2, LoopIsStays
  <2> QED
    BY <1>2, <2>2, <2>3, <2>4, LoopTurn DEF ClientsInv, LoopParts
<1>4. CASE k = 8
  <2> DEFINE p == [at |-> "done", r |-> r]
  <2>1. Quiet \in LoopWires /\ p \in LoopStates
    BY DEF LoopWires, WireStates, LoopStates
  <2>2. /\ wire' = [wire EXCEPT ![l] = Quiet] /\ loop' = [loop EXCEPT ![l] = p]
        /\ receipts' = receipts \cup {r}
    BY <1>1, <1>4, StepNames DEF nextStep, hangUp, hear
  <2>3. loopIs(l, Quiet, p)
    <3>1. j \in JobIds /\ DoneUpTo(8, r, j)
      BY <1>1, <1>4 DEF DoneUpTo
    <3> QED
      BY <1>1, <3>1 DEF loopIs, Quiet
  <2> HIDE DEF p
  <2>4. loopIs(l, Quiet, p)'
    BY <2>1, <2>3, LoopIsStays
  <2> QED
    BY <1>2, <2>1, <2>2, <2>4, LoopTurn DEF ClientsInv, LoopParts
<1> QED
  BY <1>3, <1>4

LEMMA DeathKeeps ==
    ASSUME BondIInv, ClientsInv, Onward, NEW l \in Loops, loopDies(l)
    PROVE  ClientsInv'
<1>1. PICK r \in Specs : loop[l].r = r /\ network = "mainnet"
  <2>1. loop[l] \in LoopStates /\ loop[l].at = "busy"
    BY DEF ClientsInv, LoopParts, loopDies
  <2>2. network = "mainnet"
    BY <2>1 DEF ClientsInv, LoopFacts, loopIs
  <2> QED
    BY <2>1, <2>2 DEF LoopStates
<1> DEFINE p == [at |-> "dead", r |-> r]
<1>2. Quiet \in LoopWires /\ p \in LoopStates /\ loopIs(l, Quiet, p)
  BY <1>1 DEF LoopWires, WireStates, LoopStates, loopIs, Quiet
<1>3. /\ wire' = [wire EXCEPT ![l] = Quiet] /\ loop' = [loop EXCEPT ![l] = p]
      /\ UNCHANGED <<contractVars, mempool, demo, sweep, receipts>>
      /\ faults' = faults \/ fault
  BY <1>1 DEF loopDies, crash, hangUp, hear
<1>4. faults' \in 0 .. MaxFaults
  BY <1>3, RetryAssumption DEF fault, ClientsInv, LoopParts
<1> HIDE DEF p
<1>5. loopIs(l, Quiet, p)'
  BY <1>2, LoopIsStays
<1> QED
  BY <1>2, <1>3, <1>4, <1>5, LoopTurn DEF ClientsInv, LoopParts

\* A demo's turn, in which it sends nothing into the mempool.
LEMMA DemoTurn ==
    ASSUME BondIInv, ClientsInv, NEW d \in Demos, NEW w \in LoopWires, NEW p \in DemoStates,
           wire' = [wire EXCEPT ![d] = w], demo' = [demo EXCEPT ![d] = p], demoIs(d, w, p),
           demo[d].at # "idle" => p.at # "idle" /\ p.good = demo[d].good,
           Onward, UNCHANGED <<contractVars, mempool, loop, sweep, faults, receipts>>
    PROVE  ClientsInv'
<1>1. /\ wire \in [Clients -> LoopWires] /\ demo \in [Demos -> DemoStates] /\ d \in Clients
      /\ d \notin Loops
  BY LoopSeats DEF ClientsInv, LoopParts, LoopWires, LogIds
<1>2. /\ wire'[d] = w /\ demo'[d] = p
      /\ \A c \in Clients \ {d} : wire'[c] = wire[c]
      /\ \A e \in Demos \ {d} : demo'[e] = demo[e]
      /\ wire' \in [Clients -> LoopWires] /\ demo' \in [Demos -> DemoStates]
  BY <1>1
<1>3. LoopParts'
  BY <1>2 DEF ClientsInv, LoopParts, LoopWires, LogIds, Onward
<1>4. DemosGoOn
  BY <1>2 DEF DemosGoOn
<1>5. CallsAreDue'
  BY <1>4, CallsStayDue DEF ClientsInv
<1>6. demoIs(d, w, p)'
  BY DemoIsStays
<1>7. DemoFacts(d)'
  BY <1>2, <1>6 DEF DemoFacts
<1> QED
  BY <1>1, <1>2, <1>3, <1>5, <1>7, LoopSeats, ClientsKeep

LEMMA DoDemoKeeps ==
    ASSUME BondIInv, ClientsInv, Onward, NEW d \in Demos,
           NEW at \in {"createJob", "submit", "decide"}, NEW good \in BOOLEAN,
           NEW j \in LogIds, NEW step, doDemo(d, at, good, j, step),
           step = stepOf([at |-> at, good |-> good, job |-> j]), network = "testnet",
           at # "createJob" => \E i \in JobIds : i \in 1 .. j /\ ownJob(d, i),
           at = "decide" => holdsWork(d, good, j),
           demo[d].at # "idle" => good = demo[d].good,
           UNCHANGED <<contractVars, loop, sweep, receipts>>
    PROVE  ClientsInv'
<1> DEFINE call == [step |-> step, r |-> DemoSpec[d], job |-> j, by |-> d]
           w == [at |-> "send", call |-> call, tries |-> 0]
           p == [at |-> at, good |-> good, job |-> j]
<1>1. step \in {"createJob", "submit", "complete", "reject"}
  BY DEF stepOf
<1>2. call \in Calls
  BY <1>1, StepNames, LoopSeats DEF Calls, LogIds
<1>3. w \in LoopWires
  BY <1>2, RetryAssumption DEF LoopWires, WireStates
<1>4. p \in DemoStates
  BY DEF DemoStates, LogIds
<1>5. demoIs(d, w, p)
  BY DEF demoIs
<1>6. /\ wire' = [wire EXCEPT ![d] = w] /\ demo' = [demo EXCEPT ![d] = p]
      /\ UNCHANGED <<mempool, faults>>
  BY DEF doDemo, issue, hear
<1>7. p.at # "idle" /\ p.good = good
  OBVIOUS
<1> HIDE DEF w, p
<1> QED
  BY <1>3, <1>4, <1>5, <1>6, <1>7, DemoTurn

LEMMA DemoKeeps ==
    ASSUME BondIInv, ClientsInv, Onward, NEW d \in Demos,
           \/ \E good \in BOOLEAN : startDemo(d, good)
           \/ readJobCount(d) \/ evaluate(d) \/ demoEnds(d)
    PROVE  ClientsInv'
<1>1. /\ demo[d] \in DemoStates /\ 0 \in LogIds /\ jobCount \in LogIds
      /\ demo \in [Demos -> DemoStates]
  BY JobAssumption DEF ClientsInv, LoopParts, LogIds, BondIInv, JobsAreNumbered
<1>2. ASSUME NEW good \in BOOLEAN, startDemo(d, good) PROVE ClientsInv'
  <2>1. "createJob" = stepOf([at |-> "createJob", good |-> good, job |-> 0])
    BY DEF stepOf
  <2>2. demo[d].at = "idle" /\ doDemo(d, "createJob", good, 0, "createJob")
        /\ network = "testnet" /\ UNCHANGED <<contractVars, loop, sweep, receipts>>
    BY <1>2 DEF startDemo
  <2> QED
    BY <1>1, <2>1, <2>2, DoDemoKeeps
<1>3. /\ DemoFacts(d)
      /\ demo[d].at # "idle" => network = "testnet"
  BY DEF ClientsInv, DemoFacts, demoIs
<1>4. CASE readJobCount(d)
  <2>1. PICK good \in BOOLEAN, j \in LogIds : good = demo[d].good /\ j = jobCount
    BY <1>1, <1>4 DEF readJobCount, DemoStates
  <2>2. "submit" = stepOf([at |-> "submit", good |-> good, job |-> j])
    BY DEF stepOf
  <2>3. doDemo(d, "submit", good, j, "submit")
        /\ UNCHANGED <<contractVars, loop, sweep, receipts>>
    BY <1>4, <2>1 DEF readJobCount
  <2>4. demo[d].at = "createJob" /\ wire[d].at = "ok"
    BY <1>4 DEF readJobCount
  <2>5. \E i \in JobIds : i \in 1 .. j /\ ownJob(d, i)
    <3>1. PICK i \in JobIds : ownJob(d, i)
      BY <1>3, <2>4 DEF DemoFacts, demoIs
    <3>2. i <= jobCount
      BY <3>1, WorkStays
    <3>3. i \in 1 .. j
      BY <1>1, <2>1, <3>2, JobAssumption DEF JobIds, LogIds
    <3> QED
      BY <3>1, <3>3
  <2> QED
    BY <1>3, <2>1, <2>2, <2>3, <2>4, <2>5, DoDemoKeeps
<1>5. CASE evaluate(d)
  <2>1. PICK good \in BOOLEAN, j \in LogIds : good = demo[d].good /\ j = demo[d].job
    BY <1>1, <1>5 DEF evaluate, DemoStates, LogIds
  <2>2. PICK step : step = IF good THEN "complete" ELSE "reject"
    OBVIOUS
  <2>3. step = stepOf([at |-> "decide", good |-> good, job |-> j])
    BY <2>2 DEF stepOf
  <2>4. doDemo(d, "decide", good, j, step)
        /\ UNCHANGED <<contractVars, loop, sweep, receipts>>
    BY <1>5, <2>1, <2>2 DEF evaluate
  <2>5. demo[d].at = "submit" /\ wire[d].at = "ok"
    BY <1>5 DEF evaluate
  <2>6. /\ \E i \in JobIds : i \in 1 .. j /\ ownJob(d, i)
        /\ holdsWork(d, good, j)
    BY <1>3, <2>1, <2>5 DEF DemoFacts, demoIs
  <2> QED
    BY <1>3, <2>1, <2>3, <2>4, <2>5, <2>6, DoDemoKeeps
<1>6. CASE demoEnds(d)
  <2>1. demo[d].at \in {"createJob", "submit", "decide"}
    <3>1. wire[d].at # "quiet"
      BY <1>6 DEF demoEnds
    <3> QED
      BY <3>1 DEF ClientsInv, DemoFacts, demoIs
  <2>2. PICK good \in BOOLEAN, j \in LogIds :
            demo[d] = [at |-> demo[d].at, good |-> good, job |-> j]
    BY <1>1, <2>1 DEF DemoStates, LogIds
  <2>3. PICK at \in {"done", "dead"} : /\ demo' = [demo EXCEPT ![d].at = at]
                                       /\ at = "done" => demo[d].at = "decide"
    BY <1>6 DEF demoEnds
  <2> DEFINE p == [at |-> at, good |-> good, job |-> j]
  <2>4. [demo[d] EXCEPT !.at = at] = p
    BY <2>2
  <2>5. demo' = [demo EXCEPT ![d] = p]
    BY <1>1, <2>3, <2>4
  <2>6. p \in DemoStates /\ p.at # "idle" /\ p.good = demo[d].good
    BY <2>2 DEF DemoStates, LogIds
  <2>7. Quiet \in LoopWires /\ demoIs(d, Quiet, p)
    <3>1. /\ network = "testnet"
          /\ at = "done" => \E i \in JobIds : i \in 1 .. j /\ ownJob(d, i)
      BY <1>3, <2>1, <2>2, <2>3 DEF DemoFacts, demoIs
    <3> QED
      BY <3>1 DEF LoopWires, WireStates, demoIs, Quiet
  <2>8. /\ wire' = [wire EXCEPT ![d] = Quiet]
        /\ UNCHANGED <<contractVars, mempool, loop, sweep, faults, receipts>>
    BY <1>6 DEF demoEnds, hangUp, hear
  <2> HIDE DEF p
  <2> QED
    BY <2>5, <2>6, <2>7, <2>8, DemoTurn
<1> QED
  BY <1>2, <1>4, <1>5, <1>6

------------------------------------------------------------------------------
(* Sending and mining. *)

\* A call that is on its client's wire is the one its progress names.
LEMMA WireCallIsDue ==
    ASSUME BondIInv, ClientsInv, NEW c \in Clients, wire[c].at = "send", accepts(wire[c].call)
    PROVE  /\ wire[c].call \in Calls /\ CallIsDue(wire[c].call)
           /\ wire[c].call.by = c
<1>0. wire[c] \in LoopWires
  BY DEF ClientsInv, LoopParts, LoopWires, LogIds
<1>1. PICK call \in Calls : call = wire[c].call
  BY <1>0 DEF LoopWires, WireStates, Quiet
<1>2. call.step \in {"submit", "complete", "reject"} => call.job \in JobIds
  <2>1. /\ call.step = "submit" => jobAt(call.job).provider = walletOf(call)
        /\ call.step \in {"complete", "reject"} => jobAt(call.job).evaluator = walletOf(call)
    BY <1>1 DEF accepts
  <2>2. walletOf(call) # ZeroAddress
    BY CallIs, LoopSeats
  <2> QED
    BY <2>1, <2>2 DEF jobAt, NoJob
<1>3. CASE c \in Loops
  <2>1. loop[c].at = "busy" /\ loop[c] \in LoopStates
        /\ call = [step |-> Steps[loop[c].k], r |-> loop[c].r, job |-> loop[c].job, by |-> c]
        /\ DoneUpTo(loop[c].k - 1, loop[c].r, loop[c].job) /\ network = "mainnet"
    BY <1>1, <1>3 DEF ClientsInv, LoopParts, LoopFacts, loopIs
  <2>2. loop[c].k \in 1 .. 8 /\ loop[c].r \in Specs
    BY <2>1, StepNames DEF LoopStates
  <2>3. call.by = c /\ call.step = Steps[loop[c].k] /\ call.r = loop[c].r
        /\ call.job = loop[c].job
    BY <2>1
  <2>4. CallIsDue(call)
    BY <1>2, <1>3, <2>1, <2>2, <2>3, LoopSeats DEF CallIsDue
  <2> QED
    BY <1>1, <2>3, <2>4
<1>4. CASE c \in Demos
  <2>1. PICK p \in DemoStates : p = demo[c]
    BY <1>4 DEF ClientsInv, LoopParts
  <2>2. /\ call = [step |-> stepOf(p), r |-> DemoSpec[c], job |-> p.job, by |-> c]
        /\ p.at \in {"createJob", "submit", "decide"} /\ network = "testnet"
        /\ p.at = "decide" => holdsWork(c, p.good, p.job)
    BY <1>1, <1>4, <2>1 DEF ClientsInv, DemoFacts, demoIs
  <2>3. call.by = c /\ call.step = stepOf(p) /\ call.r = DemoSpec[c] /\ call.job = p.job
    BY <2>2
  <2>4. p.good \in BOOLEAN
    BY <2>2 DEF DemoStates
  <2>5. /\ stepOf(p) \in {"createJob", "submit", "complete", "reject"}
        /\ stepOf(p) = "complete" => p.at = "decide" /\ p.good = TRUE
        /\ stepOf(p) = "reject" => p.at = "decide" /\ p.good = FALSE
    BY <2>2, <2>4 DEF stepOf
  <2>6. /\ call.step = "complete" => p.good /\ holdsWork(c, TRUE, call.job)
        /\ call.step = "reject" => ~p.good /\ holdsWork(c, FALSE, call.job)
    BY <2>2, <2>3, <2>5
  <2>7. c \notin Loops /\ demo[c].at # "idle"
    BY <1>4, <2>1, <2>2, LoopSeats
  <2>8. CallIsDue(call)
    BY <1>2, <2>1, <2>2, <2>3, <2>5, <2>6, <2>7 DEF CallIsDue
  <2> QED
    BY <1>1, <2>3, <2>8
<1> QED
  BY <1>3, <1>4, LoopSeats

\* What a try does to the wire and to the mempool.
tried(c, call, w) ==
    /\ call = wire[c].call /\ wire[c].at = "send"
    /\ wire' = [wire EXCEPT ![c] = w]
    /\ w.at \in {"send", "wait", "thrown"}
    /\ w.at \in {"send", "wait"} => w.call = call
    /\ \/ mempool' = mempool /\ faults' \in {faults, faults + 1} /\ w.at # "wait"
       \/ /\ accepts(call) /\ faults' = faults /\ w.at = "wait"
          /\ mempool' = Append(mempool, [by |-> c, call |-> call, answered |-> TRUE])
       \/ /\ accepts(call) /\ faults' = faults + 1 /\ w.at # "wait"
          /\ mempool' = Append(mempool, [by |-> c, call |-> call, answered |-> FALSE])
    /\ faults' \in 0 .. MaxFaults
    /\ UNCHANGED <<now, contractVars, loop, demo, receipts, sweep>>

LEMMA SendCases ==
    ASSUME LoopParts, NEW c \in Clients, Send(c)
    PROVE  \E call \in Calls, w \in LoopWires : tried(c, call, w)
<1>0. wire[c] \in LoopWires /\ wire[c].at = "send" /\ faults \in 0 .. MaxFaults
      /\ MaxFaults \in Nat /\ MaxTries \in Nat \ {0}
  BY RetryAssumption DEF LoopParts, LoopWires, LogIds, Send
<1>1. PICK call \in Calls, tries \in 0 .. MaxTries - 1 :
          wire[c] = [at |-> "send", call |-> call, tries |-> tries]
  BY <1>0 DEF LoopWires, WireStates, Quiet
<1>2. wire[c].call = call /\ wire[c].tries = tries
      /\ [wire[c] EXCEPT !.tries = @ + 1] = [at |-> "send", call |-> call, tries |-> tries + 1]
  BY <1>1
<1> DEFINE waits == [at |-> "wait", call |-> call]
           thrown == [at |-> "thrown"]
           again == [at |-> "send", call |-> call, tries |-> tries + 1]
<1>3. /\ waits \in LoopWires /\ thrown \in LoopWires
      /\ tries + 1 < MaxTries => again \in LoopWires
  BY <1>0, <1>1 DEF LoopWires, WireStates
<1>4. /\ waits.at = "wait" /\ waits.call = call /\ thrown.at = "thrown"
      /\ again.at = "send" /\ again.call = call
  OBVIOUS
<1>5. UNCHANGED <<now, contractVars, loop, demo, receipts, sweep>>
  BY DEF Send, scriptVars
<1>6. \/ send(c, accepts(call)) \/ loseAnswer(c, accepts(call))
  BY <1>2 DEF Send
<1>7. ASSUME send(c, accepts(call))
      PROVE  /\ faults' = faults
             /\ \/ /\ accepts(call) /\ wire' = [wire EXCEPT ![c] = waits]
                   /\ mempool' = Append(mempool, [by |-> c, call |-> call, answered |-> TRUE])
                \/ mempool' = mempool /\ wire' = [wire EXCEPT ![c] = thrown]
  BY <1>2, <1>7 DEF send, accept, hear
<1>8. ASSUME loseAnswer(c, accepts(call))
      PROVE  /\ faults' = faults + 1 /\ faults' \in 0 .. MaxFaults
             /\ \/ wire' = [wire EXCEPT ![c] = thrown]
                \/ tries + 1 < MaxTries /\ wire' = [wire EXCEPT ![c] = again]
             /\ \/ mempool' = mempool
                \/ /\ accepts(call)
                   /\ mempool' = Append(mempool, [by |-> c, call |-> call, answered |-> FALSE])
  <2>1. /\ faults < MaxFaults /\ faults' = faults + 1
        /\ (accepts(call) /\ accept(c, FALSE)) \/ mempool' = mempool
        /\ wire' = [wire EXCEPT ![c] = IF tries + 1 < MaxTries
                       THEN [wire[c] EXCEPT !.tries = @ + 1] ELSE thrown]
    BY <1>2, <1>8 DEF loseAnswer, hear, fault
  <2>2. faults' \in 0 .. MaxFaults
    BY <1>0, <2>1
  <2>3. \/ wire' = [wire EXCEPT ![c] = thrown]
        \/ tries + 1 < MaxTries /\ wire' = [wire EXCEPT ![c] = again]
    BY <1>2, <2>1
  <2>4. accept(c, FALSE) =>
          mempool' = Append(mempool, [by |-> c, call |-> call, answered |-> FALSE])
    BY <1>2 DEF accept
  <2> QED
    BY <2>1, <2>2, <2>3, <2>4
<1> HIDE DEF waits, thrown, again
<1> QED
  BY <1>0, <1>2, <1>3, <1>4, <1>5, <1>6, <1>7, <1>8 DEF tried

LEMMA AppendedCalls ==
    ASSUME NEW pool \in Seq(Accepted(Calls)), NEW e \in Accepted(Calls)
    PROVE  /\ Append(pool, e) \in Seq(Accepted(Calls))
           /\ \A i \in DOMAIN Append(pool, e) :
                 \/ i \in DOMAIN pool /\ Append(pool, e)[i] = pool[i]
                 \/ Append(pool, e)[i] = e
OBVIOUS

LEMMA SendKeeps ==
    ASSUME BondIInv, ClientsInv, Onward, NEW c \in Clients, Send(c)
    PROVE  ClientsInv'
<1>1. /\ LoopParts /\ wire \in [Clients -> LoopWires] /\ mempool \in Seq(Accepted(Calls))
  BY DEF ClientsInv, LoopParts, LoopWires, LogIds
<1>2. PICK call \in Calls, w \in LoopWires : tried(c, call, w)
  BY <1>1, SendCases
<1>3. /\ call = wire[c].call /\ wire[c].at = "send"
      /\ wire' = [wire EXCEPT ![c] = w]
      /\ w.at \in {"send", "wait", "thrown"}
      /\ w.at \in {"send", "wait"} => w.call = call
      /\ \/ mempool' = mempool
         \/ \E answered \in BOOLEAN :
               /\ accepts(call)
               /\ mempool' = Append(mempool, [by |-> c, call |-> call, answered |-> answered])
      /\ faults' \in 0 .. MaxFaults
      /\ UNCHANGED <<now, contractVars, loop, demo, receipts, sweep>>
  BY <1>2 DEF tried
<1>4. /\ wire'[c] = w /\ wire' \in [Clients -> LoopWires]
      /\ \A d \in Clients \ {c} : wire'[d] = wire[d]
  BY <1>1, <1>3
<1>5. ASSUME NEW answered \in BOOLEAN, accepts(call),
             mempool' = Append(mempool, [by |-> c, call |-> call, answered |-> answered])
      PROVE  /\ mempool' \in Seq(Accepted(Calls))
             /\ \A i \in DOMAIN mempool' :
                   \/ \E k \in DOMAIN mempool : mempool'[i].call = mempool[k].call
                   \/ \E d \in Calls : mempool'[i].call = d /\ CallIsDue(d)
  <2> DEFINE e == [by |-> c, call |-> call, answered |-> answered]
  <2>1. e \in Accepted(Calls) /\ e.call = call
    BY DEF Accepted
  <2>2. CallIsDue(call)
    BY <1>3, <1>5, WireCallIsDue
  <2> HIDE DEF e
  <2>3. mempool' = Append(mempool, e)
    BY <1>5 DEF e
  <2>4. /\ mempool' \in Seq(Accepted(Calls))
        /\ \A i \in DOMAIN mempool' :
              \/ i \in DOMAIN mempool /\ mempool'[i] = mempool[i]
              \/ mempool'[i] = e
    BY <1>1, <2>1, <2>3, AppendedCalls
  <2> QED
    BY <2>1, <2>2, <2>4
<1>6. /\ mempool' \in Seq(Accepted(Calls))
      /\ \A i \in DOMAIN mempool' :
            \/ \E k \in DOMAIN mempool : mempool'[i].call = mempool[k].call
            \/ \E d \in Calls : mempool'[i].call = d /\ CallIsDue(d)
  BY <1>1, <1>3, <1>5
<1>7. LoopParts'
  BY <1>1, <1>3, <1>4, <1>6 DEF LoopParts, LoopWires, LogIds, Onward
<1>8. DemosGoOn
  BY <1>3 DEF DemosGoOn
<1>9. CallsAreDue'
  BY <1>6, <1>8, CallsStayDue DEF ClientsInv
<1>10. c \in Demos => DemoFacts(c)'
  <2> SUFFICES ASSUME c \in Demos PROVE DemoFacts(c)'
    OBVIOUS
  <2>1. PICK p : p = demo[c]
    OBVIOUS
  <2>2. demoIs(c, wire[c], p)
    BY <2>1 DEF ClientsInv, DemoFacts
  <2>3. demoIs(c, w, p)
    BY <1>3, <2>2 DEF demoIs
  <2>4. demoIs(c, w, p)'
    BY <2>3, DemoIsStays
  <2> QED
    BY <1>3, <1>4, <2>1, <2>4 DEF DemoFacts
<1>11. c \in Loops => LoopFacts(c)'
  <2> SUFFICES ASSUME c \in Loops PROVE LoopFacts(c)'
    OBVIOUS
  <2>1. loop[c] \in LoopStates
    BY <1>1 DEF LoopParts
  <2>2. PICK p \in LoopStates : p = loop[c]
    BY <2>1
  <2>3. loopIs(c, wire[c], p)
    BY <2>2 DEF ClientsInv, LoopFacts
  <2>4. loopIs(c, w, p)
    BY <1>3, <2>3 DEF loopIs
  <2>5. loopIs(c, w, p)'
    BY <2>4, LoopIsStays
  <2> QED
    BY <1>3, <1>4, <2>2, <2>5 DEF LoopFacts
<1> QED
  BY <1>3, <1>4, <1>7, <1>9, <1>10, <1>11, LoopSeats, ClientsKeep

LEMMA CutCalls ==
    ASSUME NEW pool \in Seq(Accepted(Calls)), NEW i \in DOMAIN pool
    PROVE  /\ RemoveAt(pool, i) \in Seq(Accepted(Calls))
           /\ Len(RemoveAt(pool, i)) = Len(pool) - 1
           /\ \A k \in DOMAIN RemoveAt(pool, i) :
                 /\ k \in 1 .. Len(pool) - 1
                 /\ RemoveAt(pool, i)[k] = pool[IF k < i THEN k ELSE k + 1]
                 /\ (IF k < i THEN k ELSE k + 1) \in DOMAIN pool \ {i}
<1> DEFINE rest == RemoveAt(pool, i)
<1>1. /\ rest \in Seq(Accepted(Calls)) /\ Len(rest) = Len(pool) - 1
      /\ \A k \in 1 .. Len(pool) - 1 : rest[k] = pool[IF k < i THEN k ELSE k + 1]
  BY CutOut DEF RemoveAt, cutOut
<1>2. DOMAIN pool = 1 .. Len(pool) /\ Len(pool) \in Nat /\ i \in 1 .. Len(pool)
  OBVIOUS
<1> HIDE DEF rest
<1>3. DOMAIN rest = 1 .. Len(pool) - 1
  BY <1>1, <1>2
<1>4. ASSUME NEW k \in 1 .. Len(pool) - 1
      PROVE  (IF k < i THEN k ELSE k + 1) \in DOMAIN pool \ {i}
  BY <1>2
<1>5. /\ rest \in Seq(Accepted(Calls)) /\ Len(rest) = Len(pool) - 1
      /\ \A k \in DOMAIN rest :
            /\ k \in 1 .. Len(pool) - 1
            /\ rest[k] = pool[IF k < i THEN k ELSE k + 1]
            /\ (IF k < i THEN k ELSE k + 1) \in DOMAIN pool \ {i}
  BY <1>1, <1>3, <1>4
<1> QED
  BY <1>5 DEF rest

\* A loop's step is done once its call is mined without a revert.
LEMMA MinedIsDone ==
    ASSUME ContractsInv, Onward, BondIInv', NEW c \in Calls, CallIsDue(c), c.by \in Loops,
           jobCall(c) \/ bondCall(c) \/ registryCall(c) \/ settlementCall(c),
           NEW k \in 1 .. 8, c.step = Steps[k], now' = now,
           NEW log, log = IF c.step = "createJob" THEN jobCount' ELSE c.job
    PROVE  DoneUpTo(k, c.r, log)'
<1>1. /\ c.r \in Specs /\ DoneUpTo(k - 1, c.r, c.job)
      /\ BondIInv /\ registryTyped /\ payments \in [Specs -> Nat] /\ k - 1 \in 0 .. 8
      /\ c.step \in {"submit", "complete", "reject"} => c.job \in JobIds
  <2>1. c.r \in Specs /\ DoneUpTo(k - 1, c.r, c.job)
    BY CallIs, LoopCallIsDue
  <2>2. c.step \in {"submit", "complete", "reject"} => c.job \in JobIds
    BY DEF CallIsDue
  <2> QED
    BY <2>1, <2>2 DEF ContractsInv
<1>2. DoneUpTo(k - 1, c.r, c.job)'
  BY <1>1, DoneStays
<1>3. c.step # "createJob" => log = c.job
  OBVIOUS
<1>4. /\ c.step = "validationRequest" <=> k = 1
      /\ c.step = "createJob" <=> k = 2
      /\ c.step = "stakeAndCommit" <=> k = 3
      /\ c.step = "submit" <=> k = 4
      /\ c.step = "validationResponse" <=> k = 5
      /\ c.step = "recordScore" <=> k = 6
      /\ c.step = "complete" <=> k = 7
      /\ c.step = "payForRoute" <=> k = 8
      /\ c.step # "reject"
  BY StepPlaces
<1>5. CASE jobCall(c)
  <2>1. PICK j \in JobIds : jobMade(c, j) \/ jobSubmitted(c, j) \/ jobDecided(c, j)
    BY <1>1, <1>5, JobCallEffect
  <2>2. CASE jobMade(c, j)
    <3>1. k = 2 /\ log = j /\ jobs'[j].specHash = c.r /\ jobs'[j].client = Wallet
      BY <2>2, <1>4 DEF jobMade
    <3> QED
      BY <1>2, <3>1 DEF DoneUpTo
  <2>3. CASE jobSubmitted(c, j)
    <3>1. k = 4 /\ log = j /\ jobs'[j].state = "Submitted" /\ c.job = j
      BY <1>3, <2>3, <1>4 DEF jobSubmitted
    <3> QED
      BY <1>2, <3>1 DEF DoneUpTo, isSubmitted
  <2>4. CASE jobDecided(c, j)
    <3>1. k = 7 /\ log = j /\ jobs'[j].state = "Completed" /\ c.job = j
      BY <1>3, <2>4, <1>4 DEF jobDecided
    <3> QED
      BY <1>2, <3>1 DEF DoneUpTo
  <2> QED
    BY <2>1, <2>2, <2>3, <2>4
<1>6. CASE bondCall(c)
  <2>1. \/ c.step = "stakeAndCommit" /\ posted(c.r)
        \/ c.step = "recordScore" /\ judged(c.r)
    BY <1>1, <1>6, BondCallEffect
  <2>2. CASE c.step = "stakeAndCommit" /\ posted(c.r)
    <3>1. k = 3 /\ log = c.job /\ isStaked(c.r)'
      BY <1>3, <2>2, <1>4 DEF posted
    <3> QED
      BY <1>2, <3>1 DEF DoneUpTo
  <2>3. CASE c.step = "recordScore" /\ judged(c.r)
    <3>1. k = 6 /\ log = c.job /\ stakes'[c.r].scored
      BY <1>3, <2>3, <1>4 DEF judged
    <3> QED
      BY <1>2, <3>1 DEF DoneUpTo
  <2> QED
    BY <2>1, <2>2, <2>3
<1>7. CASE registryCall(c)
  <2>1. \/ c.step = "validationRequest" /\ isRequested(c.r)'
        \/ c.step = "validationResponse" /\ isValidated(c.r)'
    BY <1>1, <1>7, RegistryCallEffect
  <2>2. CASE c.step = "validationRequest" /\ isRequested(c.r)'
    <3>1. k = 1
      BY <1>4, <2>2
    <3> QED
      BY <2>2, <3>1 DEF DoneUpTo
  <2>3. CASE c.step = "validationResponse" /\ isValidated(c.r)'
    <3>1. k = 5 /\ log = c.job
      BY <1>3, <1>4, <2>3
    <3> QED
      BY <1>2, <2>3, <3>1 DEF DoneUpTo
  <2> QED
    BY <2>1, <2>2, <2>3
<1>8. CASE settlementCall(c)
  <2>1. k = 8 /\ log = c.job
    BY <1>3, <1>8, <1>4 DEF settlementCall
  <2>2. payments'[c.r] = payments[c.r] + 1 /\ payments[c.r] \in Nat
    BY <1>1, <1>8 DEF settlementCall
  <2>3. payments'[c.r] >= 1
    BY <2>2
  <2> QED
    BY <1>2, <2>1, <2>3 DEF DoneUpTo
<1> QED
  BY <1>5, <1>6, <1>7, <1>8

\* So is a demo's: its own job is there, its work is on the job it names.
LEMMA MinedForDemo ==
    ASSUME BondIInv, NEW c \in Calls, CallIsDue(c), c.by \in Demos, jobCall(c),
           demo' = demo
    PROVE  /\ c.step = "createJob" => \E j \in JobIds : ownJob(c.by, j)'
           /\ c.step = "submit" => holdsWork(c.by, demo[c.by].good, c.job)'
<1>1. /\ c.step \in {"submit", "complete", "reject"} => c.job \in JobIds
      /\ c.r = DemoSpec[c.by] /\ walletOf(c) = DemoWallet
  BY CallIs DEF CallIsDue
<1>2. PICK j \in JobIds : jobMade(c, j) \/ jobSubmitted(c, j) \/ jobDecided(c, j)
  BY <1>1, JobCallEffect
<1>3. c.step = "createJob" => ownJob(c.by, j)'
  BY <1>1, <1>2 DEF jobMade, jobSubmitted, jobDecided, ownJob
<1>4. c.step = "submit" => holdsWork(c.by, demo[c.by].good, c.job)'
  BY <1>1, <1>2
     DEF jobMade, jobSubmitted, jobDecided, sameParties, holdsWork, isSubmitted, work
<1> QED
  BY <1>3, <1>4

\* What becomes of the wire when a call is mined.
isMined(i, c, by, log) ==
    /\ c = mempool[i].call /\ by = mempool[i].by
    /\ mempool' = RemoveAt(mempool, i)
    /\ UNCHANGED <<now, faults, loop, demo, receipts, sweep>>
    /\ \/ wire' = wire
       \/ /\ wire[by].at = "wait" /\ wire[by].call = c /\ c.by = by
          /\ wire' = [wire EXCEPT ![by] = [at |-> "thrown"]]
       \/ /\ wire[by].at = "wait" /\ wire[by].call = c /\ c.by = by
          /\ wire' = [wire EXCEPT ![by] = [at |-> "ok", log |-> log]]
          /\ jobCall(c) \/ bondCall(c) \/ registryCall(c) \/ settlementCall(c)
    /\ log = IF c.step = "createJob" THEN jobCount' ELSE c.job
    /\ \/ UNCHANGED contractVars
       \/ jobCall(c) \/ bondCall(c) \/ registryCall(c) \/ settlementCall(c)

LEMMA MineCases ==
    ASSUME ClientsInv, BondIInv', NEW i \in DOMAIN mempool, mine(i)
    PROVE  \E c \in Calls, by \in Clients, log \in LogIds : isMined(i, c, by, log)
<1>0. mempool[i] \in Accepted(Calls)
  BY DEF ClientsInv, LoopParts
<1>1. PICK c \in Calls, by \in Clients : c = mempool[i].call /\ by = mempool[i].by
  BY <1>0 DEF Accepted
<1>2. PICK log : log = IF c.step = "createJob" THEN jobCount' ELSE c.job
  OBVIOUS
<1>3. log \in LogIds
  BY <1>2, CallIs DEF BondIInv, JobsAreNumbered, LogIds
<1>4. \/ /\ jobCall(c) \/ bondCall(c) \/ registryCall(c) \/ settlementCall(c)
         /\ mined(i, [at |-> "ok", log |-> log])
      \/ UNCHANGED contractVars /\ mined(i, [at |-> "thrown"])
  BY <1>1, <1>2 DEF mine
<1>5. UNCHANGED <<now, loop, demo, receipts, sweep>>
  BY DEF mine, scriptVars
<1>6. ASSUME NEW outcome, mined(i, outcome)
      PROVE  /\ mempool' = RemoveAt(mempool, i) /\ faults' = faults
             /\ \/ wire' = wire
                \/ /\ wire[by].at = "wait" /\ wire[by].call = c /\ c.by = by
                   /\ wire' = [wire EXCEPT ![by] = outcome]
  <2>1. /\ mempool' = RemoveAt(mempool, i) /\ faults' = faults
        /\ \/ wire' = wire
           \/ /\ wire[by] = [at |-> "wait", call |-> c]
              /\ wire' = [wire EXCEPT ![by] = outcome]
    BY <1>1, <1>6 DEF mined, hear
  <2>2. ASSUME wire[by] = [at |-> "wait", call |-> c]
        PROVE  wire[by].at = "wait" /\ wire[by].call = c /\ c.by = by
    <3>1. wire[by].at = "wait" /\ wire[by].call = c
      BY <2>2
    <3>2. by \in Loops \/ by \in Demos
      BY LoopSeats
    <3>3. \/ c = [step |-> Steps[loop[by].k], r |-> loop[by].r, job |-> loop[by].job,
                   by |-> by]
          \/ c = [step |-> stepOf(demo[by]), r |-> DemoSpec[by], job |-> demo[by].job,
                  by |-> by]
      BY <3>1, <3>2 DEF ClientsInv, LoopFacts, loopIs, DemoFacts, demoIs
    <3>4. c.by = by
      BY <3>3
    <3> QED
      BY <3>1, <3>4
  <2> QED
    BY <2>1, <2>2
<1> QED
  BY <1>1, <1>2, <1>3, <1>4, <1>5, <1>6 DEF isMined

LEMMA MineKeeps ==
    ASSUME ContractsInv, ClientsInv, Onward, ContractsInv', NEW i \in DOMAIN mempool, mine(i)
    PROVE  ClientsInv'
<1>1. /\ BondIInv /\ BondIInv' /\ LoopParts /\ wire \in [Clients -> LoopWires]
      /\ mempool \in Seq(Accepted(Calls))
  BY DEF ContractsInv, ClientsInv, LoopParts, LoopWires, LogIds
<1>2. PICK c \in Calls, by \in Clients, log \in LogIds : isMined(i, c, by, log)
  BY <1>1, MineCases
<1> USE DEF isMined
<1>3. CallIsDue(c)
  BY <1>2 DEF ClientsInv, CallsAreDue
<1> DEFINE ok == [at |-> "ok", log |-> log]
           thrown == [at |-> "thrown"]
<1>4. ok \in LoopWires /\ thrown \in LoopWires
  BY DEF LoopWires, WireStates, LogIds
<1>5. ok.at = "ok" /\ ok.log = log /\ thrown.at = "thrown"
  OBVIOUS
<1>6. wire' = wire \/ wire' = [wire EXCEPT ![by] = ok] \/ wire' = [wire EXCEPT ![by] = thrown]
  BY <1>2
<1>7. wire'[by] = ok => \/ wire' = wire
                        \/ wire[by].at = "wait" /\ wire[by].call = c /\ c.by = by
                           /\ (jobCall(c) \/ bondCall(c) \/ registryCall(c) \/ settlementCall(c))
  BY <1>1, <1>2, <1>5
<1>8. wire' = wire \/ wire[by].at = "wait"
  BY <1>2
<1> HIDE DEF ok, thrown
<1>9. /\ wire' \in [Clients -> LoopWires] /\ \A d \in Clients \ {by} : wire'[d] = wire[d]
      /\ wire' = wire \/ wire'[by] = ok \/ wire'[by] = thrown
  BY <1>1, <1>4, <1>6
<1>10. /\ mempool' \in Seq(Accepted(Calls))
      /\ \A k \in DOMAIN mempool' : \E m \in DOMAIN mempool : mempool'[k] = mempool[m]
  BY <1>1, <1>2, CutCalls
<1>11. LoopParts'
  BY <1>1, <1>2, <1>9, <1>10 DEF LoopParts, LoopWires, LogIds, Onward
<1>12. DemosGoOn
  BY <1>2 DEF DemosGoOn
<1>13. CallsAreDue'
  BY <1>1, <1>10, <1>12, CallsStayDue DEF ClientsInv
<1>14. ASSUME NEW l \in Loops PROVE (wire'[l] = wire[l] /\ loop'[l] = loop[l]) \/ LoopFacts(l)'
  <2>1. CASE wire'[l] = wire[l]
    BY <1>2, <2>1
  <2>2. CASE wire'[l] # wire[l]
    <3>1. l = by /\ wire[l].at = "wait" /\ (wire'[l] = ok \/ wire'[l] = thrown) /\ wire' # wire
      BY <1>8, <1>9, <2>2, LoopSeats
    <3>2. loop[l].at = "busy" /\ loop[l] \in LoopStates
          /\ wire[l].call = [step |-> Steps[loop[l].k], r |-> loop[l].r,
                             job |-> loop[l].job, by |-> l]
          /\ loopIs(l, wire[l], loop[l])
      BY <3>1 DEF ClientsInv, LoopParts, LoopFacts, loopIs
    <3>3. PICK p \in LoopStates : p = loop[l]
      BY <3>2
    <3>4. p.at = "busy" /\ p.k \in 1 .. 8 /\ p.r \in Specs
      BY <3>2, <3>3, StepNames, LoopSeats DEF LoopStates
    <3>5. wire'[l] = ok => DoneUpTo(p.k, p.r, log)'
      <4> SUFFICES ASSUME wire'[l] = ok PROVE DoneUpTo(p.k, p.r, log)'
        OBVIOUS
      <4>1. wire[by].call = c /\ c.by = l
            /\ (jobCall(c) \/ bondCall(c) \/ registryCall(c) \/ settlementCall(c))
        BY <1>7, <3>1
      <4>2. c.step = Steps[p.k] /\ c.r = p.r
        BY <3>1, <3>2, <3>3, <4>1
      <4>3. DoneUpTo(p.k, c.r, log)'
        BY <1>1, <1>2, <1>3, <3>4, <4>1, <4>2, MinedIsDone
      <4> QED
        BY <4>2, <4>3
    <3>6. loopIs(l, thrown, p)
      BY <1>5, <3>2, <3>3, <3>4 DEF loopIs
    <3>7. loopIs(l, thrown, p)'
      BY <1>1, <3>6, LoopIsStays
    <3>8. wire'[l] = ok => loopIs(l, ok, p)'
      BY <1>5, <3>4, <3>5, <3>7 DEF loopIs
    <3> QED
      BY <1>2, <3>1, <3>3, <3>7, <3>8 DEF LoopFacts
  <2> QED
    BY <2>1, <2>2
<1>15. ASSUME NEW d \in Demos PROVE (wire'[d] = wire[d] /\ demo'[d] = demo[d]) \/ DemoFacts(d)'
  <2>1. CASE wire'[d] = wire[d]
    BY <1>2, <2>1
  <2>2. CASE wire'[d] # wire[d]
    <3>1. d = by /\ wire[d].at = "wait" /\ (wire'[d] = ok \/ wire'[d] = thrown) /\ wire' # wire
      BY <1>8, <1>9, <2>2, LoopSeats
    <3>2. PICK p : p = demo[d]
      OBVIOUS
    <3>3. demoIs(d, wire[d], p) /\ p.at \in {"createJob", "submit", "decide"}
      BY <3>1, <3>2 DEF ClientsInv, DemoFacts, demoIs
    <3>4. demoIs(d, thrown, p)
      BY <1>5, <3>1, <3>3 DEF demoIs
    <3>5. demoIs(d, thrown, p)'
      BY <1>1, <3>4, DemoIsStays
    <3>6. ASSUME wire'[d] = ok
          PROVE  /\ p.at = "createJob" => \E j \in JobIds : ownJob(d, j)'
                 /\ p.at = "submit" => holdsWork(d, p.good, p.job)'
      <4>1. /\ wire[d].call = c /\ c.by = d
            /\ jobCall(c) \/ bondCall(c) \/ registryCall(c) \/ settlementCall(c)
        BY <1>7, <3>1, <3>6
      <4>2. c.step = stepOf(p) /\ c.job = p.job
        BY <3>1, <3>3, <4>1 DEF demoIs
      <4>3. /\ p.at = "createJob" => c.step = "createJob"
            /\ p.at = "submit" => c.step = "submit"
        BY <4>2 DEF stepOf
      <4>4. jobCall(c)
        BY <1>3, <4>1 DEF CallIsDue, bondCall, registryCall, settlementCall
      <4>5. /\ c.step = "createJob" => \E j \in JobIds : ownJob(d, j)'
            /\ c.step = "submit" => holdsWork(d, demo[d].good, c.job)'
        BY <1>1, <1>2, <1>3, <4>1, <4>4, MinedForDemo
      <4>6. demo'[d] = p
        BY <1>2, <3>2
      <4>7. holdsWork(d, demo[d].good, c.job)' => holdsWork(d, p.good, p.job)'
        BY <4>2, <4>6
      <4> QED
        BY <4>3, <4>5, <4>7
    <3>7. p.at = "decide" => holdsWork(d, p.good, p.job)'
      BY <3>5 DEF demoIs
    <3>8. wire'[d] = ok => demoIs(d, ok, p)'
      BY <1>5, <3>3, <3>5, <3>6, <3>7 DEF demoIs
    <3> QED
      BY <1>2, <3>1, <3>2, <3>5, <3>8 DEF DemoFacts
  <2> QED
    BY <2>1, <2>2
<1> QED
  BY <1>1, <1>11, <1>13, <1>14, <1>15, ClientsKeep

\* The sweep, strangers and the clock leave the processes to themselves.
LEMMA QuietStepKeeps ==
    ASSUME BondIInv, ClientsInv, Onward, UNCHANGED <<wire, mempool, loop, demo, receipts>>,
           faults' \in 0 .. MaxFaults, sweep' \in SweepStates
    PROVE  ClientsInv'
<1>1. DemosGoOn
  BY DEF DemosGoOn
<1>2. LoopParts'
  BY DEF ClientsInv, LoopParts, Onward
<1>3. CallsAreDue'
  BY <1>1, CallsStayDue DEF ClientsInv
<1> QED
  BY <1>2, <1>3, ClientsKeep

LEMMA SweepKeeps ==
    ASSUME BondIInv, ClientsInv, Onward, SweepStep
    PROVE  ClientsInv'
<1>0. /\ sweep \in SweepStates /\ now \in Nat /\ faults \in 0 .. MaxFaults
      /\ receipts \in SUBSET Specs /\ MaxFaults \in Nat
  BY LoopSeats, RetryAssumption DEF ClientsInv, LoopParts, BondIInv, StakesGoForward
<1>1. UNCHANGED <<wire, mempool, loop, demo, receipts>>
  BY DEF SweepStep, startSweep, look, reclaimPicked, endSweep, callVars
<1>2. faults' \in 0 .. MaxFaults
  BY <1>0 DEF SweepStep, startSweep, look, reclaimPicked, endSweep, callVars, fault
<1>3. [at |-> "idle"] \in SweepStates
  BY DEF SweepStates
<1>4. ASSUME sweep.at = "sweeping"
      PROVE  /\ sweep = [at |-> "sweeping", todo |-> sweep.todo, asOf |-> sweep.asOf,
                         picked |-> sweep.picked]
             /\ sweep.todo \in SUBSET Specs /\ sweep.asOf \in Nat
             /\ sweep.picked \in Specs \cup {NoPick}
  BY <1>0, <1>4 DEF SweepStates
<1>5. ASSUME sweep.at = "sweeping", NEW t \in SUBSET Specs, NEW r \in Specs \cup {NoPick}
      PROVE  [at |-> "sweeping", todo |-> t, asOf |-> sweep.asOf, picked |-> r] \in SweepStates
  BY <1>4, <1>5 DEF SweepStates
<1>6. CASE startSweep
  <2>1. sweep' = [at |-> "sweeping", todo |-> receipts, asOf |-> now, picked |-> NoPick]
    BY <1>6 DEF startSweep
  <2>2. sweep' \in SweepStates
    BY <1>0, <2>1 DEF SweepStates
  <2> QED
    BY <1>1, <1>2, <2>2, QuietStepKeeps
<1>7. ASSUME NEW r \in Specs, look(r) PROVE ClientsInv'
  <2>1. sweep.at = "sweeping"
        /\ (sweep' = [sweep EXCEPT !.todo = sweep.todo \ {r}]
            \/ sweep' = [sweep EXCEPT !.picked = r])
    BY <1>7 DEF look
  <2>2. \/ sweep' = [at |-> "sweeping", todo |-> sweep.todo \ {r}, asOf |-> sweep.asOf,
                     picked |-> sweep.picked]
        \/ sweep' = [at |-> "sweeping", todo |-> sweep.todo, asOf |-> sweep.asOf, picked |-> r]
    BY <1>4, <2>1
  <2>3. sweep.todo \ {r} \in SUBSET Specs /\ sweep.todo \in SUBSET Specs
        /\ r \in Specs \cup {NoPick} /\ sweep.picked \in Specs \cup {NoPick}
    BY <1>4, <2>1
  <2>4. sweep' \in SweepStates
    BY <1>5, <2>1, <2>2, <2>3
  <2> QED
    BY <1>1, <1>2, <2>4, QuietStepKeeps
<1>8. CASE reclaimPicked
  <2>1. sweep.at = "sweeping"
        /\ \/ sweep' = [at |-> "idle"]
           \/ sweep' = [sweep EXCEPT !.todo = sweep.todo \ {sweep.picked}, !.picked = NoPick]
    BY <1>8 DEF reclaimPicked
  <2> DEFINE S == [at : {"sweeping"}, todo : SUBSET Specs, asOf : Nat,
                   picked : Specs \cup {NoPick}]
  <2>2. sweep \in S
    BY <1>0, <2>1 DEF SweepStates
  <2>3. sweep.todo \ {sweep.picked} \in SUBSET Specs /\ NoPick \in Specs \cup {NoPick}
    BY <1>4, <2>1
  <2>4. [sweep EXCEPT !.todo = sweep.todo \ {sweep.picked}, !.picked = NoPick] \in S
    BY <2>2, <2>3
  <2>5. sweep' \in SweepStates
    BY <1>3, <2>1, <2>4 DEF SweepStates
  <2> QED
    BY <1>1, <1>2, <2>5, QuietStepKeeps
<1>9. CASE endSweep
  <2>1. sweep' \in SweepStates
    BY <1>3, <1>9 DEF endSweep
  <2> QED
    BY <1>1, <1>2, <2>1, QuietStepKeeps
<1> QED
  BY <1>6, <1>7, <1>8, <1>9 DEF SweepStep

LEMMA LoopStepInv ==
    ASSUME LoopIInv, [LoopNext]_loopAllVars
    PROVE  LoopIInv'
<1>1. ContractsInv' /\ Onward /\ BondIInv /\ ClientsInv /\ ContractsInv
  BY ContractsKeep DEF LoopIInv, ClientsInv, ContractsInv
<1>2. ASSUME \E c \in Clients : Send(c) PROVE ClientsInv'
  BY <1>1, <1>2, SendKeeps
<1>3. ASSUME \E i \in DOMAIN mempool : mine(i) PROVE ClientsInv'
  BY <1>1, <1>3, MineKeeps
<1>4. ASSUME \E l \in Loops :
              (\E r \in Specs : startLoop(l, r)) \/ nextStep(l) \/ loopDies(l)
      PROVE  ClientsInv'
  BY <1>1, <1>4, StartKeeps, NextStepKeeps, DeathKeeps
<1>5. ASSUME \E d \in Demos :
              \/ \E good \in BOOLEAN : startDemo(d, good)
              \/ readJobCount(d) \/ evaluate(d) \/ demoEnds(d)
      PROVE  ClientsInv'
  BY <1>1, <1>5, DemoKeeps
<1>6. ASSUME SweepStep PROVE ClientsInv'
  BY <1>1, <1>6, SweepKeeps
<1>7. ASSUME strangerStep \/ passTime \/ UNCHANGED loopAllVars PROVE ClientsInv'
  <2>1. UNCHANGED <<wire, mempool, loop, demo, receipts, faults, sweep>>
    BY <1>7 DEF strangerStep, passTime, loopAllVars, callVars, scriptVars
  <2> QED
    BY <1>1, <2>1, QuietStepKeeps DEF ClientsInv, LoopParts
<1>8. ClientsInv'
  BY <1>2, <1>3, <1>4, <1>5, <1>6, <1>7 DEF LoopNext
<1> QED
  BY <1>1, <1>8 DEF LoopIInv

LEMMA LoopInitInv == LoopInit => LoopIInv
<1> SUFFICES ASSUME LoopInit PROVE LoopIInv
  OBVIOUS
<1> USE DEF LoopInit
<1>1. BondIInv
  BY BondInitInv
<1>2. submittedAt \in [JobIds -> Nat]
  BY DEF BondInit
<1>3. registryTyped
  BY LoopSeats DEF BondInit, registryTyped, ValidationRegistry!ValidatorTypeOK,
     ValidationRegistry!Validations, ValidationRegistry!NoValidation
<1>4. \A r \in Specs : ~isValidated(r) /\ ~isStaked(r) /\ ~stakes[r].scored
  BY DEF BondInit, isValidated, ValidationRegistry!isValidated,
     ValidationRegistry!NoValidation, isStaked, NoStake
<1>5. \A j \in JobIds : jobs[j].state = "None"
  BY DEF BondInit, JobInit, NoJob
<1>6. ContractsInv
  BY <1>1, <1>2, <1>3, <1>4, <1>5
     DEF ContractsInv, Seats, JobsAreApart, jobIsApart, VerdictsArePass, BondInit
<1>7. LoopParts
  BY RetryAssumption
     DEF LoopParts, CallInit, WireStates, LoopStates, DemoStates, SweepStates
<1>8. CallsAreDue
  BY DEF CallsAreDue, CallInit
<1>9. ASSUME NEW c \in Clients PROVE wire[c] = Quiet /\ Quiet.at = "quiet"
  BY DEF CallInit, Quiet
<1>10. \A l \in Loops : LoopFacts(l)
  BY <1>9, LoopSeats DEF LoopFacts, loopIs
<1>11. \A d \in Demos : DemoFacts(d)
  BY <1>9, LoopSeats DEF DemoFacts, demoIs
<1> QED
  BY <1>6, <1>7, <1>8, <1>10, <1>11 DEF LoopIInv, ClientsInv

LEMMA LoopIInvHolds == LoopSpec => []LoopIInv
<1>1. LoopIInv /\ [LoopNext]_loopAllVars => LoopIInv'
  BY LoopStepInv
<1> QED
  BY <1>1, LoopInitInv, PTL DEF LoopSpec

\* Loops, demos and sweeps use the two contracts as anybody may, though calls are lost
\* and sent twice: what is proved of bonds and jobs holds under them.
THEOREM LoopsUseTheBond == LoopSpec => BondSpec
<1>1. LoopInit => BondInit
  BY DEF LoopInit
<1>2. LoopIInv /\ [LoopNext]_loopAllVars => [BondNext]_bondAllVars
  BY ContractsKeep DEF LoopIInv, ClientsInv
<1> QED
  BY <1>1, <1>2, LoopIInvHolds, PTL DEF LoopSpec, BondSpec

\* And so nothing the loops, their demos and their lost calls do breaks what the contracts
\* promise.
THEOREM LoopsLeaveTheBondSound ==
    LoopSpec => /\ HoldsInTrust /\ VerdictsAreFinal /\ EarlyCloseIsASlash
                /\ [](BondInv /\ OnlyLiesAreSlashed)
BY LoopsUseTheBond, BondHoldsInTrust, BondVerdictsAreFinal, BondClosesEarlyBySlash,
   BondHonest, OnlyLiarsPay, PTL

\* The registry sees a loop's requests and verdicts as anybody's: one step of its own at
\* a time, or none.
LEMMA LoopStepOnRegistry ==
    ASSUME LoopParts, [LoopNext]_loopAllVars
    PROVE  [ValidationRegistry!ValidatorNext]_(ValidationRegistry!validatorAllVars)
<1>1. ASSUME NEW c \in Calls, registryCall(c), now' = now
      PROVE  ValidationRegistry!ValidatorNext
  <2>1. c.r \in Specs /\ Wallet \in Accounts
    BY CallIs, LoopSeats
  <2>2. CASE ValidationRegistry!validationRequest(Wallet, 0, c.r)
    BY <1>1, <2>1, <2>2 DEF ValidationRegistry!ValidatorNext, ValidationRegistry!ValidatorStep
  <2>3. CASE ValidationRegistry!validationResponse(Wallet, c.r, 100, c.r)
    <3>1. 100 \in ValidationRegistry!Scores
      BY DEF ValidationRegistry!Scores
    <3> QED
      BY <1>1, <2>1, <2>3, <3>1
         DEF ValidationRegistry!ValidatorNext, ValidationRegistry!ValidatorStep
  <2> QED
    BY <1>1, <2>2, <2>3 DEF registryCall
<1>2. ASSUME NEW r \in Specs, ValidationRegistry!validationRequest(Wallet, 0, r), now' = now
      PROVE  ValidationRegistry!ValidatorNext
  BY <1>2, LoopSeats DEF ValidationRegistry!ValidatorNext, ValidationRegistry!ValidatorStep
<1>3. ASSUME UNCHANGED registryVars, now' = now \/ NextBlock
      PROVE  [ValidationRegistry!ValidatorNext]_(ValidationRegistry!validatorAllVars)
  BY <1>3 DEF registryVars, NextBlock, ValidationRegistry!ValidatorNext,
              ValidationRegistry!AdvanceTime, ValidationRegistry!validatorVars,
              ValidationRegistry!validatorAllVars
<1>4. ASSUME NEW i \in DOMAIN mempool, now' = now, mempool[i].call \in Calls,
             \/ jobCall(mempool[i].call) \/ bondCall(mempool[i].call)
             \/ registryCall(mempool[i].call) \/ settlementCall(mempool[i].call)
      PROVE  [ValidationRegistry!ValidatorNext]_(ValidationRegistry!validatorAllVars)
  <2>1. PICK c \in Calls : c = mempool[i].call
    BY <1>4
  <2>2. registryCall(c) \/ UNCHANGED registryVars
    BY <1>4, <2>1 DEF jobCall, bondCall, settlementCall
  <2> QED
    BY <1>1, <1>3, <1>4, <2>2
<1> QED
  BY <1>3, <1>4, <1>2, ChainCases DEF contractVars, strangerStep

\* The registry stays what PredgeAgentValidator says it is beside any number of loops whose
\* answers are lost and whose processes die.
THEOREM LoopsUseTheRegistry == LoopSpec => ValidationRegistry!ValidatorSpec
<1>1. LoopInit => ValidationRegistry!ValidatorInit
  BY LoopSeats DEF LoopInit, BondInit, ValidationRegistry!ValidatorInit
<1>2. LoopIInv /\ [LoopNext]_loopAllVars =>
        [ValidationRegistry!ValidatorNext]_(ValidationRegistry!validatorAllVars)
  BY LoopStepOnRegistry DEF LoopIInv, ClientsInv
<1> QED
  BY <1>1, <1>2, LoopIInvHolds, PTL DEF LoopSpec, ValidationRegistry!ValidatorSpec

LEMMA InvLoopsPay == LoopIInv => LoopsPayOnVerdicts
<1>1. ASSUME LoopIInv PROVE LoopsPayOnVerdicts
  <2>1. ASSUME network = "mainnet", NEW j \in JobIds, NEW r, r = jobs[j].specHash,
               jobs[j].evaluator = Wallet, jobs[j].state \in {"Completed", "Rejected"}
        PROVE  /\ jobs[j].client = Wallet /\ jobs[j].state = "Completed"
               /\ validation[r].response = 100
               /\ stakes[r].scored /\ stakes[r].score = 100
               /\ jobs[j].deliverable = Sha256[r]
    <3>1. jobIsApart(j)
      BY <1>1 DEF LoopIInv, ContractsInv, JobsAreApart
    <3>2. jobs[j].client = Wallet
      BY <2>1, <3>1 DEF jobIsApart
    <3>3. /\ jobs[j].state = "Completed" /\ r \in Specs /\ DoneUpTo(6, r, j)
          /\ jobs[j].deliverable = Sha256[r]
      BY <2>1, <3>1, <3>2 DEF jobIsApart, isSubmitted
    <3>4. isValidated(r) /\ stakes[r].scored
      BY <3>3 DEF DoneUpTo
    <3> QED
      BY <1>1, <3>2, <3>3, <3>4 DEF LoopIInv, ContractsInv, VerdictsArePass
  <2>2. ASSUME NEW r \in Specs PROVE ~wouldSlash(r)
    <3> SUFFICES ASSUME stakes[r].scored, delivered(r) PROVE ~lied(r)
      BY DEF wouldSlash
    <3>1. /\ isStaked(r) /\ stakes[r].score = 100 /\ stakes[r].expected = Sha256[r]
          /\ network = "mainnet" /\ jobAt(stakes[r].jobId).client = Wallet
      BY <1>1 DEF LoopIInv, ContractsInv, VerdictsArePass, BondIInv, StakesGoForward
    <3>2. jobAt(stakes[r].jobId).specHash = r
      BY <1>1, <3>1 DEF LoopIInv, ContractsInv, BondIInv, BondIsBoundToItsJob
    <3>3. PICK j \in JobIds : j = stakes[r].jobId /\ jobAt(stakes[r].jobId) = jobs[j]
      BY <3>2, LoopSeats DEF jobAt, NoJob
    <3>4. jobs[j].deliverable = Sha256[r]
      BY <1>1, <3>1, <3>2, <3>3
         DEF LoopIInv, ContractsInv, JobsAreApart, jobIsApart, isSubmitted, delivered
    <3> QED
      BY <3>1, <3>3, <3>4 DEF lied
  <2>3. slashCount = 0
    BY <1>1 DEF LoopIInv, ContractsInv, VerdictsArePass
  <2> QED
    BY <2>1, <2>2, <2>3 DEF LoopsPayOnVerdicts
<1> QED
  BY <1>1

LEMMA InvDemosJudge == LoopIInv => DemosJudgeDeliveries
<1>1. ASSUME LoopIInv, network = "testnet", NEW d \in Demos,
             demo[d].at \in {"submit", "decide", "done"}
      PROVE  \E j \in 1 .. demo[d].job : ownJob(d, j)
  BY <1>1 DEF LoopIInv, ClientsInv, DemoFacts, demoIs
<1>2. ASSUME LoopIInv, network = "testnet", NEW j \in JobIds,
             jobs[j].evaluator = DemoWallet, jobs[j].state \in {"Completed", "Rejected"}
      PROVE  /\ jobs[j].provider = DemoWallet
             /\ jobs[j].state = "Completed" <=> jobs[j].deliverable # Garbage
  BY <1>2 DEF LoopIInv, ContractsInv, JobsAreApart, jobIsApart
<1> QED
  BY <1>1, <1>2 DEF DemosJudgeDeliveries

\* However many loops run, whatever answers are lost, whichever processes die and
\* whatever jobs and requests strangers make, the loops pay only for recorded verdicts,
\* decide no job but their own and lose no bond.
THEOREM LoopsPayRightly == LoopSpec => []LoopsPayOnVerdicts
  BY InvLoopsPay, LoopIInvHolds, PTL

\* Beside that any number of demos of one wallet, which may decide each other's jobs and
\* strangers', decide each by what was delivered on it, and never one older than their
\* own.
THEOREM VerdictsBeforeMoney == LoopSpec => []EscrowFollowsVerdict
<1>1. ASSUME LoopIInv, BondMoneyInv PROVE EscrowFollowsVerdict
  <2>1. LoopTypeOK
    BY <1>1 DEF LoopIInv, ClientsInv, LoopParts, ContractsInv, BondMoneyInv, LoopTypeOK,
       registryTyped
  <2> QED
    BY <1>1, <2>1, InvLoopsPay, InvDemosJudge DEF EscrowFollowsVerdict
<1>2. LoopIInv /\ BondMoneyInv => EscrowFollowsVerdict
  BY <1>1
<1> QED
  BY <1>2, LoopIInvHolds, LoopsUseTheBond, BondMoneyHolds, PTL

------------------------------------------------------------------------------
(* The money the loops spend. *)

created(r) == {j \in JobIds : jobs[j].client = Wallet /\ jobs[j].specHash = r}
spends(c, r) == IF c.r = r /\ c.step \in {"createJob", "payForRoute"} THEN 1 ELSE 0
claims(pool, r) == [i \in DOMAIN pool |-> spends(pool[i].call, r)]
claimed(pool, r) == SumFunction(claims(pool, r))

\* What was spent on r, or will be once the mempool is empty.
spent(r) == Cardinality(created(r)) + payments[r] + claimed(mempool, r)

\* The loop heard that its own request for r was taken.
hasPassed(l, r) ==
    /\ \/ loop[l].at = "done"
       \/ loop[l].at = "busy" /\ (loop[l].k > 1 \/ wire[l].at = "ok")
    /\ loop[l].r = r

\* The spendings a loop was given an answer on, at most.
answers(w, p) ==
    IF p.at = "done" \/ (p.k = 8 /\ w.at # "send") THEN 2
    ELSE IF p.k > 2 \/ (p.k = 2 /\ w.at # "send") THEN 1
    ELSE 0
answered(l) == answers(wire[l], loop[l])

\* Nothing is spent on a signal before it is requested; the one loop that requested it
\* alone spends on it, once for each answer and once more for each lost one.  (A request
\* of a stranger's leaves the signal to nobody.)
LedgerOf(r) ==
    /\ ~isRequested(r) => spent(r) = 0
    /\ \A l \in Loops : hasPassed(l, r) =>
          /\ isRequested(r)
          /\ spent(r) <= faults + answered(l)
          /\ \A m \in Loops : hasPassed(m, r) => m = l

Ledger == \A r \in Specs : LedgerOf(r)

LEMMA ClaimsAreNumbers ==
    ASSUME NEW pool \in Seq(Accepted(Calls)), NEW r
    PROVE  /\ IsFiniteSet(DOMAIN pool)
           /\ \A i \in DOMAIN pool : claims(pool, r)[i] \in Nat
           /\ claimed(pool, r) = SumFunctionOnSet(claims(pool, r), DOMAIN pool)
           /\ claimed(pool, r) \in Nat
<1>1. IsFiniteSet(DOMAIN pool)
  <2>1. DOMAIN pool = 1 .. Len(pool) /\ Len(pool) \in Nat
    OBVIOUS
  <2> QED
    BY <2>1, FS_Interval
<1>2. \A i \in DOMAIN pool : claims(pool, r)[i] \in Nat
  BY DEF claims, spends
<1>3. claimed(pool, r) = SumFunctionOnSet(claims(pool, r), DOMAIN pool)
  BY DEF claimed, SumFunction, claims
<1> QED
  BY <1>1, <1>2, <1>3, SumNat

LEMMA ClaimsGrow ==
    ASSUME NEW pool \in Seq(Accepted(Calls)), NEW e \in Accepted(Calls), NEW r
    PROVE  claimed(Append(pool, e), r) = claimed(pool, r) + spends(e.call, r)
<1> DEFINE longer == Append(pool, e)
           n == Len(pool) + 1
           f == claims(pool, r)
           g == claims(longer, r)
<1>1. /\ longer \in Seq(Accepted(Calls)) /\ DOMAIN longer = DOMAIN pool \cup {n}
      /\ n \notin DOMAIN pool /\ longer[n] = e /\ \A i \in DOMAIN pool : longer[i] = pool[i]
  OBVIOUS
<1> HIDE DEF longer, n
<1>2. g[n] = spends(e.call, r) /\ \A i \in DOMAIN pool : g[i] = f[i]
  BY <1>1 DEF claims
<1>3. /\ IsFiniteSet(DOMAIN pool) /\ \A i \in DOMAIN pool : f[i] \in Nat
      /\ claimed(pool, r) = SumFunctionOnSet(f, DOMAIN pool)
      /\ \A i \in DOMAIN longer : g[i] \in Nat
      /\ claimed(longer, r) = SumFunctionOnSet(g, DOMAIN longer)
  BY <1>1, ClaimsAreNumbers
<1> HIDE DEF f, g
<1>4. SumFunctionOnSet(g, DOMAIN pool \cup {n}) = SumFunctionOnSet(f, DOMAIN pool) + g[n]
  BY <1>1, <1>2, <1>3, SumAdd
<1>5. claimed(longer, r) = claimed(pool, r) + g[n]
  BY <1>1, <1>3, <1>4
<1> QED
  BY <1>2, <1>5 DEF longer

LEMMA ClaimsShrink ==
    ASSUME NEW pool \in Seq(Accepted(Calls)), NEW i \in DOMAIN pool, NEW r
    PROVE  claimed(pool, r) = claimed(RemoveAt(pool, i), r) + spends(pool[i].call, r)
<1> DEFINE rest == RemoveAt(pool, i)
           f == claims(pool, r)
           g == claims(rest, r)
           h == [k \in DOMAIN rest |-> IF k < i THEN k ELSE k + 1]
           others == DOMAIN pool \ {i}
<1>1. /\ rest \in Seq(Accepted(Calls)) /\ Len(rest) = Len(pool) - 1
      /\ \A k \in DOMAIN rest : rest[k] = pool[h[k]] /\ h[k] \in others
  BY CutCalls
<1> HIDE DEF rest
<1>2. DOMAIN pool = 1 .. Len(pool) /\ Len(pool) \in Nat /\ i \in 1 .. Len(pool)
  OBVIOUS
<1>d. DOMAIN rest = 1 .. Len(pool) - 1
  BY <1>1, <1>2
<1>3. \A k, l \in DOMAIN rest : h[k] = h[l] => k = l
  BY <1>d, <1>2
<1>4. ASSUME NEW k \in others PROVE \E l \in DOMAIN rest : k = h[l]
  <2>1. CASE k < i
    BY <1>d, <1>2, <2>1
  <2>2. CASE k > i
    <3>1. k - 1 \in DOMAIN rest /\ h[k - 1] = k
      BY <1>d, <1>2, <2>2
    <3> QED
      BY <3>1
  <2> QED
    BY <1>2, <2>1, <2>2
<1>5. /\ IsFiniteSet(DOMAIN pool) /\ \A k \in DOMAIN pool : f[k] \in Nat
      /\ claimed(pool, r) = SumFunctionOnSet(f, DOMAIN pool)
      /\ IsFiniteSet(DOMAIN rest) /\ \A k \in DOMAIN rest : g[k] \in Nat
      /\ claimed(rest, r) = SumFunctionOnSet(g, DOMAIN rest)
  BY <1>1, ClaimsAreNumbers
<1>6. \A k \in DOMAIN rest : g[k] = f[h[k]]
  BY <1>1 DEF claims
<1>7. f[i] = spends(pool[i].call, r)
  BY DEF claims
<1>8. IsFiniteSet(others)
  BY <1>5, FS_Subset
<1>9. \A k \in others : f[k] \in Int
  BY <1>5
<1> HIDE DEF f, g, h, others
<1>10. SumFunctionOnSet(g, DOMAIN rest) = SumFunctionOnSet(f, others)
  <2>1. Renames(h, DOMAIN rest, others)
    BY <1>1, <1>3, <1>4 DEF Renames
  <2> QED
    BY <1>5, <1>6, <1>8, <1>9, <2>1, SumRenamed
<1>11. SumFunctionOnSet(f, DOMAIN pool) = f[i] + SumFunctionOnSet(f, others)
  BY <1>5, SumTakeOut DEF others
<1>12. SumFunctionOnSet(f, others) \in Int /\ f[i] \in Int
  BY <1>5, <1>8, <1>9, SumInt
<1>13. claimed(pool, r) = claimed(rest, r) + f[i]
  BY <1>5, <1>10, <1>11, <1>12
<1> QED
  BY <1>7, <1>13 DEF rest

LEMMA SpentIsNumber ==
    ASSUME NEW pool \in Seq(Accepted(Calls)), NEW paid \in [Specs -> Nat], NEW r \in Specs
    PROVE  /\ IsFiniteSet(JobIds) /\ IsFiniteSet(created(r)) /\ Cardinality(created(r)) \in Nat
           /\ paid[r] \in Nat /\ claimed(pool, r) \in Nat
<1>1. IsFiniteSet(JobIds)
  BY JobAssumption, FS_Interval DEF JobIds
<1> QED
  BY <1>1, ClaimsAreNumbers, FS_Subset, FS_CardinalityType DEF created

LEMMA AnswersAreFew == \A w, p : answers(w, p) \in 0 .. 2
BY DEF answers

\* What a step must do to keep the ledger: no more is spent than it adds in answers
\* and lost answers, and only loop m, whose own request is mined, becomes the one.
Booked(m, r) ==
    /\ spent(r) \in Nat /\ spent(r)' \in Nat
    /\ isRequested(r) => isRequested(r)'
    /\ ~isRequested(r) => spent(r)' = 0
    /\ \A l \in Loops : hasPassed(l, r)' =>
          \/ /\ hasPassed(l, r)
             /\ spent(r)' + faults + answered(l) <= spent(r) + faults' + answered(l)'
          \/ l = m /\ ~isRequested(r) /\ isRequested(r)'

LEMMA LedgerKeeps ==
    ASSUME Ledger, NEW m, faults \in Nat, faults' \in Nat, \A r \in Specs : Booked(m, r)
    PROVE  Ledger'
<1> SUFFICES ASSUME NEW r \in Specs PROVE LedgerOf(r)'
  BY DEF Ledger
<1>1. LedgerOf(r)
  BY DEF Ledger
<1>b. Booked(m, r)
  OBVIOUS
<1> USE DEF Booked
<1>2. ~isRequested(r)' => spent(r)' = 0
  BY <1>b
<1>3. ASSUME NEW l \in Loops, hasPassed(l, r)'
      PROVE  /\ isRequested(r)' /\ spent(r)' <= faults' + answered(l)'
             /\ \A n \in Loops : hasPassed(n, r)' => n = l
  <2>1. answered(l) \in Nat /\ answered(l)' \in Nat
    BY AnswersAreFew DEF answered
  <2>2. CASE hasPassed(l, r)
    <3>1. /\ isRequested(r) /\ spent(r) <= faults + answered(l)
          /\ \A n \in Loops : hasPassed(n, r) => n = l
      BY <1>1, <2>2 DEF LedgerOf
    <3>2. spent(r)' + faults + answered(l) <= spent(r) + faults' + answered(l)'
      BY <1>3, <1>b, <2>2, <3>1
    <3>3. spent(r)' <= faults' + answered(l)'
      BY <1>b, <2>1, <3>1, <3>2
    <3>4. \A n \in Loops : hasPassed(n, r)' => n = l
      BY <1>b, <3>1
    <3> QED
      BY <3>1, <3>3, <3>4
  <2>3. CASE ~hasPassed(l, r)
    <3>1. l = m /\ ~isRequested(r) /\ isRequested(r)'
      BY <1>3, <1>b, <2>3
    <3>2. spent(r)' = 0
      BY <1>b, <3>1
    <3>3. \A n \in Loops : hasPassed(n, r)' => n = l
      BY <1>1, <1>b, <3>1 DEF LedgerOf
    <3> QED
      BY <2>1, <3>1, <3>2, <3>3
  <2> QED
    BY <2>2, <2>3
<1> QED
  BY <1>2, <1>3 DEF LedgerOf

LEMMA SpentInv ==
    ASSUME ContractsInv, ClientsInv, NEW r \in Specs
    PROVE  spent(r) \in Nat
<1>1. /\ mempool \in Seq(Accepted(Calls)) /\ payments \in [Specs -> Nat] /\ r \in Specs
  BY LoopSeats DEF ClientsInv, LoopParts, ContractsInv
<1> QED
  BY <1>1, SpentIsNumber DEF spent

\* A mined call that spends was a claim; nothing else is spent on the chain.
LEMMA MinedSpends ==
    ASSUME ContractsInv, NEW c \in Calls, CallIsDue(c), NEW r \in Specs,
           \/ UNCHANGED contractVars
           \/ jobCall(c) \/ bondCall(c) \/ registryCall(c) \/ settlementCall(c)
    PROVE  Cardinality(created(r))' + payments'[r]
             <= Cardinality(created(r)) + payments[r] + spends(c, r)
<1>0. /\ BondIInv /\ payments \in [Specs -> Nat] /\ payments[r] \in Nat /\ spends(c, r) \in 0 .. 1
      /\ c.step \in {"submit", "complete", "reject"} => c.job \in JobIds
  BY DEF ContractsInv, CallIsDue, spends
<1>1. PICK A, B : /\ A = created(r)
                  /\ B = {k \in JobIds : jobs'[k].client = Wallet /\ jobs'[k].specHash = r}
  OBVIOUS
<1>2. created(r)' = B
  BY <1>1 DEF created
<1>3. IsFiniteSet(JobIds) /\ A \subseteq JobIds /\ B \subseteq JobIds
  BY <1>1, JobAssumption, FS_Interval DEF JobIds, created
<1>4. /\ IsFiniteSet(A) /\ Cardinality(A) \in Nat /\ IsFiniteSet(B) /\ Cardinality(B) \in Nat
      /\ B \subseteq A => Cardinality(B) <= Cardinality(A)
      /\ \A j : B \subseteq A \cup {j} => Cardinality(B) <= Cardinality(A) + 1
  <2>1. /\ IsFiniteSet(A) /\ Cardinality(A) \in Nat /\ IsFiniteSet(B) /\ Cardinality(B) \in Nat
        /\ B \subseteq A => Cardinality(B) <= Cardinality(A)
    BY <1>3, FS_Subset, FS_CardinalityType
  <2>2. ASSUME NEW j, B \subseteq A \cup {j} PROVE Cardinality(B) <= Cardinality(A) + 1
    <3>1. /\ IsFiniteSet(A \cup {j})
          /\ Cardinality(A \cup {j}) \in {Cardinality(A), Cardinality(A) + 1}
      BY <2>1, FS_AddElement
    <3>2. Cardinality(B) <= Cardinality(A \cup {j})
      BY <2>2, <3>1, FS_Subset
    <3> QED
      BY <2>1, <3>1, <3>2
  <2> QED
    BY <2>1, <2>2
<1>5. ASSUME jobs' = jobs, payments' = payments
      PROVE  Cardinality(B) + payments'[r] <= Cardinality(A) + payments[r] + spends(c, r)
  <2>1. B = A
    BY <1>1, <1>5 DEF created
  <2> QED
    BY <1>0, <1>4, <1>5, <2>1
<1>6. ASSUME settlementCall(c)
      PROVE  Cardinality(B) + payments'[r] <= Cardinality(A) + payments[r] + spends(c, r)
  <2>1. B = A
    BY <1>1, <1>6 DEF created, settlementCall, jobVars
  <2>2. payments'[r] <= payments[r] + spends(c, r) /\ payments'[r] \in Nat
    BY <1>0, <1>6 DEF settlementCall, spends
  <2> QED
    BY <1>0, <1>4, <2>1, <2>2
<1>7. ASSUME jobCall(c)
      PROVE  Cardinality(B) + payments'[r] <= Cardinality(A) + payments[r] + spends(c, r)
  <2>1. payments' = payments
    BY <1>7 DEF jobCall
  <2>2. PICK j \in JobIds : /\ \A k \in JobIds \ {j} : jobs'[k] = jobs[k]
                            /\ jobMade(c, j) \/ jobSubmitted(c, j) \/ jobDecided(c, j)
    BY <1>0, <1>7, JobCallEffect
  <2>3. B \subseteq A \cup {j} /\ (jobs'[j].specHash # r => B \subseteq A)
    BY <1>1, <2>2 DEF created
  <2>4. CASE jobMade(c, j)
    <3>1. jobs'[j].specHash = c.r /\ c.step = "createJob"
      BY <2>4 DEF jobMade
    <3>2. CASE c.r = r
      <4>1. spends(c, r) = 1
        BY <3>1, <3>2 DEF spends
      <4> QED
        BY <1>0, <1>4, <2>1, <2>3, <4>1
    <3>3. CASE c.r # r
      BY <1>0, <1>4, <2>1, <2>3, <3>1, <3>3
    <3> QED
      BY <3>2, <3>3
  <2>5. CASE jobSubmitted(c, j) \/ jobDecided(c, j)
    <3>1. jobs'[j].client = jobs[j].client /\ jobs'[j].specHash = jobs[j].specHash
      BY <2>5 DEF jobSubmitted, jobDecided, sameParties
    <3>2. B \subseteq A
      BY <1>1, <2>2, <3>1 DEF created
    <3> QED
      BY <1>0, <1>4, <2>1, <3>2
  <2> QED
    BY <2>2, <2>4, <2>5
<1>8. bondCall(c) \/ registryCall(c) \/ UNCHANGED contractVars
         => jobs' = jobs /\ payments' = payments
  BY DEF bondCall, registryCall, contractVars, jobVars
<1> QED
  BY <1>1, <1>2, <1>5, <1>6, <1>7, <1>8

LEMMA MineLedger ==
    ASSUME ContractsInv, ClientsInv, Onward, ContractsInv', ClientsInv', Ledger,
           NEW i \in DOMAIN mempool, mine(i)
    PROVE  Ledger'
<1>0. /\ BondIInv' /\ LoopParts /\ wire \in [Clients -> LoopWires] /\ registryTyped
      /\ mempool \in Seq(Accepted(Calls)) /\ mempool' \in Seq(Accepted(Calls))
      /\ payments \in [Specs -> Nat] /\ payments' \in [Specs -> Nat] /\ faults \in Nat
  BY RetryAssumption DEF ContractsInv, ClientsInv, LoopParts, LoopWires, LogIds
<1>1. PICK c \in Calls, by \in Clients, log \in LogIds : isMined(i, c, by, log)
  BY <1>0, MineCases
<1>2. /\ c = mempool[i].call /\ mempool' = RemoveAt(mempool, i)
      /\ UNCHANGED <<now, faults, loop>>
      /\ \/ UNCHANGED contractVars
         \/ jobCall(c) \/ bondCall(c) \/ registryCall(c) \/ settlementCall(c)
  BY <1>1 DEF isMined
<1>3. CallIsDue(c)
  BY <1>2 DEF ClientsInv, CallsAreDue
<1>4. ASSUME NEW r \in Specs
      PROVE  /\ spent(r) \in Nat /\ spent(r)' \in Nat /\ spent(r)' <= spent(r)
             /\ isRequested(r) => isRequested(r)'
             /\ ~isRequested(r) => spent(r)' = 0
  <2>1. r \in Specs /\ spent(r) \in Nat
    BY LoopSeats, SpentInv
  <2>2. claimed(mempool, r) = claimed(mempool', r) + spends(c, r)
    BY <1>0, <1>2, ClaimsShrink
  <2>3. Cardinality(created(r))' + payments'[r]
          <= Cardinality(created(r)) + payments[r] + spends(c, r)
    BY <1>2, <1>3, <2>1, MinedSpends
  <2>4. /\ Cardinality(created(r)) \in Nat /\ payments[r] \in Nat
        /\ claimed(mempool, r) \in Nat
    BY <1>0, <2>1, SpentIsNumber
  <2>5. /\ Cardinality(created(r))' \in Nat /\ payments'[r] \in Nat
        /\ claimed(mempool', r) \in Nat
    <3>1. IsFiniteSet(JobIds)
      BY JobAssumption, FS_Interval DEF JobIds
    <3>2. Cardinality({k \in JobIds : jobs'[k].client = Wallet /\ jobs'[k].specHash = r}) \in Nat
      BY <3>1, FS_Subset, FS_CardinalityType
    <3> QED
      BY <1>0, <2>1, <3>2, ClaimsAreNumbers DEF created
  <2>6. spends(c, r) \in 0 .. 1
    BY DEF spends
  <2>7. spent(r)' <= spent(r) /\ spent(r)' \in Nat
    BY <2>2, <2>3, <2>4, <2>5, <2>6 DEF spent
  <2>8. ~isRequested(r) => spent(r) = 0
    BY DEF Ledger, LedgerOf
  <2> QED
    BY <2>1, <2>7, <2>8 DEF Onward
<1>5. ASSUME NEW r \in Specs, NEW l \in Loops, hasPassed(l, r)'
      PROVE  \/ hasPassed(l, r) /\ answered(l)' = answered(l)
             \/ l = by /\ ~isRequested(r) /\ isRequested(r)'
  <2>1. loop'[l] = loop[l] /\ loop[l] \in LoopStates
    BY <1>0, <1>2 DEF LoopParts
  <2>2. CASE wire'[l] = wire[l]
    BY <1>5, <2>1, <2>2 DEF hasPassed, answered
  <2>3. CASE wire'[l] # wire[l]
    <3>1. /\ wire[by].at = "wait" /\ wire[by].call = c /\ c.by = by
          /\ \/ wire' = [wire EXCEPT ![by] = [at |-> "thrown"]]
             \/ /\ wire' = [wire EXCEPT ![by] = [at |-> "ok", log |-> log]]
                /\ jobCall(c) \/ bondCall(c) \/ registryCall(c) \/ settlementCall(c)
      BY <1>1, <2>3 DEF isMined
    <3>2. l = by /\ wire[l].at = "wait" /\ l \in Clients
      BY <1>0, <2>3, <3>1, LoopSeats
    <3>3. /\ wire'[l].at \in {"thrown", "ok"}
          /\ wire'[l].at = "ok" =>
                jobCall(c) \/ bondCall(c) \/ registryCall(c) \/ settlementCall(c)
      BY <1>0, <3>1, <3>2
    <3>4. /\ loop[l].at = "busy"
          /\ c = [step |-> Steps[loop[l].k], r |-> loop[l].r, job |-> loop[l].job, by |-> l]
      BY <3>1, <3>2 DEF ClientsInv, LoopFacts, loopIs
    <3>5. c.step = Steps[loop[l].k] /\ c.r = loop[l].r /\ loop[l].k \in 1 .. 8
      BY <2>1, <3>4, StepNames DEF LoopStates
    <3>6. answered(l)' = answered(l)
      BY <2>1, <3>2, <3>3, <3>4 DEF answered, answers
    <3>7. CASE loop[l].k > 1
      BY <1>5, <2>1, <3>4, <3>6, <3>7 DEF hasPassed
    <3>8. CASE loop[l].k = 1
      <4>1. wire'[l].at = "ok" /\ loop[l].r = r
        BY <1>5, <2>1, <3>4, <3>8 DEF hasPassed
      <4>2. c.step = "validationRequest" /\ c.r = r
        BY <3>5, <3>8, <4>1, StepNames
      <4>3. registryCall(c)
        BY <3>3, <4>1, <4>2 DEF jobCall, bondCall, settlementCall
      <4>4. ~isRequested(r) /\ isRequested(r)'
        BY <1>0, <1>2, <4>2, <4>3, RegistryCallEffect
      <4> QED
        BY <3>2, <4>4
    <3> QED
      BY <3>5, <3>7, <3>8
  <2> QED
    BY <2>2, <2>3
<1>6. ASSUME NEW r \in Specs, NEW l \in Loops, hasPassed(l, r)'
      PROVE  \/ /\ hasPassed(l, r)
                /\ spent(r)' + faults + answered(l) <= spent(r) + faults' + answered(l)'
             \/ l = by /\ ~isRequested(r) /\ isRequested(r)'
  <2>1. answered(l) \in Nat /\ faults' = faults
    BY <1>2, AnswersAreFew DEF answered
  <2> QED
    BY <1>0, <1>4, <1>5, <1>6, <2>1
<1>7. \A r \in Specs : Booked(by, r)
  BY <1>4, <1>6 DEF Booked
<1>8. faults' \in Nat
  BY <1>0, <1>2
<1> QED
  BY <1>0, <1>7, <1>8, LedgerKeeps

LEMMA SendLedger ==
    ASSUME network = "mainnet", ContractsInv, ClientsInv, Onward, ContractsInv', ClientsInv', Ledger,
           NEW c \in Clients, Send(c)
    PROVE  Ledger'
<1>0. /\ BondIInv /\ LoopParts /\ wire \in [Clients -> LoopWires]
      /\ mempool \in Seq(Accepted(Calls)) /\ mempool' \in Seq(Accepted(Calls))
      /\ payments \in [Specs -> Nat] /\ faults \in Nat /\ faults' \in Nat
  BY RetryAssumption DEF ContractsInv, ClientsInv, LoopParts, LoopWires, LogIds
<1>1. PICK call \in Calls, w \in LoopWires : tried(c, call, w)
  BY <1>0, SendCases
<1>2. /\ call = wire[c].call /\ wire[c].at = "send" /\ wire' = [wire EXCEPT ![c] = w]
      /\ w.at \in {"send", "wait", "thrown"}
      /\ UNCHANGED <<contractVars, loop>>
  BY <1>1 DEF tried
<1>3. wire'[c] = w /\ \A d \in Clients \ {c} : wire'[d] = wire[d]
  BY <1>0, <1>2
<1>4. PICK n : n = IF mempool' = mempool THEN 0 ELSE 1
  OBVIOUS
<1>5. /\ n = 1 => accepts(call)
      /\ n = 0 => mempool' = mempool /\ faults' >= faults
      /\ n = 1 => faults' = faults + 1 \/ (faults' = faults /\ w.at = "wait")
      /\ n = 1 => \E answer \in BOOLEAN :
                     mempool' = Append(mempool, [by |-> c, call |-> call, answered |-> answer])
  <2>1. CASE mempool' = mempool
    <3>1. faults' \in {faults, faults + 1}
      BY <1>1 DEF tried
    <3> QED
      BY <1>0, <1>4, <2>1, <3>1
  <2>2. CASE mempool' # mempool
    <3>1. n = 1
      BY <1>4, <2>2
    <3>2. /\ accepts(call)
          /\ \/ /\ faults' = faults /\ w.at = "wait"
                /\ mempool' = Append(mempool, [by |-> c, call |-> call, answered |-> TRUE])
             \/ /\ faults' = faults + 1
                /\ mempool' = Append(mempool, [by |-> c, call |-> call, answered |-> FALSE])
      BY <1>1, <2>2 DEF tried
    <3>3. \E answer \in BOOLEAN :
              mempool' = Append(mempool, [by |-> c, call |-> call, answered |-> answer])
      BY <3>2
    <3>4. n # 0
      BY <3>1
    <3> QED
      BY <3>2, <3>3, <3>4
  <2> QED
    BY <2>1, <2>2
<1>6. n \in 0 .. 1
  BY <1>4
<1>7. ASSUME NEW r \in Specs
      PROVE  /\ spent(r) \in Nat
             /\ n = 1 /\ spends(call, r) = 1 => spent(r)' = spent(r) + 1
             /\ ~(n = 1 /\ spends(call, r) = 1) => spent(r)' = spent(r)
  <2>1. r \in Specs /\ spent(r) \in Nat /\ spends(call, r) \in 0 .. 1
    BY LoopSeats, SpentInv DEF spends
  <2>2. claimed(mempool', r) = IF n = 1 THEN claimed(mempool, r) + spends(call, r)
                               ELSE claimed(mempool, r)
    <3>1. CASE n = 0
      BY <1>5, <3>1
    <3>2. CASE n = 1
      <4>1. PICK answer \in BOOLEAN :
                mempool' = Append(mempool, [by |-> c, call |-> call, answered |-> answer])
        BY <1>5, <3>2
      <4> DEFINE e == [by |-> c, call |-> call, answered |-> answer]
      <4>2. e \in Accepted(Calls) /\ e.call = call
        BY DEF Accepted
      <4> HIDE DEF e
      <4>3. claimed(Append(mempool, e), r) = claimed(mempool, r) + spends(call, r)
        BY <1>0, <4>2, ClaimsGrow
      <4>4. mempool' = Append(mempool, e)
        BY <4>1 DEF e
      <4> QED
        BY <3>2, <4>3, <4>4
    <3> QED
      BY <1>6, <3>1, <3>2
  <2>3. /\ Cardinality(created(r)) \in Nat /\ payments[r] \in Nat
        /\ claimed(mempool, r) \in Nat
    BY <1>0, <2>1, SpentIsNumber
  <2>4. Cardinality(created(r))' = Cardinality(created(r)) /\ payments'[r] = payments[r]
    BY <1>2 DEF created, contractVars, jobVars
  <2>5. spent(r)' = Cardinality(created(r)) + payments[r] + claimed(mempool', r)
    BY <2>4 DEF spent
  <2> QED
    BY <2>1, <2>2, <2>3, <2>5 DEF spent
<1>8. ASSUME NEW r \in Specs, n = 1, spends(call, r) = 1
      PROVE  /\ isRequested(r) /\ c \in Loops /\ hasPassed(c, r)
             /\ loop[c].k \in {2, 8}
  <2>1. /\ call.r = r /\ call.step \in {"createJob", "payForRoute"}
    BY <1>8 DEF spends
  <2>2. CallIsDue(call) /\ call.by = c
    BY <1>0, <1>2, <1>5, <1>8, WireCallIsDue
  <2>3. c \in Loops
    BY <1>8, <2>1, <2>2, LoopSeats DEF CallIsDue
  <2>4. /\ loop[c].at = "busy" /\ loop[c] \in LoopStates
        /\ call = [step |-> Steps[loop[c].k], r |-> loop[c].r, job |-> loop[c].job, by |-> c]
        /\ DoneUpTo(loop[c].k - 1, loop[c].r, loop[c].job)
    BY <1>0, <1>2, <2>3 DEF ClientsInv, LoopFacts, loopIs, LoopParts
  <2>5. PICK k \in 1 .. 8 : k = loop[c].k
    BY <2>4, StepNames DEF LoopStates
  <2>6. call.step = Steps[k] /\ loop[c].r = r
    BY <2>1, <2>4, <2>5
  <2>7. k \in {2, 8}
    <3>1. /\ Steps[k] = "createJob" <=> k = 2
          /\ Steps[k] = "payForRoute" <=> k = 8
      BY StepPlaces
    <3> QED
      BY <2>1, <2>6, <3>1
  <2>8. isRequested(r)
    BY <2>4, <2>5, <2>6, <2>7 DEF DoneUpTo
  <2>9. hasPassed(c, r)
    BY <2>4, <2>5, <2>6, <2>7 DEF hasPassed
  <2> QED
    BY <2>3, <2>5, <2>7, <2>8, <2>9
<1>9. ASSUME NEW r \in Specs
      PROVE  /\ spent(r) \in Nat /\ spent(r)' \in Nat
             /\ isRequested(r) => isRequested(r)'
             /\ ~isRequested(r) => spent(r)' = 0
  <2>1. spent(r) \in Nat /\ (spent(r)' = spent(r) \/ spent(r)' = spent(r) + 1)
    BY <1>7
  <2>2. spent(r)' \in Nat
    BY <2>1
  <2>3. ~isRequested(r) => spent(r) = 0 /\ spent(r)' = spent(r)
    BY <1>7, <1>8 DEF Ledger, LedgerOf
  <2>4. isRequested(r) => isRequested(r)'
    BY LoopSeats DEF Onward
  <2> QED
    BY <2>1, <2>2, <2>3, <2>4
<1>10. ASSUME NEW r \in Specs, NEW l \in Loops, hasPassed(l, r)'
       PROVE  /\ hasPassed(l, r)
              /\ spent(r)' + faults + answered(l) <= spent(r) + faults' + answered(l)'
  <2>1. loop'[l] = loop[l] /\ l \in Clients
    BY <1>2, LoopSeats
  <2>2. hasPassed(l, r)
    BY <1>2, <1>3, <1>10, <2>1 DEF hasPassed
  <2>3. answered(l) \in Nat /\ answered(l)' \in Nat /\ answered(l) <= answered(l)'
    <3>1. answered(l) \in 0 .. 2 /\ answered(l)' \in 0 .. 2
      BY AnswersAreFew DEF answered
    <3>2. CASE l # c
      BY <1>3, <2>1, <3>1, <3>2 DEF answered
    <3>3. CASE l = c
      BY <1>2, <2>1, <3>1, <3>3 DEF answered, answers
    <3> QED
      BY <3>1, <3>2, <3>3
  <2>4. CASE n = 1 /\ spends(call, r) = 1
    <3>1. /\ c \in Loops /\ hasPassed(c, r) /\ loop[c].k \in {2, 8}
      BY <1>8, <2>4
    <3>2. l = c
      BY <2>2, <3>1 DEF Ledger, LedgerOf
    <3>3. spent(r)' = spent(r) + 1 /\ spent(r) \in Nat
      BY <1>7, <2>4
    <3>4. CASE faults' = faults + 1
      BY <1>0, <2>2, <2>3, <3>3, <3>4
    <3>5. CASE faults' = faults /\ w.at = "wait"
      <4>1. loop[c].at = "busy"
        BY <1>2, <3>1 DEF ClientsInv, LoopFacts, loopIs
      <4>2. answered(l)' = answered(l) + 1
        BY <1>2, <1>3, <2>1, <3>1, <3>2, <3>5, <4>1 DEF answered, answers
      <4> QED
        BY <1>0, <2>2, <2>3, <3>3, <3>5, <4>2
    <3> QED
      BY <1>5, <2>4, <3>4, <3>5
  <2>5. CASE ~(n = 1 /\ spends(call, r) = 1)
    <3>1. spent(r)' = spent(r) /\ spent(r) \in Nat
      BY <1>7, <2>5
    <3>2. faults' >= faults
      BY <1>0, <1>5, <1>6
    <3> QED
      BY <1>0, <2>2, <2>3, <3>1, <3>2
  <2> QED
    BY <2>4, <2>5
<1>11. \A r \in Specs : Booked(c, r)
  BY <1>9, <1>10 DEF Booked
<1> QED
  BY <1>0, <1>11, LedgerKeeps

\* Who is at it: every other loop's wire and progress stand.
LEMMA TurnLedger ==
    ASSUME ContractsInv, ClientsInv, Onward, Ledger, NEW c,
           UNCHANGED <<payments, mempool>>, \A r \in Specs : created(r)' = created(r),
           faults' \in Nat, faults' >= faults,
           \A l \in Loops \ {c} : wire'[l] = wire[l] /\ loop'[l] = loop[l],
           \A r \in Specs : c \in Loops /\ hasPassed(c, r)' =>
               hasPassed(c, r) /\ answered(c) <= answered(c)'
    PROVE  Ledger'
<1>1. faults \in Nat
  BY RetryAssumption DEF ClientsInv, LoopParts
<1>2. ASSUME NEW r \in Specs PROVE Booked(c, r)
  <2>1. spent(r) \in Nat /\ spent(r)' = spent(r)
    BY SpentInv DEF spent
  <2>2. ASSUME NEW l \in Loops, hasPassed(l, r)'
        PROVE  /\ hasPassed(l, r)
               /\ spent(r)' + faults + answered(l) <= spent(r) + faults' + answered(l)'
    <3>1. hasPassed(l, r) /\ answered(l) <= answered(l)'
      <4>1. CASE l = c
        BY <2>2, <4>1
      <4>2. CASE l # c
        <5>1. wire'[l] = wire[l] /\ loop'[l] = loop[l]
          BY <4>2
        <5>2. hasPassed(l, r) /\ answered(l)' = answered(l) /\ answered(l) \in 0 .. 2
          BY <2>2, <5>1, AnswersAreFew DEF hasPassed, answered
        <5> QED
          BY <5>2
      <4> QED
        BY <4>1, <4>2
    <3>2. answered(l) \in 0 .. 2 /\ answered(l)' \in 0 .. 2
      BY AnswersAreFew DEF answered
    <3> QED
      BY <1>1, <2>1, <3>1, <3>2
  <2>3. ~isRequested(r) => spent(r)' = 0
    BY <2>1 DEF Ledger, LedgerOf
  <2>4. isRequested(r) => isRequested(r)'
    BY LoopSeats DEF Onward
  <2> QED
    BY <2>1, <2>2, <2>3, <2>4 DEF Booked
<1> QED
  BY <1>1, <1>2, LedgerKeeps

LEMMA LoopTurnLedger ==
    ASSUME ContractsInv, ClientsInv, Onward, Ledger, NEW l \in Loops,
           (\E r \in Specs : startLoop(l, r)) \/ nextStep(l) \/ loopDies(l)
    PROVE  Ledger'
<1>1. /\ wire \in [Clients -> LoopWires] /\ loop \in [Loops -> LoopStates] /\ l \in Clients
      /\ faults \in 0 .. MaxFaults /\ MaxFaults \in Nat /\ LoopFacts(l)
  BY LoopSeats, RetryAssumption DEF ClientsInv, LoopParts, LoopWires, LogIds
<1>2. /\ UNCHANGED <<jobs, payments, mempool>>
      /\ faults' \in Nat /\ faults' >= faults
      /\ \E w : wire' = [wire EXCEPT ![l] = w]
      /\ \E p : loop' = [loop EXCEPT ![l] = p]
  <2>1. faults' = faults \/ faults' = faults + 1
    BY DEF startLoop, nextStep, loopDies, doStep, issue, hangUp, crash, fault
  <2>2. \E p : loop' = [loop EXCEPT ![l] = p]
    BY DEF startLoop, nextStep, loopDies, doStep
  <2>3. \E w : wire' = [wire EXCEPT ![l] = w]
    BY DEF startLoop, nextStep, loopDies, doStep, issue, hangUp, crash, hear
  <2>4. UNCHANGED <<jobs, payments, mempool>>
    BY DEF startLoop, nextStep, loopDies, doStep, issue, hangUp, crash, contractVars, jobVars
  <2>5. faults' \in Nat /\ faults' >= faults
    BY <1>1, <2>1
  <2> QED
    BY <2>2, <2>3, <2>4, <2>5
<1>3. \A c \in Clients \ {l} : wire'[c] = wire[c]
  BY <1>1, <1>2
<1>4. \A m \in Loops \ {l} : wire'[m] = wire[m] /\ loop'[m] = loop[m]
  BY <1>1, <1>2, <1>3, LoopSeats
<1>5. ASSUME NEW r \in Specs, hasPassed(l, r)'
      PROVE  hasPassed(l, r) /\ answered(l) <= answered(l)'
  <2>1. ASSUME NEW s \in Specs, startLoop(l, s) PROVE FALSE
    <3>1. loop'[l] = [at |-> "busy", k |-> 1, r |-> s, job |-> 0]
      BY <1>1, <2>1 DEF startLoop, doStep
    <3>2. wire'[l].at = "send"
      BY <1>1, <2>1 DEF startLoop, doStep, issue, hear
    <3> QED
      BY <1>5, <3>1, <3>2 DEF hasPassed
  <2>2. ASSUME loopDies(l) PROVE FALSE
    <3>1. loop'[l].at = "dead"
      BY <1>1, <2>2 DEF loopDies
    <3> QED
      BY <1>5, <3>1 DEF hasPassed
  <2>3. CASE nextStep(l)
    <3>1. wire[l].at = "ok" /\ loop[l].at = "busy" /\ loop[l] \in LoopStates
      BY <1>1, <2>3 DEF nextStep, LoopFacts, loopIs
    <3>2. PICK k \in 1 .. 8 : k = loop[l].k
      BY <3>1, StepNames DEF LoopStates
    <3>3. CASE k < 8
      <4>1. /\ loop'[l].at = "busy" /\ loop'[l].k = k + 1 /\ loop'[l].r = loop[l].r
            /\ wire'[l].at = "send"
        BY <1>1, <2>3, <3>2, <3>3, StepNames DEF nextStep, doStep, issue, hear
      <4>2. hasPassed(l, r)
        BY <1>5, <3>1, <4>1 DEF hasPassed
      <4>3. answered(l) = IF k >= 2 THEN 1 ELSE 0
        BY <3>1, <3>2, <3>3 DEF answered, answers
      <4>4. answered(l)' = IF k >= 2 THEN 1 ELSE 0
        BY <3>3, <4>1 DEF answered, answers
      <4> QED
        BY <4>2, <4>3, <4>4
    <3>4. CASE k = 8
      <4>1. loop'[l].at = "done" /\ loop'[l].r = loop[l].r
        BY <1>1, <2>3, <3>2, <3>4, StepNames DEF nextStep
      <4>2. hasPassed(l, r)
        BY <1>5, <3>1, <4>1 DEF hasPassed
      <4>3. answered(l) = 2 /\ answered(l)' = 2
        BY <3>1, <3>2, <3>4, <4>1 DEF answered, answers
      <4> QED
        BY <4>2, <4>3
    <3> QED
      BY <3>3, <3>4
  <2> QED
    BY <2>1, <2>2, <2>3
<1> QED
  BY <1>2, <1>4, <1>5, TurnLedger DEF created

LEMMA OtherTurnLedger ==
    ASSUME network = "mainnet", ContractsInv, ClientsInv, Onward, Ledger,
           \/ \E d \in Demos :
                 \/ \E good \in BOOLEAN : startDemo(d, good)
                 \/ readJobCount(d) \/ evaluate(d) \/ demoEnds(d)
           \/ SweepStep \/ strangerStep \/ passTime \/ UNCHANGED loopAllVars
    PROVE  Ledger'
<1>1. /\ wire \in [Clients -> LoopWires] /\ faults \in 0 .. MaxFaults /\ MaxFaults \in Nat
  BY RetryAssumption DEF ClientsInv, LoopParts, LoopWires, LogIds
<1>2. ASSUME NEW d \in Demos,
             \/ \E good \in BOOLEAN : startDemo(d, good)
             \/ readJobCount(d) \/ evaluate(d) \/ demoEnds(d)
      PROVE  Ledger'
  <2>1. /\ UNCHANGED <<jobs, payments, mempool, loop, faults>>
        /\ \E w : wire' = [wire EXCEPT ![d] = w]
    BY <1>2 DEF startDemo, readJobCount, evaluate, demoEnds, doDemo, issue, hangUp, hear,
       contractVars, jobVars
  <2>2. \A l \in Loops : wire'[l] = wire[l] /\ l # d
    BY <1>1, <2>1, LoopSeats
  <2>3. d \notin Loops /\ faults' \in Nat /\ faults' >= faults
    BY <1>1, <2>1, <2>2
  <2> QED
    BY <2>1, <2>2, <2>3, TurnLedger DEF created
<1>3. ASSUME SweepStep \/ passTime \/ UNCHANGED loopAllVars PROVE Ledger'
  <2>1. UNCHANGED <<jobs, payments, mempool, wire, loop>>
    BY <1>3 DEF SweepStep, startSweep, look, reclaimPicked, endSweep, passTime, loopAllVars,
       contractVars, callVars, scriptVars, jobVars
  <2>2. faults' = faults \/ faults' = faults + 1
    BY <1>3 DEF SweepStep, startSweep, look, reclaimPicked, endSweep, passTime, loopAllVars,
       callVars, fault
  <2>3. faults' \in Nat /\ faults' >= faults
    BY <1>1, <2>2
  <2>4. PICK c : c \notin Loops
    BY NoSetContainsEverything
  <2> QED
    BY <2>1, <2>3, <2>4, TurnLedger DEF created
<1>4. ASSUME strangerStep PROVE Ledger'
  <2>1. UNCHANGED <<payments, mempool, wire, loop, faults>>
    BY <1>4 DEF strangerStep, callVars, scriptVars
  <2>2. ASSUME NEW r \in Specs PROVE created(r)' = created(r)
    <3>1. CASE jobs' = jobs
      BY <3>1 DEF created
    <3>2. CASE \E s \in Accounts \ operators : strangerJob(s)
      <4>1. PICK s \in Accounts \ operators : strangerJob(s)
        BY <3>2
      <4>2. PICK j \in JobIds : /\ \A i \in JobIds \ {j} : jobs'[i] = jobs[i]
                                /\ strangersMove(s, j)
        BY <4>1, StrangersEffect DEF ContractsInv
      <4>3. s # Wallet /\ r # ZeroHash
        BY LoopSeats DEF operators
      <4>4. \A i \in JobIds : jobs'[i].client = Wallet /\ jobs'[i].specHash = r
                                <=> jobs[i].client = Wallet /\ jobs[i].specHash = r
        BY <4>2, <4>3 DEF strangersMove, sameParties
      <4> QED
        BY <4>4 DEF created
    <3> QED
      BY <1>4, <3>1, <3>2 DEF strangerStep, jobVars
  <2>3. faults' \in Nat /\ faults' >= faults
    BY <1>1, <2>1
  <2>4. PICK c : c \notin Loops
    BY NoSetContainsEverything
  <2> QED
    BY <2>1, <2>2, <2>3, <2>4, TurnLedger
<1> QED
  BY <1>2, <1>3, <1>4

LEMMA LedgerInit == LoopInit => Ledger
<1> SUFFICES ASSUME LoopInit, NEW r \in Specs PROVE LedgerOf(r)
  BY DEF Ledger
<1>1. created(r) = {}
  <2>1. r # ZeroHash
    BY LoopSeats
  <2> QED
    BY <2>1 DEF created, LoopInit, BondInit, JobInit, NoJob
<1>2. claimed(mempool, r) = 0
  <2>1. mempool = <<>> /\ DOMAIN mempool = {} /\ mempool \in Seq(Accepted(Calls))
    BY DEF LoopInit, CallInit
  <2> QED
    BY <2>1, ClaimsAreNumbers, SumEmpty
<1>3. payments[r] = 0
  BY LoopSeats DEF LoopInit
<1>4. spent(r) = 0
  BY <1>1, <1>2, <1>3, FS_EmptySet DEF spent
<1>5. \A l \in Loops : ~hasPassed(l, r)
  BY DEF hasPassed, LoopInit
<1> QED
  BY <1>4, <1>5 DEF LedgerOf

\* (On the testnet the wallet may be the demos'.)
LEMMA LedgerHolds == LoopSpec => [](network = "mainnet" => Ledger)
<1>1. ASSUME LoopIInv, LoopIInv', network = "mainnet", Ledger, [LoopNext]_loopAllVars
      PROVE  Ledger'
  <2>1. /\ ContractsInv /\ ClientsInv /\ ContractsInv' /\ ClientsInv' /\ Onward
    BY <1>1, ContractsKeep DEF LoopIInv, ClientsInv
  <2>2. ASSUME \E c \in Clients : Send(c) PROVE Ledger'
    BY <1>1, <2>1, <2>2, SendLedger
  <2>3. ASSUME \E i \in DOMAIN mempool : mine(i) PROVE Ledger'
    BY <1>1, <2>1, <2>3, MineLedger
  <2>4. ASSUME \E l \in Loops :
                  (\E r \in Specs : startLoop(l, r)) \/ nextStep(l) \/ loopDies(l)
        PROVE  Ledger'
    BY <1>1, <2>1, <2>4, LoopTurnLedger
  <2>5. ASSUME \/ \E d \in Demos :
                     \/ \E good \in BOOLEAN : startDemo(d, good)
                     \/ readJobCount(d) \/ evaluate(d) \/ demoEnds(d)
               \/ SweepStep \/ strangerStep \/ passTime \/ UNCHANGED loopAllVars
        PROVE  Ledger'
    BY <1>1, <2>1, <2>5, OtherTurnLedger
  <2> QED
    BY <1>1, <2>2, <2>3, <2>4, <2>5 DEF LoopNext
<1>2. LoopIInv /\ LoopIInv' /\ (network = "mainnet" => Ledger) /\ [LoopNext]_loopAllVars
        => (network = "mainnet" => Ledger)'
  BY <1>1, NetworkStands
<1> QED
  BY <1>2, LedgerInit, LoopIInvHolds, PTL DEF LoopSpec

\* A loop that ran to its end paid out its job, bonded its verdict and paid the route;
\* what it spent beside one escrow and one payment is within the answers lost.
THEOREM SpendingIsAccountedFor == LoopSpec => []MoneyIsAccountedFor
<1>1. ASSUME LoopIInv, network = "mainnet" => Ledger PROVE MoneyIsAccountedFor
  <2> SUFFICES ASSUME NEW l \in Loops, loop[l].at = "done", NEW r, r = loop[l].r
               PROVE  /\ \E j \in JobIds : /\ jobs[j].client = Wallet
                                           /\ jobs[j].specHash = r
                                           /\ jobs[j].state = "Completed"
                      /\ isStaked(r) /\ stakes[r].scored
                      /\ payments[r] >= 1
                      /\ Cardinality(stranded(r)) + payments[r] - 1 <= faults
    BY DEF MoneyIsAccountedFor
  <2>1. /\ r \in Specs /\ Ledger /\ \E j \in JobIds : DoneUpTo(8, r, j)
        /\ mempool \in Seq(Accepted(Calls)) /\ payments \in [Specs -> Nat] /\ faults \in Nat
    <3>1. loop[l] \in LoopStates /\ LoopFacts(l)
      BY <1>1 DEF LoopIInv, ClientsInv, LoopParts
    <3> QED
      BY <1>1, <3>1, LoopSeats, RetryAssumption
         DEF LoopIInv, ContractsInv, ClientsInv, LoopParts, LoopStates, LoopFacts, loopIs
  <2>2. PICK j \in JobIds : /\ jobs[j].client = Wallet /\ jobs[j].specHash = r
                            /\ jobs[j].state = "Completed"
                            /\ isStaked(r) /\ stakes[r].scored /\ payments[r] >= 1
    BY <2>1 DEF DoneUpTo
  <2>3. Cardinality(stranded(r)) \in Nat /\ Cardinality(stranded(r)) < Cardinality(created(r))
    <3>1. stranded(r) \subseteq created(r) /\ stranded(r) # created(r)
      BY <2>2 DEF stranded, created
    <3>2. IsFiniteSet(created(r)) /\ Cardinality(created(r)) \in Nat
      BY <2>1, SpentIsNumber
    <3> QED
      BY <3>1, <3>2, FS_Subset, FS_CardinalityType
  <2>4. spent(r) <= faults + 2
    <3>1. hasPassed(l, r) /\ answered(l) = 2
      BY DEF hasPassed, answered, answers
    <3> QED
      BY <2>1, <3>1 DEF Ledger, LedgerOf
  <2>5. Cardinality(stranded(r)) + payments[r] - 1 <= faults
    <3>1. Cardinality(created(r)) \in Nat /\ payments[r] \in Nat /\ claimed(mempool, r) \in Nat
      BY <2>1, SpentIsNumber
    <3> QED
      BY <2>1, <2>3, <2>4, <3>1 DEF spent
  <2> QED
    BY <2>2, <2>5
<1>2. LoopIInv /\ (network = "mainnet" => Ledger) => MoneyIsAccountedFor
  BY <1>1
<1> QED
  BY <1>2, LoopIInvHolds, LedgerHolds, PTL
==============================================================================
