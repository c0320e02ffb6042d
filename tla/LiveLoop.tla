------------------------------ MODULE LiveLoop ------------------------------
(***************************************************************************)
(* The clients of AgentJob on either network.                              *)
(*                                                                         *)
(* On the mainnet, script/live-loop-mainnet.mjs, the accountability loop   *)
(* over four contracts: a signed signal becomes a validation request, a    *)
(* job, a bond bound to the job, a deliverable, a verdict on the registry  *)
(* and on the bond, a payout and a receipt.  One wallet is client,         *)
(* validator and sweeper; a key derived from it is the provider.  Each     *)
(* loop waits for one call before it sends the next and writes its         *)
(* receipts after the last one only.  script/reclaim-bonds.mjs sweeps the  *)
(* bonds the receipt files name.                                           *)
(*                                                                         *)
(* On the testnet, job.mjs: one wallet is client, provider and evaluator   *)
(* of every demo, and a demo takes its job's id from a counter that other  *)
(* demos and strangers move.                                               *)
(*                                                                         *)
(* On both, strangers create jobs with whatever parties and hashes they    *)
(* like, do their part in any job that names them, and request             *)
(* validations.  What they could slash is wouldSlash.                      *)
(***************************************************************************)
EXTENDS PredgeValidatorBond, RetriedCalls

CONSTANTS Wallet, ProviderWallet,  \* PRIVATE_KEY and the key derived from it
          DemoWallet,              \* the key of job.mjs, the same one or another
          Loops, Demos,            \* the processes; a demo is one job of a run
          DemoSpec,                \* the spec hash of each demo's job
          Want, Garbage,           \* what passes a demo's test; what passes none
          Sha256,                  \* requestHash -> sha256 of the same bytes
          Escrow, Bond,            \* what a job and a stake carry
          OtherJobs,               \* the parties and hashes strangers name (bound)
          MaxOthers                \* bound on the jobs of strangers

ASSUME LoopAssumption ==
    /\ Clients = Loops \cup Demos /\ Loops \cap Demos = {}
    /\ {Wallet, ProviderWallet, DemoWallet} \subseteq Accounts
    /\ Wallet # ProviderWallet
    /\ \A r \in Specs : Sha256[r] \in Deliverables
    /\ \A d \in Demos : DemoSpec[d] \in Specs /\ Want[d] \in Deliverables \ {Garbage}
    /\ Garbage \in Deliverables
    /\ {Escrow, Bond} \subseteq Amounts
    /\ OtherJobs \subseteq [provider : Accounts, evaluator : Accounts, specHash : Specs]
    /\ MaxOthers \in Nat

VARIABLES network,     \* which of the two the contracts are on
          registryOwner, registryValidator, validation,   \* PredgeAgentValidator
          requestCount, responseCount,
          payments,    \* Paid events of the wallet, per request hash
          loop, demo,  \* progress of each process
          receipts,    \* request hashes in deployments/*/live-loop-*.json
          sweep        \* progress of reclaim-bonds.mjs

scriptVars == <<network, loop, demo, receipts, sweep>>
registryVars ==
    <<registryOwner, registryValidator, validation, requestCount, responseCount>>
contractVars == <<jobVars, submittedAt, bondVars, registryVars, payments>>
loopAllVars == <<now, contractVars, callVars, scriptVars>>

\* The hash of the verdict on a signal is named by the signal.
ValidationRegistry == INSTANCE PredgeAgentValidator WITH
    Agents <- {}, Requests <- Specs, Hashes <- Specs, validator <- registryValidator

\* A slip the properties must notice, as those below: the provider is paid
\* before the verdict is recorded.
Steps_PaysFirst ==
    <<"validationRequest", "createJob", "stakeAndCommit", "submit", "complete",
      "validationResponse", "recordScore", "payForRoute">>

\* The loop, in the order its comment numbers it.
Steps ==
    <<"validationRequest", "createJob", "stakeAndCommit", "submit",
      "validationResponse", "recordScore", "complete", "payForRoute">>

Calls == [step : Range(Steps) \cup {"reject"}, r : Specs, job : 0 .. MaxJobs, by : Clients]

LoopStates ==
    [at : {"idle"}]
    \cup [at : {"busy"}, k : 1 .. Len(Steps), r : Specs, job : 0 .. MaxJobs]
    \cup [at : {"done", "dead"}, r : Specs]
DemoStates ==
    [at : {"idle"}]
    \cup [at : {"createJob", "jobCount", "submit", "decide", "done", "dead"},
          good : BOOLEAN, job : 0 .. MaxJobs]
NoPick == "none"
SweepStates ==
    [at : {"idle"}]
    \cup [at : {"sweeping"}, todo : SUBSET Specs, asOf : Nat, picked : Specs \cup {NoPick}]

------------------------------------------------------------------------------
LoopInit ==
    /\ BondInit
    /\ bondOwner = Wallet /\ validator = Wallet
    /\ CallInit
    /\ registryOwner = Wallet /\ registryValidator = Wallet
    /\ validation = [r \in Specs |-> ValidationRegistry!NoValidation]
    /\ requestCount = 0 /\ responseCount = 0
    /\ payments = [r \in Specs |-> 0]
    /\ network \in {"mainnet", "testnet"}
    /\ loop = [l \in Loops |-> [at |-> "idle"]]
    /\ demo = [d \in Demos |-> [at |-> "idle"]]
    /\ receipts = {}
    /\ sweep = [at |-> "idle"]

------------------------------------------------------------------------------
(* The calls. *)

walletOf(c) ==
    CASE c.by \in Demos -> DemoWallet
      [] c.by \in Loops /\ c.step = "submit" -> ProviderWallet
      [] OTHER -> Wallet

\* What the contract called requires.
accepts(c) ==
    CASE c.step = "validationRequest" -> ~ValidationRegistry!isRequested(c.r)
      [] c.step = "stakeAndCommit" ->
           /\ ~isStaked(c.r) /\ jobAt(c.job).specHash = c.r
           /\ jobAt(c.job).evaluator = validator /\ jobAt(c.job).provider # validator
      [] c.step = "submit" ->
           jobAt(c.job).provider = walletOf(c) /\ jobAt(c.job).state = "Open"
      [] c.step = "validationResponse" ->
           ValidationRegistry!isRequested(c.r) /\ ~ValidationRegistry!isValidated(c.r)
      [] c.step = "recordScore" -> isStaked(c.r) /\ ~stakes[c.r].scored
      [] c.step \in {"complete", "reject"} ->
           jobAt(c.job).evaluator = walletOf(c) /\ jobAt(c.job).state = "Submitted"
      [] OTHER -> TRUE

\* What a demo delivers.
work(d) == IF demo[d].good THEN Want[d] ELSE Garbage

\* The transaction; the loops' jobs are for the provider's key, the demos' all
\* for their wallet.  Jobs are bounded, and a verdict's window ends before the
\* clock.
jobCall(c) ==
    /\ \/ /\ c.step = "createJob" /\ c.by \in Loops
          /\ createJob(Wallet, ProviderWallet, Wallet, c.r, Escrow)
       \/ /\ c.step = "createJob" /\ c.by \in Demos
          /\ createJob(DemoWallet, DemoWallet, DemoWallet, c.r, Escrow)
       \/ /\ c.step = "submit"
          /\ submit(walletOf(c), c.job, IF c.by \in Demos THEN work(c.by) ELSE Sha256[c.r])
       \/ c.step = "complete" /\ complete(walletOf(c), c.job)
       \/ c.step = "reject" /\ reject(walletOf(c), c.job)
    /\ submittedAt' = IF c.step # "submit" THEN submittedAt
                      ELSE [submittedAt EXCEPT ![c.job] = now]
    /\ UNCHANGED <<bondVars, registryVars, payments>>

bondCall(c) ==
    /\ \/ c.step = "stakeAndCommit" /\ stakeAndCommit(Wallet, c.r, Sha256[c.r], c.job, Bond)
       \/ /\ c.step = "recordScore" /\ now + DisputeWindow <= MaxTime
          /\ recordScore(Wallet, c.r, 100)
    /\ UNCHANGED <<jobVars, submittedAt, registryVars, payments>>

registryCall(c) ==
    /\ \/ /\ c.step = "validationRequest"
          /\ ValidationRegistry!validationRequest(Wallet, 0, c.r)
       \/ /\ c.step = "validationResponse"
          /\ ValidationRegistry!validationResponse(Wallet, c.r, 100, c.r)
    /\ UNCHANGED <<jobVars, submittedAt, bondVars, payments>>

settlementCall(c) ==
    /\ c.step = "payForRoute"
    /\ payments' = [payments EXCEPT ![c.r] = @ + 1]
    /\ UNCHANGED <<jobVars, submittedAt, bondVars, registryVars>>

\* A wallet's oldest call is mined.  A receipt carries the id its own
\* transaction's JobCreated event names.
mine(i) ==
    /\ isNext(i, walletOf)
    /\ LET c == mempool[i].call
       IN  \/ /\ jobCall(c) \/ bondCall(c) \/ registryCall(c) \/ settlementCall(c)
              /\ mined(i, [at |-> "ok",
                           log |-> IF c.step = "createJob" THEN jobCount' ELSE c.job])
           \/ /\ ~accepts(c)
              /\ mined(i, [at |-> "thrown"])
              /\ UNCHANGED contractVars
    /\ UNCHANGED <<now, scriptVars>>

pendingJobs == Cardinality({i \in DOMAIN mempool : mempool[i].call.step = "createJob"})
jobsLeft == jobCount + pendingJobs < MaxJobs

Send(c) ==
    /\ wire[c].at = "send"
    /\ wire[c].call.step = "createJob" => jobsLeft
    /\ LET ok == accepts(wire[c].call) IN send(c, ok) \/ loseAnswer(c, ok)
    /\ UNCHANGED <<now, contractVars, scriptVars>>

------------------------------------------------------------------------------
(* live-loop-mainnet.mjs. *)

doStep(l, k, r, j) ==
    /\ loop' = [loop EXCEPT ![l] = [at |-> "busy", k |-> k, r |-> r, job |-> j]]
    /\ issue(l, [step |-> Steps[k], r |-> r, job |-> j, by |-> l])

\* A signal that verifies under the pinned key; anything else throws.
startLoop(l, r) ==
    /\ network = "mainnet" /\ loop[l].at = "idle"
    /\ doStep(l, 1, r, 0)
    /\ UNCHANGED <<now, contractVars, network, demo, receipts, sweep>>

\* The job's id is taken from the receipt of its own creation.
jobIdFrom(l) == wire[l].log

\* A slip: the receipt file is written as soon as the bond is staked.
nextStep_Early(l) ==
    /\ wire[l].at = "ok"
    /\ IF loop[l].k < Len(Steps)
       THEN /\ doStep(l, loop[l].k + 1, loop[l].r, jobIdFrom(l))
            /\ receipts' = receipts \cup {x \in {loop[l].r} : isStaked(x)}
       ELSE /\ loop' = [loop EXCEPT ![l] = [at |-> "done", r |-> loop[l].r]]
            /\ hangUp(l)
            /\ UNCHANGED receipts
    /\ UNCHANGED <<now, contractVars, network, demo, sweep>>

\* On to the next step; after the last one the receipts are written.
nextStep(l) ==
    /\ wire[l].at = "ok"
    /\ IF loop[l].k < Len(Steps)
       THEN /\ doStep(l, loop[l].k + 1, loop[l].r, jobIdFrom(l))
            /\ UNCHANGED receipts
       ELSE /\ loop' = [loop EXCEPT ![l] = [at |-> "done", r |-> loop[l].r]]
            /\ hangUp(l)
            /\ receipts' = receipts \cup {loop[l].r}
    /\ UNCHANGED <<now, contractVars, network, demo, sweep>>

\* A slip: a step that throws is passed over for the end of the run.
loopDies_Writes(l) ==
    /\ loop[l].at = "busy"
    /\ crash(l) \/ (wire[l].at = "thrown" /\ hangUp(l))
    /\ loop' = [loop EXCEPT ![l] = [at |-> "done", r |-> loop[l].r]]
    /\ receipts' = receipts \cup {loop[l].r}
    /\ UNCHANGED <<now, contractVars, network, demo, sweep>>

\* A step that throws, or a crash, ends the loop with no receipts.
loopDies(l) ==
    /\ loop[l].at = "busy"
    /\ crash(l) \/ (wire[l].at = "thrown" /\ hangUp(l))
    /\ loop' = [loop EXCEPT ![l] = [at |-> "dead", r |-> loop[l].r]]
    /\ UNCHANGED <<now, contractVars, network, demo, receipts, sweep>>

------------------------------------------------------------------------------
(* job.mjs demo, one of its two jobs: with good work or with garbage. *)

doDemo(d, at, good, j, step) ==
    /\ demo' = [demo EXCEPT ![d] = [at |-> at, good |-> good, job |-> j]]
    /\ issue(d, [step |-> step, r |-> DemoSpec[d], job |-> j, by |-> d])

startDemo(d, good) ==
    /\ network = "testnet" /\ demo[d].at = "idle"
    /\ doDemo(d, "createJob", good, 0, "createJob")
    /\ UNCHANGED <<now, contractVars, network, loop, receipts, sweep>>

\* A slip: the counter is read before the job is mined.
readJobCount_Early(d) ==
    /\ demo[d].at = "createJob" /\ wire[d].at \in {"wait", "ok"}
    /\ doDemo(d, "submit", demo[d].good, jobCount, "submit")
    /\ UNCHANGED <<now, contractVars, network, loop, receipts, sweep>>

\* The id is read back from jobCount(), which others move too.
readJobCount(d) ==
    /\ demo[d].at = "createJob" /\ wire[d].at = "ok"
    /\ doDemo(d, "submit", demo[d].good, jobCount, "submit")
    /\ UNCHANGED <<now, contractVars, network, loop, receipts, sweep>>

\* evaluate() looks at the bytes at hand, not at the job.
evaluate(d) ==
    /\ demo[d].at = "submit" /\ wire[d].at = "ok"
    /\ doDemo(d, "decide", demo[d].good, demo[d].job,
              IF demo[d].good THEN "complete" ELSE "reject")
    /\ UNCHANGED <<now, contractVars, network, loop, receipts, sweep>>

demoEnds(d) ==
    /\ \/ demo[d].at = "decide" /\ wire[d].at = "ok" /\ demo' = [demo EXCEPT ![d].at = "done"]
       \/ wire[d].at = "thrown" /\ demo' = [demo EXCEPT ![d].at = "dead"]
    /\ hangUp(d)
    /\ UNCHANGED <<now, contractVars, network, loop, receipts, sweep>>

------------------------------------------------------------------------------
(* reclaim-bonds.mjs. *)

\* The clock and the receipts are read once, before the first bond.
startSweep ==
    /\ network = "mainnet" /\ sweep.at = "idle"
    /\ validator = Wallet
    /\ sweep' = [at |-> "sweeping", todo |-> receipts, asOf |-> now, picked |-> NoPick]
    /\ UNCHANGED <<now, contractVars, callVars, network, loop, demo, receipts>>

\* The window is counted from the stake here, from the verdict in the contract.
skips(r) ==
    \/ ~isStaked(r)
    \/ stakes[r].closed
    \/ ~stakes[r].scored
    \/ sweep.asOf < stakes[r].stakedAt + DisputeWindow

look(r) ==
    /\ sweep.at = "sweeping" /\ sweep.picked = NoPick /\ r \in sweep.todo
    /\ sweep' = IF skips(r) THEN [sweep EXCEPT !.todo = @ \ {r}]
                ELSE [sweep EXCEPT !.picked = r]
    /\ UNCHANGED <<now, contractVars, callVars, network, loop, demo, receipts>>

\* One send, no retry.  A reclaim the contract refuses throws, and the rest of
\* the sweep is never looked at.
reclaimPicked ==
    /\ sweep.at = "sweeping" /\ sweep.picked # NoPick
    /\ \/ /\ reclaim(Wallet, sweep.picked)
          /\ sweep' = [sweep EXCEPT !.todo = @ \ {sweep.picked}, !.picked = NoPick]
       \/ /\ stakes[sweep.picked].closed
             \/ now < stakes[sweep.picked].scoredAt + DisputeWindow
          /\ sweep' = [at |-> "idle"]
          /\ UNCHANGED bondVars
    /\ UNCHANGED <<now, jobVars, submittedAt, registryVars, payments, callVars, network,
                   loop, demo, receipts>>

endSweep ==
    /\ sweep.at = "sweeping"
    /\ \/ sweep.todo = {} /\ UNCHANGED faults
       \/ sweep.todo # {} /\ fault
    /\ sweep' = [at |-> "idle"]
    /\ UNCHANGED <<now, contractVars, wire, mempool, network, loop, demo, receipts>>

SweepStep == startSweep \/ (\E r \in Specs : look(r)) \/ reclaimPicked \/ endSweep

------------------------------------------------------------------------------
(* Strangers. *)

operators == IF network = "mainnet" THEN {Wallet, ProviderWallet} ELSE {DemoWallet}

strangersJobs == {j \in JobIds : jobs[j].client \in Accounts \ operators}

\* A job of a stranger's own, or his part in any job that names him.
strangerJob(s) ==
    \/ /\ jobsLeft /\ Cardinality(strangersJobs) < MaxOthers
       /\ \E o \in OtherJobs : createJob(s, o.provider, o.evaluator, o.specHash, Escrow)
    \/ \E j \in JobIds :
          \/ \E d \in Deliverables : submit(s, j, d)
          \/ complete(s, j) \/ reject(s, j)

strangerStep ==
    /\ \/ /\ \E s \in Accounts \ operators : strangerJob(s)
          /\ noteSubmission
          /\ UNCHANGED registryVars
       \/ /\ \E r \in Specs : ValidationRegistry!validationRequest(Wallet, 0, r)
          /\ UNCHANGED <<jobVars, submittedAt>>
    /\ UNCHANGED <<now, bondVars, payments, callVars, scriptVars>>

------------------------------------------------------------------------------
passTime == NextBlock /\ UNCHANGED <<contractVars, callVars, scriptVars>>

LoopNext ==
    \/ \E c \in Clients : Send(c)
    \/ \E i \in DOMAIN mempool : mine(i)
    \/ \E l \in Loops :
          (\E r \in Specs : startLoop(l, r)) \/ nextStep(l) \/ loopDies(l)
    \/ \E d \in Demos :
          \/ \E good \in BOOLEAN : startDemo(d, good)
          \/ readJobCount(d) \/ evaluate(d) \/ demoEnds(d)
    \/ SweepStep
    \/ strangerStep
    \/ passTime

LoopSpec == LoopInit /\ [][LoopNext]_loopAllVars

\* Blocks keep coming and the operator sweeps again and again.
LoopFairSpec ==
    /\ LoopSpec
    /\ WF_loopAllVars(passTime)
    /\ WF_loopAllVars(SweepStep)

------------------------------------------------------------------------------
(* Properties. *)

LoopTypeOK ==
    /\ BondTypeOK
    /\ ValidationRegistry!ValidatorTypeOK
    /\ payments \in [Specs -> Nat]
    /\ wire \in [Clients -> WireStates(Calls, 0 .. MaxJobs)]
    /\ mempool \in Seq(Accepted(Calls))
    /\ faults \in 0 .. MaxFaults
    /\ network \in {"mainnet", "testnet"}
    /\ loop \in [Loops -> LoopStates]
    /\ demo \in [Demos -> DemoStates]
    /\ receipts \in SUBSET Specs
    /\ sweep \in SweepStates

\* The provider of a loop's job is paid only after both registries hold the
\* verdict on the job's signal and the job the deliverable it was given on, and
\* no job that strangers make the operator judge is ever decided; so no bond of
\* the loop can be slashed, however calls are lost, sent twice or crossed with
\* other loops and with strangers.
LoopsPayOnVerdicts ==
    /\ network = "mainnet" =>
          \A j \in JobIds :
              LET r == jobs[j].specHash
              IN  jobs[j].evaluator = Wallet /\ jobs[j].state \in {"Completed", "Rejected"} =>
                    /\ jobs[j].client = Wallet /\ jobs[j].state = "Completed"
                    /\ validation[r].response = 100
                    /\ stakes[r].scored /\ stakes[r].score = 100
                    /\ jobs[j].deliverable = Sha256[r]
    /\ slashCount = 0 /\ \A r \in Specs : ~wouldSlash(r)

\* The job a demo opened, or a job as the demo would have opened it.
ownJob(d, j) == jobs[j].client = DemoWallet /\ jobs[j].specHash = DemoSpec[d]

\* A demo that reads its job's id from the counter may get a job of another demo
\* or of a stranger, and judge that instead of its own.  It is never one that
\* was there before its own, and whichever it is, it is decided by what was
\* delivered on it: complete exactly if the bytes passed the test of the demo
\* that delivered them.
DemosJudgeDeliveries ==
    network = "testnet" =>
        /\ \A d \in Demos : demo[d].at \in {"submit", "decide", "done"} =>
              \E j \in 1 .. demo[d].job : ownJob(d, j)
        /\ \A j \in JobIds :
              jobs[j].evaluator = DemoWallet /\ jobs[j].state \in {"Completed", "Rejected"} =>
                /\ jobs[j].provider = DemoWallet
                /\ jobs[j].state = "Completed" <=> jobs[j].deliverable # Garbage

\* No escrow moves but on the verdict of the evaluator it waits for, and that
\* verdict is about what the job's provider delivered.
EscrowFollowsVerdict == LoopTypeOK /\ LoopsPayOnVerdicts /\ DemosJudgeDeliveries

\* The jobs a loop paid for and will never look at again.
stranded(r) == {j \in JobIds : /\ jobs[j].client = Wallet /\ jobs[j].specHash = r
                               /\ jobs[j].state \in {"Open", "Submitted"}}

\* A loop that ran to its end paid out its job, bonded its verdict and paid
\* once; a second escrow or a second payment takes a lost answer, and there are
\* never more of them than answers lost.
MoneyIsAccountedFor ==
    \A l \in Loops : loop[l].at = "done" =>
        LET r == loop[l].r
        IN  /\ \E j \in JobIds : /\ jobs[j].client = Wallet /\ jobs[j].specHash = r
                                  /\ jobs[j].state = "Completed"
            /\ isStaked(r) /\ stakes[r].scored
            /\ payments[r] >= 1
            /\ Cardinality(stranded(r)) + payments[r] - 1 <= faults

\* Every bond a receipt file names comes back, though a sweep may meet a window
\* it takes for over and give up there, or fail for other reasons.
ReceiptedBondsComeBack == \A r \in Specs : r \in receipts ~> stakes[r].closed
==============================================================================
