--------------------------- MODULE AgentSettlement ---------------------------
(***************************************************************************)
(* agent-settlement.mjs demo beside everybody else who uses the registry:  *)
(* for each job in turn the acceptance test is committed, the work is      *)
(* judged by it, the verdict is recorded, and an escrow is settled by what *)
(* the registry then reads.  The refusals it shows off and the counters it *)
(* prints are calls that change nothing.                                   *)
(***************************************************************************)
EXTENDS PredgeAgentValidator, RetriedCalls

CONSTANTS Publisher,   \* the wallet of the demo
          JobsPerRun   \* 2 in the code

AgentId == 1

ASSUME SettlementAssumption ==
    Publisher \in Accounts /\ AgentId \in Agents /\ JobsPerRun \in Nat \ {0}

VARIABLES run,      \* progress of each demo
          settled   \* what the escrows were told: [request, delivered, decision]

settleVars == <<validatorAllVars, callVars, run, settled>>

Decisions == {"release", "refund", "nothing"}

SettlementCalls ==
    [step : {"request"}, validator : Accounts, r : Requests]
    \cup [step : {"respond"}, r : Requests, score : {0, 100}, hash : Hashes]

RunStates ==
    [at : {"idle", "done", "dead"}]
    \cup [at : {"request"}, left : 1 .. JobsPerRun, validator : Accounts, r : Requests]
    \cup [at : {"respond"}, left : 1 .. JobsPerRun, validator : Accounts, r : Requests,
          delivered : BOOLEAN]

SettlementInit ==
    /\ ValidatorInit
    /\ CallInit
    /\ run = [c \in Clients |-> [at |-> "idle"]]
    /\ settled = {}

become(c, state) == run' = [run EXCEPT ![c] = state]

------------------------------------------------------------------------------
(* The calls. *)

accepts(call) ==
    IF call.step = "request"
    THEN call.validator = validator /\ ~isRequested(call.r)
    ELSE /\ Publisher = validator
         /\ isRequested(call.r) /\ ~isValidated(call.r)

registryCall(call) ==
    \/ call.step = "request" /\ validationRequest(call.validator, AgentId, call.r)
    \/ call.step = "respond" /\ validationResponse(Publisher, call.r, call.score, call.hash)

Send(c) ==
    /\ wire[c].at = "send"
    /\ LET ok == accepts(wire[c].call) IN send(c, ok) \/ loseAnswer(c, ok)
    /\ UNCHANGED <<validatorAllVars, run, settled>>

publisherOf(call) == Publisher

mine(i) ==
    /\ isNext(i, publisherOf)
    /\ \/ registryCall(mempool[i].call) /\ mined(i, [at |-> "ok", log |-> 0])
       \/ /\ ~accepts(mempool[i].call)
          /\ mined(i, [at |-> "thrown"])
          /\ UNCHANGED validatorVars
    /\ UNCHANGED <<now, run, settled>>

------------------------------------------------------------------------------
(* The demo. *)

\* The request hash is that of a test signed just now: nobody has used it.
requestValidation(c, left, v, r) ==
    /\ ~isRequested(r)
    /\ become(c, [at |-> "request", left |-> left, validator |-> v, r |-> r])
    /\ issue(c, [step |-> "request", validator |-> v, r |-> r])

\* The validator's address is read once, for all jobs.
startRun(c, r) ==
    /\ run[c].at = "idle"
    /\ requestValidation(c, JobsPerRun, validator, r)
    /\ UNCHANGED <<validatorAllVars, settled>>

\* The committed test is run on what the worker delivered, and the score says so.
respondValidation(c, delivered, hash) ==
    /\ run[c].at = "request" /\ wire[c].at = "ok"
    /\ become(c, [at |-> "respond", left |-> run[c].left, validator |-> run[c].validator,
                  r |-> run[c].r, delivered |-> delivered])
    /\ issue(c, [step |-> "respond", r |-> run[c].r,
                 score |-> IF delivered THEN 100 ELSE 0, hash |-> hash])
    /\ UNCHANGED <<validatorAllVars, settled>>

\* What an escrow does on a read.  A request with no response reads as score
\* zero too, and the sender's answer of validationResponse is all that tells.
decision(r) ==
    CASE getValidationStatus(r).response >= 100 -> "release"
      [] getValidationStatus(r).response = 0 -> "refund"
      [] OTHER -> "nothing"

\* The escrow is settled and the next job begins.
escrowSettle(c) ==
    /\ run[c].at = "respond" /\ wire[c].at = "ok"
    /\ settled' = settled \cup {[request |-> run[c].r, delivered |-> run[c].delivered,
                                 decision |-> decision(run[c].r)]}
    /\ \/ /\ run[c].left = 1
          /\ become(c, [at |-> "done"]) /\ hangUp(c)
       \/ /\ run[c].left > 1
          /\ \E r \in Requests :
                requestValidation(c, run[c].left - 1, run[c].validator, r)
    /\ UNCHANGED validatorAllVars

runDies(c) ==
    /\ run[c].at \in {"request", "respond"}
    /\ crash(c) \/ (wire[c].at = "thrown" /\ hangUp(c))
    /\ become(c, [at |-> "dead"])
    /\ UNCHANGED <<validatorAllVars, settled>>

------------------------------------------------------------------------------
\* Hashes of signed tests are drawn by their signers: nobody else sends them
\* before their signer does.
fresh(r) == ~isRequested(r) /\ \E c \in Clients : run[c].at = "request" /\ run[c].r = r

\* Other users of the registry, its owner and other holders of the validator's key.
OtherStep ==
    /\ ValidatorNext
    /\ \A r \in Requests : fresh(r) => ~isRequested(r)'
    /\ UNCHANGED <<callVars, run, settled>>

SettlementNext ==
    \/ \E c \in Clients :
          \/ \E r \in Requests : startRun(c, r)
          \/ \E delivered \in BOOLEAN, hash \in Hashes : respondValidation(c, delivered, hash)
          \/ escrowSettle(c) \/ runDies(c) \/ Send(c)
    \/ \E i \in DOMAIN mempool : mine(i)
    \/ OtherStep

SettlementSpec == SettlementInit /\ [][SettlementNext]_settleVars

------------------------------------------------------------------------------
SettlementTypeOK ==
    /\ wire \in [Clients -> WireStates(SettlementCalls, {0})]
    /\ mempool \in Seq(Accepted(SettlementCalls))
    /\ run \in [Clients -> RunStates]
    /\ settled \subseteq [request : Requests, delivered : BOOLEAN, decision : Decisions]

\* An escrow was released exactly for work that passed the committed test, and
\* the verdict it read is the registry's for as long as anybody looks, though a
\* request nobody has answered reads like a failure, calls are lost or sent
\* twice, other holders of the key answer requests and the key is rotated.
EscrowMatchesVerdict ==
    /\ SettlementTypeOK
    /\ \A s \in settled :
          /\ isValidated(s.request)
          /\ s.decision = IF s.delivered THEN "release" ELSE "refund"
          /\ s.decision = decision(s.request)
          /\ validation[s.request].requestedAt <= validation[s.request].respondedAt
==============================================================================
