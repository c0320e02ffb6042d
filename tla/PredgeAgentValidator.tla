------------------------ MODULE PredgeAgentValidator ------------------------
(***************************************************************************)
(* contracts/PredgeAgentValidator.sol: the registry of PredgeOracle once   *)
(* more, for the work of agents.  Anybody commits a request, naming the    *)
(* validator of the day; the validator of a later day answers it, once,    *)
(* with a score.  Request and response URIs and the tag are text.          *)
(***************************************************************************)
EXTENDS Naturals, FiniteSets, Functions

CONSTANTS Accounts,      \* addresses that can send transactions
          ZeroAddress,   \* address(0)
          Agents,        \* ERC-8004 agent ids
          Requests,      \* non-zero request hashes
          Hashes,        \* non-zero response hashes
          ZeroHash,      \* bytes32(0)
          MaxTime        \* bound on the clock

\* An agent id and a request hash are of 256 bits.
ASSUME ValidatorAssumption ==
    /\ ZeroAddress \notin Accounts
    /\ ZeroHash \notin Hashes \cup Requests
    /\ IsFiniteSet(Requests) /\ IsFiniteSet(Agents)
    /\ MaxTime \in Nat

VARIABLES now,             \* block.timestamp
          registryOwner,   \* owner
          validator,       \* the only address that answers
          validation,      \* _v
          requestCount, responseCount

validatorVars == <<registryOwner, validator, validation, requestCount, responseCount>>
validatorAllVars == <<now, validatorVars>>

Scores == {0, 50, 100, 101}   \* the three verdicts, and one out of range

Validations ==
    [validator : Accounts \cup {ZeroAddress}, agentId : Agents \cup {0},
     responseHash : Hashes \cup {ZeroHash}, requestedAt : Nat, respondedAt : Nat,
     response : 0..100, hasResponse : BOOLEAN]

\* An unwritten storage slot.
NoValidation ==
    [validator |-> ZeroAddress, agentId |-> 0, responseHash |-> ZeroHash,
     requestedAt |-> 0, respondedAt |-> 0, response |-> 0, hasResponse |-> FALSE]

------------------------------------------------------------------------------
(* The free views. *)

isRequested(r) == validation[r].requestedAt # 0
isValidated(r) == validation[r].hasResponse

\* The part of getValidationStatus a settlement reads.
getValidationStatus(r) ==
    [validator |-> validation[r].validator,
     agentId |-> validation[r].agentId,
     response |-> validation[r].response,
     responseHash |-> validation[r].responseHash,
     lastUpdate |-> IF validation[r].respondedAt # 0
                    THEN validation[r].respondedAt ELSE validation[r].requestedAt]

\* The count and the rounded average over a list without repetitions, of the
\* requests the loop takes in.
summaryOf(hits) ==
    LET sum == SumFunction([r \in hits |-> validation[r].response])
        n == Cardinality(hits)
    IN [count |-> n, average |-> IF n = 0 THEN 0 ELSE sum \div n]

\* A slip the properties below must notice: a zero is taken for "no answer".
getSummary_SkipsFailures(agentId, rs) ==
    summaryOf({r \in rs : validation[r].response # 0 /\ validation[r].agentId = agentId})

getSummary(agentId, rs) ==
    summaryOf({r \in rs : isValidated(r) /\ validation[r].agentId = agentId})

------------------------------------------------------------------------------
ValidatorInit ==
    /\ now = 1
    /\ registryOwner \in Accounts
    /\ validator \in Accounts
    /\ validation = [r \in Requests |-> NoValidation]
    /\ requestCount = 0
    /\ responseCount = 0

writeRequest(r, validatorAddress, agentId) ==
    /\ validation' = [validation EXCEPT ![r].validator = validatorAddress,
                                        ![r].agentId = agentId,
                                        ![r].requestedAt = now]
    /\ requestCount' = requestCount + 1
    /\ UNCHANGED <<registryOwner, validator, responseCount>>

writeResponse(r, response, responseHash) ==
    /\ validation' = [validation EXCEPT ![r].response = response,
                                        ![r].responseHash = responseHash,
                                        ![r].respondedAt = now,
                                        ![r].hasResponse = TRUE]
    /\ responseCount' = responseCount + 1
    /\ UNCHANGED <<registryOwner, validator, requestCount>>

\* Slips the properties below must notice; none is part of the specification.
\* Each stands before the operator it distorts.
validationRequest_Again(validatorAddress, agentId, r) ==
    /\ validatorAddress = validator
    /\ r # ZeroHash
    /\ writeRequest(r, validatorAddress, agentId)

\* Anyone may.
validationRequest(validatorAddress, agentId, r) ==
    /\ r # ZeroHash
    /\ validatorAddress = validator
    /\ ~isRequested(r)
    /\ writeRequest(r, validatorAddress, agentId)

validationResponse_Unrequested(sender, r, response, responseHash) ==
    /\ sender = validator /\ responseHash # ZeroHash /\ response <= 100
    /\ ~isValidated(r)
    /\ writeResponse(r, response, responseHash)

validationResponse(sender, r, response, responseHash) ==
    /\ sender = validator
    /\ response <= 100
    /\ responseHash # ZeroHash
    /\ isRequested(r)
    /\ ~isValidated(r)
    /\ writeResponse(r, response, responseHash)

setValidator(sender, newValidator) ==
    /\ sender = registryOwner
    /\ newValidator # ZeroAddress
    /\ validator' = newValidator
    /\ UNCHANGED <<registryOwner, validation, requestCount, responseCount>>

\* One transaction to the registry.
ValidatorStep ==
    \E sender \in Accounts :
        \/ \E v \in Accounts \cup {ZeroAddress}, a \in Agents \cup {0},
              r \in Requests \cup {ZeroHash} : validationRequest(v, a, r)
        \/ \E r \in Requests, s \in Scores, h \in Hashes \cup {ZeroHash} :
              validationResponse(sender, r, s, h)
        \/ \E v \in Accounts \cup {ZeroAddress} : setValidator(sender, v)

AdvanceTime == now < MaxTime /\ now' = now + 1

ValidatorNext ==
    \/ ValidatorStep /\ UNCHANGED now
    \/ AdvanceTime /\ UNCHANGED validatorVars

ValidatorSpec == ValidatorInit /\ [][ValidatorNext]_validatorAllVars

------------------------------------------------------------------------------
(* Properties. *)

ValidatorTypeOK ==
    /\ now \in Nat \ {0}
    /\ registryOwner \in Accounts
    /\ validator \in Accounts
    /\ validation \in [Requests -> Validations]
    /\ requestCount \in Nat
    /\ responseCount \in Nat

\* No verdict on work nobody committed to judge: a response rests on a request
\* that is not younger, with both written by now and the attestation's hash
\* beside it, and while none is given every field of it is empty.
ResponseRestsOnRequest ==
    \A r \in Requests :
        IF isValidated(r)
        THEN /\ isRequested(r) /\ validation[r].validator # ZeroAddress
             /\ validation[r].requestedAt <= validation[r].respondedAt
             /\ validation[r].respondedAt <= now
             /\ validation[r].responseHash # ZeroHash
        ELSE /\ validation[r].response = 0 /\ validation[r].respondedAt = 0
             /\ validation[r].responseHash = ZeroHash

\* The registry's storage is well formed and every verdict rests on a request.
ValidatorInv == ValidatorTypeOK /\ ResponseRestsOnRequest

\* The summaries of all agents account for every response ever recorded, a
\* failure with score zero included, and an average lies within its scores.
SummariesAddUp ==
    LET summary(a) == getSummary(a, Requests)
        scoresOf(a) == {validation[r].response :
                          r \in {q \in Requests : isValidated(q) /\ validation[q].agentId = a}}
    IN /\ responseCount = SumFunction([a \in Agents \cup {0} |-> summary(a).count])
       /\ \A a \in Agents \cup {0} : scoresOf(a) # {} =>
             /\ \E s \in scoresOf(a) : s <= summary(a).average
             /\ \E s \in scoresOf(a) : s >= summary(a).average
       /\ requestCount = Cardinality({r \in Requests : isRequested(r)})

\* A request keeps its agent, its validator and its time, and a verdict that was
\* read by a settlement is the verdict for good: nobody flips it after the money
\* moved, not even through a rotation of the key.
VerdictsArePermanent ==
    [][\A r \in Requests :
        /\ isRequested(r) =>
              /\ validation'[r].requestedAt = validation[r].requestedAt
              /\ validation'[r].agentId = validation[r].agentId
              /\ validation'[r].validator = validation[r].validator
        /\ isValidated(r) =>
              getValidationStatus(r)' = getValidationStatus(r)]_validatorAllVars

------------------------------------------------------------------------------
(* The registry as an implementation of the abstract one. *)

Registry == INSTANCE CommitBeforeOutcome WITH
    Keys <- Requests,
    Contents <- Accounts \X (Agents \cup {0}),
    Verdicts <- (0..100) \X Hashes,
    seals <- {[key |-> r,
               content |-> <<validation[r].validator, validation[r].agentId>>,
               at |-> validation[r].requestedAt] :
                  r \in {q \in Requests : isRequested(q)}},
    openings <- {[key |-> r,
                  verdict |-> <<validation[r].response, validation[r].responseHash>>,
                  at |-> validation[r].respondedAt] :
                  r \in {q \in Requests : isValidated(q)}},
    clock <- now

\* Every behaviour of the validator's registry is a behaviour of the abstract
\* one: the same primitive as the oracle's.
ImplementsRegistry == Registry!RegSpec
==============================================================================
