---------------------- MODULE PredgeAgentValidatorProofs ----------------------
(***************************************************************************)
(* PredgeAgentValidator for every set of accounts, agents, requests and    *)
(* hashes and every clock bound: a verdict rests on a request, is never    *)
(* rewritten although a failing score looks like an empty slot, the        *)
(* summaries of the agents account for every answer, and the registry is   *)
(* one of CommitBeforeOutcome.  Beside it the demo of AgentSettlement: it  *)
(* uses the registry as anybody may, and its escrows follow the verdicts.  *)
(***************************************************************************)
EXTENDS AgentSettlement, SumTheorems

Bytes32 == Hashes \cup {ZeroHash}

-------------------------------------------------------------------------------
(* What one transaction does to the records. *)

\* A request fills one empty slot, and no other.
LEMMA RequestEffect ==
    ASSUME ValidatorTypeOK, NEW v \in Accounts \cup {ZeroAddress},
           NEW a \in Agents \cup {0}, NEW r \in Requests \cup {ZeroHash},
           validationRequest(v, a, r)
    PROVE  /\ r \in Requests /\ ~isRequested(r)
           /\ v \in Accounts /\ v = validator
           /\ validation' \in [Requests -> Validations]
           /\ validation'[r] = [validation[r] EXCEPT !.validator = v, !.agentId = a,
                                                     !.requestedAt = now]
           /\ \A q \in Requests \ {r} : validation'[q] = validation[q]
           /\ UNCHANGED <<registryOwner, validator>>
           /\ requestCount' \in Nat /\ responseCount' \in Nat
<1>1. r \in Requests /\ v \in Accounts /\ v = validator /\ ~isRequested(r)
  BY DEF validationRequest, ValidatorTypeOK
<1>2. validation[r] \in Validations /\ now \in Nat
  BY <1>1 DEF ValidatorTypeOK
<1>3. validation' = [validation EXCEPT ![r] =
                       [validation[r] EXCEPT !.validator = v, !.agentId = a,
                                             !.requestedAt = now]]
  BY <1>1 DEF validationRequest, writeRequest, ValidatorTypeOK
<1>4. [validation[r] EXCEPT !.validator = v, !.agentId = a, !.requestedAt = now]
         \in Validations
  BY <1>1, <1>2 DEF Validations
<1> QED
  BY <1>1, <1>3, <1>4 DEF ValidatorTypeOK, validationRequest, writeRequest

\* A response completes one requested, unanswered slot, and no other.
LEMMA ResponseEffect ==
    ASSUME ValidatorTypeOK, NEW sender, NEW r \in Requests, NEW s \in Scores,
           NEW h \in Bytes32, validationResponse(sender, r, s, h)
    PROVE  /\ isRequested(r) /\ ~isValidated(r)
           /\ s \in 0 .. 100 /\ h \in Hashes
           /\ validation' \in [Requests -> Validations]
           /\ validation'[r].response = s /\ validation'[r].responseHash = h
           /\ validation'[r].respondedAt = now /\ validation'[r].hasResponse
           /\ validation'[r].validator = validation[r].validator
           /\ validation'[r].agentId = validation[r].agentId
           /\ validation'[r].requestedAt = validation[r].requestedAt
           /\ \A q \in Requests \ {r} : validation'[q] = validation[q]
           /\ UNCHANGED <<registryOwner, validator>>
           /\ requestCount' \in Nat /\ responseCount' \in Nat
<1>1. isRequested(r) /\ ~isValidated(r) /\ s \in 0 .. 100 /\ h \in Hashes
  BY DEF validationResponse, Scores, Bytes32
<1>2. validation[r] \in Validations /\ now \in Nat
  BY DEF ValidatorTypeOK
<1>3. validation' = [validation EXCEPT ![r] =
                       [validation[r] EXCEPT !.response = s, !.responseHash = h,
                                             !.respondedAt = now, !.hasResponse = TRUE]]
  BY DEF validationResponse, writeResponse, ValidatorTypeOK
<1>4. [validation[r] EXCEPT !.response = s, !.responseHash = h,
                            !.respondedAt = now, !.hasResponse = TRUE] \in Validations
  BY <1>1, <1>2 DEF Validations
<1>5. validation' \in [Requests -> Validations]
  BY <1>3, <1>4 DEF ValidatorTypeOK
<1>6. /\ validation'[r].response = s /\ validation'[r].responseHash = h
      /\ validation'[r].respondedAt = now /\ validation'[r].hasResponse
      /\ validation'[r].validator = validation[r].validator
      /\ validation'[r].agentId = validation[r].agentId
      /\ validation'[r].requestedAt = validation[r].requestedAt
  BY <1>2, <1>3 DEF ValidatorTypeOK, Validations
<1> QED
  BY <1>1, <1>3, <1>5, <1>6 DEF ValidatorTypeOK, validationResponse, writeResponse

\* A call to the registry, one case per function.
LEMMA ValidatorStepCases ==
    ASSUME ValidatorStep
    PROVE  \/ \E v \in Accounts \cup {ZeroAddress}, a \in Agents \cup {0},
                 r \in Requests \cup {ZeroHash} : validationRequest(v, a, r)
           \/ \E sender \in Accounts, r \in Requests, s \in Scores, h \in Bytes32 :
                 validationResponse(sender, r, s, h)
           \/ \E sender \in Accounts, v \in Accounts \cup {ZeroAddress} :
                 setValidator(sender, v)
BY DEF ValidatorStep, Bytes32

\* What ValidatorInv leaves out and an answer needs: a request names somebody, and
\* is not from the future.
RequestsAreSound ==
    \A r \in Requests : isRequested(r) =>
        validation[r].validator # ZeroAddress /\ validation[r].requestedAt <= now

RegistryInv == ValidatorInv /\ RequestsAreSound

\* The invariant asks the same of every record: what is asked of one.
soundRecord(v, t) ==
    /\ v.requestedAt # 0 => v.validator # ZeroAddress /\ v.requestedAt <= t
    /\ v.hasResponse => /\ v.requestedAt # 0 /\ v.requestedAt <= v.respondedAt
                        /\ v.respondedAt <= t /\ v.responseHash # ZeroHash
    /\ ~v.hasResponse => /\ v.response = 0 /\ v.respondedAt = 0
                         /\ v.responseHash = ZeroHash

\* RegistryInv, record by record.
LEMMA RegistryInvByRecord ==
    RegistryInv <=> ValidatorTypeOK /\ \A r \in Requests : soundRecord(validation[r], now)
BY DEF RegistryInv, ValidatorInv, ResponseRestsOnRequest, RequestsAreSound, soundRecord,
       isRequested, isValidated

\* The same in the next state.
LEMMA RegistryInvByRecordNext ==
    RegistryInv' <=> ValidatorTypeOK' /\ \A r \in Requests : soundRecord(validation'[r], now')
BY DEF RegistryInv, ValidatorInv, ResponseRestsOnRequest, RequestsAreSound, soundRecord,
       isRequested, isValidated

\* A rotation of the key, a later block and a stutter leave the records alone.
LEMMA BystanderKeepsInv ==
    ASSUME RegistryInv, UNCHANGED <<registryOwner, validation, requestCount, responseCount>>,
           validator' \in Accounts, now' \in Nat, now' >= now
    PROVE  RegistryInv'
<1>1. ValidatorTypeOK /\ \A r \in Requests : soundRecord(validation[r], now)
  BY RegistryInvByRecord
<1>2. ValidatorTypeOK'
  BY <1>1 DEF ValidatorTypeOK
<1>3. ASSUME NEW r \in Requests PROVE soundRecord(validation'[r], now')
  <2>1. soundRecord(validation[r], now) /\ validation[r] \in Validations /\ now \in Nat
    BY <1>1 DEF ValidatorTypeOK
  <2> QED
    BY <2>1 DEF soundRecord, Validations
<1> QED
  BY <1>2, <1>3, RegistryInvByRecordNext

-------------------------------------------------------------------------------
\* RegistryInv is inductive: one step per function.
LEMMA ValidatorStepInv == RegistryInv /\ [ValidatorNext]_validatorAllVars => RegistryInv'
<1> SUFFICES ASSUME RegistryInv, [ValidatorNext]_validatorAllVars PROVE RegistryInv'
  OBVIOUS
<1>t. ValidatorTypeOK /\ now \in Nat \ {0} /\ \A r \in Requests : soundRecord(validation[r], now)
  BY RegistryInvByRecord DEF ValidatorTypeOK
<1>v. \A r \in Requests : validation[r] \in Validations
  BY <1>t DEF ValidatorTypeOK
<1>1. CASE ValidatorStep /\ UNCHANGED now
  <2>1. ASSUME NEW v \in Accounts \cup {ZeroAddress}, NEW a \in Agents \cup {0},
               NEW r \in Requests \cup {ZeroHash}, validationRequest(v, a, r)
        PROVE  RegistryInv'
    <3>1. /\ r \in Requests /\ ~isRequested(r) /\ v \in Accounts
          /\ validation' \in [Requests -> Validations]
          /\ validation'[r] = [validation[r] EXCEPT !.validator = v, !.agentId = a,
                                                    !.requestedAt = now]
          /\ \A q \in Requests \ {r} : validation'[q] = validation[q]
          /\ UNCHANGED <<registryOwner, validator>>
          /\ requestCount' \in Nat /\ responseCount' \in Nat
      BY <1>t, <2>1, RequestEffect
    <3>2. ValidatorTypeOK'
      BY <1>1, <1>t, <3>1 DEF ValidatorTypeOK
    <3>3. soundRecord(validation[r], now) /\ validation[r].requestedAt = 0
          /\ validation[r] \in Validations
      BY <1>t, <1>v, <3>1 DEF isRequested
    <3>4. soundRecord(validation'[r], now)
      BY <1>t, <3>1, <3>3, ValidatorAssumption DEF soundRecord, Validations
    <3> QED
      BY <1>1, <1>t, <3>1, <3>2, <3>4, RegistryInvByRecordNext
  <2>2. ASSUME NEW sender \in Accounts, NEW r \in Requests, NEW s \in Scores,
               NEW h \in Bytes32, validationResponse(sender, r, s, h)
        PROVE  RegistryInv'
    <3>1. /\ isRequested(r) /\ ~isValidated(r)
          /\ h \in Hashes
          /\ validation' \in [Requests -> Validations]
          /\ validation'[r].response = s /\ validation'[r].responseHash = h
          /\ validation'[r].respondedAt = now /\ validation'[r].hasResponse
          /\ validation'[r].validator = validation[r].validator
          /\ validation'[r].agentId = validation[r].agentId
          /\ validation'[r].requestedAt = validation[r].requestedAt
          /\ \A q \in Requests \ {r} : validation'[q] = validation[q]
          /\ UNCHANGED <<registryOwner, validator>>
          /\ requestCount' \in Nat /\ responseCount' \in Nat
      BY <1>t, <2>2, ResponseEffect
    <3>2. ValidatorTypeOK'
      BY <1>1, <1>t, <3>1 DEF ValidatorTypeOK
    <3>3. soundRecord(validation[r], now) /\ validation[r].requestedAt # 0
          /\ validation[r] \in Validations
      BY <1>t, <1>v, <3>1 DEF isRequested
    <3>4. soundRecord(validation'[r], now)
      BY <1>t, <3>1, <3>3, ValidatorAssumption DEF soundRecord, Validations
    <3> QED
      BY <1>1, <1>t, <3>1, <3>2, <3>4, RegistryInvByRecordNext
  <2>3. ASSUME NEW sender \in Accounts, NEW v \in Accounts \cup {ZeroAddress},
               setValidator(sender, v)
        PROVE  RegistryInv'
    BY <1>1, <1>t, <2>3, BystanderKeepsInv DEF setValidator
  <2> QED
    BY <1>1, <2>1, <2>2, <2>3, ValidatorStepCases
<1>2. CASE AdvanceTime /\ UNCHANGED validatorVars
  BY <1>2, <1>t, BystanderKeepsInv DEF AdvanceTime, validatorVars, ValidatorTypeOK
<1>3. CASE UNCHANGED validatorAllVars
  BY <1>3, <1>t, BystanderKeepsInv DEF validatorAllVars, validatorVars, ValidatorTypeOK
<1> QED
  BY <1>1, <1>2, <1>3 DEF ValidatorNext

LEMMA ValidatorInitInv == ValidatorInit => RegistryInv
<1> SUFFICES ASSUME ValidatorInit PROVE RegistryInv
  OBVIOUS
<1>1. NoValidation \in Validations /\ soundRecord(NoValidation, now)
  BY DEF NoValidation, Validations, soundRecord
<1>2. ValidatorTypeOK
  BY <1>1 DEF ValidatorInit, ValidatorTypeOK
<1> QED
  BY <1>1, <1>2, RegistryInvByRecord DEF ValidatorInit

\* Every reachable state has it.
LEMMA RegistryInvHolds == ValidatorSpec => []RegistryInv
BY ValidatorInitInv, ValidatorStepInv, PTL DEF ValidatorSpec

-------------------------------------------------------------------------------
(* The theorems. *)

\* Whoever requests, answers and rotates the key, a verdict rests on a request that
\* is not younger, with the hash of its attestation, and an open request is empty.
THEOREM ValidatorHonest == ValidatorSpec => []ValidatorInv
BY RegistryInvHolds, PTL DEF RegistryInv

\* A verdict that a settlement read is the verdict for good, and a request keeps its
\* agent, its validator and its time.
THEOREM ValidatorNeverEdits == ValidatorSpec => VerdictsArePermanent
<1> DEFINE Kept == \A r \in Requests :
             /\ isRequested(r) =>
                   /\ validation'[r].requestedAt = validation[r].requestedAt
                   /\ validation'[r].agentId = validation[r].agentId
                   /\ validation'[r].validator = validation[r].validator
             /\ isValidated(r) => getValidationStatus(r)' = getValidationStatus(r)
<1>1. RegistryInv /\ [ValidatorNext]_validatorAllVars => [Kept]_validatorAllVars
  <2> SUFFICES ASSUME RegistryInv, ValidatorNext PROVE Kept
    OBVIOUS
  <2>t. ValidatorTypeOK /\ \A r \in Requests : soundRecord(validation[r], now)
    BY RegistryInvByRecord
  <2>s. ASSUME NEW r \in Requests,
               \A q \in Requests \ {r} : validation'[q] = validation[q],
               validation[r].hasResponse = FALSE,
               isRequested(r) => /\ validation'[r].requestedAt = validation[r].requestedAt
                                 /\ validation'[r].agentId = validation[r].agentId
                                 /\ validation'[r].validator = validation[r].validator
        PROVE  Kept
    BY <2>s DEF isValidated, getValidationStatus
  <2>1. ASSUME NEW v \in Accounts \cup {ZeroAddress}, NEW a \in Agents \cup {0},
               NEW r \in Requests \cup {ZeroHash}, validationRequest(v, a, r)
        PROVE  Kept
    <3>1. /\ r \in Requests /\ ~isRequested(r)
          /\ \A q \in Requests \ {r} : validation'[q] = validation[q]
      BY <2>t, <2>1, RequestEffect
    <3>2. validation[r].hasResponse = FALSE
      BY <2>t, <3>1 DEF soundRecord, isRequested, ValidatorTypeOK, Validations
    <3> QED
      BY <2>s, <3>1, <3>2
  <2>2. ASSUME NEW sender \in Accounts, NEW r \in Requests, NEW s \in Scores,
               NEW h \in Bytes32, validationResponse(sender, r, s, h)
        PROVE  Kept
    <3>1. /\ ~isValidated(r)
          /\ validation'[r].response = s /\ validation'[r].responseHash = h
          /\ validation'[r].respondedAt = now /\ validation'[r].hasResponse
          /\ validation'[r].validator = validation[r].validator
          /\ validation'[r].agentId = validation[r].agentId
          /\ validation'[r].requestedAt = validation[r].requestedAt
          /\ \A q \in Requests \ {r} : validation'[q] = validation[q]
      BY <2>t, <2>2, ResponseEffect
    <3>2. validation[r] \in Validations
      BY <2>t DEF ValidatorTypeOK
    <3>3. validation[r].hasResponse = FALSE
      BY <3>1, <3>2 DEF isValidated, Validations
    <3>4. /\ validation'[r].requestedAt = validation[r].requestedAt
          /\ validation'[r].agentId = validation[r].agentId
          /\ validation'[r].validator = validation[r].validator
      BY <3>1, <3>2 DEF Validations
    <3> QED
      BY <2>s, <3>1, <3>3, <3>4
  <2>3. ASSUME UNCHANGED validation PROVE Kept
    BY <2>3 DEF isValidated, getValidationStatus
  <2>4. CASE ValidatorStep
    BY <2>1, <2>2, <2>3, <2>4, ValidatorStepCases DEF setValidator
  <2>5. CASE UNCHANGED validatorVars
    BY <2>3, <2>5 DEF validatorVars
  <2> QED
    BY <2>4, <2>5 DEF ValidatorNext
<1> QED
  BY <1>1, RegistryInvHolds, PTL DEF ValidatorSpec, VerdictsArePermanent

-------------------------------------------------------------------------------
(* The summaries. *)

AgentIds == Agents \cup {0}
requested == {r \in Requests : isRequested(r)}
answered(a) == {r \in Requests : isValidated(r) /\ validation[r].agentId = a}

\* The counters count the requests, and the answers agent by agent.
CountersCount ==
    /\ requestCount = Cardinality(requested)
    /\ responseCount = SumFunction([a \in AgentIds |-> Cardinality(answered(a))])

LEMMA AnsweredIsFinite ==
    /\ IsFiniteSet(AgentIds) /\ IsFiniteSet(requested) /\ IsFiniteSet(requested')
    /\ \A a : /\ IsFiniteSet(answered(a)) /\ Cardinality(answered(a)) \in Nat
              /\ IsFiniteSet(answered(a)') /\ Cardinality(answered(a)') \in Nat
<1>1. IsFiniteSet(AgentIds)
  BY ValidatorAssumption, FS_AddElement DEF AgentIds
<1>2. IsFiniteSet(requested) /\ IsFiniteSet(requested')
  BY ValidatorAssumption, FS_Subset DEF requested
<1>3. ASSUME NEW a
      PROVE  IsFiniteSet(answered(a)) /\ IsFiniteSet(answered(a)')
  <2>1. answered(a) \subseteq Requests /\ answered(a)' \subseteq Requests
    BY DEF answered
  <2> QED
    BY <2>1, ValidatorAssumption, FS_Subset
<1> QED
  BY <1>1, <1>2, <1>3, FS_CardinalityType

\* The counters count right and no average leaves its scores: what a reader gets.
LEMMA CountersSuffice ==
    ASSUME ValidatorTypeOK, CountersCount
    PROVE  SummariesAddUp
<1>1. ASSUME NEW a
      PROVE  getSummary(a, Requests).count = Cardinality(answered(a))
  BY DEF getSummary, summaryOf, answered
<1>2. ASSUME NEW a, answered(a) # {}
      PROVE  LET scores == {validation[r].response : r \in answered(a)}
             IN  /\ \E s \in scores : s <= getSummary(a, Requests).average
                 /\ \E s \in scores : s >= getSummary(a, Requests).average
  <2> DEFINE f == [r \in answered(a) |-> validation[r].response]
  <2>1. IsFiniteSet(answered(a)) /\ Cardinality(answered(a)) # 0
    BY <1>2, AnsweredIsFinite, FS_EmptySet
  <2>2. getSummary(a, Requests).average
          = SumFunctionOnSet(f, answered(a)) \div Cardinality(answered(a))
    BY <2>1 DEF getSummary, summaryOf, answered, SumFunction
  <2>3. ASSUME NEW r \in answered(a)
        PROVE  f[r] = validation[r].response /\ f[r] \in Nat
    <3>1. validation[r] \in Validations
      BY DEF answered, ValidatorTypeOK
    <3> QED
      BY <3>1 DEF Validations
  <2> HIDE DEF f
  <2>4. /\ \E r \in answered(a) : f[r] <= getSummary(a, Requests).average
        /\ \E r \in answered(a) : f[r] >= getSummary(a, Requests).average
    BY <1>2, <2>1, <2>2, <2>3, AverageBetween
  <2> QED
    BY <2>3, <2>4
<1>3. [a \in AgentIds |-> getSummary(a, Requests).count]
        = [a \in AgentIds |-> Cardinality(answered(a))]
  BY <1>1
<1>4. responseCount = SumFunction([a \in AgentIds |-> getSummary(a, Requests).count])
  BY <1>3 DEF CountersCount
<1>5. ASSUME NEW a, {validation[r].response : r \in answered(a)} # {}
      PROVE  answered(a) # {}
  BY <1>5
<1>6. requestCount = Cardinality({r \in Requests : isRequested(r)})
  BY DEF CountersCount, requested
<1> QED
  BY <1>2, <1>4, <1>5, <1>6 DEF SummariesAddUp, answered, AgentIds

\* Nobody's counts move.
LEMMA CountersStand ==
    ASSUME CountersCount, UNCHANGED <<validation, requestCount, responseCount>>
    PROVE  CountersCount'
<1>1. requested' = requested /\ \A a : answered(a)' = answered(a)
  BY DEF requested, answered, isRequested, isValidated
<1>2. (SumFunction([a \in AgentIds |-> Cardinality(answered(a))]))'
        = SumFunction([a \in AgentIds |-> Cardinality(answered(a)')])
  OBVIOUS
<1> QED
  BY <1>1, <1>2 DEF CountersCount

LEMMA RequestIsCounted ==
    ASSUME RegistryInv, CountersCount, NEW v \in Accounts \cup {ZeroAddress},
           NEW a \in AgentIds, NEW r \in Requests \cup {ZeroHash},
           validationRequest(v, a, r)
    PROVE  CountersCount'
<1>t. /\ ValidatorTypeOK /\ now # 0 /\ \A q \in Requests : soundRecord(validation[q], now)
  BY RegistryInvByRecord DEF ValidatorTypeOK
<1>1. /\ r \in Requests /\ ~isRequested(r)
      /\ validation'[r] = [validation[r] EXCEPT !.validator = v, !.agentId = a,
                                                !.requestedAt = now]
      /\ \A q \in Requests \ {r} : validation'[q] = validation[q]
  BY <1>t, RequestEffect DEF AgentIds
<1>2. validation[r] \in Validations /\ ~isValidated(r)
  BY <1>t, <1>1 DEF ValidatorTypeOK, soundRecord, isRequested, isValidated
<1>3. validation'[r].requestedAt = now /\ validation'[r].hasResponse = validation[r].hasResponse
  BY <1>1, <1>2 DEF Validations
<1>4. requested' = requested \cup {r} /\ r \notin requested
  BY <1>t, <1>1, <1>3 DEF requested, isRequested
<1>5. Cardinality(requested') = Cardinality(requested) + 1
  BY <1>4, AnsweredIsFinite, FS_AddElement
<1>6. \A b : answered(b)' = answered(b)
  BY <1>1, <1>2, <1>3 DEF answered, isValidated
<1>7. requestCount' = requestCount + 1 /\ responseCount' = responseCount
  BY DEF validationRequest, writeRequest
<1>8. (SumFunction([b \in AgentIds |-> Cardinality(answered(b))]))'
        = SumFunction([b \in AgentIds |-> Cardinality(answered(b)')])
  OBVIOUS
<1> QED
  BY <1>5, <1>6, <1>7, <1>8 DEF CountersCount

LEMMA ResponseIsCounted ==
    ASSUME RegistryInv, CountersCount, NEW sender \in Accounts, NEW r \in Requests,
           NEW s \in Scores, NEW h \in Bytes32, validationResponse(sender, r, s, h)
    PROVE  CountersCount'
<1>t. ValidatorTypeOK
  BY RegistryInvByRecord
<1> DEFINE f == [a \in AgentIds |-> Cardinality(answered(a))]
           g == [a \in AgentIds |-> Cardinality(answered(a)')]
<1>1. /\ isRequested(r) /\ ~isValidated(r)
      /\ validation'[r].hasResponse
      /\ validation'[r].agentId = validation[r].agentId
      /\ validation'[r].requestedAt = validation[r].requestedAt
      /\ \A q \in Requests \ {r} : validation'[q] = validation[q]
  BY <1>t, ResponseEffect
<1>2. PICK own \in AgentIds : own = validation[r].agentId
  <2>1. validation[r] \in Validations
    BY <1>t DEF ValidatorTypeOK
  <2> QED
    BY <2>1 DEF Validations, AgentIds
<1>3. requested' = requested
  BY <1>1 DEF requested, isRequested
<1>4. answered(own)' = answered(own) \cup {r} /\ r \notin answered(own)
  BY <1>1, <1>2 DEF answered, isValidated
<1>5. ASSUME NEW a \in AgentIds \ {own} PROVE answered(a)' = answered(a)
  BY <1>1, <1>2 DEF answered, isValidated
<1>6. Cardinality(answered(own)') = Cardinality(answered(own)) + 1
  BY <1>4, AnsweredIsFinite, FS_AddElement
<1>7. \A a \in AgentIds : f[a] \in Int /\ g[a] \in Int
  BY AnsweredIsFinite
<1>8. \A a \in AgentIds \ {own} : g[a] = f[a]
  BY <1>5
<1>9. g[own] = f[own] + 1
  BY <1>2, <1>6
<1>10. responseCount = SumFunctionOnSet(f, AgentIds)
  BY DEF CountersCount, SumFunction
<1>11. (SumFunction([a \in AgentIds |-> Cardinality(answered(a))]))'
         = SumFunctionOnSet(g, AgentIds)
  BY DEF SumFunction
<1>12. requestCount' = requestCount /\ responseCount' = responseCount + 1
       /\ responseCount \in Nat
  BY <1>t DEF validationResponse, writeResponse, ValidatorTypeOK
<1> HIDE DEF f, g
<1>13. SumFunctionOnSet(g, AgentIds) = SumFunctionOnSet(f, AgentIds) + g[own] - f[own]
  BY <1>2, <1>7, <1>8, AnsweredIsFinite, SumUpdate
<1>14. SumFunctionOnSet(g, AgentIds) = responseCount + 1
  BY <1>2, <1>7, <1>9, <1>10, <1>12, <1>13
<1> QED
  BY <1>3, <1>11, <1>12, <1>14 DEF CountersCount

\* The summaries of all agents together account for every answer ever recorded, a
\* failure with score zero included, and an average lies within its scores.
THEOREM ValidatorSummariesAddUp == ValidatorSpec => []SummariesAddUp
<1>1. ValidatorInit => CountersCount
  <2> SUFFICES ASSUME ValidatorInit PROVE CountersCount
    OBVIOUS
  <2> DEFINE f == [a \in AgentIds |-> Cardinality(answered(a))]
  <2>1. requested = {} /\ \A a : answered(a) = {}
    BY DEF ValidatorInit, NoValidation, requested, answered, isRequested, isValidated
  <2>2. \A a \in AgentIds : f[a] = 0
    BY <2>1, FS_EmptySet
  <2>3. SumFunction([a \in AgentIds |-> Cardinality(answered(a))])
          = SumFunctionOnSet(f, AgentIds)
    BY DEF SumFunction
  <2> HIDE DEF f
  <2>4. SumFunctionOnSet(f, AgentIds) = 0
    BY <2>2, AnsweredIsFinite, SumZero
  <2> QED
    BY <2>1, <2>3, <2>4, FS_EmptySet DEF ValidatorInit, CountersCount
<1>2. RegistryInv /\ CountersCount /\ [ValidatorNext]_validatorAllVars => CountersCount'
  <2> SUFFICES ASSUME RegistryInv, CountersCount, [ValidatorNext]_validatorAllVars
               PROVE  CountersCount'
    OBVIOUS
  <2>1. ASSUME NEW sender \in Accounts, NEW v \in Accounts \cup {ZeroAddress},
               setValidator(sender, v)
        PROVE  CountersCount'
    BY <2>1, CountersStand DEF setValidator
  <2>2. CASE ValidatorStep
    BY <2>1, <2>2, ValidatorStepCases, RequestIsCounted, ResponseIsCounted DEF AgentIds
  <2>3. CASE UNCHANGED validatorVars
    BY <2>3, CountersStand DEF validatorVars
  <2> QED
    BY <2>2, <2>3 DEF ValidatorNext, validatorAllVars
<1>3. RegistryInv /\ CountersCount => SummariesAddUp
  BY RegistryInvByRecord, CountersSuffice
<1> QED
  BY <1>1, <1>2, <1>3, RegistryInvHolds, PTL DEF ValidatorSpec

-------------------------------------------------------------------------------
(* The registry implements the abstract one. *)

SealOf(r) == [key |-> r, content |-> <<validation[r].validator, validation[r].agentId>>,
              at |-> validation[r].requestedAt]
OpeningOf(r) == [key |-> r,
                 verdict |-> <<validation[r].response, validation[r].responseHash>>,
                 at |-> validation[r].respondedAt]
Seals == {SealOf(r) : r \in {q \in Requests : isRequested(q)}}
Openings == {OpeningOf(r) : r \in {q \in Requests : isValidated(q)}}

\* Requesting a validation seals who judges what.
LEMMA RequestSeals ==
    ASSUME RegistryInv, NEW v \in Accounts \cup {ZeroAddress}, NEW a \in Agents \cup {0},
           NEW r \in Requests \cup {ZeroHash}, validationRequest(v, a, r), now' = now
    PROVE  Registry!RegNext
<1>t. ValidatorTypeOK /\ now # 0 /\ \A q \in Requests : soundRecord(validation[q], now)
  BY RegistryInvByRecord DEF ValidatorTypeOK
<1>1. /\ r \in Requests /\ ~isRequested(r) /\ v \in Accounts
      /\ validation'[r] = [validation[r] EXCEPT !.validator = v, !.agentId = a,
                                                !.requestedAt = now]
      /\ \A q \in Requests \ {r} : validation'[q] = validation[q]
  BY <1>t, RequestEffect
<1>2. validation[r] \in Validations /\ ~isValidated(r)
  BY <1>t, <1>1 DEF ValidatorTypeOK, soundRecord, isRequested, isValidated
<1>3. /\ validation'[r].validator = v /\ validation'[r].agentId = a
      /\ validation'[r].requestedAt = now
      /\ validation'[r].hasResponse = validation[r].hasResponse
  BY <1>1, <1>2 DEF Validations
<1>4. \A q \in Requests : /\ isRequested(q)' <=> isRequested(q) \/ q = r
                          /\ isValidated(q)' <=> isValidated(q)
  BY <1>t, <1>1, <1>2, <1>3 DEF isRequested, isValidated
<1>5. \A q \in Requests : /\ q # r => SealOf(q)' = SealOf(q)
                          /\ isValidated(q) => OpeningOf(q)' = OpeningOf(q)
  BY <1>1, <1>2 DEF SealOf, OpeningOf
<1>6. SealOf(r)' = [key |-> r, content |-> <<v, a>>, at |-> now]
  BY <1>3 DEF SealOf
<1>7. Seals' = Seals \cup {[key |-> r, content |-> <<v, a>>, at |-> now]}
  BY <1>1, <1>4, <1>5, <1>6 DEF Seals
<1>8. Openings' = Openings
  BY <1>4, <1>5 DEF Openings
<1>9. ~Registry!Sealed(r)
  BY <1>1 DEF Registry!Sealed
<1>10. Registry!Seal(r, <<v, a>>)
  BY <1>7, <1>8, <1>9 DEF Registry!Seal, Seals, Openings, SealOf, OpeningOf
<1> QED
  BY <1>1, <1>10 DEF Registry!RegNext

\* Answering opens it.
LEMMA ResponseOpens ==
    ASSUME RegistryInv, NEW sender \in Accounts, NEW r \in Requests, NEW s \in Scores,
           NEW h \in Bytes32, validationResponse(sender, r, s, h), now' = now
    PROVE  Registry!RegNext
<1>t. ValidatorTypeOK
  BY RegistryInvByRecord
<1>1. /\ isRequested(r) /\ ~isValidated(r)
      /\ s \in 0 .. 100 /\ h \in Hashes
      /\ validation'[r].response = s /\ validation'[r].responseHash = h
      /\ validation'[r].respondedAt = now /\ validation'[r].hasResponse
      /\ validation'[r].validator = validation[r].validator
      /\ validation'[r].agentId = validation[r].agentId
      /\ validation'[r].requestedAt = validation[r].requestedAt
      /\ \A q \in Requests \ {r} : validation'[q] = validation[q]
  BY <1>t, ResponseEffect
<1>4. \A q \in Requests : /\ isRequested(q)' <=> isRequested(q)
                          /\ isValidated(q)' <=> isValidated(q) \/ q = r
  BY <1>1 DEF isRequested, isValidated
<1>5. \A q \in Requests : /\ SealOf(q)' = SealOf(q)
                          /\ q # r => OpeningOf(q)' = OpeningOf(q)
  BY <1>1 DEF SealOf, OpeningOf
<1>6. OpeningOf(r)' = [key |-> r, verdict |-> <<s, h>>, at |-> now]
  BY <1>1 DEF OpeningOf
<1>7. Seals' = Seals
  BY <1>4, <1>5 DEF Seals
<1>8. Openings' = Openings \cup {[key |-> r, verdict |-> <<s, h>>, at |-> now]}
  <2> DEFINE decided == {q \in Requests : isValidated(q)}
  <2>1. decided' = decided \cup {r} /\ r \notin decided
    BY <1>1, <1>4
  <2>2. \A q \in decided : OpeningOf(q)' = OpeningOf(q)
    BY <1>5, <2>1
  <2> HIDE DEF decided
  <2>3. {OpeningOf(q) : q \in decided}'
          = {OpeningOf(q) : q \in decided} \cup {[key |-> r, verdict |-> <<s, h>>, at |-> now]}
    BY <1>6, <2>1, <2>2
  <2> QED
    BY <2>3 DEF Openings, decided
<1>9. Registry!Sealed(r) /\ ~Registry!Opened(r)
  <2>1. SealOf(r) \in Seals /\ SealOf(r).key = r
    BY <1>1 DEF Seals, SealOf
  <2>2. Registry!Sealed(r)
    BY <2>1 DEF Registry!Sealed, Seals, SealOf
  <2>3. ~Registry!Opened(r)
    BY <1>1 DEF Registry!Opened
  <2> QED
    BY <2>2, <2>3
<1>10. Registry!Open(r, <<s, h>>)
  BY <1>7, <1>8, <1>9 DEF Registry!Open, Seals, Openings, SealOf, OpeningOf
<1> QED
  BY <1>1, <1>10 DEF Registry!RegNext

\* "The same primitive as PredgeOracle": every behaviour of the registry is one of
\* the abstract registry, so what is proved of that one holds of this.
THEOREM ValidatorIsARegistry == ValidatorSpec => ImplementsRegistry
<1>1. ValidatorInit => Registry!RegInit
  <2> SUFFICES ASSUME ValidatorInit PROVE Registry!RegInit
    OBVIOUS
  <2>1. \A r \in Requests : ~isRequested(r) /\ ~isValidated(r)
    BY DEF ValidatorInit, NoValidation, isRequested, isValidated
  <2> QED
    BY <2>1 DEF ValidatorInit, Registry!RegInit
<1>2. RegistryInv /\ [ValidatorNext]_validatorAllVars => [Registry!RegNext]_(Registry!regVars)
  <2> SUFFICES ASSUME RegistryInv, ValidatorNext
               PROVE  Registry!RegNext \/ UNCHANGED Registry!regVars
    <3>1. UNCHANGED validatorAllVars => UNCHANGED Registry!regVars
      BY DEF validatorAllVars, validatorVars, Registry!regVars, isRequested, isValidated
    <3> QED
      BY <3>1
  <2>1. CASE ValidatorStep /\ UNCHANGED now
    <3>1. ASSUME NEW v \in Accounts \cup {ZeroAddress}, NEW a \in Agents \cup {0},
                 NEW r \in Requests \cup {ZeroHash}, validationRequest(v, a, r)
          PROVE  Registry!RegNext
      BY <2>1, <3>1, RequestSeals
    <3>2. ASSUME NEW sender \in Accounts, NEW r \in Requests, NEW s \in Scores,
                 NEW h \in Bytes32, validationResponse(sender, r, s, h)
          PROVE  Registry!RegNext
      BY <2>1, <3>2, ResponseOpens
    <3>3. ASSUME NEW sender \in Accounts, NEW v \in Accounts \cup {ZeroAddress},
                 setValidator(sender, v)
          PROVE  UNCHANGED Registry!regVars
      BY <2>1, <3>3 DEF setValidator, Registry!regVars, isRequested, isValidated
    <3> QED
      BY <2>1, <3>1, <3>2, <3>3, ValidatorStepCases
  <2>2. CASE AdvanceTime /\ UNCHANGED validatorVars
    <3>1. now' \in Nat /\ now' > now
      BY <2>2, RegistryInvByRecord DEF AdvanceTime, ValidatorTypeOK
    <3> QED
      BY <2>2, <3>1
         DEF validatorVars, Registry!RegNext, Registry!PassTime, isRequested, isValidated
  <2> QED
    BY <2>1, <2>2 DEF ValidatorNext
<1> QED
  BY <1>1, <1>2, RegistryInvHolds, PTL DEF ValidatorSpec, ImplementsRegistry, Registry!RegSpec

\* What the abstract registry promises, of the validator's: a verdict has a seal
\* under its request that is not younger, and no request carries two of either.
THEOREM ValidatorSealsFirst ==
    ValidatorSpec => [](Registry!SealPrecedesOpening /\ Registry!OneFactPerKey)
<1>1. ASSUME RegistryInv PROVE Registry!SealPrecedesOpening
  <2>1. ASSUME NEW r \in Requests, isValidated(r)
        PROVE  SealOf(r) \in Seals /\ SealOf(r).key = OpeningOf(r).key
               /\ SealOf(r).at <= OpeningOf(r).at
    BY <1>1, <2>1 DEF RegistryInv, ValidatorInv, ResponseRestsOnRequest, Seals, SealOf, OpeningOf
  <2>2. \A o \in Openings : \E s \in Seals : s.key = o.key /\ s.at <= o.at
    BY <2>1 DEF Openings
  <2> QED
    BY <2>2 DEF Registry!SealPrecedesOpening, Seals, Openings, SealOf, OpeningOf
<1>2. Registry!OneFactPerKey
  BY DEF Registry!OneFactPerKey
<1> QED
  BY <1>1, <1>2, RegistryInvHolds, PTL

-------------------------------------------------------------------------------
(* The demo that settles escrows by the registry. *)

scoreOf(delivered) == IF delivered THEN 100 ELSE 0
verdictIs(r, delivered) ==
    /\ r \in Requests
    /\ isValidated(r) /\ validation[r].response = scoreOf(delivered)

SettlementParts ==
    /\ wire \in [Clients -> WireStates(SettlementCalls, {0})]
    /\ mempool \in Seq(Accepted(SettlementCalls))
    /\ run \in [Clients -> RunStates]

\* A demo that responds sends its own verdict, and goes on only when that very answer
\* was taken; then the registry holds it.
RunFollows(c) ==
    run[c].at = "respond" =>
        /\ wire[c].at \in {"send", "wait"} =>
              /\ wire[c].call.step = "respond" /\ wire[c].call.r = run[c].r
              /\ wire[c].call.score = scoreOf(run[c].delivered)
        /\ wire[c].at = "ok" => verdictIs(run[c].r, run[c].delivered)

EscrowIsRight(s) ==
    /\ verdictIs(s.request, s.delivered)
    /\ s.delivered \in BOOLEAN
    /\ s = [request |-> s.request, delivered |-> s.delivered,
            decision |-> IF s.delivered THEN "release" ELSE "refund"]

SettlementIInv ==
    /\ RegistryInv
    /\ SettlementParts
    /\ \A c \in Clients : RunFollows(c)
    /\ \A s \in settled : EscrowIsRight(s)

\* A verdict that is recorded stays.
LEMMA VerdictStays ==
    ASSUME RegistryInv, [ValidatorNext]_validatorAllVars,
           NEW r, NEW delivered, verdictIs(r, delivered)
    PROVE  verdictIs(r, delivered)'
<1>t. ValidatorTypeOK /\ soundRecord(validation[r], now)
  BY RegistryInvByRecord DEF verdictIs
<1>1. isRequested(r) /\ isValidated(r) /\ r \in Requests
  BY <1>t DEF verdictIs, soundRecord, isRequested, isValidated
<1>2. validation'[r] = validation[r]
  <2>1. ASSUME NEW v \in Accounts \cup {ZeroAddress}, NEW a \in Agents \cup {0},
               NEW q \in Requests \cup {ZeroHash}, validationRequest(v, a, q)
        PROVE  validation'[r] = validation[r]
    BY <1>t, <1>1, <2>1, RequestEffect
  <2>2. ASSUME NEW sender \in Accounts, NEW q \in Requests, NEW s \in Scores,
               NEW h \in Bytes32, validationResponse(sender, q, s, h)
        PROVE  validation'[r] = validation[r]
    BY <1>t, <1>1, <2>2, ResponseEffect
  <2>3. CASE ValidatorStep
    BY <2>1, <2>2, <2>3, ValidatorStepCases DEF setValidator
  <2>4. CASE UNCHANGED validatorVars
    BY <2>4 DEF validatorVars
  <2> QED
    BY <2>3, <2>4 DEF ValidatorNext, validatorAllVars
<1> QED
  BY <1>1, <1>2 DEF verdictIs, isValidated

\* The demo's calls are calls anybody might make.
LEMMA RegistryCallIsStep ==
    ASSUME NEW call \in SettlementCalls, registryCall(call)
    PROVE  ValidatorStep
<1>1. Publisher \in Accounts /\ AgentId \in Agents
  BY SettlementAssumption
<1>2. CASE call.step = "request" /\ validationRequest(call.validator, AgentId, call.r)
  <2>1. call.validator \in Accounts /\ call.r \in Requests
    BY <1>2 DEF SettlementCalls
  <2> QED
    BY <1>1, <1>2, <2>1 DEF ValidatorStep
<1>3. CASE call.step = "respond"
           /\ validationResponse(Publisher, call.r, call.score, call.hash)
  <2>1. call.r \in Requests /\ call.score \in Scores /\ call.hash \in Hashes
    BY <1>3 DEF SettlementCalls, Scores
  <2> QED
    BY <1>1, <1>3, <2>1 DEF ValidatorStep
<1> QED
  BY <1>2, <1>3 DEF registryCall

LEMMA SettlementIsRegistryStep ==
    ASSUME SettlementParts, [SettlementNext]_settleVars
    PROVE  [ValidatorNext]_validatorAllVars
<1>1. ASSUME NEW i \in DOMAIN mempool, mine(i)
      PROVE  [ValidatorNext]_validatorAllVars
  <2>1. mempool[i] \in Accepted(SettlementCalls)
    BY DEF SettlementParts
  <2>2. mempool[i].call \in SettlementCalls
    BY <2>1 DEF Accepted
  <2> QED
    BY <1>1, <2>2, RegistryCallIsStep DEF mine, ValidatorNext, validatorAllVars
<1>2. CASE \E c \in Clients :
              \/ \E r \in Requests : startRun(c, r)
              \/ \E delivered \in BOOLEAN, hash \in Hashes :
                    respondValidation(c, delivered, hash)
              \/ escrowSettle(c) \/ runDies(c) \/ Send(c)
  BY <1>2 DEF startRun, respondValidation, escrowSettle, runDies, Send
<1>3. CASE OtherStep
  BY <1>3 DEF OtherStep
<1>4. CASE UNCHANGED settleVars
  BY <1>4 DEF settleVars
<1> QED
  BY <1>1, <1>2, <1>3, <1>4 DEF SettlementNext

\* One client's turn, which sends nothing into the mempool.
LEMMA TurnKeepsParts ==
    ASSUME SettlementParts, NEW c \in Clients, mempool' = mempool,
           NEW w \in WireStates(SettlementCalls, {0}), wire' = [wire EXCEPT ![c] = w],
           NEW state \in RunStates, run' = [run EXCEPT ![c] = state]
    PROVE  /\ SettlementParts'
           /\ wire'[c] = w /\ run'[c] = state
           /\ \A d \in Clients \ {c} : wire'[d] = wire[d] /\ run'[d] = run[d]
BY DEF SettlementParts

\* A client asks for the validation of a new request.
LEMMA RequestIsTyped ==
    ASSUME NEW left \in 1 .. JobsPerRun, NEW v \in Accounts, NEW r \in Requests
    PROVE  /\ [at |-> "request", left |-> left, validator |-> v, r |-> r] \in RunStates
           /\ [at |-> "send", call |-> [step |-> "request", validator |-> v, r |-> r],
               tries |-> 0] \in WireStates(SettlementCalls, {0})
<1>1. [step |-> "request", validator |-> v, r |-> r] \in SettlementCalls
  BY DEF SettlementCalls
<1> QED
  BY <1>1, RetryAssumption DEF RunStates, WireStates

LEMMA StartKeepsInv ==
    ASSUME SettlementIInv, NEW c \in Clients, NEW r \in Requests, startRun(c, r)
    PROVE  SettlementParts' /\ \A d \in Clients : RunFollows(d)'
<1> DEFINE state == [at |-> "request", left |-> JobsPerRun, validator |-> validator, r |-> r]
           w == [at |-> "send", tries |-> 0,
                 call |-> [step |-> "request", validator |-> validator, r |-> r]]
<1>1. /\ run' = [run EXCEPT ![c] = state] /\ wire' = [wire EXCEPT ![c] = w]
      /\ mempool' = mempool /\ validation' = validation
  BY DEF startRun, requestValidation, become, issue, hear, validatorAllVars, validatorVars
<1>2. validator \in Accounts /\ JobsPerRun \in 1 .. JobsPerRun
  BY SettlementAssumption DEF SettlementIInv, RegistryInv, ValidatorInv, ValidatorTypeOK
<1>3. state \in RunStates /\ w \in WireStates(SettlementCalls, {0})
  BY <1>2, RequestIsTyped
<1>4. state.at = "request"
  OBVIOUS
<1> HIDE DEF state, w
<1>5. /\ SettlementParts' /\ run'[c] = state
      /\ \A d \in Clients \ {c} : wire'[d] = wire[d] /\ run'[d] = run[d]
  BY <1>1, <1>3, TurnKeepsParts DEF SettlementIInv
<1>6. ASSUME NEW d \in Clients PROVE RunFollows(d)'
  BY <1>1, <1>4, <1>5 DEF SettlementIInv, RunFollows, verdictIs, isValidated
<1> QED
  BY <1>5, <1>6

LEMMA RespondKeepsInv ==
    ASSUME SettlementIInv, NEW c \in Clients, NEW delivered \in BOOLEAN,
           NEW hash \in Hashes, respondValidation(c, delivered, hash)
    PROVE  SettlementParts' /\ \A d \in Clients : RunFollows(d)'
<1> DEFINE state == [at |-> "respond", left |-> run[c].left, validator |-> run[c].validator,
                     r |-> run[c].r, delivered |-> delivered]
           call == [step |-> "respond", r |-> run[c].r, score |-> scoreOf(delivered),
                    hash |-> hash]
           w == [at |-> "send", tries |-> 0, call |-> call]
<1>1. /\ run' = [run EXCEPT ![c] = state] /\ wire' = [wire EXCEPT ![c] = w]
      /\ mempool' = mempool /\ validation' = validation /\ run[c].at = "request"
  BY DEF respondValidation, become, issue, hear, validatorAllVars, validatorVars, scoreOf
<1>2. run[c].left \in 1 .. JobsPerRun /\ run[c].validator \in Accounts /\ run[c].r \in Requests
  BY <1>1 DEF SettlementIInv, SettlementParts, RunStates
<1>3. state \in RunStates
  BY <1>2 DEF RunStates
<1>4. call \in SettlementCalls
  BY <1>2 DEF SettlementCalls, scoreOf
<1>5. w \in WireStates(SettlementCalls, {0})
  BY <1>4, RetryAssumption DEF WireStates
<1>6. /\ state.r = run[c].r /\ state.delivered = delivered
      /\ w.at = "send" /\ w.call.step = "respond" /\ w.call.r = run[c].r
      /\ w.call.score = scoreOf(delivered)
  OBVIOUS
<1> HIDE DEF state, w
<1>7. /\ SettlementParts' /\ run'[c] = state /\ wire'[c] = w
      /\ \A d \in Clients \ {c} : wire'[d] = wire[d] /\ run'[d] = run[d]
  BY <1>1, <1>3, <1>5, TurnKeepsParts DEF SettlementIInv
<1>8. ASSUME NEW d \in Clients PROVE RunFollows(d)'
  BY <1>1, <1>6, <1>7 DEF SettlementIInv, RunFollows, verdictIs, isValidated
<1> QED
  BY <1>7, <1>8

\* The escrow is told what the registry holds: the verdict of this demo.
LEMMA SettleKeepsInv ==
    ASSUME SettlementIInv, NEW c \in Clients, escrowSettle(c)
    PROVE  /\ SettlementParts' /\ \A d \in Clients : RunFollows(d)'
           /\ \A s \in settled' : EscrowIsRight(s)'
<1>0. /\ run[c].at = "respond" /\ wire[c].at = "ok" /\ UNCHANGED <<validation, mempool>>
      /\ run[c] \in RunStates /\ verdictIs(run[c].r, run[c].delivered)
  BY DEF escrowSettle, SettlementIInv, SettlementParts, RunFollows, validatorAllVars,
         validatorVars, hangUp, issue, requestValidation
<1>1. /\ run[c].left \in 1 .. JobsPerRun /\ run[c].validator \in Accounts
      /\ run[c].r \in Requests /\ run[c].delivered \in BOOLEAN
  BY <1>0 DEF RunStates
<1> DEFINE Turns(state, w) ==
      /\ run' = [run EXCEPT ![c] = state] /\ wire' = [wire EXCEPT ![c] = w]
      /\ state.at # "respond"
<1>2. \E state \in RunStates, w \in WireStates(SettlementCalls, {0}) : Turns(state, w)
  <2>1. CASE become(c, [at |-> "done"]) /\ hangUp(c)
    <3>1. [at |-> "done"] \in RunStates /\ Quiet \in WireStates(SettlementCalls, {0})
      BY DEF RunStates, WireStates
    <3> QED
      BY <2>1, <3>1 DEF become, hangUp, hear
  <2>2. ASSUME NEW r \in Requests, run[c].left > 1,
               requestValidation(c, run[c].left - 1, run[c].validator, r)
        PROVE  \E state \in RunStates, w \in WireStates(SettlementCalls, {0}) :
                  Turns(state, w)
    <3> DEFINE state == [at |-> "request", left |-> run[c].left - 1,
                         validator |-> run[c].validator, r |-> r]
               w == [at |-> "send", tries |-> 0,
                     call |-> [step |-> "request", validator |-> run[c].validator, r |-> r]]
    <3>1. run[c].left - 1 \in 1 .. JobsPerRun
      BY <1>1, <2>2, SettlementAssumption
    <3>2. state \in RunStates /\ w \in WireStates(SettlementCalls, {0})
      BY <1>1, <3>1, RequestIsTyped
    <3>3. run' = [run EXCEPT ![c] = state] /\ wire' = [wire EXCEPT ![c] = w]
      BY <2>2 DEF requestValidation, become, issue, hear
    <3>4. state.at # "respond"
      OBVIOUS
    <3> HIDE DEF state, w
    <3> QED
      BY <3>2, <3>3, <3>4
  <2>3. (become(c, [at |-> "done"]) /\ hangUp(c))
        \/ /\ run[c].left > 1
           /\ \E r \in Requests : requestValidation(c, run[c].left - 1, run[c].validator, r)
    BY DEF escrowSettle
  <2> HIDE DEF Turns
  <2> QED
    BY <2>1, <2>2, <2>3
<1>3. PICK state \in RunStates, w \in WireStates(SettlementCalls, {0}) : Turns(state, w)
  BY <1>2
<1>4. /\ SettlementParts' /\ run'[c] = state
      /\ \A d \in Clients \ {c} : wire'[d] = wire[d] /\ run'[d] = run[d]
  BY <1>0, <1>3, TurnKeepsParts DEF SettlementIInv
<1>5. ASSUME NEW d \in Clients PROVE RunFollows(d)'
  BY <1>0, <1>3, <1>4 DEF SettlementIInv, RunFollows, verdictIs, isValidated
<1>6. ASSUME NEW s \in settled' PROVE EscrowIsRight(s)'
  <2>1. \A q, d : verdictIs(q, d)' <=> verdictIs(q, d)
    BY <1>0 DEF verdictIs, isValidated
  <2>2. CASE s \in settled
    BY <2>1, <2>2 DEF SettlementIInv, EscrowIsRight
  <2>3. CASE s = [request |-> run[c].r, delivered |-> run[c].delivered,
                  decision |-> decision(run[c].r)]
    <3>1. decision(run[c].r) = IF run[c].delivered THEN "release" ELSE "refund"
      BY <1>0, <1>1 DEF decision, getValidationStatus, verdictIs, scoreOf
    <3> QED
      BY <1>0, <1>1, <2>1, <2>3, <3>1 DEF EscrowIsRight
  <2> QED
    BY <1>6, <2>2, <2>3 DEF escrowSettle
<1> QED
  BY <1>4, <1>5, <1>6

LEMMA DeathKeepsInv ==
    ASSUME SettlementIInv, NEW c \in Clients, runDies(c)
    PROVE  SettlementParts' /\ \A d \in Clients : RunFollows(d)'
<1> DEFINE state == [at |-> "dead"]
<1>1. /\ run' = [run EXCEPT ![c] = state] /\ wire' = [wire EXCEPT ![c] = Quiet]
      /\ mempool' = mempool /\ validation' = validation
  BY DEF runDies, become, crash, hangUp, hear, validatorAllVars, validatorVars
<1>2. state \in RunStates /\ Quiet \in WireStates(SettlementCalls, {0}) /\ state.at = "dead"
  BY DEF RunStates, WireStates
<1> HIDE DEF state
<1>3. /\ SettlementParts' /\ run'[c] = state
      /\ \A d \in Clients \ {c} : wire'[d] = wire[d] /\ run'[d] = run[d]
  BY <1>1, <1>2, TurnKeepsParts DEF SettlementIInv
<1>4. ASSUME NEW d \in Clients PROVE RunFollows(d)'
  BY <1>1, <1>2, <1>3 DEF SettlementIInv, RunFollows, verdictIs, isValidated
<1> QED
  BY <1>3, <1>4

\* A try leaves the call what it is, and confirms nothing.
LEMMA SendKeepsInv ==
    ASSUME SettlementIInv, NEW c \in Clients, Send(c)
    PROVE  SettlementParts' /\ \A d \in Clients : RunFollows(d)'
<1>0. /\ wire[c].at = "send" /\ run' = run /\ validation' = validation
      /\ wire \in [Clients -> WireStates(SettlementCalls, {0})]
      /\ MaxTries \in Nat \ {0} /\ mempool \in Seq(Accepted(SettlementCalls))
  BY RetryAssumption DEF Send, validatorAllVars, validatorVars, SettlementIInv, SettlementParts
<1>1. PICK call \in SettlementCalls, tries \in 0 .. MaxTries - 1 :
            wire[c] = [at |-> "send", call |-> call, tries |-> tries]
  BY <1>0 DEF WireStates, Quiet
<1>2. call = wire[c].call /\ tries = wire[c].tries
      /\ [wire[c] EXCEPT !.tries = @ + 1] = [at |-> "send", call |-> call, tries |-> tries + 1]
  BY <1>1
<1> DEFINE waits == [at |-> "wait", call |-> call]
           thrown == [at |-> "thrown"]
           again == [at |-> "send", call |-> call, tries |-> tries + 1]
<1>3. \/ wire' = [wire EXCEPT ![c] = waits]
      \/ wire' = [wire EXCEPT ![c] = thrown]
      \/ wire' = [wire EXCEPT ![c] = again] /\ tries + 1 < MaxTries
  BY <1>2 DEF Send, send, loseAnswer, hear
<1>4. /\ waits \in WireStates(SettlementCalls, {0}) /\ thrown \in WireStates(SettlementCalls, {0})
      /\ tries + 1 < MaxTries => again \in WireStates(SettlementCalls, {0})
  BY <1>0, <1>1 DEF WireStates
<1>5. /\ waits.at = "wait" /\ waits.call = call /\ thrown.at = "thrown"
      /\ again.at = "send" /\ again.call = call
  OBVIOUS
<1> HIDE DEF waits, thrown, again
<1>6. PICK w \in WireStates(SettlementCalls, {0}) :
           /\ wire' = [wire EXCEPT ![c] = w]
           /\ w.at \in {"send", "wait"} => w.call = call
           /\ w.at # "ok"
  BY <1>3, <1>4, <1>5
<1>7. mempool' \in Seq(Accepted(SettlementCalls))
  <2> DEFINE entry(heard) == [by |-> c, call |-> wire[c].call, answered |-> heard]
  <2>1. entry(TRUE) \in Accepted(SettlementCalls) /\ entry(FALSE) \in Accepted(SettlementCalls)
    BY <1>2 DEF Accepted
  <2>2. \/ mempool' = mempool
        \/ mempool' = Append(mempool, entry(TRUE))
        \/ mempool' = Append(mempool, entry(FALSE))
    BY DEF Send, send, loseAnswer, accept
  <2> HIDE DEF entry
  <2>3. mempool \in Seq(Accepted(SettlementCalls))
    BY <1>0
  <2>4. \A e \in Accepted(SettlementCalls) : Append(mempool, e) \in Seq(Accepted(SettlementCalls))
    BY <2>3
  <2> QED
    BY <2>1, <2>2, <2>3, <2>4
<1>8. SettlementParts'
  BY <1>0, <1>6, <1>7 DEF SettlementIInv, SettlementParts
<1>9. ASSUME NEW d \in Clients PROVE RunFollows(d)'
  <2>1. RunFollows(d) /\ wire[c].call = call /\ wire[c].at = "send"
    BY <1>0, <1>2 DEF SettlementIInv
  <2>2. CASE d = c
    <3>1. wire'[d] = w
      BY <1>0, <1>6, <2>2
    <3> QED
      BY <1>0, <1>6, <2>1, <2>2, <3>1 DEF RunFollows
  <2>3. CASE d # c
    <3>1. wire'[d] = wire[d]
      BY <1>0, <1>6, <2>3
    <3> QED
      BY <1>0, <2>1, <3>1 DEF RunFollows, verdictIs, isValidated
  <2> QED
    BY <2>2, <2>3
<1> QED
  BY <1>8, <1>9

\* A call is mined.  The demo that waits for its response hears of a success only when
\* the registry has written its verdict.
LEMMA MineKeepsInv ==
    ASSUME SettlementIInv, [ValidatorNext]_validatorAllVars,
           NEW i \in DOMAIN mempool, mine(i)
    PROVE  SettlementParts' /\ \A d \in Clients : RunFollows(d)'
<1>0. /\ mempool \in Seq(Accepted(SettlementCalls)) /\ mempool' = RemoveAt(mempool, i)
      /\ mempool[i] \in Accepted(SettlementCalls) /\ run' = run
      /\ wire \in [Clients -> WireStates(SettlementCalls, {0})]
      /\ ValidatorTypeOK /\ RegistryInv
  BY RegistryInvByRecord DEF SettlementIInv, SettlementParts, mine, mined
<1>1. PICK by \in Clients, call \in SettlementCalls :
            by = mempool[i].by /\ call = mempool[i].call
  BY <1>0 DEF Accepted
<1> DEFINE ok == [at |-> "ok", log |-> 0]
           thrown == [at |-> "thrown"]
<1>2. \/ wire' = wire
      \/ /\ wire[by] = [at |-> "wait", call |-> call]
         /\ \/ wire' = [wire EXCEPT ![by] = ok] /\ registryCall(call)
            \/ wire' = [wire EXCEPT ![by] = thrown]
  BY <1>1 DEF mine, mined, hear
<1>3. /\ ok \in WireStates(SettlementCalls, {0}) /\ thrown \in WireStates(SettlementCalls, {0})
      /\ ok.at = "ok" /\ thrown.at = "thrown"
  BY DEF WireStates
<1> HIDE DEF ok, thrown
<1>4. SettlementParts'
  <2>1. mempool' \in Seq(Accepted(SettlementCalls))
    BY <1>0, CutOut DEF RemoveAt, cutOut
  <2>2. wire' \in [Clients -> WireStates(SettlementCalls, {0})]
    BY <1>0, <1>2, <1>3
  <2> QED
    BY <1>0, <2>1, <2>2 DEF SettlementIInv, SettlementParts
<1>5. ASSUME NEW d \in Clients PROVE RunFollows(d)'
  <2>1. CASE wire'[d] = wire[d]
    BY <1>0, <2>1, VerdictStays DEF SettlementIInv, RunFollows
  <2>2. CASE wire'[d] = thrown
    BY <1>3, <2>2 DEF RunFollows
  <2>3. CASE /\ d = by /\ wire[by] = [at |-> "wait", call |-> call]
             /\ wire'[d] = ok /\ registryCall(call)
    <3>1. ASSUME run[d].at = "respond" PROVE verdictIs(run[d].r, run[d].delivered)'
      <4>1. wire[d].at = "wait" /\ wire[d].call = call
        BY <2>3
      <4>2. call.step = "respond" /\ call.r = run[d].r /\ call.score = scoreOf(run[d].delivered)
        BY <3>1, <4>1 DEF SettlementIInv, RunFollows
      <4>3. validationResponse(Publisher, call.r, call.score, call.hash)
        BY <2>3, <4>2 DEF registryCall
      <4>4. call.r \in Requests /\ call.score \in Scores /\ call.hash \in Bytes32
        BY <4>2 DEF SettlementCalls, Scores, Bytes32
      <4>5. validation'[call.r].response = call.score /\ validation'[call.r].hasResponse
        BY <1>0, <4>3, <4>4, ResponseEffect
      <4> QED
        BY <1>0, <4>2, <4>4, <4>5 DEF verdictIs, isValidated
    <3> QED
      BY <1>0, <1>3, <2>3, <3>1 DEF RunFollows
  <2>4. \/ wire'[d] = wire[d] \/ wire'[d] = thrown
        \/ /\ d = by /\ wire[by] = [at |-> "wait", call |-> call]
           /\ wire'[d] = ok /\ registryCall(call)
    BY <1>0, <1>2
  <2> QED
    BY <2>1, <2>2, <2>3, <2>4
<1> QED
  BY <1>4, <1>5

\* What any step does: the other demos' escrows stay right, for a verdict stays.
LEMMA SettlementKeepsInv ==
    ASSUME SettlementIInv, [SettlementNext]_settleVars
    PROVE  SettlementIInv'
<1>1. [ValidatorNext]_validatorAllVars
  BY SettlementIsRegistryStep DEF SettlementIInv
<1>2. RegistryInv'
  BY <1>1, ValidatorStepInv DEF SettlementIInv
<1>3. ASSUME settled' = settled PROVE \A s \in settled' : EscrowIsRight(s)'
  BY <1>1, <1>3, VerdictStays DEF SettlementIInv, EscrowIsRight
<1>4. ASSUME NEW c \in Clients, NEW r \in Requests, startRun(c, r) PROVE SettlementIInv'
  <2>1. settled' = settled
    BY <1>4 DEF startRun
  <2> QED
    BY <1>2, <1>3, <1>4, <2>1, StartKeepsInv DEF SettlementIInv
<1>5. ASSUME NEW c \in Clients, NEW delivered \in BOOLEAN, NEW hash \in Hashes,
             respondValidation(c, delivered, hash)
      PROVE  SettlementIInv'
  <2>1. settled' = settled
    BY <1>5 DEF respondValidation
  <2> QED
    BY <1>2, <1>3, <1>5, <2>1, RespondKeepsInv DEF SettlementIInv
<1>6. ASSUME NEW c \in Clients, escrowSettle(c) PROVE SettlementIInv'
  BY <1>2, <1>6, SettleKeepsInv DEF SettlementIInv
<1>7. ASSUME NEW c \in Clients, runDies(c) PROVE SettlementIInv'
  <2>1. settled' = settled
    BY <1>7 DEF runDies
  <2> QED
    BY <1>2, <1>3, <1>7, <2>1, DeathKeepsInv DEF SettlementIInv
<1>8. ASSUME NEW c \in Clients, Send(c) PROVE SettlementIInv'
  <2>1. settled' = settled
    BY <1>8 DEF Send
  <2> QED
    BY <1>2, <1>3, <1>8, <2>1, SendKeepsInv DEF SettlementIInv
<1>9. ASSUME NEW i \in DOMAIN mempool, mine(i) PROVE SettlementIInv'
  <2>1. settled' = settled
    BY <1>9 DEF mine
  <2> QED
    BY <1>1, <1>2, <1>3, <1>9, <2>1, MineKeepsInv DEF SettlementIInv
<1>10. ASSUME UNCHANGED <<callVars, run, settled>> PROVE SettlementIInv'
  <2>1. wire' = wire /\ mempool' = mempool /\ run' = run /\ settled' = settled
    BY <1>10 DEF callVars
  <2>2. SettlementParts'
    BY <2>1 DEF SettlementIInv, SettlementParts
  <2>3. ASSUME NEW d \in Clients PROVE RunFollows(d)'
    BY <1>1, <2>1, VerdictStays DEF SettlementIInv, RunFollows
  <2> QED
    BY <1>2, <1>3, <2>1, <2>2, <2>3 DEF SettlementIInv
<1> QED
  BY <1>4, <1>5, <1>6, <1>7, <1>8, <1>9, <1>10 DEF SettlementNext, OtherStep, settleVars

LEMMA SettlementIInvHolds == SettlementSpec => []SettlementIInv
<1>1. SettlementInit => SettlementIInv
  <2> SUFFICES ASSUME SettlementInit PROVE SettlementIInv
    OBVIOUS
  <2>1. RegistryInv
    BY ValidatorInitInv DEF SettlementInit
  <2>2. SettlementParts
    BY DEF SettlementInit, CallInit, SettlementParts, WireStates, RunStates
  <2>3. \A c \in Clients : RunFollows(c)
    BY DEF SettlementInit, RunFollows
  <2> QED
    BY <2>1, <2>2, <2>3 DEF SettlementInit, SettlementIInv
<1> QED
  BY <1>1, SettlementKeepsInv, PTL DEF SettlementSpec

\* Beside lost answers, repeated sends and deaths the demo and its neighbours use the
\* registry as anybody may: what is proved of the registry holds under them.
THEOREM SettlementUsesTheRegistry == SettlementSpec => ValidatorSpec
<1>1. SettlementInit => ValidatorInit
  BY DEF SettlementInit
<1>2. SettlementIInv /\ [SettlementNext]_settleVars => [ValidatorNext]_validatorAllVars
  BY SettlementIsRegistryStep DEF SettlementIInv
<1> QED
  BY <1>1, <1>2, SettlementIInvHolds, PTL DEF SettlementSpec, ValidatorSpec

\* "Escrow released exactly for work that passed the committed test": an escrow was
\* told the verdict of its own demo, and the registry says so for good.
THEOREM EscrowsFollowVerdicts == SettlementSpec => []EscrowMatchesVerdict
<1>1. ASSUME SettlementIInv PROVE EscrowMatchesVerdict
  <2>1. ASSUME NEW s \in settled
        PROVE  /\ s \in [request : Requests, delivered : BOOLEAN, decision : Decisions]
               /\ isValidated(s.request)
               /\ s.decision = IF s.delivered THEN "release" ELSE "refund"
               /\ s.decision = decision(s.request)
               /\ validation[s.request].requestedAt <= validation[s.request].respondedAt
    <3>1. EscrowIsRight(s) /\ verdictIs(s.request, s.delivered)
      BY <1>1 DEF SettlementIInv, EscrowIsRight
    <3>2. s.delivered \in BOOLEAN /\ s.request \in Requests
      BY <3>1 DEF EscrowIsRight, verdictIs
    <3>3. s = [request |-> s.request, delivered |-> s.delivered,
               decision |-> IF s.delivered THEN "release" ELSE "refund"]
      BY <3>1 DEF EscrowIsRight
    <3>4. s.decision = IF s.delivered THEN "release" ELSE "refund"
      BY <3>3
    <3>5. s \in [request : Requests, delivered : BOOLEAN, decision : Decisions]
      BY <3>2, <3>3 DEF Decisions
    <3>6. decision(s.request) = IF s.delivered THEN "release" ELSE "refund"
      BY <3>1, <3>2 DEF decision, getValidationStatus, verdictIs, scoreOf
    <3>7. isValidated(s.request)
      BY <3>1 DEF verdictIs
    <3>8. validation[s.request].requestedAt <= validation[s.request].respondedAt
      BY <1>1, <3>2, <3>7
         DEF SettlementIInv, RegistryInv, ValidatorInv, ResponseRestsOnRequest
    <3> QED
      BY <3>4, <3>5, <3>6, <3>7, <3>8
  <2>2. SettlementTypeOK
    BY <1>1, <2>1 DEF SettlementIInv, SettlementParts, SettlementTypeOK
  <2> QED
    BY <2>1, <2>2 DEF EscrowMatchesVerdict
<1> QED
  BY <1>1, SettlementIInvHolds, PTL
===============================================================================
