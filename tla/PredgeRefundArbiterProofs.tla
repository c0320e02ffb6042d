---------------------- MODULE PredgeRefundArbiterProofs ----------------------
(***************************************************************************)
(* PredgeRefundArbiter for every set of accounts, payments and hashes.     *)
(* That no ruling can be slashed is not inductive: it needs that a ruling  *)
(* cites a filing that is there, because a filing that is there can never  *)
(* be written again.  Citations says so.  That the bonds of the open       *)
(* rulings are held is inductive: a step moves one bond.                   *)
(***************************************************************************)
EXTENDS PredgeRefundArbiter, SumTheorems

Bytes32 == Hashes \cup {ZeroHash}

\* Every ruling cites, as it was filed, an evidence that somebody filed.
Citations ==
    \A p \in Payments : ruled(p) =>
        /\ rulings[p].evidenceHash # ZeroHash
        /\ rulings[p].evidenceFrom \in Accounts
        /\ filedEvidence[p][rulings[p].evidenceFrom] = rulings[p].evidenceHash

CitedInv == ArbiterTypeOK /\ Citations /\ slashCount = 0

------------------------------------------------------------------------------
(* What the actions do to rulings and filings. *)

\* rule writes one empty slot, with a citation, and files nothing.
LEMMA RuleEffect ==
    ASSUME ArbiterTypeOK, NEW sender \in Accounts, NEW v \in Amounts,
           NEW p \in Payments, NEW from \in Accounts \cup {ZeroAddress},
           NEW h \in Bytes32, NEW d \in Directions, rule(sender, v, p, from, h, d)
    PROVE  /\ ~ruled(p)
           /\ rulings' \in [Payments -> Rulings]
           /\ rulings'[p].evidenceHash = h /\ h # ZeroHash
           /\ rulings'[p].evidenceFrom = from /\ from \in Accounts
           /\ filedEvidence[p][from] = h
           /\ \A q \in Payments \ {p} : rulings'[q] = rulings[q]
           /\ bonds' \in Nat /\ rulingCount' \in Nat
           /\ UNCHANGED <<filedEvidence, slashCount, paramVars, roleVars>>
<1>1. v \in Nat /\ now \in Nat
    BY ArbiterAssumption DEF ArbiterTypeOK
<1> DEFINE r == [evidenceHash |-> h, bond |-> v, ruledAt |-> now,
                 decidedBy |-> sender, evidenceFrom |-> from, direction |-> d,
                 settled |-> FALSE]
<1>2. rulings' = [rulings EXCEPT ![p] = r]
    BY DEF rule, commit
<1>3. r \in Rulings
    BY <1>1 DEF Rulings, Bytes32
<1>4. rulings \in [Payments -> Rulings]
    BY DEF ArbiterTypeOK
<1>5. /\ rulings' \in [Payments -> Rulings]
      /\ rulings'[p] = r
      /\ \A q \in Payments \ {p} : rulings'[q] = rulings[q]
    BY <1>2, <1>3, <1>4
<1>6. /\ ~ruled(p) /\ h # ZeroHash /\ from \in Accounts /\ filedEvidence[p][from] = h
      /\ UNCHANGED <<filedEvidence, slashCount, paramVars, roleVars>>
    BY DEF rule, commit
<1>7. bonds' \in Nat /\ rulingCount' \in Nat
    BY <1>1 DEF rule, commit, ArbiterTypeOK
<1>8. rulings'[p].evidenceHash = h /\ rulings'[p].evidenceFrom = from
    BY <1>5
<1> QED BY <1>5, <1>6, <1>7, <1>8

\* A bond that is paid out closes its ruling and leaves the rest as it was.
LEMMA PayOutEffect ==
    ASSUME ArbiterTypeOK, NEW p \in Payments, payOut(p)
    PROVE  /\ rulings' \in [Payments -> Rulings]
           /\ bonds' \in Nat
           /\ rulings'[p].settled
           /\ \A q \in Payments :
                 /\ rulings'[q].evidenceHash = rulings[q].evidenceHash
                 /\ rulings'[q].evidenceFrom = rulings[q].evidenceFrom
                 /\ rulings'[q].ruledAt = rulings[q].ruledAt
                 /\ rulings'[q].decidedBy = rulings[q].decidedBy
                 /\ rulings'[q].direction = rulings[q].direction
                 /\ rulings[q].settled => rulings'[q].settled
<1>1. rulings \in [Payments -> Rulings] /\ bonds \in Nat
    BY DEF ArbiterTypeOK
<1>2. rulings[p] \in Rulings
    BY <1>1
<1> DEFINE r == [rulings[p] EXCEPT !.settled = TRUE, !.bond = 0]
<1>3. rulings' = [rulings EXCEPT ![p] = r]
    BY <1>1 DEF payOut
<1>4. /\ r \in Rulings
      /\ r.evidenceHash = rulings[p].evidenceHash
      /\ r.evidenceFrom = rulings[p].evidenceFrom
      /\ r.ruledAt = rulings[p].ruledAt
      /\ r.decidedBy = rulings[p].decidedBy
      /\ r.direction = rulings[p].direction
      /\ r.settled
    BY <1>2 DEF Rulings
<1> HIDE DEF r
<1>5. /\ rulings' \in [Payments -> Rulings]
      /\ rulings'[p] = r
      /\ \A q \in Payments \ {p} : rulings'[q] = rulings[q]
    BY <1>1, <1>3, <1>4
<1>6. bonds' \in Nat
  <2>1. rulings[p].bond \in Nat /\ bonds >= rulings[p].bond
      BY <1>2 DEF Rulings, payOut
  <2> QED BY <1>1, <2>1 DEF payOut
<1> QED BY <1>4, <1>5, <1>6

\* fileEvidence writes one empty slot of the sender.
LEMMA FileEffect ==
    ASSUME ArbiterTypeOK, NEW sender \in Accounts, NEW p \in Payments,
           NEW h \in Bytes32, fileEvidence(sender, p, h)
    PROVE  /\ filedEvidence' \in [Payments -> [Accounts \cup {ZeroAddress} -> Bytes32]]
           /\ filedEvidence[p][sender] = ZeroHash
           /\ \A q \in Payments, a \in Accounts :
                 filedEvidence[q][a] # ZeroHash => filedEvidence'[q][a] = filedEvidence[q][a]
           /\ UNCHANGED <<paramVars, roleVars, rulingVars, protocolVars>>
<1>1. filedEvidence \in [Payments -> [Accounts \cup {ZeroAddress} -> Bytes32]]
    BY DEF ArbiterTypeOK, Bytes32
<1>2. filedEvidence' = [filedEvidence EXCEPT ![p][sender] = h]
    BY DEF fileEvidence, file
<1>3. filedEvidence[p][sender] = ZeroHash
    BY DEF fileEvidence
<1>4. filedEvidence' \in [Payments -> [Accounts \cup {ZeroAddress} -> Bytes32]]
    BY <1>1, <1>2
<1>5. ASSUME NEW q \in Payments, NEW a \in Accounts, filedEvidence[q][a] # ZeroHash
      PROVE  filedEvidence'[q][a] = filedEvidence[q][a]
    BY <1>1, <1>2, <1>3, <1>5
<1>6. UNCHANGED <<paramVars, roleVars, rulingVars, protocolVars>>
    BY DEF fileEvidence, file
<1> QED BY <1>3, <1>4, <1>5, <1>6

\* Every other step leaves rulings and filings alone.
Bystander ==
    /\ UNCHANGED <<rulings, filedEvidence, slashCount, rulingCount, bonds>>
    /\ ArbiterTypeOK'

\* A step is one of the four that touch rulings or filings, or a bystander.
LEMMA StepCases ==
    ASSUME ArbiterTypeOK, [ArbiterNext]_arbiterVars
    PROVE  \/ \E s \in Accounts, p \in Payments, h \in Bytes32 :
                 fileEvidence(s, p, h) /\ UNCHANGED now
           \/ \E s \in Accounts, v \in Amounts, p \in Payments,
                 from \in Accounts \cup {ZeroAddress}, h \in Bytes32, d \in Directions :
                 rule(s, v, p, from, h, d) /\ UNCHANGED now
           \/ \E p \in Payments : challenge(p) /\ UNCHANGED now
           \/ \E s \in Accounts, p \in Payments : reclaim(s, p) /\ UNCHANGED now
           \/ Bystander
<1>1. CASE ProtocolStep /\ UNCHANGED now
  <2>1. UNCHANGED <<paramVars, roleVars, rulingVars, filedEvidence, now>>
      BY <1>1 DEF ProtocolStep
  <2>2. seat' \in Accounts \cup {This} /\ refundCount' \in Nat
      BY <1>1 DEF ProtocolStep, ArbiterTypeOK, setArbiter, refundByArbiter,
                  mockSetLockupSeconds
  <2>3. refunded' \in [Payments -> BOOLEAN]
      BY <1>1 DEF ProtocolStep, ArbiterTypeOK, setArbiter, refundByArbiter,
                  mockSetLockupSeconds
  <2>4. lockupSeconds' \in [Recipients -> Nat]
      BY <1>1, ArbiterAssumption
      DEF ProtocolStep, ArbiterTypeOK, setArbiter, refundByArbiter,
          mockSetLockupSeconds
  <2> QED BY <2>1, <2>2, <2>3, <2>4
          DEF Bystander, ArbiterTypeOK, paramVars, roleVars, rulingVars
<1>2. CASE ArbiterStep /\ UNCHANGED now
    BY <1>2 DEF ArbiterStep, Bytes32
<1>3. CASE OwnerStep /\ UNCHANGED now
  <2>1. PICK sender \in Accounts :
          \/ \E o \in Accounts \cup {ZeroAddress} : setOperator(sender, o)
          \/ \E w \in Windows, b \in Amounts : setParams(sender, w, b)
          \/ \E x \in Recipients, s \in Lockups : setLockupSeconds(sender, x, s)
      BY <1>3 DEF OwnerStep
  <2>2. CASE \E o \in Accounts \cup {ZeroAddress} : setOperator(sender, o)
      BY <1>3, <2>2
      DEF setOperator, Bystander, ArbiterTypeOK, paramVars, rulingVars, protocolVars
  <2>3. CASE \E w \in Windows, b \in Amounts : setParams(sender, w, b)
      BY <1>3, <2>3, ArbiterAssumption
      DEF setParams, Bystander, ArbiterTypeOK, roleVars, rulingVars, protocolVars
  <2>4. CASE \E x \in Recipients, s \in Lockups : setLockupSeconds(sender, x, s)
    <3>1. /\ UNCHANGED <<paramVars, roleVars, rulingVars, filedEvidence, now>>
          /\ UNCHANGED <<seat, refundCount, refunded>>
        BY <1>3, <2>4 DEF setLockupSeconds, mockSetLockupSeconds
    <3>2. lockupSeconds' \in [Recipients -> Nat]
        BY <2>4, ArbiterAssumption
        DEF setLockupSeconds, mockSetLockupSeconds, ArbiterTypeOK
    <3> QED BY <3>1, <3>2 DEF Bystander, ArbiterTypeOK, paramVars, roleVars, rulingVars
  <2> QED BY <2>1, <2>2, <2>3, <2>4
<1>4. CASE AdvanceTime
  <2>1. /\ now' \in Nat \ {0}
        /\ UNCHANGED <<paramVars, roleVars, rulingVars, filedEvidence, protocolVars>>
      BY <1>4 DEF AdvanceTime, ArbiterTypeOK
  <2>2. Bystander
      BY <2>1 DEF Bystander, ArbiterTypeOK, paramVars, roleVars, rulingVars,
                  protocolVars
  <2> QED BY <2>2
<1>5. CASE UNCHANGED arbiterVars
  <2>1. Bystander
      BY <1>5 DEF arbiterVars, Bystander, ArbiterTypeOK, paramVars, roleVars,
                  rulingVars, protocolVars
  <2> QED BY <2>1
<1> QED BY <1>1, <1>2, <1>3, <1>4, <1>5 DEF ArbiterNext

------------------------------------------------------------------------------
(* The invariant. *)

LEMMA CitedInit == ASSUME ArbiterInit PROVE CitedInv
<1>1. ArbiterTypeOK
    BY ArbiterAssumption
    DEF ArbiterInit, ArbiterTypeOK, NoRuling, Rulings, Directions
<1>2. Citations
    BY DEF ArbiterInit, Citations, ruled, NoRuling
<1> QED BY <1>1, <1>2 DEF CitedInv, ArbiterInit

\* The protocol's part of a ruling, whichever way it goes.
LEMMA RefundTyped ==
    ASSUME ArbiterTypeOK, NEW s, NEW v, NEW p \in Payments, NEW from, NEW h, NEW d,
           rule(s, v, p, from, h, d)
    PROVE  seat' = seat /\ refundCount' \in Nat
           /\ refunded' \in [Payments -> BOOLEAN] /\ lockupSeconds' = lockupSeconds
<1>1. refundByArbiter(This, p) \/ UNCHANGED protocolVars
    BY DEF rule, commit
<1>2. refundCount \in Nat /\ refunded \in [Payments -> BOOLEAN]
    BY DEF ArbiterTypeOK
<1>3. CASE refundByArbiter(This, p)
  <2>1. /\ refunded' = [refunded EXCEPT ![p] = TRUE] /\ refundCount' = refundCount + 1
        /\ seat' = seat /\ lockupSeconds' = lockupSeconds
      BY <1>3 DEF refundByArbiter
  <2>2. refunded' \in [Payments -> BOOLEAN]
      BY <1>2, <2>1
  <2>3. refundCount' \in Nat
      BY <1>2, <2>1
  <2> QED BY <2>1, <2>2, <2>3
<1>4. CASE UNCHANGED protocolVars
    BY <1>2, <1>4 DEF protocolVars
<1> QED BY <1>1, <1>3, <1>4

LEMMA CitedStep == ASSUME CitedInv, [ArbiterNext]_arbiterVars PROVE CitedInv'
<1> USE DEF CitedInv
<1>1. ASSUME NEW s \in Accounts, NEW p \in Payments, NEW h \in Bytes32,
             fileEvidence(s, p, h), UNCHANGED now
      PROVE  CitedInv'
  <2>1. ArbiterTypeOK'
      BY <1>1, FileEffect
      DEF ArbiterTypeOK, Bytes32, paramVars, roleVars, rulingVars, protocolVars
  <2>2. Citations'
      BY <1>1, FileEffect DEF Citations, ruled, rulingVars
  <2> QED BY <1>1, <2>1, <2>2, FileEffect DEF rulingVars
<1>2. ASSUME NEW s \in Accounts, NEW v \in Amounts, NEW p \in Payments,
             NEW from \in Accounts \cup {ZeroAddress}, NEW h \in Bytes32,
             NEW d \in Directions, rule(s, v, p, from, h, d), UNCHANGED now
      PROVE  CitedInv'
  <2>a. /\ rulings' \in [Payments -> Rulings]
        /\ bonds' \in Nat /\ rulingCount' \in Nat
        /\ UNCHANGED <<filedEvidence, slashCount, paramVars, roleVars>>
      BY <1>2, RuleEffect
  <2>b. /\ seat' = seat /\ refundCount' \in Nat
        /\ refunded' \in [Payments -> BOOLEAN] /\ lockupSeconds' = lockupSeconds
      BY <1>2, RefundTyped
  <2>1. ArbiterTypeOK'
      BY <1>2, <2>a, <2>b DEF ArbiterTypeOK, paramVars, roleVars
  <2>2. Citations'
      BY <1>2, RuleEffect DEF Citations, ruled
  <2> QED BY <1>2, <2>1, <2>2, RuleEffect
<1>3. ASSUME NEW p \in Payments, challenge(p) PROVE CitedInv'
    BY <1>3 DEF challenge, wouldSlash, open, misquoted, Citations
<1>4. ASSUME NEW s \in Accounts, NEW p \in Payments, reclaim(s, p), UNCHANGED now
      PROVE  CitedInv'
  <2>1. payOut(p) /\ UNCHANGED <<paramVars, roleVars, rulingCount, slashCount,
                                 filedEvidence, protocolVars>>
      BY <1>4 DEF reclaim
  <2>2. ArbiterTypeOK'
      BY <1>4, <2>1, PayOutEffect DEF ArbiterTypeOK, paramVars, roleVars, protocolVars
  <2>3. Citations'
      BY <2>1, PayOutEffect DEF Citations, ruled
  <2> QED BY <2>1, <2>2, <2>3
<1>5. CASE Bystander
    BY <1>5 DEF Bystander, Citations, ruled
<1> QED BY <1>1, <1>2, <1>3, <1>4, <1>5, StepCases

THEOREM ArbiterCites == ArbiterSpec => []CitedInv
<1>1. ArbiterInit => CitedInv
    BY CitedInit
<1>2. CitedInv /\ [ArbiterNext]_arbiterVars => CitedInv'
    BY CitedStep
<1> QED BY <1>1, <1>2, PTL DEF ArbiterSpec

\* No step changes a ruling's evidence, author, time or direction, reopens it, or
\* changes a filing.
THEOREM ArbiterNeverEdits == ArbiterSpec => RulingsAreFinal
<1> DEFINE Final ==
      \A p \in Payments :
        /\ ruled(p) =>
              /\ ruled(p)' /\ rulings'[p].ruledAt = rulings[p].ruledAt
              /\ rulings'[p].evidenceHash = rulings[p].evidenceHash
              /\ rulings'[p].evidenceFrom = rulings[p].evidenceFrom
              /\ rulings'[p].decidedBy = rulings[p].decidedBy
              /\ rulings'[p].direction = rulings[p].direction
              /\ rulings[p].settled => rulings'[p].settled
        /\ \A a \in Accounts : filedEvidence[p][a] # ZeroHash =>
              filedEvidence'[p][a] = filedEvidence[p][a]
<1>1. ASSUME CitedInv, [ArbiterNext]_arbiterVars PROVE Final
  <2> USE <1>1 DEF CitedInv
  <2>1. ASSUME NEW s \in Accounts, NEW p \in Payments, NEW h \in Bytes32,
               fileEvidence(s, p, h)
        PROVE  Final
      BY <2>1, FileEffect DEF ruled, rulingVars
  <2>2. ASSUME NEW s \in Accounts, NEW v \in Amounts, NEW p \in Payments,
               NEW from \in Accounts \cup {ZeroAddress}, NEW h \in Bytes32,
               NEW d \in Directions, rule(s, v, p, from, h, d)
        PROVE  Final
      BY <2>2, RuleEffect DEF ruled
  <2>3. ASSUME NEW p \in Payments, payOut(p), UNCHANGED filedEvidence PROVE Final
      BY <2>3, PayOutEffect DEF ruled
  <2>4. CASE Bystander
      BY <2>4 DEF Bystander, ruled
  <2> QED BY <2>1, <2>2, <2>3, <2>4, StepCases DEF challenge, reclaim
<1>2. CitedInv /\ [ArbiterNext]_arbiterVars => [Final]_arbiterVars
    BY <1>1
<1>3. ArbiterSpec => []CitedInv
    BY ArbiterCites
<1> QED BY <1>2, <1>3, PTL DEF ArbiterSpec, RulingsAreFinal

\* Once the contract has the seat, money and seat stand still except in a ruling: an
\* account that calls the protocol directly is refused.
LEMMA SeatedStep ==
    ASSUME ArbiterTypeOK, [ArbiterNext]_arbiterVars, seat = This
    PROVE  \/ UNCHANGED <<seat, refunded>>
           \/ \E s \in Accounts, v \in Amounts, p \in Payments,
                 from \in Accounts \cup {ZeroAddress}, h \in Bytes32, d \in Directions :
                 rule(s, v, p, from, h, d)
<1>1. ~ProtocolStep
    BY ArbiterAssumption DEF ProtocolStep, setArbiter, refundByArbiter, mockSetLockupSeconds
<1>2. CASE ArbiterStep
    BY <1>2 DEF ArbiterStep, Bytes32, challenge, fileEvidence, file, reclaim, protocolVars
<1>3. CASE OwnerStep
    BY <1>3 DEF OwnerStep, setOperator, setParams, setLockupSeconds, mockSetLockupSeconds,
                protocolVars
<1>4. CASE AdvanceTime
    BY <1>4 DEF AdvanceTime, protocolVars
<1>5. CASE UNCHANGED arbiterVars
    BY <1>5 DEF arbiterVars, protocolVars
<1> QED BY <1>1, <1>2, <1>3, <1>4, <1>5 DEF ArbiterNext

\* Under the contract's seat, a refund is a ruling to refund by the operator of the
\* day, and cites a filing that was there.
THEOREM ArbiterRefundsOnEvidence == ArbiterSpec => RefundsFollowEvidence
<1> DEFINE Supported(p) ==
      /\ ~ruled(p) /\ rulings'[p].direction = "Refund"
      /\ rulings'[p].decidedBy = operator
      /\ filedEvidence[p][rulings'[p].evidenceFrom] = rulings'[p].evidenceHash
      /\ rulings'[p].evidenceHash # ZeroHash
    Grounded ==
      seat = This =>
        /\ seat' = This
        /\ \A p \in Payments : refunded'[p] # refunded[p] => Supported(p)
<1>1. ASSUME CitedInv, [ArbiterNext]_arbiterVars PROVE Grounded
  <2> SUFFICES ASSUME seat = This
               PROVE  /\ seat' = This
                      /\ \A p \in Payments : refunded'[p] # refunded[p] => Supported(p)
      OBVIOUS
  <2>1. ArbiterTypeOK /\ refunded \in [Payments -> BOOLEAN]
        /\ rulings \in [Payments -> Rulings]
      BY <1>1 DEF CitedInv, ArbiterTypeOK
  <2>2. ASSUME NEW s \in Accounts, NEW v \in Amounts, NEW p \in Payments,
               NEW from \in Accounts \cup {ZeroAddress}, NEW h \in Bytes32,
               NEW d \in Directions, rule(s, v, p, from, h, d)
        PROVE  /\ seat' = This
               /\ \A q \in Payments : refunded'[q] # refunded[q] => Supported(q)
    <3>1. \/ d = "Refund" /\ refunded' = [refunded EXCEPT ![p] = TRUE] /\ seat' = seat
          \/ UNCHANGED <<seat, refunded>>
        BY <2>2 DEF rule, commit, refundByArbiter, protocolVars
    <3>2. /\ ~ruled(p) /\ s = operator /\ h # ZeroHash /\ filedEvidence[p][from] = h
          /\ rulings'[p] = [evidenceHash |-> h, bond |-> v, ruledAt |-> now,
                            decidedBy |-> s, evidenceFrom |-> from, direction |-> d,
                            settled |-> FALSE]
        BY <2>1, <2>2 DEF rule, commit
    <3>3. d = "Refund" => Supported(p)
        BY <3>2
    <3> QED BY <2>1, <3>1, <3>3
  <2> QED BY <1>1, <2>1, <2>2, SeatedStep
<1>2. CitedInv /\ [ArbiterNext]_arbiterVars => [Grounded]_arbiterVars
    BY <1>1
<1> QED BY <1>2, ArbiterCites, PTL DEF ArbiterSpec, RefundsFollowEvidence

------------------------------------------------------------------------------
(* The money. *)

\* A ruling stakes its bond on an empty slot and opens it.
LEMMA RuleStakes ==
    ASSUME ArbiterTypeOK, NEW sender \in Accounts, NEW v \in Amounts,
           NEW p \in Payments, NEW from \in Accounts \cup {ZeroAddress},
           NEW h \in Bytes32, NEW d \in Directions, rule(sender, v, p, from, h, d)
    PROVE  /\ rulings'[p].bond = v /\ v \in Nat /\ bonds' = bonds + v
           /\ ~ruled(p) /\ open(p)'
<1>1. rulings \in [Payments -> Rulings] /\ now # 0 /\ v \in Nat
    BY ArbiterAssumption DEF ArbiterTypeOK
<1>2. /\ rulings'[p] = [evidenceHash |-> h, bond |-> v, ruledAt |-> now,
                        decidedBy |-> sender, evidenceFrom |-> from,
                        direction |-> d, settled |-> FALSE]
      /\ ~ruled(p) /\ bonds' = bonds + v
    BY <1>1 DEF rule, commit
<1> QED BY <1>1, <1>2 DEF open, ruled

\* A bond is paid out whole, and no other moves.
LEMMA PayOutPays ==
    ASSUME ArbiterTypeOK, NEW p \in Payments, payOut(p)
    PROVE  /\ rulings'[p].bond = 0 /\ bonds' = bonds - rulings[p].bond
           /\ \A q \in Payments \ {p} : rulings'[q] = rulings[q]
<1>1. rulings \in [Payments -> Rulings] /\ rulings[p] \in Rulings
    BY DEF ArbiterTypeOK
<1> DEFINE r == [rulings[p] EXCEPT !.settled = TRUE, !.bond = 0]
<1>2. rulings' = [rulings EXCEPT ![p] = r] /\ bonds' = bonds - rulings[p].bond
    BY <1>1 DEF payOut
<1>3. r.bond = 0
    BY <1>1 DEF Rulings
<1> HIDE DEF r
<1> QED BY <1>1, <1>2, <1>3

\* The bond of one ruling moves, and the contract's balance with it.
LEMMA OneBondMoves ==
    ASSUME ArbiterTypeOK, rulings' \in [Payments -> Rulings], OpenBondsAreHeld,
           NEW p \in Payments, \A q \in Payments \ {p} : rulings'[q] = rulings[q],
           bonds' = bonds + rulings'[p].bond - rulings[p].bond,
           rulings'[p].bond > 0 => open(p)'
    PROVE  OpenBondsAreHeld'
<1> DEFINE f == [q \in Payments |-> rulings[q].bond]
           g == [q \in Payments |-> rulings'[q].bond]
<1>1. /\ \A q \in Payments : rulings[q] \in Rulings /\ rulings'[q] \in Rulings
      /\ IsFiniteSet(Payments)
    BY ArbiterAssumption DEF ArbiterTypeOK
<1>2. \A q \in Payments : f[q] \in Int /\ g[q] \in Int
    BY <1>1 DEF Rulings
<1>3. \A q \in Payments \ {p} : g[q] = f[q]
    OBVIOUS
<1>4. bonds = SumFunctionOnSet(f, Payments)
    BY DEF OpenBondsAreHeld, SumFunction
<1>5. bonds' = bonds + g[p] - f[p]
    OBVIOUS
<1>6. (SumFunction([q \in Payments |-> rulings[q].bond]))' = SumFunctionOnSet(g, Payments)
    BY DEF SumFunction
<1>7. \A q \in Payments : rulings'[q].bond > 0 => open(q)'
    BY DEF OpenBondsAreHeld, open, ruled
<1> HIDE DEF f, g
<1>8. SumFunctionOnSet(g, Payments) = SumFunctionOnSet(f, Payments) + g[p] - f[p]
    BY <1>1, <1>2, <1>3, SumUpdate
<1> QED BY <1>4, <1>5, <1>6, <1>7, <1>8 DEF OpenBondsAreHeld

LEMMA BondsInit == ASSUME ArbiterInit PROVE OpenBondsAreHeld
<1> DEFINE f == [p \in Payments |-> rulings[p].bond]
<1>1. \A p \in Payments : f[p] = 0
    BY DEF ArbiterInit, NoRuling
<1>2. IsFiniteSet(Payments)
    BY ArbiterAssumption
<1>3. SumFunction([p \in Payments |-> rulings[p].bond]) = SumFunctionOnSet(f, Payments)
    BY DEF SumFunction
<1>4. \A p \in Payments : ~(rulings[p].bond > 0)
    BY DEF ArbiterInit, NoRuling
<1> HIDE DEF f
<1>5. SumFunctionOnSet(f, Payments) = 0
    BY <1>1, <1>2, SumZero
<1> QED BY <1>3, <1>4, <1>5 DEF ArbiterInit, OpenBondsAreHeld

LEMMA BondsStep ==
    ASSUME CitedInv, OpenBondsAreHeld, [ArbiterNext]_arbiterVars
    PROVE  OpenBondsAreHeld'
<1>0. ArbiterTypeOK /\ bonds \in Nat /\ rulings \in [Payments -> Rulings]
    BY DEF CitedInv, ArbiterTypeOK
<1>1. CASE UNCHANGED <<rulings, bonds>>
    BY <1>1 DEF OpenBondsAreHeld, open, ruled
<1>2. ASSUME NEW s \in Accounts, NEW v \in Amounts, NEW p \in Payments,
             NEW from \in Accounts \cup {ZeroAddress}, NEW h \in Bytes32,
             NEW d \in Directions, rule(s, v, p, from, h, d)
      PROVE  OpenBondsAreHeld'
  <2>1. /\ rulings' \in [Payments -> Rulings]
        /\ \A q \in Payments \ {p} : rulings'[q] = rulings[q]
      BY <1>0, <1>2, RuleEffect
  <2>2. /\ rulings'[p].bond = v /\ v \in Nat /\ bonds' = bonds + v
        /\ ~ruled(p) /\ open(p)'
      BY <1>0, <1>2, RuleStakes
  <2>3. rulings[p].bond = 0
      BY <1>0, <2>2 DEF Rulings, OpenBondsAreHeld, open
  <2>4. bonds' = bonds + rulings'[p].bond - rulings[p].bond
      BY <1>0, <2>2, <2>3
  <2> QED BY <1>0, <2>1, <2>2, <2>4, OneBondMoves
<1>3. ASSUME NEW p \in Payments, payOut(p) PROVE OpenBondsAreHeld'
  <2>1. /\ rulings' \in [Payments -> Rulings]
        /\ rulings'[p].bond = 0 /\ bonds' = bonds - rulings[p].bond
        /\ \A q \in Payments \ {p} : rulings'[q] = rulings[q]
      BY <1>0, <1>3, PayOutEffect, PayOutPays
  <2>2. rulings[p].bond \in Nat
      BY <1>0 DEF Rulings
  <2>3. bonds' = bonds + rulings'[p].bond - rulings[p].bond
      BY <1>0, <2>1, <2>2
  <2> QED BY <1>0, <2>1, <2>3, OneBondMoves
<1> QED BY <1>0, <1>1, <1>2, <1>3, StepCases
        DEF challenge, reclaim, fileEvidence, file, rulingVars, Bystander

\* The contract holds exactly the bonds of the rulings still open, and a settled
\* ruling has none (PredgeRefundArbiter.sol, rule, challenge and reclaim).
THEOREM ArbiterHoldsBonds == ArbiterSpec => []OpenBondsAreHeld
<1>1. ArbiterInit => OpenBondsAreHeld
    BY BondsInit
<1>2. CitedInv /\ OpenBondsAreHeld /\ [ArbiterNext]_arbiterVars => OpenBondsAreHeld'
    BY BondsStep
<1> QED BY <1>1, <1>2, ArbiterCites, PTL DEF ArbiterSpec

\* No open ruling can be slashed and none ever was, whatever the parties file
\* (PredgeRefundArbiter.sol, rule and challenge); the storage is well formed and the
\* bonds are there.
THEOREM ArbiterHonest == ArbiterSpec => []ArbiterInv
<1>1. CitedInv /\ OpenBondsAreHeld => ArbiterInv
    BY DEF CitedInv, ArbiterInv, NoRulingIsSlashable, Citations, wouldSlash, open,
           misquoted
<1> QED BY <1>1, ArbiterCites, ArbiterHoldsBonds, PTL

------------------------------------------------------------------------------
(* The bonds are held in trust. *)

\* Only a ruling takes a bond and only its end pays one out, whoever calls.
LEMMA StepInTrust ==
    ASSUME ArbiterTypeOK, [ArbiterNext]_arbiterVars
    PROVE  [Backing!TrustNext]_(Backing!trustVars)
<1> DEFINE phase == [p \in Payments |-> RulingPhase(p)]
           backed == [p \in Payments |-> rulings[p].bond]
<1>1. rulings \in [Payments -> Rulings] /\ now # 0
    BY DEF ArbiterTypeOK
<1>2. ASSUME NEW p \in Payments, NEW r, rulings' = [rulings EXCEPT ![p] = r], r.ruledAt # 0
      PROVE  /\ phase' = [phase EXCEPT ![p] = IF r.settled THEN "paid" ELSE "held"]
             /\ backed' = [backed EXCEPT ![p] = r.bond]
  <2>1. rulings'[p] = r /\ \A q \in Payments \ {p} : rulings'[q] = rulings[q]
      BY <1>1, <1>2
  <2>2. /\ RulingPhase(p)' = IF r.settled THEN "paid" ELSE "held"
        /\ \A q \in Payments \ {p} : RulingPhase(q)' = RulingPhase(q)
      BY <1>2, <2>1 DEF RulingPhase, ruled
  <2> QED BY <2>1, <2>2
<1>3. ASSUME NEW s \in Accounts, NEW v \in Amounts, NEW p \in Payments,
             NEW from \in Accounts \cup {ZeroAddress}, NEW h \in Bytes32,
             NEW d \in Directions, rule(s, v, p, from, h, d)
      PROVE  Backing!TrustNext
  <2> DEFINE r == [evidenceHash |-> h, bond |-> v, ruledAt |-> now,
                   decidedBy |-> s, evidenceFrom |-> from, direction |-> d,
                   settled |-> FALSE]
  <2>1. ~ruled(p) /\ bonds' = bonds + v /\ rulings' = [rulings EXCEPT ![p] = r]
      BY <1>3 DEF rule, commit
  <2>2. r.ruledAt # 0 /\ ~r.settled /\ r.bond = v
      BY <1>1
  <2> HIDE DEF r
  <2>3. phase' = [phase EXCEPT ![p] = "held"] /\ backed' = [backed EXCEPT ![p] = v]
      BY <1>2, <2>1, <2>2
  <2>4. phase[p] = "none"
      BY <2>1 DEF RulingPhase
  <2> QED BY <2>1, <2>3, <2>4 DEF Backing!TrustNext, Backing!Take
<1>4. ASSUME NEW p \in Payments, open(p), payOut(p)
      PROVE  Backing!TrustNext
  <2> DEFINE r == [rulings[p] EXCEPT !.settled = TRUE, !.bond = 0]
  <2>1. rulings[p] \in Rulings
      BY <1>1
  <2>2. r.settled /\ r.bond = 0 /\ r.ruledAt # 0
      BY <1>4, <2>1 DEF Rulings, open, ruled
  <2>3. bonds' = bonds - rulings[p].bond /\ rulings' = [rulings EXCEPT ![p] = r]
      BY <1>1, <1>4 DEF payOut
  <2> HIDE DEF r
  <2>4. phase' = [phase EXCEPT ![p] = "paid"] /\ backed' = [backed EXCEPT ![p] = 0]
      BY <1>2, <2>2, <2>3
  <2>5. phase[p] = "held" /\ backed[p] = rulings[p].bond
      BY <1>4 DEF RulingPhase, open
  <2> QED BY <2>3, <2>4, <2>5 DEF Backing!TrustNext, Backing!PayOut
<1>5. ASSUME UNCHANGED <<rulings, bonds>> PROVE UNCHANGED Backing!trustVars
    BY <1>5 DEF Backing!trustVars, RulingPhase, ruled
<1>6. ASSUME NEW s \in Accounts, NEW p \in Payments, NEW h \in Bytes32, fileEvidence(s, p, h)
      PROVE  UNCHANGED Backing!trustVars
    BY <1>5, <1>6 DEF fileEvidence, file, rulingVars
<1> QED BY <1>3, <1>4, <1>5, <1>6, StepCases
        DEF Bystander, challenge, reclaim, wouldSlash

\* The bond behind every ruling is taken with the ruling, kept whole and paid out once,
\* whoever operates, challenges or owns the arbiter.
THEOREM ArbiterHoldsInTrust == ArbiterSpec => BondsInTrust
<1>1. ArbiterInit => Backing!TrustInit
    BY DEF ArbiterInit, NoRuling, RulingPhase, ruled, Backing!TrustInit
<1>2. CitedInv /\ [ArbiterNext]_arbiterVars => [Backing!TrustNext]_(Backing!trustVars)
    BY StepInTrust DEF CitedInv
<1> QED BY <1>1, <1>2, ArbiterCites, PTL DEF ArbiterSpec, BondsInTrust, Backing!TrustSpec
==============================================================================
