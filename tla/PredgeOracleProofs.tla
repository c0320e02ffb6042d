-------------------------- MODULE PredgeOracleProofs --------------------------
(***************************************************************************)
(* PredgeOracle and what lives beside it, for every set of accounts,       *)
(* market ids and hashes and every clock bound.                            *)
(*                                                                         *)
(* The oracle: OracleInv collects the state invariants.  Each is used by   *)
(* another (a resolution is no older than its commitment only because      *)
(* commitments are never stamped in the future; the counters count only    *)
(* because no slot is written twice).                                      *)
(*                                                                         *)
(* Its command line, for any number of overlapping runs, keys, tries and   *)
(* faults, is a user of the oracle like any other, so what holds of the    *)
(* oracle holds under it.  PublisherIInv says what a run may count on and  *)
(* that every resolution under a run's hash was signed by that run.        *)
(*                                                                         *)
(* The two contracts that read the oracle, for every set of stakes and     *)
(* deposits, add nothing to what it may do.  The market, with its mirror   *)
(* in JavaScript: MarketInv says that a rule once chosen is the oracle's,  *)
(* and that bets and rules exclude each other; Funded says where every     *)
(* unit staked is; SharesFit bounds what rounding leaves.  The second      *)
(* vault: it holds what it owes its depositors, the record of decisions is *)
(* one of forward calls, its scores never change once given and are those  *)
(* score.mjs reports, and it is still the first vault.                     *)
(***************************************************************************)
EXTENDS OraclePublisher, PayoutMirror, PredgeSignalVaultV2, SequenceTheorems, SumTheorems

Committed == {m \in Markets : isCommitted(m)}
Resolved == {m \in Markets : isResolved(m)}

-------------------------------------------------------------------------------
(* What one transaction does to the records. *)

\* commitMarket writes one empty slot, and no other.
LEMMA CommitEffect ==
    ASSUME OracleTypeOK, NEW sender, NEW m \in Markets, NEW h \in Bytes32,
           commitMarket(sender, m, h)
    PROVE  /\ ~isCommitted(m)
           /\ h \in Hashes
           /\ market' \in [Markets -> MarketRecords]
           /\ market'[m].preCommitHash = h /\ market'[m].committedAt = now
           /\ market'[m].outcome = market[m].outcome
           /\ \A n \in Markets \ {m} : market'[n] = market[n]
BY OracleAssumption
   DEF OracleTypeOK, commitMarket, writeCommitment, isCommitted, MarketRecords,
       Bytes32

\* postResolution completes one committed, unresolved slot, and no other.
LEMMA ResolveEffect ==
    ASSUME OracleTypeOK, NEW sender, NEW m \in Markets, NEW o \in Outcomes,
           NEW h \in Bytes32, postResolution(sender, m, o, h)
    PROVE  /\ isCommitted(m) /\ ~isResolved(m)
           /\ o # "Unresolved" /\ h \in Hashes
           /\ market' \in [Markets -> MarketRecords]
           /\ market'[m].outcome = o /\ market'[m].contentHash = h
           /\ market'[m].resolvedAt = now
           /\ market'[m].committedAt = market[m].committedAt
           /\ market'[m].preCommitHash = market[m].preCommitHash
           /\ \A n \in Markets \ {m} : market'[n] = market[n]
BY OracleAssumption
   DEF OracleTypeOK, postResolution, writeResolution, isCommitted, isResolved,
       MarketRecords, Bytes32

\* A call to the oracle, one case per function.
LEMMA OracleStepCases ==
    ASSUME OracleStep
    PROVE  \/ \E sender \in Accounts, m \in Markets, h \in Bytes32 :
                 commitMarket(sender, m, h)
           \/ \E sender \in Accounts, m \in Markets, o \in Outcomes, h \in Bytes32 :
                 postResolution(sender, m, o, h)
           \/ \E sender \in Accounts, p \in Accounts \cup {ZeroAddress} :
                 setPublisher(sender, p)
BY DEF OracleStep

-------------------------------------------------------------------------------
\* The initial state has no record, and zero counts.
LEMMA OracleInitInv == OracleInit => OracleInv
<1> SUFFICES ASSUME OracleInit PROVE OracleInv
  OBVIOUS
<1>1. OracleTypeOK
  BY OracleAssumption
     DEF OracleInit, OracleTypeOK, NoMarket, MarketRecords, Bytes32, Outcomes
<1>2. \A m \in Markets : ~isCommitted(m) /\ ~isResolved(m)
  BY DEF OracleInit, NoMarket, isCommitted, isResolved
<1>3. CommitPrecedesResolution
  BY <1>2 DEF CommitPrecedesResolution
<1>4. CountersMatchRecords
  <2>1. Committed = {} /\ Resolved = {}
    BY <1>2 DEF Committed, Resolved
  <2> QED
    BY <2>1, FS_EmptySet DEF OracleInit, CountersMatchRecords, Committed, Resolved
<1> QED
  BY <1>1, <1>3, <1>4 DEF OracleInv

\* commitMarket keeps the invariant: it adds exactly m to Committed.
LEMMA CommitKeepsInv ==
    ASSUME OracleInv, NEW sender \in Accounts, NEW m \in Markets, NEW h \in Bytes32,
           commitMarket(sender, m, h), now' = now
    PROVE  OracleInv'
<1> USE DEF OracleInv
<1>1. /\ ~isCommitted(m)
      /\ h \in Hashes
      /\ market' \in [Markets -> MarketRecords]
      /\ market'[m].preCommitHash = h /\ market'[m].committedAt = now
      /\ market'[m].outcome = market[m].outcome
      /\ \A n \in Markets \ {m} : market'[n] = market[n]
  BY CommitEffect
<1>2. market[m] \in MarketRecords /\ now \in Nat \ {0}
  BY DEF OracleTypeOK
<1>4. OracleTypeOK'
  BY <1>1 DEF OracleTypeOK, commitMarket, writeCommitment
<1>5. ~isResolved(m)
  BY <1>1 DEF CommitPrecedesResolution
<1>6. Committed' = Committed \cup {m} /\ Resolved' = Resolved
  <2>1. \A n \in Markets : isCommitted(n)' <=> isCommitted(n) \/ n = m
    BY <1>1, <1>2 DEF isCommitted
  <2>2. \A n \in Markets : isResolved(n)' <=> isResolved(n)
    BY <1>1 DEF isResolved
  <2> QED
    BY <2>1, <2>2 DEF Committed, Resolved
<1>7. CommitPrecedesResolution'
  <2> SUFFICES ASSUME NEW n \in Markets
               PROVE  /\ isResolved(n)' => /\ isCommitted(n)'
                                           /\ market'[n].committedAt <= market'[n].resolvedAt
                                           /\ market'[n].resolvedAt <= now'
                                           /\ market'[n].contentHash # ZeroHash
                      /\ isCommitted(n)' => /\ market'[n].preCommitHash # ZeroHash
                                            /\ market'[n].committedAt <= now'
    BY DEF CommitPrecedesResolution
  <2>1. CASE n = m
    <3>1. ~isResolved(n)'
      BY <1>1, <1>5, <2>1 DEF isResolved
    <3>2. h # ZeroHash /\ now <= now'
      BY <1>1, <1>2, OracleAssumption
    <3> QED
      BY <1>1, <2>1, <3>1, <3>2
  <2>2. CASE n # m
    BY <1>1, <2>2 DEF CommitPrecedesResolution, isCommitted, isResolved
  <2> QED
    BY <2>1, <2>2
<1>8. CountersMatchRecords'
  <2>1. IsFiniteSet(Committed) /\ m \notin Committed
    BY <1>1, OracleAssumption, FS_Subset DEF Committed
  <2>2. Cardinality(Committed') = Cardinality(Committed) + 1
    BY <1>6, <2>1, FS_AddElement
  <2> QED
    BY <1>6, <2>2
       DEF CountersMatchRecords, commitMarket, writeCommitment, Committed, Resolved
<1> QED
  BY <1>4, <1>7, <1>8

\* postResolution keeps the invariant: it adds exactly m to Resolved.
LEMMA ResolveKeepsInv ==
    ASSUME OracleInv, NEW sender \in Accounts, NEW m \in Markets, NEW o \in Outcomes,
           NEW h \in Bytes32, postResolution(sender, m, o, h), now' = now
    PROVE  OracleInv'
<1> USE DEF OracleInv
<1>1. /\ isCommitted(m) /\ ~isResolved(m)
      /\ o # "Unresolved" /\ h \in Hashes
      /\ market' \in [Markets -> MarketRecords]
      /\ market'[m].outcome = o /\ market'[m].contentHash = h
      /\ market'[m].resolvedAt = now
      /\ market'[m].committedAt = market[m].committedAt
      /\ market'[m].preCommitHash = market[m].preCommitHash
      /\ \A n \in Markets \ {m} : market'[n] = market[n]
  BY ResolveEffect
<1>2. market[m] \in MarketRecords /\ now \in Nat \ {0}
  BY DEF OracleTypeOK
<1>4. OracleTypeOK'
  BY <1>1 DEF OracleTypeOK, postResolution, writeResolution
<1>5. Committed' = Committed /\ Resolved' = Resolved \cup {m}
  <2>1. \A n \in Markets : isCommitted(n)' <=> isCommitted(n)
    BY <1>1 DEF isCommitted
  <2>2. \A n \in Markets : isResolved(n)' <=> isResolved(n) \/ n = m
    BY <1>1 DEF isResolved
  <2> QED
    BY <2>1, <2>2 DEF Committed, Resolved
<1>6. CommitPrecedesResolution'
  <2> SUFFICES ASSUME NEW n \in Markets
               PROVE  /\ isResolved(n)' => /\ isCommitted(n)'
                                           /\ market'[n].committedAt <= market'[n].resolvedAt
                                           /\ market'[n].resolvedAt <= now'
                                           /\ market'[n].contentHash # ZeroHash
                      /\ isCommitted(n)' => /\ market'[n].preCommitHash # ZeroHash
                                            /\ market'[n].committedAt <= now'
    BY DEF CommitPrecedesResolution
  <2>1. CASE n = m
    <3>1. /\ market[m].committedAt <= now
          /\ market[m].preCommitHash # ZeroHash
      BY <1>1 DEF CommitPrecedesResolution
    <3>2. isCommitted(n)'
      BY <1>1, <2>1 DEF isCommitted
    <3>3. h # ZeroHash /\ now <= now'
      BY <1>1, <1>2, OracleAssumption
    <3> QED
      BY <1>1, <2>1, <3>1, <3>2, <3>3
  <2>2. CASE n # m
    BY <1>1, <2>2 DEF CommitPrecedesResolution, isCommitted, isResolved
  <2> QED
    BY <2>1, <2>2
<1>7. CountersMatchRecords'
  <2>1. IsFiniteSet(Resolved) /\ m \notin Resolved
    BY <1>1, OracleAssumption, FS_Subset DEF Resolved
  <2>2. Cardinality(Resolved') = Cardinality(Resolved) + 1
    BY <1>5, <2>1, FS_AddElement
  <2> QED
    BY <1>5, <2>2
       DEF CountersMatchRecords, postResolution, writeResolution, Committed, Resolved
<1> QED
  BY <1>4, <1>6, <1>7

\* Rotating the publisher, a later block and a stutter leave the records alone.
LEMMA OtherStepsKeepInv ==
    ASSUME OracleInv, market' = market, commitCount' = commitCount,
           resolutionCount' = resolutionCount, oracleOwner' = oracleOwner,
           publisher' \in Accounts, now' \in Nat, now' >= now
    PROVE  OracleInv'
<1> USE DEF OracleInv
<1>1. OracleTypeOK'
  BY DEF OracleTypeOK
<1>2. \A m \in Markets : market[m] \in MarketRecords
  BY DEF OracleTypeOK
<1>3. CommitPrecedesResolution'
  BY <1>2 DEF CommitPrecedesResolution, OracleTypeOK, MarketRecords, isCommitted,
              isResolved
<1>4. CountersMatchRecords'
  BY DEF CountersMatchRecords, isCommitted, isResolved
<1> QED
  BY <1>1, <1>3, <1>4

\* OracleInv is inductive.
LEMMA OracleStepInv == OracleInv /\ [OracleNext]_oracleAllVars => OracleInv'
<1> SUFFICES ASSUME OracleInv, [OracleNext]_oracleAllVars PROVE OracleInv'
  OBVIOUS
<1>1. CASE OracleStep /\ UNCHANGED now
  <2>1. ASSUME NEW sender \in Accounts, NEW m \in Markets, NEW h \in Bytes32,
               commitMarket(sender, m, h)
        PROVE  OracleInv'
    BY <1>1, <2>1, CommitKeepsInv
  <2>2. ASSUME NEW sender \in Accounts, NEW m \in Markets, NEW o \in Outcomes,
               NEW h \in Bytes32, postResolution(sender, m, o, h)
        PROVE  OracleInv'
    BY <1>1, <2>2, ResolveKeepsInv
  <2>3. ASSUME NEW sender \in Accounts, NEW p \in Accounts \cup {ZeroAddress},
               setPublisher(sender, p)
        PROVE  OracleInv'
    BY <1>1, <2>3, OtherStepsKeepInv DEF setPublisher, OracleInv, OracleTypeOK
  <2> QED
    BY <1>1, <2>1, <2>2, <2>3, OracleStepCases
<1>2. CASE AdvanceTime /\ UNCHANGED oracleVars
  BY <1>2, OtherStepsKeepInv
     DEF AdvanceTime, oracleVars, OracleInv, OracleTypeOK
<1>3. CASE UNCHANGED oracleAllVars
  BY <1>3, OtherStepsKeepInv DEF oracleAllVars, oracleVars, OracleInv, OracleTypeOK
<1> QED
  BY <1>1, <1>2, <1>3 DEF OracleNext

\* Whatever is sent to the oracle, by whom and in which order, its records are well
\* formed, resolved only on an older commitment, and counted exactly.
THEOREM OracleInvHolds == OracleSpec => []OracleInv
BY OracleInitInv, OracleStepInv, PTL DEF OracleSpec

-------------------------------------------------------------------------------
(* The theorems. *)

\* The oracle's storage stays well formed; the publisher is never address(0).
THEOREM OracleTypeCorrect == OracleSpec => []OracleTypeOK
BY OracleInvHolds, PTL DEF OracleInv

\* THE GUARANTEE of PredgeOracle.sol: an outcome rests on an older commitment.
THEOREM OracleCommitsFirst == OracleSpec => []CommitPrecedesResolution
BY OracleInvHolds, PTL DEF OracleInv

\* commitCount and resolutionCount count the records, none twice.
THEOREM OracleCounts == OracleSpec => []CountersMatchRecords
BY OracleInvHolds, PTL DEF OracleInv

\* No record of before the step is edited by it.
RecordsKept ==
    \A m \in Markets :
        /\ isCommitted(m) =>
              /\ market'[m].preCommitHash = market[m].preCommitHash
              /\ market'[m].committedAt = market[m].committedAt
        /\ isResolved(m) => market'[m] = market[m]

LEMMA StepKeepsRecords ==
    ASSUME OracleInv, [OracleNext]_oracleAllVars
    PROVE  RecordsKept
<1> USE DEF OracleInv
<1>1. ASSUME NEW sender \in Accounts, NEW m \in Markets, NEW h \in Bytes32,
             commitMarket(sender, m, h)
      PROVE  RecordsKept
  <2>1. ~isCommitted(m) /\ (\A n \in Markets \ {m} : market'[n] = market[n])
    BY <1>1, CommitEffect
  <2>2. ~isResolved(m)
    BY <2>1 DEF CommitPrecedesResolution
  <2> QED
    BY <2>1, <2>2 DEF RecordsKept
<1>2. ASSUME NEW sender \in Accounts, NEW m \in Markets, NEW o \in Outcomes,
             NEW h \in Bytes32, postResolution(sender, m, o, h)
      PROVE  RecordsKept
  <2>1. /\ ~isResolved(m)
        /\ market'[m].committedAt = market[m].committedAt
        /\ market'[m].preCommitHash = market[m].preCommitHash
        /\ \A n \in Markets \ {m} : market'[n] = market[n]
    BY <1>2, ResolveEffect
  <2> QED
    BY <2>1 DEF RecordsKept
<1>3. CASE market' = market
  BY <1>3 DEF RecordsKept
<1> QED
  BY <1>1, <1>2, <1>3, OracleStepCases
     DEF OracleNext, setPublisher, oracleVars, oracleAllVars

\* No transaction of anybody edits a commitment or a resolution.
THEOREM OracleNeverEdits == OracleSpec => RecordsArePermanent
<1>1. OracleInv /\ [OracleNext]_oracleAllVars => [RecordsKept]_oracleAllVars
  BY StepKeepsRecords
<1> QED
  BY <1>1, OracleInvHolds, PTL DEF OracleSpec, RecordsArePermanent, RecordsKept

-------------------------------------------------------------------------------
(* The oracle implements the abstract registry. *)

SealOf(m) == [key |-> m, content |-> market[m].preCommitHash,
              at |-> market[m].committedAt]
OpeningOf(m) == [key |-> m,
                 verdict |-> <<market[m].outcome, market[m].contentHash>>,
                 at |-> market[m].resolvedAt]
Seals == {SealOf(m) : m \in {mm \in Markets : isCommitted(mm)}}
Openings == {OpeningOf(m) : m \in {mm \in Markets : isResolved(mm)}}

\* Committing m seals it in the registry.
LEMMA CommitSeals ==
    ASSUME OracleInv, NEW sender \in Accounts, NEW m \in Markets, NEW h \in Bytes32,
           commitMarket(sender, m, h), now' = now
    PROVE  Registry!RegNext
<1>1. /\ ~isCommitted(m)
      /\ h \in Hashes
      /\ market'[m].preCommitHash = h /\ market'[m].committedAt = now
      /\ market'[m].outcome = market[m].outcome
      /\ \A n \in Markets \ {m} : market'[n] = market[n]
  BY CommitEffect DEF OracleInv
<1>2. now # 0 /\ ~isResolved(m)
  BY <1>1 DEF OracleInv, OracleTypeOK, CommitPrecedesResolution
<1>3. \A n \in Markets : /\ isCommitted(n)' <=> isCommitted(n) \/ n = m
                         /\ isResolved(n)' <=> isResolved(n)
  BY <1>1, <1>2 DEF isCommitted, isResolved
<1>4. \A n \in Markets : /\ n # m => SealOf(n)' = SealOf(n)
                         /\ isResolved(n) => OpeningOf(n)' = OpeningOf(n)
  BY <1>1, <1>2 DEF SealOf, OpeningOf
<1>5. SealOf(m)' = [key |-> m, content |-> h, at |-> now]
  BY <1>1 DEF SealOf
<1>6. Seals' = Seals \cup {[key |-> m, content |-> h, at |-> now]}
  BY <1>1, <1>3, <1>4, <1>5 DEF Seals
<1>7. Openings' = Openings
  BY <1>3, <1>4 DEF Openings
<1>8. ~Registry!Sealed(m)
  BY <1>1 DEF Registry!Sealed
<1>9. Registry!Seal(m, h)
  BY <1>6, <1>7, <1>8 DEF Registry!Seal, Seals, Openings, SealOf, OpeningOf
<1> QED
  BY <1>1, <1>9 DEF Registry!RegNext

\* Resolving m opens it in the registry.
LEMMA ResolveOpens ==
    ASSUME OracleInv, NEW sender \in Accounts, NEW m \in Markets, NEW o \in Outcomes,
           NEW h \in Bytes32, postResolution(sender, m, o, h), now' = now
    PROVE  Registry!RegNext
<1>1. /\ isCommitted(m) /\ ~isResolved(m)
      /\ o # "Unresolved" /\ h \in Hashes
      /\ market'[m].outcome = o /\ market'[m].contentHash = h
      /\ market'[m].resolvedAt = now
      /\ market'[m].committedAt = market[m].committedAt
      /\ market'[m].preCommitHash = market[m].preCommitHash
      /\ \A n \in Markets \ {m} : market'[n] = market[n]
  BY ResolveEffect DEF OracleInv
<1>2. \A n \in Markets : /\ isCommitted(n)' <=> isCommitted(n)
                         /\ isResolved(n)' <=> isResolved(n) \/ n = m
  BY <1>1 DEF isCommitted, isResolved
<1>3. \A n \in Markets : /\ SealOf(n)' = SealOf(n)
                         /\ n # m => OpeningOf(n)' = OpeningOf(n)
  BY <1>1 DEF SealOf, OpeningOf
<1>4. OpeningOf(m)' = [key |-> m, verdict |-> <<o, h>>, at |-> now]
  BY <1>1 DEF OpeningOf
<1>5. Seals' = Seals
  BY <1>2, <1>3 DEF Seals
<1>6. Openings' = Openings \cup {[key |-> m, verdict |-> <<o, h>>, at |-> now]}
  BY <1>1, <1>2, <1>3, <1>4 DEF Openings
<1>7. Registry!Sealed(m) /\ ~Registry!Opened(m)
  <2>1. SealOf(m) \in Seals /\ SealOf(m).key = m
    BY <1>1 DEF Seals, SealOf
  <2>2. Registry!Sealed(m)
    BY <2>1 DEF Registry!Sealed, Seals, SealOf
  <2>3. ~Registry!Opened(m)
    BY <1>1 DEF Registry!Opened
  <2> QED
    BY <2>2, <2>3
<1>8. Registry!Open(m, <<o, h>>)
  BY <1>5, <1>6, <1>7 DEF Registry!Open, Seals, Openings, SealOf, OpeningOf
<1> QED
  BY <1>1, <1>8 DEF Registry!RegNext

\* Every behaviour of the oracle is one of the registry: rotating the publisher
\* is invisible to it, everything else is one of its own operations.
THEOREM OracleIsARegistry == OracleSpec => ImplementsRegistry
<1>1. OracleInit => Registry!RegInit
  <2> SUFFICES ASSUME OracleInit PROVE Registry!RegInit
    OBVIOUS
  <2>1. \A m \in Markets : ~isCommitted(m) /\ ~isResolved(m)
    BY DEF OracleInit, NoMarket, isCommitted, isResolved
  <2> QED
    BY <2>1 DEF OracleInit, Registry!RegInit
<1>2. OracleInv /\ [OracleNext]_oracleAllVars => [Registry!RegNext]_(Registry!regVars)
  <2> SUFFICES ASSUME OracleInv, OracleNext
               PROVE  Registry!RegNext \/ UNCHANGED Registry!regVars
    <3>1. UNCHANGED oracleAllVars => UNCHANGED Registry!regVars
      BY DEF oracleAllVars, oracleVars, Registry!regVars, isCommitted, isResolved
    <3> QED
      BY <3>1
  <2>1. CASE OracleStep /\ UNCHANGED now
    <3>1. ASSUME NEW sender \in Accounts, NEW m \in Markets, NEW h \in Bytes32,
                 commitMarket(sender, m, h)
          PROVE  Registry!RegNext
      BY <2>1, <3>1, CommitSeals
    <3>2. ASSUME NEW sender \in Accounts, NEW m \in Markets, NEW o \in Outcomes,
                 NEW h \in Bytes32, postResolution(sender, m, o, h)
          PROVE  Registry!RegNext
      BY <2>1, <3>2, ResolveOpens
    <3>3. ASSUME NEW sender \in Accounts, NEW p \in Accounts \cup {ZeroAddress},
                 setPublisher(sender, p)
          PROVE  UNCHANGED Registry!regVars
      BY <2>1, <3>3 DEF setPublisher, Registry!regVars, isCommitted, isResolved
    <3> QED
      BY <2>1, <3>1, <3>2, <3>3, OracleStepCases
  <2>2. CASE AdvanceTime /\ UNCHANGED oracleVars
    <3>1. now' \in Nat /\ now' > now
      BY <2>2 DEF AdvanceTime, OracleInv, OracleTypeOK
    <3> QED
      BY <2>2, <3>1
         DEF oracleVars, Registry!RegNext, Registry!PassTime, isCommitted, isResolved
  <2> QED
    BY <2>1, <2>2 DEF OracleNext
<1> QED
  BY <1>1, <1>2, OracleInvHolds, PTL DEF OracleSpec, ImplementsRegistry, Registry!RegSpec

\* README.md, "one primitive, applied twice", read in the abstract registry: a
\* verdict has a seal under its market that is not younger, and there is no edit
\* path, so no market carries two seals or two verdicts.
THEOREM OracleSealsFirst ==
    OracleSpec => [](Registry!SealPrecedesOpening /\ Registry!OneFactPerKey)
<1>1. ASSUME OracleInv PROVE Registry!SealPrecedesOpening
  <2>1. ASSUME NEW m \in Markets, isResolved(m)
        PROVE  SealOf(m) \in Seals /\ SealOf(m).key = OpeningOf(m).key
               /\ SealOf(m).at <= OpeningOf(m).at
    BY <1>1, <2>1 DEF OracleInv, CommitPrecedesResolution, Seals, SealOf, OpeningOf
  <2>2. \A o \in Openings : \E s \in Seals : s.key = o.key /\ s.at <= o.at
    BY <2>1 DEF Openings
  <2> QED
    BY <2>2 DEF Registry!SealPrecedesOpening, Seals, Openings, SealOf, OpeningOf
<1>2. Registry!OneFactPerKey
  BY DEF Registry!OneFactPerKey
<1> QED
  BY <1>1, <1>2, OracleInvHolds, PTL

-------------------------------------------------------------------------------
(* The command line that publishes.  What a run may count on. *)

busy(r) == run[r].at \in {"commitMarket", "postResolution"}
signed(r) == run[r].at \in {"postResolution", "done", "failed"}
commits(do) == do.cmd \in {"commit", "demo"}
resolves(do) == do.cmd \in {"resolve", "demo"}

\* The record of market m is run r's own.
ownCommitment(r, m) ==
    isCommitted(m) /\ market[m].preCommitHash = <<r, "market-precommit">>
ownResolution(r, m, outcome) ==
    /\ isResolved(m) /\ market[m].outcome = outcome
    /\ market[m].contentHash = <<r, "market-resolution">>

PublisherParts ==
    /\ run \in [Clients -> RunStates]
    /\ wire \in [Clients -> WireStates(Calls, {0})]
    /\ mempool \in Seq(Accepted(Calls))
    /\ faults \in 0 .. MaxFaults
    /\ attestations \subseteq Envelopes
    /\ attestationRef \in [Markets -> References]
    /\ resolver \in [Markets -> Accounts \cup {ZeroAddress}]

\* A run sends what it set out to, and hears of a success only when its record is
\* there.
CallIsOwn(r) ==
    /\ ~busy(r) => wire[r] = Quiet
    /\ busy(r) /\ wire[r].at \in {"send", "wait"} =>
          wire[r].call = [call |-> run[r].at, do |-> run[r].do, key |-> run[r].key,
                          by |-> r]
    /\ run[r].at = "commitMarket" /\ wire[r].at = "ok" => ownCommitment(r, run[r].do.m)
    /\ run[r].at = "postResolution" /\ wire[r].at = "ok" =>
          ownResolution(r, run[r].do.m, run[r].do.outcome)

\* How far it got.
ProgressIsTrue(r) ==
    LET do == run[r].do
    IN  /\ run[r].at = "commitMarket" => commits(do)
        /\ run[r].at = "postResolution" =>
              resolves(do) /\ (commits(do) => ownCommitment(r, do.m))
        /\ run[r].at = "done" =>
              /\ commits(do) => ownCommitment(r, do.m)
              /\ resolves(do) => ownResolution(r, do.m, do.outcome)
        /\ run[r].at \in {"read", "shown"} /\ run[r].saw => isResolved(do.m)
        /\ run[r].at = "shown" /\ run[r].saw =>
              run[r].lead = market[do.m].resolvedAt - market[do.m].committedAt

\* A generated key that signs is the one generated key there ever is.
KeyIsTheOne(r) ==
    (busy(r) \/ signed(r)) /\ run[r].key \in Keys => run[r].key = keyFile

RunFacts(r) == CallIsOwn(r) /\ ProgressIsTrue(r) /\ KeyIsTheOne(r)

KeyFacts ==
    /\ keyFile \in Keys \cup {NoKey}
    /\ envKey \in {NoKey, keyFile}
    /\ registry \in [key : {NoKey, keyFile}, active : BOOLEAN]
    /\ registry.active => registry.key # NoKey

resolutionBy(r, key) == attestation(r, "postResolution", key)

signs(r, do, key) ==
    /\ r \in Clients /\ signed(r) /\ run[r].do = do /\ run[r].key = key /\ resolves(do)
    /\ resolutionBy(r, key) \in attestations

\* Every resolution on its way, every one the wallet has sent and every envelope on the
\* chain was signed by the run it comes from, for that market and with that outcome.
CallIsSigned(call) ==
    call.call = "postResolution" => signs(call.by, call.do, call.key)
PoolIsSigned == \A i \in DOMAIN mempool : CallIsSigned(mempool[i].call)
RunHasSigned(r) ==
    run[r].at = "postResolution" => resolutionBy(r, run[r].key) \in attestations

RecordIsSigned(m) ==
    isResolved(m) /\ resolver[m] = Wallet =>
        \E r \in Clients :
           /\ market[m].contentHash = hashOf(r, "postResolution")
           /\ signs(r, run[r].do, run[r].key)
           /\ run[r].do.m = m /\ run[r].do.outcome = market[m].outcome

EnvelopeIsMade(m) ==
    attestationRef[m].to = "envelope" =>
        /\ isResolved(m)
        /\ \E r \in Clients :
              /\ signs(r, run[r].do, run[r].key)
              /\ attestationRef[m].envelope = resolutionBy(r, run[r].key)
              /\ market[m].contentHash = hashOf(r, "postResolution")

SignatureFacts ==
    /\ PoolIsSigned
    /\ \A r \in Clients : RunHasSigned(r)
    /\ \A m \in Markets : RecordIsSigned(m) /\ EnvelopeIsMade(m)

PublisherIInv ==
    /\ OracleInv
    /\ PublisherParts
    /\ KeyFacts
    /\ \A r \in Clients : RunFacts(r)
    /\ SignatureFacts

-------------------------------------------------------------------------------
(* Types. *)

LEMMA CommandIs ==
    ASSUME NEW do \in Commands
    PROVE  /\ do.m \in Markets /\ (commits(do) \/ resolves(do) \/ do.cmd = "read")
           /\ resolves(do) => /\ do.outcome \in Outcomes \ {"Unresolved"}
                              /\ do.embed \in BOOLEAN
<1>1. do \in CommandLines
  BY PublisherAssumption
<1> QED
  BY <1>1 DEF CommandLines, Outcomes, commits, resolves

LEMMA CallIs ==
    ASSUME NEW call \in Calls
    PROVE  /\ call.call \in {"commitMarket", "postResolution"}
           /\ call.do \in Commands /\ call.do.m \in Markets
           /\ call.key \in Keys \cup {Ephemeral} /\ call.by \in Clients
           /\ hashOf(call.by, call.call)
                 = <<call.by, IF call.call = "commitMarket" THEN "market-precommit"
                              ELSE "market-resolution">>
           /\ hashOf(call.by, call.call) \in Hashes
<1>1. /\ call.call \in {"commitMarket", "postResolution"}
      /\ call.do \in Commands /\ call.key \in Keys \cup {Ephemeral} /\ call.by \in Clients
  BY DEF Calls
<1>2. hashOf(call.by, call.call) \in Clients \X Kinds
  BY <1>1 DEF hashOf, Kinds
<1> QED
  BY <1>1, <1>2, CommandIs, PublisherAssumption DEF hashOf

\* The head of the mempool.
LEMMA HeadIs ==
    ASSUME PublisherParts, mempool # <<>>
    PROVE  /\ 1 \in DOMAIN mempool /\ Head(mempool) = mempool[1]
           /\ mempool[1] \in Accepted(Calls)
           /\ mempool[1].by \in Clients /\ mempool[1].call \in Calls
<1>1. 1 \in DOMAIN mempool /\ Head(mempool) = mempool[1]
      /\ mempool[1] \in Accepted(Calls)
  BY DEF PublisherParts
<1> QED
  BY <1>1 DEF Accepted

-------------------------------------------------------------------------------
(* The command line is a user of the oracle. *)

LEMMA PublisherIsOracleStep ==
    ASSUME PublisherParts, PoolIsSigned, [PublisherNext]_publisherAllVars
    PROVE  [OracleNext]_oracleAllVars
<1>1. CASE mine
  <2> DEFINE call == mempool[1].call
  <2>1. mempool # <<>> /\ Head(mempool) = mempool[1] /\ call \in Calls
    BY <1>1, HeadIs DEF mine
  <2>2. /\ call.do.m \in Markets /\ hashOf(call.by, call.call) \in Bytes32
        /\ Wallet \in Accounts /\ call.do \in Commands
    BY <2>1, CallIs, PublisherAssumption DEF Bytes32
  <2>3. CASE commitMarket(Wallet, call.do.m, hashOf(call.by, call.call))
    BY <1>1, <2>2, <2>3 DEF OracleStep, OracleNext, mine
  <2>4. CASE /\ call.call = "postResolution"
             /\ postResolution(Wallet, call.do.m, call.do.outcome, hashOf(call.by, call.call))
    <3>1. resolves(call.do)
      BY <2>1, <2>4, HeadIs DEF PoolIsSigned, CallIsSigned, signs
    <3>2. call.do.outcome \in Outcomes
      BY <2>2, <3>1, CommandIs
    <3> QED
      BY <1>1, <2>2, <2>4, <3>2 DEF OracleStep, OracleNext, mine
  <2>5. CASE UNCHANGED oracleVars
    BY <1>1, <2>5 DEF mine, oracleAllVars
  <2> QED
    BY <1>1, <2>1, <2>3, <2>4, <2>5 DEF mine
<1>2. CASE OtherStep
  BY <1>2 DEF OtherStep, OracleNext
<1>3. CASE AdvanceTime /\ UNCHANGED <<oracleVars, publisherVars>>
  BY <1>3 DEF OracleNext
<1>4. ASSUME UNCHANGED oracleAllVars PROVE [OracleNext]_oracleAllVars
  BY <1>4
<1>5. ASSUME NEW r \in Clients,
             \/ \E do \in Commands : start(r, do)
             \/ readLead(r) \/ Send(r) \/ goOn(r) \/ stop(r)
      PROVE  UNCHANGED oracleAllVars
  BY <1>5 DEF start, readLead, Send, goOn, stop
<1>6. ASSUME (\E k \in Keys : writeKey(k)) \/ appendKey \/ publishKey \/ revokeKey
      PROVE  UNCHANGED oracleAllVars
  BY <1>6 DEF writeKey, appendKey, publishKey, revokeKey
<1>7. UNCHANGED publisherAllVars => UNCHANGED oracleAllVars
  BY DEF publisherAllVars
<1> QED
  BY <1>1, <1>2, <1>3, <1>4, <1>5, <1>6, <1>7 DEF PublisherNext

-------------------------------------------------------------------------------
(* What stays. *)

LEMMA RunIs ==
    ASSUME PublisherParts, NEW r \in Clients
    PROVE  /\ run[r] = Idle \/ busy(r) \/ run[r].at \in {"done", "failed", "read", "shown"}
           /\ run[r] # Idle => run[r].at # "idle" /\ run[r].do \in Commands
                                /\ run[r].do.m \in Markets
           /\ busy(r) \/ signed(r) =>
                 /\ run[r] = [at |-> run[r].at, do |-> run[r].do, key |-> run[r].key]
                 /\ run[r].key \in Keys \cup {Ephemeral}
           /\ run[r].at = "read" =>
                 run[r].saw \in BOOLEAN
<1>1. run[r] \in RunStates
  BY DEF PublisherParts
<1>2. run[r] # Idle => run[r].do \in Commands
  BY <1>1 DEF RunStates
<1> QED
  BY <1>1, <1>2, CommandIs DEF RunStates, Idle, busy, signed

LEMMA OwnRecordsStay ==
    ASSUME RecordsKept, NEW r, NEW m \in Markets, NEW outcome
    PROVE  /\ ownCommitment(r, m) => ownCommitment(r, m)'
           /\ ownResolution(r, m, outcome) => ownResolution(r, m, outcome)'
           /\ isResolved(m) => isResolved(m)' /\ market'[m] = market[m]
BY DEF RecordsKept, ownCommitment, ownResolution, isCommitted, isResolved

\* Generated keys: there is one at most, and no run has one before it is written.
OneKeyStays == keyFile' = keyFile \/ keyFile = NoKey

\* A run that takes no step keeps what it may count on.
LEMMA StandingProgress ==
    ASSUME PublisherParts, KeyFacts, RecordsKept, OneKeyStays, NEW r \in Clients,
           RunFacts(r), run'[r] = run[r]
    PROVE  ProgressIsTrue(r)' /\ KeyIsTheOne(r)'
<1>1. CASE run[r] = Idle
  BY <1>1 DEF ProgressIsTrue, KeyIsTheOne, busy, signed, Idle
<1>2. CASE run[r] # Idle
  <2> DEFINE do == run[r].do
  <2>1. do.m \in Markets
    BY <1>2, RunIs
  <2>2. /\ ownCommitment(r, do.m) => ownCommitment(r, do.m)'
        /\ ownResolution(r, do.m, do.outcome) => ownResolution(r, do.m, do.outcome)'
        /\ isResolved(do.m) => isResolved(do.m)' /\ market'[do.m] = market[do.m]
    BY <2>1, OwnRecordsStay
  <2>3. ProgressIsTrue(r)'
    BY <2>2 DEF RunFacts, ProgressIsTrue, commits, resolves, ownCommitment, ownResolution,
                isCommitted, isResolved
  <2>4. KeyIsTheOne(r)'
    BY PublisherAssumption DEF RunFacts, KeyIsTheOne, OneKeyStays, busy, signed
  <2> QED
    BY <2>3, <2>4
<1> QED
  BY <1>1, <1>2

LEMMA StandingRun ==
    ASSUME PublisherParts, KeyFacts, RecordsKept, OneKeyStays, NEW r \in Clients,
           RunFacts(r), run'[r] = run[r], wire'[r] = wire[r]
    PROVE  RunFacts(r)'
<1>1. CallIsOwn(r)'
  <2>1. CASE ~busy(r)
    BY <2>1 DEF RunFacts, CallIsOwn, busy
  <2>2. CASE busy(r)
    <3> DEFINE do == run[r].do
    <3>0. run[r] # Idle
      BY <2>2 DEF busy, Idle
    <3>1. do.m \in Markets
      BY <3>0, RunIs
    <3>2. /\ ownCommitment(r, do.m) => ownCommitment(r, do.m)'
          /\ ownResolution(r, do.m, do.outcome) => ownResolution(r, do.m, do.outcome)'
      BY <3>1, OwnRecordsStay
    <3> QED
      BY <3>2 DEF RunFacts, CallIsOwn, busy, ownCommitment, ownResolution, isCommitted,
                  isResolved
  <2> QED
    BY <2>1, <2>2
<1> QED
  BY <1>1, StandingProgress DEF RunFacts

\* What a run has signed it has signed for good.
SignatureStays(r) ==
    signed(r) => signed(r)' /\ run'[r].do = run[r].do /\ run'[r].key = run[r].key

LEMMA SignedStays ==
    ASSUME \A r \in Clients : SignatureStays(r), attestations \subseteq attestations'
    PROVE  /\ \A call : CallIsSigned(call) => CallIsSigned(call)'
           /\ \A r, do, key : signs(r, do, key) => signs(r, do, key)'
<1>1. ASSUME NEW r, NEW do, NEW key, signs(r, do, key) PROVE signs(r, do, key)'
  BY <1>1 DEF signs, SignatureStays, resolves, resolutionBy, attestation, hashOf
<1> QED
  BY <1>1 DEF CallIsSigned

LEMMA RecordStaysSigned ==
    ASSUME \A r \in Clients : SignatureStays(r), attestations \subseteq attestations',
           NEW m \in Markets, RecordIsSigned(m), market'[m] = market[m],
           resolver'[m] = resolver[m]
    PROVE  RecordIsSigned(m)'
<1> SUFFICES ASSUME isResolved(m)', resolver'[m] = Wallet
             PROVE  \E r \in Clients :
                       /\ market'[m].contentHash = hashOf(r, "postResolution")
                       /\ signs(r, run[r].do, run[r].key)'
                       /\ run'[r].do.m = m /\ run'[r].do.outcome = market'[m].outcome
  BY DEF RecordIsSigned, hashOf
<1>1. PICK r \in Clients : /\ market[m].contentHash = hashOf(r, "postResolution")
                           /\ signs(r, run[r].do, run[r].key)
                           /\ run[r].do.m = m /\ run[r].do.outcome = market[m].outcome
  BY DEF RecordIsSigned, isResolved
<1>2. run'[r].do = run[r].do /\ run'[r].key = run[r].key
  BY <1>1 DEF signs, SignatureStays
<1>3. signs(r, run[r].do, run[r].key)'
  BY <1>1, <1>2, SignedStays DEF signs
<1> QED
  BY <1>1, <1>2, <1>3

LEMMA EnvelopeStaysMade ==
    ASSUME \A r \in Clients : SignatureStays(r), attestations \subseteq attestations',
           NEW m \in Markets, RecordsKept, EnvelopeIsMade(m),
           attestationRef'[m] = attestationRef[m] \/ attestationRef'[m].to # "envelope"
    PROVE  EnvelopeIsMade(m)'
<1> SUFFICES ASSUME attestationRef'[m].to = "envelope"
             PROVE  /\ isResolved(m)'
                    /\ \E r \in Clients :
                          /\ signs(r, run[r].do, run[r].key)'
                          /\ attestationRef'[m].envelope = resolutionBy(r, run'[r].key)
                          /\ market'[m].contentHash = hashOf(r, "postResolution")
  BY DEF EnvelopeIsMade, resolutionBy, attestation, hashOf
<1>1. PICK r \in Clients : /\ signs(r, run[r].do, run[r].key)
                           /\ attestationRef[m].envelope = resolutionBy(r, run[r].key)
                           /\ market[m].contentHash = hashOf(r, "postResolution")
  BY DEF EnvelopeIsMade
<1>2. isResolved(m)' /\ market'[m] = market[m]
  BY OwnRecordsStay DEF EnvelopeIsMade
<1>3. run'[r].do = run[r].do /\ run'[r].key = run[r].key
  BY <1>1 DEF signs, SignatureStays
<1>4. signs(r, run[r].do, run[r].key)'
  BY <1>1, <1>3, SignedStays DEF signs
<1> QED
  BY <1>1, <1>2, <1>3, <1>4

\* One run takes a step; the chain does not.
LEMMA RunStepKeepsInv ==
    ASSUME PublisherIInv, OracleInv', NEW r \in Clients, UNCHANGED <<market, keyVars>>,
           PublisherParts', attestationRef' = attestationRef, resolver' = resolver,
           attestations \subseteq attestations',
           \A d \in Clients \ {r} : run'[d] = run[d] /\ wire'[d] = wire[d],
           RunFacts(r)', SignatureStays(r), RunHasSigned(r)',
           \A i \in DOMAIN mempool' :
              \/ \E k \in DOMAIN mempool : mempool'[i].call = mempool[k].call
              \/ wire[r].at = "send" /\ mempool'[i].call = wire[r].call
    PROVE  PublisherIInv'
<1>1. RecordsKept /\ OneKeyStays
  BY DEF RecordsKept, OneKeyStays, keyVars
<1>2. \A d \in Clients : SignatureStays(d)
  BY DEF SignatureStays, signed
<1>3. ASSUME NEW d \in Clients PROVE RunFacts(d)'
  BY <1>1, <1>3, StandingRun DEF PublisherIInv
<1>4. KeyFacts'
  BY DEF PublisherIInv, KeyFacts, keyVars
<1>5. ASSUME NEW m \in Markets PROVE RecordIsSigned(m)' /\ EnvelopeIsMade(m)'
  BY <1>1, <1>2, RecordStaysSigned, EnvelopeStaysMade DEF PublisherIInv, SignatureFacts
<1>6. wire[r].at = "send" => CallIsSigned(wire[r].call)
  <2> SUFFICES ASSUME wire[r].at = "send", wire[r].call.call = "postResolution"
               PROVE  signs(wire[r].call.by, wire[r].call.do, wire[r].call.key)
    BY DEF CallIsSigned
  <2>1. RunFacts(r)
    BY DEF PublisherIInv
  <2>2. busy(r)
    BY <2>1 DEF RunFacts, CallIsOwn, Quiet
  <2>3. wire[r].call = [call |-> run[r].at, do |-> run[r].do, key |-> run[r].key, by |-> r]
    BY <2>1, <2>2 DEF RunFacts, CallIsOwn
  <2> QED
    BY <2>1, <2>3
       DEF RunFacts, ProgressIsTrue, signs, signed, PublisherIInv, SignatureFacts,
           RunHasSigned
<1>7. PoolIsSigned'
  <2> SUFFICES ASSUME NEW i \in DOMAIN mempool' PROVE CallIsSigned(mempool[i].call)'
    BY DEF PoolIsSigned
  <2>1. PICK call : call = mempool'[i].call
    OBVIOUS
  <2>2. CallIsSigned(call)
    BY <1>6, <2>1 DEF PublisherIInv, SignatureFacts, PoolIsSigned
  <2>3. CallIsSigned(call)'
    BY <1>2, <2>2, SignedStays
  <2> QED
    BY <2>1, <2>3 DEF CallIsSigned
<1>8. ASSUME NEW d \in Clients PROVE RunHasSigned(d)'
  BY DEF PublisherIInv, SignatureFacts, RunHasSigned, resolutionBy, attestation, hashOf
<1> QED
  BY <1>3, <1>4, <1>5, <1>7, <1>8 DEF PublisherIInv, SignatureFacts

\* A run signs an attestation and sends its hash.
LEMMA PublishKeepsInv ==
    ASSUME PublisherIInv, OracleInv', NEW r \in Clients,
           NEW call \in {"commitMarket", "postResolution"}, NEW do \in Commands,
           publish(r, call, do), ~signed(r), UNCHANGED <<market, keyVars>>,
           attestationRef' = attestationRef, resolver' = resolver,
           call = "commitMarket" => commits(do),
           call = "postResolution" =>
              resolves(do) /\ (commits(do) => ownCommitment(r, do.m))
    PROVE  PublisherIInv'
<1>1. PICK key : key = signingKeypair
  OBVIOUS
<1>2. key \in Keys \cup {Ephemeral} /\ (key \in Keys => key = keyFile)
  BY <1>1, PublisherAssumption DEF signingKeypair, PublisherIInv, KeyFacts
<1> DEFINE carried == [call |-> call, do |-> do, key |-> key, by |-> r]
           state == [at |-> call, do |-> do, key |-> key]
           w == [at |-> "send", call |-> carried, tries |-> 0]
<1>3. /\ run' = [run EXCEPT ![r] = state] /\ wire' = [wire EXCEPT ![r] = w]
      /\ mempool' = mempool /\ faults' = faults
      /\ attestations' = attestations \cup {attestation(r, call, key)}
  BY <1>1 DEF publish, become, issue, hear
<1>4. carried \in Calls
  BY <1>2 DEF Calls
<1>5. state \in RunStates /\ w \in WireStates(Calls, {0})
  BY <1>2, <1>4, RetryAssumption DEF RunStates, WireStates
<1>6. /\ state.at = call /\ state.do = do /\ state.key = key
      /\ w.at = "send" /\ w.call = [call |-> call, do |-> do, key |-> key, by |-> r]
  OBVIOUS
<1> HIDE DEF carried, state, w
<1>7. PublisherParts'
  <2>1. hashOf(r, call) \in Clients \X Kinds
    BY DEF hashOf, Kinds
  <2>2. attestation(r, call, key) \in Envelopes
    BY <1>2, <2>1, PublisherAssumption DEF attestation, Envelopes
  <2> QED
    BY <1>3, <1>5, <2>2 DEF PublisherIInv, PublisherParts
<1>8. run'[r] = state /\ wire'[r] = w
  BY <1>3 DEF PublisherIInv, PublisherParts
<1>9. CallIsOwn(r)' /\ KeyIsTheOne(r)'
  BY <1>2, <1>6, <1>8 DEF CallIsOwn, KeyIsTheOne, busy, keyVars
<1>10. ProgressIsTrue(r)'
  BY <1>6, <1>8 DEF ProgressIsTrue, commits, resolves, ownCommitment, isCommitted
<1>11. \A d \in Clients \ {r} : run'[d] = run[d] /\ wire'[d] = wire[d]
  BY <1>3 DEF PublisherIInv, PublisherParts
<1>12. RunHasSigned(r)'
  BY <1>3, <1>6, <1>8 DEF RunHasSigned, resolutionBy, attestation, hashOf
<1> QED
  BY <1>3, <1>7, <1>9, <1>10, <1>11, <1>12, RunStepKeepsInv DEF RunFacts, SignatureStays

\* A run moves on and sends nothing.
LEMMA TurnKeepsInv ==
    ASSUME PublisherIInv, OracleInv', NEW r \in Clients, NEW state \in RunStates,
           NEW w \in WireStates(Calls, {0}), run' = [run EXCEPT ![r] = state],
           wire' = [wire EXCEPT ![r] = w], mempool' = mempool,
           faults' \in 0 .. MaxFaults, UNCHANGED <<market, keyVars, attestations, refVars>>,
           state.at # "postResolution", RunFacts(r)', SignatureStays(r)
    PROVE  PublisherIInv'
<1>1. PublisherParts'
  BY DEF PublisherIInv, PublisherParts, refVars
<1>2. /\ \A d \in Clients \ {r} : run'[d] = run[d] /\ wire'[d] = wire[d]
      /\ run'[r] = state
  BY DEF PublisherIInv, PublisherParts
<1>3. RunHasSigned(r)'
  BY <1>2 DEF RunHasSigned
<1> QED
  BY <1>1, <1>2, <1>3, RunStepKeepsInv DEF refVars

LEMMA StartKeepsInv ==
    ASSUME PublisherIInv, OracleInv', NEW r \in Clients, NEW do \in Commands,
           start(r, do)
    PROVE  PublisherIInv'
<1>1. ~signed(r) /\ ~busy(r) /\ run[r] = Idle /\ run \in [Clients -> RunStates]
      /\ wire \in [Clients -> WireStates(Calls, {0})]
  BY DEF start, Idle, signed, busy, PublisherIInv, PublisherParts
<1>2. /\ UNCHANGED <<market, keyVars, refVars>>
      /\ attestationRef' = attestationRef /\ resolver' = resolver
  BY DEF start, oracleAllVars, oracleVars, refVars
<1>3. CASE do.cmd \in {"commit", "demo"} /\ publish(r, "commitMarket", do)
  BY <1>1, <1>2, <1>3, PublishKeepsInv DEF commits
<1>4. CASE do.cmd = "resolve" /\ publish(r, "postResolution", do)
  BY <1>1, <1>2, <1>4, PublishKeepsInv DEF commits, resolves
<1>5. CASE do.cmd = "read" /\ UNCHANGED <<callVars, attestations>>
           /\ become(r, [at |-> "read", do |-> do, saw |-> isResolved(do.m)])
  <2> DEFINE state == [at |-> "read", do |-> do, saw |-> isResolved(do.m)]
  <2>1. state \in RunStates /\ run' = [run EXCEPT ![r] = state] /\ run'[r] = state
    BY <1>1, <1>5 DEF RunStates, become, isResolved
  <2>2. wire[r] = Quiet
    BY <1>1 DEF PublisherIInv, RunFacts, CallIsOwn
  <2>3. Quiet \in WireStates(Calls, {0}) /\ wire' = [wire EXCEPT ![r] = Quiet]
        /\ wire'[r] = Quiet
    BY <1>1, <1>5, <2>2 DEF callVars, WireStates
  <2>4. run'[r].at = "read" /\ run'[r].do = do /\ run'[r].saw = isResolved(do.m)
    BY <2>1
  <2>5. CallIsOwn(r)' /\ KeyIsTheOne(r)'
    BY <2>3, <2>4 DEF CallIsOwn, KeyIsTheOne, busy, signed, Quiet
  <2>6. ProgressIsTrue(r)'
    BY <1>2, <2>4 DEF ProgressIsTrue, isResolved
  <2>7. RunFacts(r)'
    BY <2>5, <2>6 DEF RunFacts
  <2>8. state.at # "postResolution" /\ SignatureStays(r)
    BY <1>1 DEF SignatureStays
  <2>9. mempool' = mempool /\ faults' = faults /\ faults \in 0 .. MaxFaults
        /\ UNCHANGED <<market, keyVars, attestations, refVars>>
    BY <1>2, <1>5 DEF callVars, PublisherIInv, PublisherParts
  <2> HIDE DEF state
  <2> QED
    BY <2>1, <2>3, <2>7, <2>8, <2>9, TurnKeepsInv
<1> QED
  BY <1>3, <1>4, <1>5 DEF start

\* `read` shows the lead time of the record it has seen resolved.
LEMMA ReadKeepsInv ==
    ASSUME PublisherIInv, OracleInv', NEW r \in Clients, readLead(r)
    PROVE  PublisherIInv'
<1>1. /\ run[r].at = "read" /\ ~signed(r) /\ ~busy(r) /\ run \in [Clients -> RunStates]
      /\ wire \in [Clients -> WireStates(Calls, {0})]
      /\ UNCHANGED <<market, keyVars, wire, mempool, faults, attestations, refVars>>
      /\ wire[r] = Quiet
  BY DEF readLead, signed, busy, PublisherIInv, PublisherParts, callVars, oracleAllVars,
         oracleVars, RunFacts, CallIsOwn
<1>2. PICK do \in Commands, saw \in BOOLEAN : do = run[r].do /\ saw = run[r].saw
  BY <1>1, RunIs DEF PublisherIInv, Idle
<1>3. do.m \in Markets /\ market[do.m] \in MarketRecords
      /\ (saw => isResolved(do.m))
  BY <1>1, <1>2, CommandIs
     DEF PublisherIInv, OracleInv, OracleTypeOK, RunFacts, ProgressIsTrue
<1>4. isResolved(do.m) =>
         market[do.m].resolvedAt - market[do.m].committedAt \in Nat
  BY <1>3 DEF PublisherIInv, OracleInv, CommitPrecedesResolution, MarketRecords
<1>5. PICK lead : lead = IF market[do.m].outcome = "Unresolved" THEN 0
                         ELSE market[do.m].resolvedAt - market[do.m].committedAt
  OBVIOUS
<1> DEFINE state == [at |-> "shown", do |-> do, saw |-> saw, lead |-> lead]
<1>6. state \in RunStates
  BY <1>4, <1>5 DEF RunStates, isResolved
<1>7. run' = [run EXCEPT ![r] = state] /\ run'[r] = state
  BY <1>1, <1>2, <1>5 DEF readLead, become
<1>8. Quiet \in WireStates(Calls, {0}) /\ wire' = [wire EXCEPT ![r] = Quiet]
  BY <1>1 DEF WireStates
<1>9. RunFacts(r)'
  BY <1>1, <1>3, <1>5, <1>7
     DEF RunFacts, CallIsOwn, ProgressIsTrue, KeyIsTheOne, busy, signed, isResolved, Quiet
<1>10. state.at # "postResolution"
  OBVIOUS
<1> HIDE DEF state
<1> QED
  BY <1>1, <1>6, <1>7, <1>8, <1>9, <1>10, TurnKeepsInv
     DEF SignatureStays, PublisherIInv, PublisherParts

\* Whatever comes of a try, the run still carries the same call or has an exception.
LEMMA SendPublishes ==
    ASSUME PublisherIInv, OracleInv', NEW r \in Clients, Send(r)
    PROVE  PublisherIInv'
<1>0. /\ wire[r].at = "send" /\ run' = run /\ attestationRef' = attestationRef
      /\ UNCHANGED <<market, keyVars, attestations>> /\ resolver' = resolver
      /\ wire \in [Clients -> WireStates(Calls, {0})]
      /\ MaxTries \in Nat \ {0} /\ mempool \in Seq(Accepted(Calls))
      /\ faults \in 0 .. MaxFaults /\ MaxFaults \in Nat
  BY RetryAssumption
     DEF Send, oracleAllVars, oracleVars, refVars, PublisherIInv, PublisherParts
<1>1. PICK call \in Calls, tries \in 0 .. MaxTries - 1 :
            wire[r] = [at |-> "send", call |-> call, tries |-> tries]
  BY <1>0 DEF WireStates, Quiet
<1>2. call = wire[r].call /\ tries = wire[r].tries
      /\ [wire[r] EXCEPT !.tries = @ + 1] = [at |-> "send", call |-> call, tries |-> tries + 1]
  BY <1>1
<1> DEFINE waits == [at |-> "wait", call |-> call]
           thrown == [at |-> "thrown"]
           again == [at |-> "send", call |-> call, tries |-> tries + 1]
<1>3. \/ wire' = [wire EXCEPT ![r] = waits]
      \/ wire' = [wire EXCEPT ![r] = thrown]
      \/ wire' = [wire EXCEPT ![r] = again] /\ tries + 1 < MaxTries
  BY <1>2 DEF Send, send, loseAnswer, hear
<1>4. /\ waits \in WireStates(Calls, {0}) /\ thrown \in WireStates(Calls, {0})
      /\ tries + 1 < MaxTries => again \in WireStates(Calls, {0})
  BY <1>0, <1>1 DEF WireStates
<1>5. /\ waits.at = "wait" /\ waits.call = call /\ thrown.at = "thrown"
      /\ again.at = "send" /\ again.call = call
  OBVIOUS
<1> HIDE DEF waits, thrown, again
<1>6. PICK w \in WireStates(Calls, {0}) :
           /\ wire' = [wire EXCEPT ![r] = w]
           /\ w.at \in {"send", "wait"} => w.call = call
           /\ w.at \in {"send", "wait", "thrown"}
  BY <1>3, <1>4, <1>5
<1>7. faults' \in 0 .. MaxFaults
  <2>1. faults' = faults \/ (faults < MaxFaults /\ faults' = faults + 1)
    BY DEF Send, send, loseAnswer, fault
  <2> QED
    BY <1>0, <2>1
<1> DEFINE entry(heard) == [by |-> r, call |-> wire[r].call, answered |-> heard]
<1>8. entry(TRUE) \in Accepted(Calls) /\ entry(FALSE) \in Accepted(Calls)
      /\ entry(TRUE).call = wire[r].call /\ entry(FALSE).call = wire[r].call
  BY <1>2 DEF Accepted
<1>9. \/ mempool' = mempool
      \/ mempool' = Append(mempool, entry(TRUE))
      \/ mempool' = Append(mempool, entry(FALSE))
  BY DEF Send, send, loseAnswer, accept
<1> HIDE DEF entry
<1>10. /\ \A e \in Accepted(Calls) :
             /\ Append(mempool, e) \in Seq(Accepted(Calls))
             /\ \A i \in DOMAIN Append(mempool, e) :
                   \/ i \in DOMAIN mempool /\ Append(mempool, e)[i] = mempool[i]
                   \/ Append(mempool, e)[i] = e
  BY <1>0
<1>11. /\ mempool' \in Seq(Accepted(Calls))
       /\ \A i \in DOMAIN mempool' :
             \/ \E k \in DOMAIN mempool : mempool'[i].call = mempool[k].call
             \/ wire[r].at = "send" /\ mempool'[i].call = wire[r].call
  BY <1>0, <1>8, <1>9, <1>10
<1>12. PublisherParts'
  BY <1>0, <1>6, <1>7, <1>11 DEF PublisherIInv, PublisherParts
<1>13. wire'[r] = w /\ \A d \in Clients \ {r} : run'[d] = run[d] /\ wire'[d] = wire[d]
  BY <1>0, <1>6
<1>14. RunFacts(r)'
  <2>1. RecordsKept /\ OneKeyStays /\ run'[r] = run[r] /\ RunFacts(r)
    BY <1>0 DEF RecordsKept, OneKeyStays, keyVars, PublisherIInv
  <2>2. ProgressIsTrue(r)' /\ KeyIsTheOne(r)'
    BY <2>1, StandingProgress DEF PublisherIInv
  <2>3. busy(r) /\ call = [call |-> run[r].at, do |-> run[r].do, key |-> run[r].key,
                           by |-> r]
    BY <1>0, <1>2, <2>1 DEF RunFacts, CallIsOwn, Quiet
  <2>4. CallIsOwn(r)'
    BY <1>6, <1>13, <2>1, <2>3 DEF CallIsOwn, busy
  <2> QED
    BY <2>2, <2>4 DEF RunFacts
<1>15. SignatureStays(r)
  BY <1>0 DEF SignatureStays, signed
<1>16. RunHasSigned(r)'
  BY <1>0 DEF PublisherIInv, SignatureFacts, RunHasSigned, resolutionBy, attestation, hashOf
<1> QED
  BY <1>0, <1>11, <1>12, <1>13, <1>14, <1>15, <1>16, RunStepKeepsInv

\* A run that ends: with an exception or a crash at any time, or well with its own
\* records on the chain.
LEMMA EndKeepsInv ==
    ASSUME PublisherIInv, OracleInv', NEW r \in Clients, busy(r),
           NEW at \in {"done", "failed"},
           run' = [run EXCEPT ![r] = [run[r] EXCEPT !.at = at]],
           wire' = [wire EXCEPT ![r] = Quiet], mempool' = mempool,
           faults' \in 0 .. MaxFaults, UNCHANGED <<market, keyVars, attestations, refVars>>,
           at = "done" =>
              LET do == run[r].do
              IN  /\ commits(do) => ownCommitment(r, do.m)
                  /\ resolves(do) => ownResolution(r, do.m, do.outcome)
    PROVE  PublisherIInv'
<1>1. PICK do \in Commands, key \in Keys \cup {Ephemeral} :
           run[r] = [at |-> run[r].at, do |-> do, key |-> key]
  <2>1. run[r] = [at |-> run[r].at, do |-> run[r].do, key |-> run[r].key]
        /\ run[r].key \in Keys \cup {Ephemeral} /\ run[r] # Idle
    BY RunIs DEF PublisherIInv, busy, Idle
  <2>2. run[r].do \in Commands
    BY <2>1, RunIs DEF PublisherIInv
  <2> QED
    BY <2>1, <2>2
<1>2. do = run[r].do /\ key = run[r].key
  BY <1>1
<1> DEFINE state == [at |-> at, do |-> do, key |-> key]
<1>3. run' = [run EXCEPT ![r] = state] /\ state \in RunStates
  <2>1. [run[r] EXCEPT !.at = at] = state
    BY <1>1
  <2>2. state \in RunStates
    BY <1>1 DEF RunStates
  <2> QED
    BY <2>1, <2>2
<1>4. state.at = at /\ state.do = do /\ state.key = key
  OBVIOUS
<1> HIDE DEF state
<1>5. run'[r] = state /\ wire'[r] = Quiet /\ Quiet \in WireStates(Calls, {0})
  BY <1>3 DEF PublisherIInv, PublisherParts, WireStates
<1>6. CallIsOwn(r)'
  BY <1>4, <1>5 DEF CallIsOwn, busy
<1>7. KeyIsTheOne(r)'
  BY <1>2, <1>4, <1>5
     DEF PublisherIInv, RunFacts, KeyIsTheOne, busy, signed, keyVars
<1>8. ProgressIsTrue(r)'
  BY <1>2, <1>4, <1>5
     DEF ProgressIsTrue, commits, resolves, ownCommitment, ownResolution, isCommitted,
         isResolved
<1>9. SignatureStays(r)
  BY <1>2, <1>4, <1>5 DEF SignatureStays, signed
<1> QED
  BY <1>3, <1>4, <1>5, <1>6, <1>7, <1>8, <1>9, TurnKeepsInv DEF RunFacts

LEMMA GoOnKeepsInv ==
    ASSUME PublisherIInv, OracleInv', NEW r \in Clients, goOn(r)
    PROVE  PublisherIInv'
<1>1. /\ UNCHANGED <<market, keyVars, refVars>>
      /\ attestationRef' = attestationRef /\ resolver' = resolver
      /\ wire[r].at \in {"ok", "thrown"} /\ RunFacts(r)
  BY DEF goOn, oracleAllVars, oracleVars, refVars, PublisherIInv
<1>2. busy(r)
  BY <1>1 DEF RunFacts, CallIsOwn, Quiet
<1>3. run[r].do \in Commands
  <2>1. run[r] # Idle
    BY <1>2 DEF busy, Idle
  <2> QED
    BY <2>1, RunIs DEF PublisherIInv
<1>4. CASE wire[r].at = "ok" /\ run[r].do.cmd = "demo" /\ run[r].at = "commitMarket"
           /\ publish(r, "postResolution", run[r].do)
  <2>1. ownCommitment(r, run[r].do.m) /\ resolves(run[r].do) /\ ~signed(r)
    BY <1>1, <1>2, <1>4 DEF RunFacts, CallIsOwn, resolves, signed
  <2> QED
    BY <1>1, <1>3, <1>4, <2>1, PublishKeepsInv
<1>5. CASE wire[r].at = "ok" /\ ~(run[r].do.cmd = "demo" /\ run[r].at = "commitMarket")
           /\ become(r, [run[r] EXCEPT !.at = "done"]) /\ hangUp(r) /\ UNCHANGED attestations
  <2>1. /\ commits(run[r].do) => ownCommitment(r, run[r].do.m)
        /\ resolves(run[r].do) => ownResolution(r, run[r].do.m, run[r].do.outcome)
    BY <1>1, <1>2, <1>5
       DEF RunFacts, CallIsOwn, ProgressIsTrue, busy, commits, resolves
  <2> QED
    BY <1>1, <1>2, <1>5, <2>1, EndKeepsInv
       DEF become, hangUp, hear, PublisherIInv, PublisherParts
<1>6. CASE become(r, [run[r] EXCEPT !.at = "failed"]) /\ hangUp(r) /\ UNCHANGED attestations
  BY <1>1, <1>2, <1>6, EndKeepsInv
     DEF become, hangUp, hear, PublisherIInv, PublisherParts
<1> QED
  BY <1>4, <1>5, <1>6 DEF goOn

LEMMA StopKeepsInv ==
    ASSUME PublisherIInv, OracleInv', NEW r \in Clients, stop(r)
    PROVE  PublisherIInv'
<1>1. busy(r) /\ UNCHANGED <<market, keyVars, attestations, refVars>>
  BY DEF stop, busy, oracleAllVars, oracleVars
<1>2. faults' \in 0 .. MaxFaults
  BY RetryAssumption DEF stop, crash, fault, PublisherIInv, PublisherParts
<1> QED
  BY <1>1, <1>2, EndKeepsInv DEF stop, crash, hear, become

\* The runs wait.  Whatever becomes of the keys and the registry, no resolution is sent
\* from the wallet and no envelope is stored.
LEMMA WaitKeepsInv ==
    ASSUME PublisherIInv, OracleInv', RecordsKept, OneKeyStays, KeyFacts',
           UNCHANGED <<run, callVars, attestations>>,
           attestationRef' \in [Markets -> References],
           resolver' \in [Markets -> Accounts \cup {ZeroAddress}],
           \A m \in Markets :
              /\ \/ market'[m] = market[m] /\ resolver'[m] = resolver[m]
                 \/ resolver'[m] # Wallet \/ ~isResolved(m)'
              /\ attestationRef'[m] = attestationRef[m] \/ attestationRef'[m].to # "envelope"
    PROVE  PublisherIInv'
<1>1. run' = run /\ wire' = wire /\ mempool' = mempool /\ faults' = faults
  BY DEF callVars
<1>2. PublisherParts'
  BY <1>1 DEF PublisherIInv, PublisherParts
<1>3. ASSUME NEW r \in Clients PROVE RunFacts(r)' /\ SignatureStays(r)
  BY <1>1, <1>3, StandingRun DEF PublisherIInv, SignatureStays, signed
<1>4. ASSUME NEW m \in Markets PROVE RecordIsSigned(m)' /\ EnvelopeIsMade(m)'
  <2>1. EnvelopeIsMade(m)'
    BY <1>3, EnvelopeStaysMade DEF PublisherIInv, SignatureFacts
  <2>2. ASSUME market'[m] = market[m], resolver'[m] = resolver[m]
        PROVE  RecordIsSigned(m)'
    BY <1>3, <2>2, RecordStaysSigned DEF PublisherIInv, SignatureFacts
  <2>3. ASSUME resolver'[m] # Wallet \/ ~isResolved(m)'
        PROVE  RecordIsSigned(m)'
    BY <2>3 DEF RecordIsSigned
  <2> QED
    BY <2>1, <2>2, <2>3
<1>5. PoolIsSigned'
  <2> SUFFICES ASSUME NEW i \in DOMAIN mempool' PROVE CallIsSigned(mempool[i].call)'
    BY DEF PoolIsSigned
  <2>1. PICK call : call = mempool'[i].call /\ CallIsSigned(call)
    BY <1>1 DEF PublisherIInv, SignatureFacts, PoolIsSigned
  <2>2. CallIsSigned(call)'
    BY <1>3, <2>1, SignedStays
  <2> QED
    BY <2>1, <2>2 DEF CallIsSigned
<1>6. ASSUME NEW r \in Clients PROVE RunHasSigned(r)'
  BY DEF PublisherIInv, SignatureFacts, RunHasSigned, resolutionBy, attestation, hashOf
<1> QED
  BY <1>2, <1>3, <1>4, <1>5, <1>6 DEF PublisherIInv, SignatureFacts

\* The generator, the operator and time.
LEMMA KeyStepKeepsInv ==
    ASSUME PublisherIInv, OracleInv',
           UNCHANGED <<market, run, callVars, attestations, refVars>>,
           \/ \E k \in Keys : writeKey(k)
           \/ appendKey \/ publishKey \/ revokeKey
           \/ UNCHANGED keyVars
    PROVE  PublisherIInv'
<1>1. RecordsKept
  BY DEF RecordsKept
<1>2. KeyFacts
  BY DEF PublisherIInv
<1>3. OneKeyStays
  BY DEF OneKeyStays, writeKey, appendKey, publishKey, revokeKey, keyVars
<1>4. KeyFacts'
  <2>1. CASE \E k \in Keys : writeKey(k)
    BY <1>2, <2>1 DEF KeyFacts, writeKey
  <2>2. CASE appendKey
    BY <1>2, <2>2 DEF KeyFacts, appendKey
  <2>3. CASE publishKey
    BY <1>2, <2>3 DEF KeyFacts, publishKey
  <2>4. CASE revokeKey
    BY <1>2, <2>4 DEF KeyFacts, revokeKey
  <2>5. CASE UNCHANGED keyVars
    BY <1>2, <2>5 DEF KeyFacts, keyVars
  <2> QED
    BY <2>1, <2>2, <2>3, <2>4, <2>5
<1> QED
  BY <1>1, <1>3, <1>4, WaitKeepsInv DEF PublisherIInv, PublisherParts, refVars

\* Others write what they like, but not from the wallet.
LEMMA OtherKeepsInv ==
    ASSUME PublisherIInv, OracleInv', RecordsKept, OtherStep
    PROVE  PublisherIInv'
<1>1. UNCHANGED <<run, callVars, attestations>> /\ KeyFacts' /\ OneKeyStays
  BY DEF OtherStep, keyVars, KeyFacts, PublisherIInv, OneKeyStays
<1> DEFINE resolved == {m \in Markets : isResolved(m)' /\ ~isResolved(m)}
<1>2. /\ attestationRef' = [m \in Markets |-> IF m \in resolved THEN Url
                                              ELSE attestationRef[m]]
      /\ resolver' = [m \in Markets |-> IF m \in resolved THEN publisher
                                        ELSE resolver[m]]
  BY DEF OtherStep
<1>3. Url \in References /\ Url.to # "envelope" /\ publisher \in Accounts
  BY DEF References, Url, PublisherIInv, OracleInv, OracleTypeOK
<1>4. /\ attestationRef' \in [Markets -> References]
      /\ resolver' \in [Markets -> Accounts \cup {ZeroAddress}]
  BY <1>2, <1>3 DEF PublisherIInv, PublisherParts
<1>5. ASSUME NEW m \in Markets
      PROVE  /\ \/ market'[m] = market[m] /\ resolver'[m] = resolver[m]
                \/ resolver'[m] # Wallet \/ ~isResolved(m)'
             /\ attestationRef'[m] = attestationRef[m] \/ attestationRef'[m].to # "envelope"
  <2>1. isResolved(m) => market'[m] = market[m]
    BY DEF RecordsKept
  <2>2. m \in resolved => publisher # Wallet
    BY DEF OtherStep, isResolved
  <2> QED
    BY <1>2, <1>3, <2>1, <2>2
<1> HIDE DEF resolved
<1> QED
  BY <1>1, <1>4, <1>5, WaitKeepsInv


-------------------------------------------------------------------------------
(* The chain takes the oldest call. *)

\* The record a call leaves is the one its run signed.
LEMMA MinedRecords ==
    ASSUME PublisherIInv, mine, RecordsKept, NEW call, call = mempool[1].call
    PROVE  /\ attestationRef' \in [Markets -> References]
           /\ resolver' \in [Markets -> Accounts \cup {ZeroAddress}]
           /\ \A m \in Markets : RecordIsSigned(m)' /\ EnvelopeIsMade(m)'
<1>1. /\ mempool # <<>> /\ Head(mempool).call = call /\ call \in Calls
      /\ 1 \in DOMAIN mempool
      /\ attestationRef \in [Markets -> References] /\ OracleInv /\ run' = run
      /\ resolver \in [Markets -> Accounts \cup {ZeroAddress}]
      /\ Wallet \in Accounts /\ attestations' = attestations
  BY HeadIs, PublisherAssumption DEF mine, PublisherIInv, PublisherParts
<1>2. /\ call.do.m \in Markets /\ hashOf(call.by, call.call) \in Hashes
      /\ call.by \in Clients /\ call.key \in Keys \cup {Ephemeral} /\ call.do \in Commands
      /\ hashOf(call.by, call.call)
            = <<call.by, IF call.call = "commitMarket" THEN "market-precommit"
                         ELSE "market-resolution">>
  BY <1>1, CallIs
<1>3. \A r \in Clients : SignatureStays(r)
  BY <1>1 DEF SignatureStays, signed
<1>4. CallIsSigned(call)
  BY <1>1 DEF PublisherIInv, SignatureFacts, PoolIsSigned
<1>5. ASSUME NEW m \in Markets, market'[m] = market[m], resolver'[m] = resolver[m]
      PROVE  RecordIsSigned(m)'
  BY <1>1, <1>3, <1>5, RecordStaysSigned DEF PublisherIInv, SignatureFacts
<1>6. ASSUME NEW m \in Markets, attestationRef'[m] = attestationRef[m]
      PROVE  EnvelopeIsMade(m)'
  BY <1>1, <1>3, <1>6, EnvelopeStaysMade DEF PublisherIInv, SignatureFacts
<1> DEFINE hash == hashOf(call.by, call.call)
<1>7. CASE /\ call.call = "commitMarket" /\ commitMarket(Wallet, call.do.m, hash)
           /\ UNCHANGED refVars
  <2>1. /\ ~isCommitted(call.do.m)
        /\ market'[call.do.m].outcome = market[call.do.m].outcome
        /\ \A n \in Markets \ {call.do.m} : market'[n] = market[n]
    BY <1>1, <1>2, <1>7, CommitEffect DEF OracleInv, Bytes32
  <2>2. ~isResolved(call.do.m)'
    BY <1>1, <1>2, <2>1 DEF OracleInv, CommitPrecedesResolution, isResolved
  <2>3. RecordIsSigned(call.do.m)'
    BY <2>2 DEF RecordIsSigned
  <2> QED
    BY <1>1, <1>5, <1>6, <1>7, <2>1, <2>3 DEF refVars
<1>8. CASE /\ call.call = "postResolution"
           /\ postResolution(Wallet, call.do.m, call.do.outcome, hash)
           /\ attestationRef' = [attestationRef EXCEPT ![call.do.m] = evidenceRef(call)]
           /\ resolver' = [resolver EXCEPT ![call.do.m] = Wallet]
  <2>1. signs(call.by, call.do, call.key)
    BY <1>4, <1>8 DEF CallIsSigned
  <2>2. call.do.outcome \in Outcomes
    BY <1>2, <2>1, CommandIs DEF signs
  <2>3. /\ market'[call.do.m].outcome = call.do.outcome
        /\ market'[call.do.m].contentHash = hash
        /\ call.do.outcome # "Unresolved"
        /\ \A n \in Markets \ {call.do.m} : market'[n] = market[n]
    BY <1>1, <1>2, <1>8, <2>2, ResolveEffect DEF OracleInv, Bytes32
  <2>4. hash = hashOf(call.by, "postResolution")
    BY <1>8
  <2>5. run'[call.by].do = call.do /\ run'[call.by].key = call.key
        /\ signs(call.by, call.do, call.key)'
        /\ signs(call.by, run[call.by].do, run[call.by].key)'
    BY <1>1, <2>1 DEF signs, signed, resolves, resolutionBy, attestation, hashOf
  <2>6. RecordIsSigned(call.do.m)'
    <3>1. PICK r \in Clients : r = call.by
      BY <1>2
    <3>2. /\ market'[call.do.m].contentHash = hashOf(r, "postResolution")
          /\ signs(r, run[r].do, run[r].key)'
          /\ run'[r].do.m = call.do.m
          /\ run'[r].do.outcome = market'[call.do.m].outcome
      BY <2>3, <2>4, <2>5, <3>1
    <3> QED
      BY <3>2 DEF RecordIsSigned, hashOf
  <2>7. evidenceRef(call) = Url
        \/ evidenceRef(call) = [to |-> "envelope",
                                envelope |-> resolutionBy(call.by, call.key)]
    BY <1>8 DEF evidenceRef, resolutionBy
  <2>8. evidenceRef(call) \in References
        /\ (evidenceRef(call).to = "envelope" =>
               evidenceRef(call).envelope = resolutionBy(call.by, call.key))
    <3>1. resolutionBy(call.by, call.key) \in Envelopes
      BY <1>2, <2>4 DEF Envelopes, resolutionBy, attestation
    <3> QED
      BY <2>7, <3>1 DEF References, Url
  <2>9. EnvelopeIsMade(call.do.m)'
    <3> SUFFICES ASSUME attestationRef'[call.do.m].to = "envelope"
                 PROVE  /\ isResolved(call.do.m)'
                        /\ \E r \in Clients :
                              /\ signs(r, run[r].do, run[r].key)'
                              /\ attestationRef'[call.do.m].envelope
                                    = resolutionBy(r, run'[r].key)
                              /\ market'[call.do.m].contentHash
                                    = hashOf(r, "postResolution")
      BY DEF EnvelopeIsMade, resolutionBy, attestation, hashOf
    <3>1. attestationRef'[call.do.m] = evidenceRef(call)
      BY <1>1, <1>2, <1>8
    <3>2. PICK r \in Clients : r = call.by
      BY <1>2
    <3>3. isResolved(call.do.m)'
      BY <2>3 DEF isResolved
    <3>4. /\ signs(r, run[r].do, run[r].key)'
          /\ attestationRef'[call.do.m].envelope = resolutionBy(r, run'[r].key)
          /\ market'[call.do.m].contentHash = hashOf(r, "postResolution")
      BY <2>3, <2>4, <2>5, <2>8, <3>1, <3>2
    <3> QED
      BY <3>3, <3>4
  <2>10. /\ attestationRef' \in [Markets -> References]
         /\ resolver' \in [Markets -> Accounts \cup {ZeroAddress}]
         /\ \A n \in Markets \ {call.do.m} :
               attestationRef'[n] = attestationRef[n] /\ resolver'[n] = resolver[n]
    BY <1>1, <1>8, <2>8
  <2> QED
    BY <1>5, <1>6, <2>3, <2>6, <2>9, <2>10
<1>9. CASE UNCHANGED <<oracleVars, refVars>>
  BY <1>1, <1>5, <1>6, <1>9 DEF oracleVars, refVars
<1> QED
  BY <1>1, <1>7, <1>8, <1>9 DEF mine

\* The run that waits for it hears of a success when its record has been written.
LEMMA MinedIsHeard ==
    ASSUME PublisherIInv, mine, RecordsKept, NEW r \in Clients
    PROVE  /\ wire'[r] \in WireStates(Calls, {0})
           /\ CallIsOwn(r)'
<1>1. RunFacts(r) /\ run' = run /\ wire \in [Clients -> WireStates(Calls, {0})]
      /\ keyFile' = keyFile /\ mempool # <<>> /\ OracleInv
  BY DEF PublisherIInv, PublisherParts, mine, keyVars
<1> DEFINE entry == mempool[1]
           call == mempool[1].call
<1>2. /\ Head(mempool) = entry /\ entry.by \in Clients /\ call \in Calls
  BY <1>1, HeadIs DEF PublisherIInv
<1>3. CASE wire'[r] = wire[r]
  <2>1. KeyFacts /\ OneKeyStays /\ PublisherParts
    BY <1>1 DEF PublisherIInv, OneKeyStays
  <2>2. RunFacts(r)'
    BY <1>1, <1>3, <2>1, StandingRun
  <2> QED
    BY <1>1, <1>3, <2>2 DEF RunFacts
<1>4. CASE wire'[r] # wire[r]
  <2>1. /\ r = entry.by /\ wire[r] = [at |-> "wait", call |-> call]
        /\ \/ /\ wire'[r] = [at |-> "ok", log |-> 0]
              /\ \/ /\ call.call = "commitMarket"
                    /\ commitMarket(Wallet, call.do.m, hashOf(call.by, call.call))
                 \/ /\ call.call = "postResolution"
                    /\ postResolution(Wallet, call.do.m, call.do.outcome,
                                      hashOf(call.by, call.call))
           \/ wire'[r] = [at |-> "thrown"]
    BY <1>1, <1>2, <1>4 DEF mine, mined, hear
  <2>2. /\ wire[r].at = "wait" /\ wire[r].call = call
        /\ wire'[r].at \in {"ok", "thrown"} /\ wire'[r] \in WireStates(Calls, {0})
    BY <2>1 DEF WireStates
  <2>3. busy(r)
    BY <1>1, <2>2 DEF RunFacts, CallIsOwn, Quiet
  <2>4. call = [call |-> run[r].at, do |-> run[r].do, key |-> run[r].key, by |-> r]
    BY <1>1, <2>2, <2>3 DEF RunFacts, CallIsOwn
  <2>5. call.call = run[r].at /\ call.do = run[r].do /\ call.by = r
    BY <2>4
  <2> HIDE DEF call, entry
  <2>6. /\ call.do.m \in Markets /\ hashOf(call.by, call.call) \in Hashes
        /\ hashOf(call.by, call.call)
              = <<r, IF call.call = "commitMarket" THEN "market-precommit"
                     ELSE "market-resolution">>
        /\ call.do \in Commands
    BY <1>2, <2>5, CallIs
  <2>7. ASSUME run[r].at = "commitMarket", wire'[r].at = "ok"
        PROVE  ownCommitment(r, run[r].do.m)'
    <3>1. commitMarket(Wallet, call.do.m, hashOf(call.by, call.call))
      BY <2>1, <2>5, <2>7
    <3>2. /\ market'[call.do.m].preCommitHash = hashOf(call.by, call.call)
          /\ market'[call.do.m].committedAt = now /\ now # 0
      BY <1>1, <2>6, <3>1, CommitEffect DEF OracleInv, OracleTypeOK, Bytes32
    <3> QED
      BY <1>1, <2>5, <2>6, <2>7, <3>2 DEF ownCommitment, isCommitted
  <2>8. ASSUME run[r].at = "postResolution", wire'[r].at = "ok"
        PROVE  ownResolution(r, run[r].do.m, run[r].do.outcome)'
    <3>1. postResolution(Wallet, call.do.m, call.do.outcome, hashOf(call.by, call.call))
      BY <2>1, <2>5, <2>8
    <3>2. call.do.outcome \in Outcomes
      BY <1>1, <2>5, <2>6, <2>8, CommandIs DEF RunFacts, ProgressIsTrue
    <3>3. /\ market'[call.do.m].outcome = call.do.outcome
          /\ market'[call.do.m].contentHash = hashOf(call.by, call.call)
          /\ call.do.outcome # "Unresolved"
      <4>1. OracleTypeOK /\ hashOf(call.by, call.call) \in Bytes32 /\ call.do.m \in Markets
        BY <1>1, <2>6 DEF OracleInv, Bytes32
      <4>2. PICK m \in Markets, o \in Outcomes, h \in Bytes32 :
                 m = call.do.m /\ o = call.do.outcome /\ h = hashOf(call.by, call.call)
        BY <3>2, <4>1
      <4>3. postResolution(Wallet, m, o, h)
        BY <3>1, <4>2
      <4>4. market'[m].outcome = o /\ market'[m].contentHash = h /\ o # "Unresolved"
        BY <4>1, <4>3, ResolveEffect
      <4> QED
        BY <4>2, <4>4
    <3> QED
      BY <1>1, <2>5, <2>6, <2>8, <3>3 DEF ownResolution, isResolved
  <2> QED
    BY <1>1, <2>2, <2>3, <2>7, <2>8 DEF CallIsOwn, busy
<1> QED
  BY <1>3, <1>4

LEMMA MinePublishes ==
    ASSUME PublisherIInv, OracleInv', RecordsKept, mine
    PROVE  PublisherIInv'
<1>1. /\ run' = run /\ faults' = faults /\ keyFile' = keyFile /\ envKey' = envKey
      /\ registry' = registry /\ mempool # <<>> /\ 1 \in DOMAIN mempool
      /\ attestations' = attestations
      /\ mempool \in Seq(Accepted(Calls)) /\ mempool' = RemoveAt(mempool, 1)
      /\ wire \in [Clients -> WireStates(Calls, {0})]
  BY HeadIs DEF mine, mined, keyVars, PublisherIInv, PublisherParts
<1>2. /\ mempool' \in Seq(Accepted(Calls)) /\ Len(mempool') = Len(mempool) - 1
      /\ \A k \in 1 .. Len(mempool) - 1 :
            mempool'[k] = mempool[IF k < 1 THEN k ELSE k + 1]
  BY <1>1, CutOut DEF RemoveAt, cutOut
<1>3. \A i \in DOMAIN mempool' : i + 1 \in DOMAIN mempool /\ mempool'[i] = mempool[i + 1]
  BY <1>1, <1>2
<1>4. PoolIsSigned'
  <2> SUFFICES ASSUME NEW i \in DOMAIN mempool' PROVE CallIsSigned(mempool[i].call)'
    BY DEF PoolIsSigned
  <2>1. PICK call : call = mempool'[i].call /\ CallIsSigned(call)
    BY <1>3 DEF PublisherIInv, SignatureFacts, PoolIsSigned
  <2>2. \A r \in Clients : SignatureStays(r)
    BY <1>1 DEF SignatureStays, signed
  <2>3. CallIsSigned(call)'
    BY <1>1, <2>1, <2>2, SignedStays
  <2> QED
    BY <2>1, <2>3 DEF CallIsSigned
<1>5. KeyFacts' /\ OneKeyStays
  BY <1>1 DEF PublisherIInv, KeyFacts, OneKeyStays
<1>6. wire' \in [Clients -> WireStates(Calls, {0})]
  <2>1. wire' = [c \in Clients |-> wire'[c]]
    BY <1>1 DEF mine, mined, hear
  <2> QED
    BY <2>1, MinedIsHeard
<1>7. PublisherParts'
  BY <1>1, <1>2, <1>6, MinedRecords DEF PublisherIInv, PublisherParts
<1>8. ASSUME NEW r \in Clients PROVE RunFacts(r)'
  BY <1>1, <1>5, <1>8, MinedIsHeard, StandingProgress DEF PublisherIInv, RunFacts
<1>9. ASSUME NEW r \in Clients PROVE RunHasSigned(r)'
  BY <1>1 DEF PublisherIInv, SignatureFacts, RunHasSigned, resolutionBy, attestation, hashOf
<1> QED
  BY <1>4, <1>5, <1>7, <1>8, <1>9, MinedRecords DEF PublisherIInv, SignatureFacts

-------------------------------------------------------------------------------
LEMMA PublisherInitInv == PublisherInit => PublisherIInv
<1> SUFFICES ASSUME PublisherInit PROVE PublisherIInv
  OBVIOUS
<1>1. OracleInv
  BY OracleInitInv DEF PublisherInit
<1>2. /\ run = [r \in Clients |-> Idle] /\ wire = [c \in Clients |-> Quiet]
      /\ mempool = <<>> /\ faults = 0
      /\ attestationRef = [m \in Markets |-> NoRef] /\ attestations = {}
      /\ resolver = [m \in Markets |-> ZeroAddress]
      /\ market = [m \in Markets |-> NoMarket]
  BY DEF PublisherInit, CallInit, OracleInit
<1>3. PublisherParts
  <2>1. Idle \in RunStates /\ Quiet \in WireStates(Calls, {0}) /\ NoRef \in References
    BY DEF RunStates, WireStates, References
  <2>2. <<>> \in Seq(Accepted(Calls)) /\ 0 \in 0 .. MaxFaults
    BY RetryAssumption
  <2> QED
    BY <1>2, <2>1, <2>2 DEF PublisherParts
<1>4. KeyFacts
  BY DEF PublisherInit, KeyFacts
<1>5. ASSUME NEW r \in Clients PROVE RunFacts(r)
  BY <1>2 DEF RunFacts, CallIsOwn, ProgressIsTrue, KeyIsTheOne, busy, signed, Idle
<1>6. SignatureFacts
  BY <1>2 DEF SignatureFacts, PoolIsSigned, RecordIsSigned, RunHasSigned, EnvelopeIsMade,
              isResolved, NoMarket, NoRef, Idle
<1> QED
  BY <1>1, <1>3, <1>4, <1>5, <1>6 DEF PublisherIInv

\* PublisherIInv is inductive.
LEMMA PublisherStepInv ==
    PublisherIInv /\ [PublisherNext]_publisherAllVars => PublisherIInv'
<1> SUFFICES ASSUME PublisherIInv, [PublisherNext]_publisherAllVars
             PROVE  PublisherIInv'
  OBVIOUS
<1>1. [OracleNext]_oracleAllVars /\ OracleInv
  BY PublisherIsOracleStep DEF PublisherIInv, SignatureFacts
<1>2. OracleInv' /\ RecordsKept
  BY <1>1, OracleStepInv, StepKeepsRecords
<1>3. ASSUME NEW r \in Clients,
             \/ \E do \in Commands : start(r, do)
             \/ readLead(r) \/ Send(r) \/ goOn(r) \/ stop(r)
      PROVE  PublisherIInv'
  BY <1>2, <1>3, StartKeepsInv, ReadKeepsInv, SendPublishes, GoOnKeepsInv, StopKeepsInv
<1>4. CASE mine
  BY <1>2, <1>4, MinePublishes
<1>5. ASSUME (\E k \in Keys : writeKey(k)) \/ appendKey \/ publishKey \/ revokeKey
      PROVE  PublisherIInv'
  <2>1. UNCHANGED <<market, run, callVars, attestations, refVars>>
    BY <1>5 DEF writeKey, appendKey, publishKey, revokeKey, oracleAllVars, oracleVars
  <2> QED
    BY <1>2, <1>5, <2>1, KeyStepKeepsInv
<1>6. CASE OtherStep
  BY <1>2, <1>6, OtherKeepsInv
<1>7. ASSUME UNCHANGED <<oracleVars, publisherVars>> PROVE PublisherIInv'
  BY <1>2, <1>7, KeyStepKeepsInv DEF oracleVars, publisherVars
<1>8. UNCHANGED publisherAllVars => UNCHANGED <<oracleVars, publisherVars>>
  BY DEF publisherAllVars, oracleAllVars
<1> QED
  BY <1>3, <1>4, <1>5, <1>6, <1>7, <1>8 DEF PublisherNext

\* Whatever is lost, sent twice, overtaken by others or left half-done, the runs know
\* where they stand and every signature leads back to the run that made it.
THEOREM PublisherIInvHolds == PublisherSpec => []PublisherIInv
BY PublisherInitInv, PublisherStepInv, PTL DEF PublisherSpec

\* The command line, the generator and the others act on the oracle by its calls only:
\* what is proved of OracleSpec holds of the whole system.
THEOREM PublisherUsesTheOracle == PublisherSpec => OracleSpec
<1>1. PublisherInit => OracleInit
  BY DEF PublisherInit
<1>2. PublisherIInv /\ [PublisherNext]_publisherAllVars => [OracleNext]_oracleAllVars
  BY PublisherIsOracleStep DEF PublisherIInv, SignatureFacts
<1> QED
  BY <1>1, <1>2, PublisherIInvHolds, PTL DEF PublisherSpec, OracleSpec

\* A run that reports success has its own record on the chain, and `read` shows the true
\* lead time.
LEMMA InvGivesReports == PublisherIInv => ReportsAreTrue
<1> SUFFICES ASSUME PublisherIInv PROVE ReportsAreTrue
  OBVIOUS
<1>1. PublisherTypeOK
  BY DEF PublisherIInv, PublisherParts, KeyFacts, PublisherTypeOK
<1>2. ASSUME NEW r \in Clients
      PROVE  LET rec == market[run[r].do.m]
             IN  /\ run[r].at = "done" =>
                      /\ run[r].do.cmd \in {"commit", "demo"} =>
                           rec.preCommitHash = <<r, "market-precommit">>
                      /\ run[r].do.cmd \in {"resolve", "demo"} =>
                           /\ rec.contentHash = <<r, "market-resolution">>
                           /\ rec.outcome = run[r].do.outcome
                 /\ run[r].at = "shown" /\ run[r].saw =>
                      rec.outcome # "Unresolved"
                      /\ run[r].lead = rec.resolvedAt - rec.committedAt
  <2>1. ProgressIsTrue(r)
    BY DEF PublisherIInv, RunFacts
  <2> QED
    BY <2>1 DEF ProgressIsTrue, commits, resolves, ownCommitment, ownResolution, isResolved
<1> QED
  BY <1>1, <1>2 DEF ReportsAreTrue

THEOREM ReportsHold == PublisherSpec => []ReportsAreTrue
BY PublisherIInvHolds, InvGivesReports, PTL

\* What verify-cachet.mjs calls verified a run signed; if the CLI's wallet sent it, it
\* is what the run was told to publish; and an honest envelope is never turned away.
LEMMA InvGivesVerdicts == PublisherIInv => VerdictsAreRight
<1> SUFFICES ASSUME PublisherIInv, NEW m \in Markets, NEW e \in loadEnvelope(m)
             PROVE  /\ verified(m, e) =>
                         /\ e \in attestations /\ e.signer = registry.key
                         /\ market[m].committedAt < market[m].resolvedAt
                         /\ resolver[m] = Wallet =>
                              \E r \in Clients :
                                 /\ e.hash = hashOf(r, "postResolution")
                                 /\ run[r].do.m = m
                                 /\ run[r].do.outcome = market[m].outcome
                    /\ /\ attestationRef[m].to = "envelope"
                       /\ e.signer \in Keys /\ registry.active
                       /\ market[m].committedAt < market[m].resolvedAt
                       => verified(m, e)
  BY DEF VerdictsAreRight
<1>1. market[m].committedAt \in Nat /\ market[m].resolvedAt \in Nat
  BY DEF PublisherIInv, OracleInv, OracleTypeOK, MarketRecords
<1>2. registry.active => registry.key \in Keys /\ registry.key = keyFile
  BY DEF PublisherIInv, KeyFacts
<1>3. EnvelopeIsMade(m) /\ RecordIsSigned(m)
  BY DEF PublisherIInv, SignatureFacts
<1>4. attestationRef[m].to = "envelope" => e = attestationRef[m].envelope
  BY DEF loadEnvelope
<1>5. ASSUME verified(m, e)
      PROVE  /\ e \in attestations /\ e.signer = registry.key
             /\ market[m].committedAt < market[m].resolvedAt
             /\ resolver[m] = Wallet =>
                  \E r \in Clients :
                     /\ e.hash = hashOf(r, "postResolution")
                     /\ run[r].do.m = m /\ run[r].do.outcome = market[m].outcome
  <2>1. /\ isResolved(m) /\ e.hash = market[m].contentHash /\ e.signer = registry.key
        /\ market[m].committedAt < market[m].resolvedAt /\ registry.active
    BY <1>1, <1>5 DEF verified, envelopeChecks
  <2>2. e \in attestations
    <3>1. CASE attestationRef[m].to = "envelope"
      BY <1>3, <1>4, <3>1 DEF EnvelopeIsMade, signs
    <3>2. CASE attestationRef[m].to = "page"
      BY <1>2, <2>1, <3>2 DEF loadEnvelope
    <3> QED
      BY <3>1, <3>2 DEF loadEnvelope
  <2> QED
    BY <1>3, <2>1, <2>2 DEF RecordIsSigned
<1>6. ASSUME attestationRef[m].to = "envelope", e.signer \in Keys, registry.active,
             market[m].committedAt < market[m].resolvedAt
      PROVE  verified(m, e)
  <2>1. isResolved(m)
    BY <1>3, <1>6 DEF EnvelopeIsMade
  <2>2. PICK r \in Clients : /\ signed(r) /\ e = resolutionBy(r, run[r].key)
                             /\ market[m].contentHash = hashOf(r, "postResolution")
    BY <1>3, <1>4, <1>6 DEF EnvelopeIsMade, signs
  <2>3. run[r].key \in Keys /\ e.signer = run[r].key /\ e.public_key = run[r].key
        /\ e.hash = market[m].contentHash
    BY <1>6, <2>2 DEF resolutionBy, attestation
  <2>4. run[r].key = registry.key
    BY <1>2, <1>6, <2>2, <2>3 DEF PublisherIInv, RunFacts, KeyIsTheOne
  <2>5. market[m].committedAt # 0 /\ market[m].resolvedAt > market[m].committedAt
    BY <1>1, <1>6, <2>1
       DEF PublisherIInv, OracleInv, CommitPrecedesResolution, isCommitted
  <2> QED
    BY <1>6, <2>1, <2>3, <2>4, <2>5 DEF verified, envelopeChecks
<1> QED
  BY <1>5, <1>6

THEOREM VerdictsHold == PublisherSpec => []VerdictsAreRight
BY PublisherIInvHolds, InvGivesVerdicts, PTL

------------------------------------------------------------------------------
(* The market. *)

\* MarketTypeOK without the balance, whose sign is a matter of sums.
PoolTypeOK ==
    /\ marketId \in Markets \cup {NoId}
    /\ bettingDeadline \in Nat
    /\ yesPool \in Nat /\ noPool \in Nat
    /\ yesStake \in [Accounts -> Nat]
    /\ noStake \in [Accounts -> Nat]
    /\ claimed \in [Accounts -> BOOLEAN]
    /\ mode \in Modes
    /\ finalOutcome \in Outcomes
    /\ lock \in {0, 1}
    /\ calls \in Seq(Accounts)

\* A rule is chosen for a deployed pool, and an outcome copied with the rule.
RuleAfterDeployment ==
    /\ mode # "Open" => deployed
    /\ mode = "Open" => finalOutcome = "Unresolved"

MarketInv ==
    /\ OracleInv
    /\ PoolTypeOK
    /\ RuleAfterDeployment
    /\ SettlementObeysOracle
    /\ OneTransferAtATime

-------------------------------------------------------------------------------
(* The oracle beside the market. *)

\* Whatever the market does, the oracle takes a step of its own or none.
LEMMA MarketLeavesOracle == [MarketNext]_marketAllVars => [OracleNext]_oracleAllVars
BY DEF MarketNext, marketAllVars, OracleNext, NextBlock

\* A verdict stays, and a new one is stamped with the time it is given.
LEMMA VerdictsStay ==
    ASSUME OracleTypeOK, OracleStep, NEW m \in Markets
    PROVE  /\ isResolved(m) => /\ market'[m].outcome = market[m].outcome
                               /\ market'[m].resolvedAt = market[m].resolvedAt
           /\ ~isResolved(m) /\ isResolved(m)' => market'[m].resolvedAt = now
<1>1. CASE \E sender \in Accounts, n \in Markets, h \in Bytes32 :
              commitMarket(sender, n, h)
  BY <1>1 DEF commitMarket, writeCommitment, OracleTypeOK, MarketRecords, isResolved
<1>2. CASE \E sender \in Accounts, n \in Markets, o \in Outcomes, h \in Bytes32 :
              postResolution(sender, n, o, h)
  BY <1>2 DEF postResolution, writeResolution, OracleTypeOK, MarketRecords, isResolved
<1>3. CASE \E sender \in Accounts, p \in Accounts \cup {ZeroAddress} :
              setPublisher(sender, p)
  BY <1>3 DEF setPublisher, isResolved
<1>. QED  BY <1>1, <1>2, <1>3, OracleStepCases

-------------------------------------------------------------------------------
(* The invariant, one lemma per action. *)

LEMMA MarketInitInv == MarketInit => MarketInv
<1>. SUFFICES ASSUME MarketInit PROVE MarketInv
  OBVIOUS
<1>1. OracleInv
  BY OracleInitInv DEF MarketInit
<1>2. PoolTypeOK
  BY DEF MarketInit, PoolTypeOK, Modes, Outcomes
<1>3. RuleAfterDeployment /\ SettlementObeysOracle /\ OneTransferAtATime
  BY DEF MarketInit, RuleAfterDeployment, SettlementObeysOracle, OneTransferAtATime
<1>. QED  BY <1>1, <1>2, <1>3 DEF MarketInv

\* The oracle moves and the market does not.
LEMMA OracleStepKeepsMarket ==
    ASSUME MarketInv, OracleStep, UNCHANGED <<now, marketVars>>
    PROVE  PoolTypeOK' /\ RuleAfterDeployment' /\ SettlementObeysOracle'
             /\ OneTransferAtATime'
<1>. USE DEF marketVars, deployVars, poolVars
<1>1. PoolTypeOK' /\ RuleAfterDeployment' /\ OneTransferAtATime'
  BY DEF MarketInv, PoolTypeOK, RuleAfterDeployment, OneTransferAtATime, deployed
<1>2. SettlementObeysOracle'
  <2>1. CASE mode = "Open"
    BY <2>1 DEF MarketInv, RuleAfterDeployment, SettlementObeysOracle
  <2>2. CASE mode # "Open"
    <3>1. marketId \in Markets /\ marketId' = marketId
      BY <2>2 DEF MarketInv, RuleAfterDeployment, PoolTypeOK, deployed
    <3>2. /\ isResolved(marketId) =>
                /\ market'[marketId].outcome = market[marketId].outcome
                /\ market'[marketId].resolvedAt = market[marketId].resolvedAt
          /\ ~isResolved(marketId) /\ isResolved(marketId)' =>
                market'[marketId].resolvedAt = now
      BY <3>1, VerdictsStay DEF MarketInv, OracleInv, isResolved
    <3>. QED
      BY <3>1, <3>2
         DEF MarketInv, SettlementObeysOracle, isResolved, resolutionDeadline
  <2>. QED  BY <2>1, <2>2
<1>. QED  BY <1>1, <1>2

\* Time passes: a grace period that is over stays over.
LEMMA NextBlockKeepsMarket ==
    ASSUME MarketInv, NextBlock
    PROVE  PoolTypeOK' /\ RuleAfterDeployment' /\ SettlementObeysOracle'
             /\ OneTransferAtATime'
<1>. USE DEF NextBlock, AdvanceTime, oracleVars, marketVars, deployVars, poolVars
<1>1. PoolTypeOK' /\ RuleAfterDeployment' /\ OneTransferAtATime'
  BY DEF MarketInv, PoolTypeOK, RuleAfterDeployment, OneTransferAtATime, deployed
<1>2. now \in Nat /\ resolutionDeadline \in Nat
  BY MarketAssumption DEF MarketInv, OracleInv, OracleTypeOK, PoolTypeOK, resolutionDeadline
<1>3. SettlementObeysOracle'
  BY <1>2 DEF MarketInv, SettlementObeysOracle, isResolved, resolutionDeadline
<1>. QED  BY <1>1, <1>3

\* The pool is deployed: it has no rule before and none after.
LEMMA ConstructKeepsMarket ==
    ASSUME MarketInv, NEW m \in Markets, NEW d \in Deadlines, construct(m, d),
           UNCHANGED oracleAllVars
    PROVE  PoolTypeOK' /\ RuleAfterDeployment' /\ SettlementObeysOracle'
             /\ OneTransferAtATime'
<1>. USE DEF construct, poolVars
<1>1. mode = "Open" /\ finalOutcome = "Unresolved"
  BY DEF MarketInv, RuleAfterDeployment
<1>2. PoolTypeOK'
  BY MarketAssumption DEF MarketInv, PoolTypeOK
<1>3. RuleAfterDeployment' /\ SettlementObeysOracle' /\ OneTransferAtATime'
  BY <1>1 DEF MarketInv, RuleAfterDeployment, SettlementObeysOracle, OneTransferAtATime
<1>. QED  BY <1>2, <1>3

\* Where bets are accepted no rule has been chosen.
LEMMA OpenMeansUndecided ==
    ASSUME MarketInv, isOpen
    PROVE  mode = "Open" /\ marketId \in Markets /\ ~isResolved(marketId)
<1>1. marketId \in Markets /\ ~isResolved(marketId)
  BY DEF MarketInv, PoolTypeOK, isOpen, deployed
<1>2. now \in Nat /\ bettingDeadline \in Nat /\ ResolutionGrace \in Nat
  BY MarketAssumption DEF MarketInv, OracleInv, OracleTypeOK, PoolTypeOK
<1>3. ~(now > resolutionDeadline)
  BY <1>2 DEF isOpen, resolutionDeadline
<1>4. mode \in Modes /\ finalOutcome \in Outcomes
  BY DEF MarketInv, PoolTypeOK
<1>5. finalOutcome = "Unresolved"
  BY <1>1, <1>4 DEF MarketInv, SettlementObeysOracle, isResolved
<1>. QED
  BY <1>1, <1>3, <1>4, <1>5 DEF MarketInv, SettlementObeysOracle, Modes

LEMMA BetKeepsMarket ==
    ASSUME MarketInv, NEW a \in Accounts, NEW v \in Bets, NEW isYes \in BOOLEAN,
           _bet(a, isYes, v), UNCHANGED oracleAllVars
    PROVE  PoolTypeOK' /\ RuleAfterDeployment' /\ SettlementObeysOracle'
             /\ OneTransferAtATime'
<1>. USE DEF _bet, deployVars
<1>1. mode = "Open" /\ finalOutcome = "Unresolved"
  BY OpenMeansUndecided DEF MarketInv, RuleAfterDeployment
<1>2. PoolTypeOK'
  <2>1. v \in Nat
    BY MarketAssumption
  <2>2. yesPool' \in Nat /\ noPool' \in Nat
    BY <2>1 DEF MarketInv, PoolTypeOK
  <2>3. yesStake' \in [Accounts -> Nat] /\ noStake' \in [Accounts -> Nat]
    <3>1. yesStake \in [Accounts -> Nat] /\ noStake \in [Accounts -> Nat]
      BY DEF MarketInv, PoolTypeOK
    <3>2. \/ /\ yesStake' = [yesStake EXCEPT ![a] = yesStake[a] + v]
             /\ noStake' = noStake
          \/ /\ noStake' = [noStake EXCEPT ![a] = noStake[a] + v]
             /\ yesStake' = yesStake
      OBVIOUS
    <3>. QED  BY <2>1, <3>1, <3>2
  <2>. QED  BY <2>2, <2>3 DEF MarketInv, PoolTypeOK
<1>3. RuleAfterDeployment' /\ SettlementObeysOracle' /\ OneTransferAtATime'
  BY <1>1 DEF MarketInv, RuleAfterDeployment, SettlementObeysOracle, OneTransferAtATime
<1>. QED  BY <1>2, <1>3

\* The rule is chosen, from the verdict or because the grace period is over.
LEMMA SettleKeepsMarket ==
    ASSUME MarketInv, settle, UNCHANGED oracleAllVars
    PROVE  PoolTypeOK' /\ RuleAfterDeployment' /\ SettlementObeysOracle'
             /\ OneTransferAtATime'
<1>. USE DEF settle, deployVars, poolVars, oracleAllVars, oracleVars
<1>1. marketId \in Markets /\ marketId' = marketId /\ market' = market /\ now' = now
  BY DEF MarketInv, PoolTypeOK, deployed
<1>2. market[marketId].outcome \in Outcomes
  BY <1>1 DEF MarketInv, OracleInv, OracleTypeOK, MarketRecords
<1>3. yesPool \in Nat /\ noPool \in Nat
  BY DEF MarketInv, PoolTypeOK
<1>4. PoolTypeOK'
  BY <1>2 DEF MarketInv, PoolTypeOK, modeFor, Modes
<1>5. RuleAfterDeployment' /\ OneTransferAtATime'
  BY <1>2 DEF MarketInv, RuleAfterDeployment, OneTransferAtATime, deployed, modeFor, Modes
<1>6. SettlementObeysOracle'
  <2>1. CASE isResolved(marketId)
    BY <1>1, <1>2, <1>3, <2>1
       DEF SettlementObeysOracle, modeFor, isResolved, Outcomes
  <2>2. CASE ~isResolved(marketId)
    BY <1>1, <2>2
       DEF MarketInv, RuleAfterDeployment, SettlementObeysOracle, isResolved,
           resolutionDeadline
  <2>. QED  BY <2>1, <2>2
<1>. QED  BY <1>4, <1>5, <1>6

\* A transfer begins under the lock, or ends and releases it.
LEMMA ClaimKeepsMarket ==
    ASSUME MarketInv, UNCHANGED oracleAllVars,
           (\E a \in Accounts : claim(a)) \/ claimReturns
    PROVE  PoolTypeOK' /\ RuleAfterDeployment' /\ SettlementObeysOracle'
             /\ OneTransferAtATime'
<1>. USE DEF deployVars, poolVars
<1>0. calls \in Seq(Accounts) /\ lock \in {0, 1} /\ Len(calls) = lock
  BY DEF MarketInv, PoolTypeOK, OneTransferAtATime
<1>1. calls' \in Seq(Accounts) /\ lock' \in {0, 1} /\ Len(calls') = lock'
  <2>1. CASE \E a \in Accounts : claim(a)
    BY <1>0, <2>1 DEF claim
  <2>2. CASE claimReturns
    <3>1. Len(calls) = 1 /\ calls' = SubSeq(calls, 1, 0) /\ lock' = 0
      BY <1>0, <2>2, EmptySeq DEF claimReturns, Front
    <3>2. calls' = <<>>
      BY <3>1, SubSeqEmpty
    <3>. QED  BY <3>1, <3>2
  <2>. QED  BY <2>1, <2>2
<1>2. PoolTypeOK'
  BY <1>1 DEF MarketInv, PoolTypeOK, claim, claimReturns
<1>3. RuleAfterDeployment' /\ SettlementObeysOracle'
  BY DEF MarketInv, RuleAfterDeployment, SettlementObeysOracle, claim, claimReturns,
         deployed, isResolved, resolutionDeadline, oracleAllVars, oracleVars
<1>. QED  BY <1>1, <1>2, <1>3 DEF OneTransferAtATime

LEMMA MarketStepInv == MarketInv /\ [MarketNext]_marketAllVars => MarketInv'
<1>. SUFFICES ASSUME MarketInv, [MarketNext]_marketAllVars PROVE MarketInv'
  OBVIOUS
<1>1. OracleInv'
  BY MarketLeavesOracle, OracleStepInv DEF MarketInv
<1>. SUFFICES PoolTypeOK' /\ RuleAfterDeployment' /\ SettlementObeysOracle'
                /\ OneTransferAtATime'
  BY <1>1 DEF MarketInv
<1>2. CASE OracleStep /\ UNCHANGED <<now, marketVars>>
  BY <1>2, OracleStepKeepsMarket
<1>3. CASE MarketStep /\ UNCHANGED oracleAllVars
  <2>1. CASE \E m \in Markets, d \in Deadlines : construct(m, d)
    BY <1>3, <2>1, ConstructKeepsMarket
  <2>2. CASE \E a \in Accounts, v \in Bets : betYes(a, v) \/ betNo(a, v)
    BY <1>3, <2>2, BetKeepsMarket DEF betYes, betNo
  <2>3. CASE settle
    BY <1>3, <2>3, SettleKeepsMarket
  <2>4. CASE (\E a \in Accounts : claim(a)) \/ claimReturns
    BY <1>3, <2>4, ClaimKeepsMarket
  <2>. QED  BY <1>3, <2>1, <2>2, <2>3, <2>4 DEF MarketStep
<1>4. CASE NextBlock
  BY <1>4, NextBlockKeepsMarket
<1>5. CASE UNCHANGED marketAllVars
  BY <1>5 DEF MarketInv, PoolTypeOK, RuleAfterDeployment, SettlementObeysOracle,
              OneTransferAtATime, marketAllVars, marketVars, deployVars, poolVars,
              oracleAllVars, oracleVars, deployed, isResolved, resolutionDeadline
<1>. QED  BY <1>2, <1>3, <1>4, <1>5 DEF MarketNext

LEMMA MarketInvHolds == MarketSpec => []MarketInv
<1>1. MarketInit => MarketInv
  BY MarketInitInv
<1>2. MarketInv /\ [MarketNext]_marketAllVars => MarketInv'
  BY MarketStepInv
<1>. QED  BY <1>1, <1>2, PTL DEF MarketSpec

-------------------------------------------------------------------------------
(* Shares. *)

\* The shares of a pool, rounded down one by one, fit into it, and what rounding
\* leaves is less than one unit per winner.  Multiplied by the winning side,
\* a share lies within winning - 1 of what the stake deserves.
LEMMA SharesFit ==
    ASSUME NEW S, IsFiniteSet(S), NEW stake \in [S -> Nat], NEW losing \in Nat,
           NEW winning, winning = SumFunctionOnSet(stake, S), winning > 0, NEW f,
           \A x \in S : f[x] = IF stake[x] # 0 THEN share(stake[x], winning, losing) ELSE 0
    PROVE  /\ SumFunctionOnSet(f, S) <= winning + losing
           /\ winning + losing - SumFunctionOnSet(f, S)
                < Cardinality({x \in S : stake[x] # 0})
<1> DEFINE W == {x \in S : stake[x] # 0}
           part == [x \in S |-> (stake[x] * losing) \div winning]
           merit == [x \in S |-> losing * stake[x]]
           low == [x \in S |-> winning * part[x]]
           one == [x \in S |-> IF x \in W THEN 1 ELSE 0]
           room == [x \in S |-> (winning - 1) * one[x]]
           high == [x \in S |-> low[x] + room[x]]
           parts == SumFunctionOnSet(part, S)
           n == Cardinality(W)
<1>1. winning \in Nat \ {0}
  BY SumNat
<1>2. \A p \in Nat : /\ (p * losing) \div winning \in Nat
                     /\ winning * ((p * losing) \div winning) <= losing * p
                     /\ losing * p <= winning * ((p * losing) \div winning) + (winning - 1)
  BY <1>1
<1>3. ASSUME NEW x \in S
      PROVE  /\ stake[x] \in Nat /\ part[x] \in Nat /\ low[x] \in Nat
             /\ one[x] \in {0, 1} /\ room[x] \in Nat
             /\ low[x] <= merit[x] /\ merit[x] <= high[x]
             /\ f[x] = stake[x] + part[x]
  <2>1. stake[x] \in Nat
    OBVIOUS
  <2>2. CASE stake[x] = 0
    <3>1. part[x] = 0 /\ merit[x] = 0 /\ low[x] = 0 /\ one[x] = 0 /\ room[x] = 0 /\ f[x] = 0
      BY <1>1, <2>2
    <3>2. high[x] = 0
      BY <3>1
    <3> QED
      BY <2>2, <3>1, <3>2
  <2>3. CASE stake[x] # 0
    <3>1. one[x] = 1 /\ room[x] = winning - 1
      BY <1>1, <2>3
    <3>2. part[x] \in Nat /\ low[x] = winning * part[x] /\ merit[x] = losing * stake[x]
      BY <1>2, <2>1
    <3>3. low[x] <= merit[x] /\ merit[x] <= low[x] + (winning - 1)
      BY <1>2, <2>1
    <3>4. low[x] \in Nat
      BY <1>1, <3>2
    <3>5. f[x] = stake[x] + part[x]
      BY <2>3 DEF share
    <3> QED
      BY <1>1, <2>1, <3>1, <3>2, <3>3, <3>4, <3>5
  <2> QED
    BY <2>1, <2>2, <2>3
<1>4. /\ \A x \in S : merit[x] = losing * stake[x] /\ low[x] = winning * part[x]
      /\ \A x \in S : room[x] = (winning - 1) * one[x] /\ high[x] = low[x] + room[x]
  OBVIOUS
<1>5. SumFunctionOnSet(one, S) = n
  <2>1. W \in SUBSET S /\ \A x \in S : one[x] = IF x \in W THEN 1 ELSE 0
    OBVIOUS
  <2> HIDE DEF W, one
  <2> QED
    BY <2>1, SumCount
<1>6. n \in Nat \ {0}
  <2>1. W # {}
    <3> SUFFICES ASSUME \A x \in S : stake[x] = 0 PROVE FALSE
      OBVIOUS
    <3> QED
      BY <1>1, SumZero
  <2>2. IsFiniteSet(W)
    BY FS_Subset
  <2> HIDE DEF W
  <2> QED
    BY <2>1, <2>2, FS_CardinalityType, FS_EmptySet
<1> HIDE DEF part, merit, low, one, room, high, n
<1>7. /\ SumFunctionOnSet(merit, S) = losing * winning
      /\ SumFunctionOnSet(low, S) = winning * parts
      /\ SumFunctionOnSet(room, S) = (winning - 1) * n
  <2>1. losing \in Int /\ winning \in Int /\ winning - 1 \in Int
    BY <1>1
  <2>2. \A x \in S : stake[x] \in Int /\ one[x] \in Int /\ part[x] \in Int
    BY <1>3
  <2>3. SumFunctionOnSet(merit, S) = losing * SumFunctionOnSet(stake, S)
    BY <1>4, <2>1, <2>2, SumScale
  <2>4. SumFunctionOnSet(low, S) = winning * parts
    BY <1>4, <2>1, <2>2, SumScale
  <2>5. SumFunctionOnSet(room, S) = (winning - 1) * SumFunctionOnSet(one, S)
    <3> DEFINE k == winning - 1
    <3>1. k \in Int /\ \A x \in S : room[x] = k * one[x]
      BY <1>4, <2>1
    <3> HIDE DEF k
    <3>2. SumFunctionOnSet(room, S) = k * SumFunctionOnSet(one, S)
      BY <2>2, <3>1, SumScale
    <3> QED
      BY <3>2 DEF k
  <2> QED
    BY <1>5, <2>3, <2>4, <2>5
<1>8. SumFunctionOnSet(high, S) = winning * parts + (winning - 1) * n
  BY <1>3, <1>4, <1>7, SumPlus
<1>9. /\ SumFunctionOnSet(low, S) <= SumFunctionOnSet(merit, S)
      /\ SumFunctionOnSet(merit, S) <= SumFunctionOnSet(high, S)
  <2>1. \A x \in S : low[x] \in Int /\ merit[x] \in Int /\ high[x] \in Int
    BY <1>3, <1>4
  <2> QED
    BY <1>3, <2>1, SumMonotone
<1>10. parts \in Nat
  BY <1>3, SumNat
<1>11. SumFunctionOnSet(f, S) = winning + parts
  BY <1>3, SumPlus
<1> HIDE DEF parts
<1>12. winning * parts <= winning * losing
  BY <1>1, <1>7, <1>9, <1>10
<1>13. parts <= losing
  <2> SUFFICES ASSUME parts >= losing + 1 PROVE FALSE
    BY <1>10
  <2>1. winning * parts >= winning * (losing + 1)
    BY <1>1, <1>10
  <2> QED
    BY <1>1, <1>10, <1>12, <2>1
<1>14. losing - parts < n
  <2> SUFFICES ASSUME losing >= parts + n PROVE FALSE
    BY <1>6, <1>10
  <2>1. winning * losing <= winning * parts + (winning - 1) * n
    BY <1>1, <1>6, <1>7, <1>8, <1>9, <1>10
  <2>2. winning * losing >= winning * (parts + n)
    BY <1>1, <1>6, <1>10
  <2>3. winning * (parts + n) = winning * parts + (winning - 1) * n + n
    BY <1>1, <1>6, <1>10
  <2>4. winning * parts \in Nat /\ (winning - 1) * n \in Nat /\ winning * losing \in Nat
    BY <1>1, <1>6, <1>10
  <2> QED
    BY <1>6, <2>1, <2>2, <2>3, <2>4
<1>15. SumFunctionOnSet(f, S) <= winning + losing
  BY <1>1, <1>10, <1>11, <1>13
<1>16. winning + losing - SumFunctionOnSet(f, S) < n
  BY <1>1, <1>6, <1>10, <1>11, <1>14
<1> QED
  BY <1>15, <1>16 DEF n

\* The pools are the stakes, each side its own.
PoolsAreStakes ==
    /\ yesPool = SumFunction(yesStake)
    /\ noPool = SumFunction(noStake)

owed(m) == [a \in Accounts |-> entitlement(a, m)]

\* Under any rule the entitlements fit into the two pools; a refund hands out
\* all of them, and a payout all but the winners' dust.
LEMMA EntitlementsFit ==
    ASSUME PoolTypeOK, PoolsAreStakes, NEW m \in Modes
    PROVE  /\ owed(m) \in [Accounts -> Nat]
           /\ SumFunction(owed(m)) \in Nat
           /\ SumFunction(owed(m)) <= yesPool + noPool
           /\ m = "Refund" => SumFunction(owed(m)) = yesPool + noPool
           /\ m = "PayoutYes" /\ yesPool > 0 =>
                 yesPool + noPool - SumFunction(owed(m))
                   < Cardinality({a \in Accounts : yesStake[a] # 0})
           /\ m = "PayoutNo" /\ noPool > 0 =>
                 yesPool + noPool - SumFunction(owed(m))
                   < Cardinality({a \in Accounts : noStake[a] # 0})
           /\ m = "Open" => \A a \in Accounts : entitlement(a, m) = 0
<1> DEFINE sum == SumFunctionOnSet(owed(m), Accounts)
<1>0. /\ IsFiniteSet(Accounts)
      /\ yesStake \in [Accounts -> Nat] /\ noStake \in [Accounts -> Nat]
      /\ yesPool \in Nat /\ noPool \in Nat
  BY MarketAssumption DEF PoolTypeOK
<1>1. /\ yesPool = SumFunctionOnSet(yesStake, Accounts)
      /\ noPool = SumFunctionOnSet(noStake, Accounts)
  BY <1>0 DEF PoolsAreStakes, SumFunction
<1>2. SumFunction(owed(m)) = sum
  BY DEF SumFunction, owed
<1>3. \A a \in Accounts : yesStake[a] <= yesPool /\ noStake[a] <= noPool
  BY <1>0, <1>1, SumNat
<1>4. \A a \in Accounts : owed(m)[a] = entitlement(a, m)
  BY DEF owed
<1>5. ASSUME NEW a \in Accounts PROVE entitlement(a, m) \in Nat
  <2>1. yesStake[a] \in Nat /\ noStake[a] \in Nat
    BY <1>0
  <2>2. ASSUME NEW s \in Nat, NEW w \in Nat \ {0}, NEW l \in Nat
        PROVE  share(s, w, l) \in Nat
    BY DEF share
  <2>3. yesStake[a] # 0 => yesPool \in Nat \ {0}
    BY <1>0, <1>3, <2>1
  <2>4. noStake[a] # 0 => noPool \in Nat \ {0}
    BY <1>0, <1>3, <2>1
  <2> QED
    BY <1>0, <2>1, <2>2, <2>3, <2>4 DEF entitlement
<1>6. owed(m) \in [Accounts -> Nat] /\ sum \in Nat
  <2>1. owed(m) \in [Accounts -> Nat]
    BY <1>5 DEF owed
  <2> QED
    BY <1>0, <2>1, SumNat
<1>7. CASE m = "Refund"
  <2>1. \A a \in Accounts : owed(m)[a] = yesStake[a] + noStake[a]
    BY <1>4, <1>7 DEF entitlement
  <2>2. \A a \in Accounts : yesStake[a] \in Int /\ noStake[a] \in Int
    BY <1>0
  <2>3. sum = yesPool + noPool
    BY <1>0, <1>1, <2>1, <2>2, SumPlus
  <2> QED
    BY <1>0, <1>2, <1>6, <1>7, <2>3
<1>8. CASE m = "PayoutYes"
  <2>1. \A a \in Accounts : owed(m)[a] =
            IF yesStake[a] # 0 THEN share(yesStake[a], yesPool, noPool) ELSE 0
    BY <1>4, <1>8 DEF entitlement
  <2>2. CASE yesPool = 0
    <3>1. \A a \in Accounts : owed(m)[a] = 0
      BY <1>0, <1>3, <2>1, <2>2
    <3>2. sum = 0
      BY <1>0, <3>1, SumZero
    <3> QED
      BY <1>0, <1>2, <1>6, <1>8, <2>2, <3>2
  <2>3. CASE yesPool > 0
    <3>1. /\ sum <= yesPool + noPool
          /\ yesPool + noPool - sum < Cardinality({a \in Accounts : yesStake[a] # 0})
      BY <1>0, <1>1, <2>1, <2>3, SharesFit
    <3> QED
      BY <1>2, <1>6, <1>8, <3>1
  <2> QED
    BY <1>0, <2>2, <2>3
<1>9. CASE m = "PayoutNo"
  <2>1. \A a \in Accounts : owed(m)[a] =
            IF noStake[a] # 0 THEN share(noStake[a], noPool, yesPool) ELSE 0
    BY <1>4, <1>9 DEF entitlement
  <2>2. CASE noPool = 0
    <3>1. \A a \in Accounts : owed(m)[a] = 0
      BY <1>0, <1>3, <2>1, <2>2
    <3>2. sum = 0
      BY <1>0, <3>1, SumZero
    <3> QED
      BY <1>0, <1>2, <1>6, <1>9, <2>2, <3>2
  <2>3. CASE noPool > 0
    <3> DEFINE n == Cardinality({a \in Accounts : noStake[a] # 0})
    <3>1. sum <= noPool + yesPool /\ noPool + yesPool - sum < n
      BY <1>0, <1>1, <2>1, <2>3, SharesFit
    <3>2. n \in Nat
      BY <1>0, FS_Subset, FS_CardinalityType
    <3>3. sum <= yesPool + noPool /\ yesPool + noPool - sum < n
      <4> HIDE DEF n, sum
      <4> QED
        BY <1>0, <1>6, <3>1, <3>2
    <3> QED
      BY <1>2, <1>6, <1>9, <3>3
  <2> QED
    BY <1>0, <2>2, <2>3
<1>10. CASE m = "Open"
  <2>1. \A a \in Accounts : entitlement(a, m) = 0
    BY <1>10 DEF entitlement
  <2>2. sum = 0
    BY <1>0, <1>4, <2>1, SumZero
  <2> QED
    BY <1>0, <1>2, <1>6, <1>10, <2>1, <2>2
<1> QED
  BY <1>7, <1>8, <1>9, <1>10 DEF Modes

-------------------------------------------------------------------------------
(* Money. *)

paid == [a \in Accounts |-> IF claimed[a] THEN entitlement(a, mode) ELSE 0]

\* Every unit staked is in the pool or has been paid to somebody who was owed
\* it; before a rule is chosen nobody has been paid.
Funded ==
    /\ PoolsAreStakes
    /\ mode = "Open" => \A a \in Accounts : ~claimed[a]
    /\ balance \in Int
    /\ balance + SumFunction(paid) = yesPool + noPool

LEMMA NothingPaid ==
    ASSUME \A a \in Accounts : paid[a] = 0
    PROVE  SumFunction(paid) = 0
<1>1. SumFunction(paid) = SumFunctionOnSet(paid, Accounts)
  BY DEF SumFunction, paid
<1> QED
  BY <1>1, MarketAssumption, SumZero

LEMMA FundedAtFirst == MarketInit => Funded
<1> SUFFICES ASSUME MarketInit PROVE Funded
  OBVIOUS
<1>1. /\ yesPool = 0 /\ noPool = 0 /\ balance = 0
      /\ yesStake = [a \in Accounts |-> 0] /\ noStake = [a \in Accounts |-> 0]
      /\ claimed = [a \in Accounts |-> FALSE]
  BY DEF MarketInit
<1>2. SumFunction(yesStake) = 0 /\ SumFunction(noStake) = 0
  BY <1>1, MarketAssumption, SumZero DEF SumFunction
<1>3. SumFunction(paid) = 0
  BY <1>1, NothingPaid DEF paid
<1> QED
  BY <1>1, <1>2, <1>3 DEF Funded, PoolsAreStakes

\* Whatever moves neither the stakes, nor the claims, nor the rule, nor the balance.
LEMMA FundedStays ==
    ASSUME Funded, UNCHANGED <<poolVars, claimed, mode, balance>>
    PROVE  Funded'
BY DEF Funded, PoolsAreStakes, paid, entitlement, poolVars

\* A bet grows one stake, its pool and the balance alike.
LEMMA BetIsFunded ==
    ASSUME MarketInv, Funded, NEW a \in Accounts, NEW v \in Bets,
           NEW isYes \in BOOLEAN, _bet(a, isYes, v), PoolTypeOK'
    PROVE  Funded'
<1>0. mode = "Open" /\ mode' = mode /\ claimed' = claimed /\ balance' = balance + v /\ v \in Nat
  BY OpenMeansUndecided, MarketAssumption DEF _bet
<1>1. ASSUME NEW f \in [Accounts -> Nat], NEW g, g = [f EXCEPT ![a] = @ + v]
      PROVE  SumFunction(g) = SumFunction(f) + v
  <2>1. DOMAIN f = Accounts /\ DOMAIN g = Accounts
    BY <1>1
  <2>2. /\ \A x \in Accounts : f[x] \in Int /\ g[x] \in Int
        /\ \A x \in Accounts \ {a} : g[x] = f[x]
        /\ g[a] = f[a] + v
    BY <1>0, <1>1
  <2>3. SumFunctionOnSet(g, Accounts) = SumFunctionOnSet(f, Accounts) + g[a] - f[a]
    BY <2>2, MarketAssumption, SumUpdate
  <2>4. SumFunctionOnSet(f, Accounts) \in Int
    BY <2>2, MarketAssumption, SumInt
  <2> QED
    BY <1>0, <2>1, <2>2, <2>3, <2>4 DEF SumFunction
<1>2. /\ yesStake \in [Accounts -> Nat] /\ noStake \in [Accounts -> Nat]
      /\ yesPool \in Nat /\ noPool \in Nat
  BY DEF MarketInv, PoolTypeOK
<1>3. \/ /\ yesStake' = [yesStake EXCEPT ![a] = @ + v] /\ yesPool' = yesPool + v
         /\ noStake' = noStake /\ noPool' = noPool
      \/ /\ noStake' = [noStake EXCEPT ![a] = @ + v] /\ noPool' = noPool + v
         /\ yesStake' = yesStake /\ yesPool' = yesPool
  BY DEF _bet
<1>4. /\ PoolsAreStakes'
      /\ yesPool' + noPool' = yesPool + noPool + v
  <2>1. yesPool = SumFunction(yesStake) /\ noPool = SumFunction(noStake)
    BY DEF Funded, PoolsAreStakes
  <2>2. yesPool' = SumFunction(yesStake') /\ noPool' = SumFunction(noStake')
    BY <1>1, <1>2, <1>3, <2>1
  <2> QED
    BY <1>0, <1>2, <1>3, <2>2 DEF PoolsAreStakes
<1>5. SumFunction(paid) = 0 /\ SumFunction(paid)' = 0
  <2>1. \A x \in Accounts : ~claimed[x]
    BY <1>0 DEF Funded
  <2>2. paid = [x \in Accounts |-> 0] /\ paid' = [x \in Accounts |-> 0]
    BY <1>0, <2>1 DEF paid
  <2>3. SumFunction([x \in Accounts |-> 0]) = 0
    BY MarketAssumption, SumZero DEF SumFunction
  <2> QED
    BY <2>2, <2>3
<1>6. balance \in Int /\ balance + SumFunction(paid) = yesPool + noPool
      /\ \A x \in Accounts : ~claimed[x]
  BY <1>0 DEF Funded
<1> QED
  BY <1>0, <1>2, <1>4, <1>5, <1>6 DEF Funded

\* The rule is chosen while nobody has been paid.
LEMMA SettleIsFunded ==
    ASSUME MarketInv, Funded, settle
    PROVE  Funded'
<1>0. mode = "Open" /\ claimed' = claimed /\ balance' = balance /\ UNCHANGED poolVars
  BY DEF settle
<1>1. \A x \in Accounts : ~claimed[x]
  BY <1>0 DEF Funded
<1>2. paid = [x \in Accounts |-> 0] /\ paid' = [x \in Accounts |-> 0]
  BY <1>0, <1>1 DEF paid
<1> QED
  BY <1>0, <1>1, <1>2 DEF Funded, PoolsAreStakes, poolVars

\* A claim pays what was owed, and only that.
LEMMA ClaimIsFunded ==
    ASSUME MarketInv, Funded, NEW a \in Accounts, claim(a)
    PROVE  Funded'
<1>0. /\ mode # "Open" /\ ~claimed[a] /\ mode' = mode /\ UNCHANGED poolVars
      /\ claimed' = [claimed EXCEPT ![a] = TRUE]
      /\ balance' = balance - entitlement(a, mode)
  BY DEF claim, payoutOf
<1>1. PoolTypeOK /\ mode \in Modes /\ claimed \in [Accounts -> BOOLEAN]
  BY DEF MarketInv, PoolTypeOK
<1>2. PoolsAreStakes /\ owed(mode) \in [Accounts -> Nat]
  BY <1>1, EntitlementsFit DEF Funded
<1>3. \A x \in Accounts : owed(mode)[x] = entitlement(x, mode) /\ entitlement(x, mode) \in Nat
  BY <1>2 DEF owed
<1>4. \A x \in Accounts : entitlement(x, mode)' = entitlement(x, mode)
  BY <1>0 DEF entitlement, poolVars
<1> DEFINE after == [paid EXCEPT ![a] = entitlement(a, mode)]
<1>5. paid' = after
  BY <1>0, <1>1, <1>4 DEF paid
<1>6. /\ \A x \in Accounts : paid[x] \in Int /\ after[x] \in Int
      /\ \A x \in Accounts \ {a} : after[x] = paid[x]
      /\ paid[a] = 0 /\ after[a] = entitlement(a, mode)
      /\ DOMAIN paid = Accounts /\ DOMAIN after = Accounts
  BY <1>0, <1>3 DEF paid
<1> HIDE DEF after
<1>7. SumFunctionOnSet(after, Accounts) = SumFunctionOnSet(paid, Accounts) + after[a] - paid[a]
  BY <1>6, MarketAssumption, SumUpdate
<1>8. SumFunctionOnSet(paid, Accounts) \in Int
  BY <1>6, MarketAssumption, SumInt
<1>9. SumFunction(paid) = SumFunctionOnSet(paid, Accounts)
      /\ SumFunction(after) = SumFunctionOnSet(after, Accounts)
  BY <1>6 DEF SumFunction
<1>10. SumFunction(after) = SumFunction(paid) + entitlement(a, mode) /\ SumFunction(paid) \in Int
  BY <1>3, <1>6, <1>7, <1>8, <1>9
<1>11. balance \in Int /\ balance + SumFunction(paid) = yesPool + noPool
  BY DEF Funded
<1>12. balance' \in Int /\ balance' + SumFunction(after) = yesPool + noPool
  BY <1>0, <1>3, <1>10, <1>11
<1> QED
  BY <1>0, <1>2, <1>5, <1>12 DEF Funded, PoolsAreStakes, poolVars

LEMMA FundedStep ==
    ASSUME MarketInv, MarketInv', Funded, [MarketNext]_marketAllVars
    PROVE  Funded'
<1>1. CASE OracleStep /\ UNCHANGED <<now, marketVars>>
  BY <1>1, FundedStays DEF marketVars
<1>2. CASE MarketStep /\ UNCHANGED oracleAllVars
  <2>1. CASE \E m \in Markets, d \in Deadlines : construct(m, d)
    BY <2>1, FundedStays DEF construct
  <2>2. CASE \E a \in Accounts, v \in Bets : betYes(a, v) \/ betNo(a, v)
    <3>1. PICK a \in Accounts, v \in Bets, isYes \in BOOLEAN : _bet(a, isYes, v)
      BY <2>2 DEF betYes, betNo
    <3> QED
      BY <3>1, BetIsFunded DEF MarketInv
  <2>3. CASE settle
    BY <2>3, SettleIsFunded
  <2>4. CASE \E a \in Accounts : claim(a)
    BY <2>4, ClaimIsFunded
  <2>5. CASE claimReturns
    BY <2>5, FundedStays DEF claimReturns
  <2> QED
    BY <1>2, <2>1, <2>2, <2>3, <2>4, <2>5 DEF MarketStep
<1>3. CASE NextBlock
  BY <1>3, FundedStays DEF NextBlock, marketVars
<1>4. CASE UNCHANGED marketAllVars
  BY <1>4, FundedStays DEF marketAllVars, marketVars
<1> QED
  BY <1>1, <1>2, <1>3, <1>4 DEF MarketNext

-------------------------------------------------------------------------------
(* What a reader should know. *)

\* The pool pays what the oracle said, on a side somebody staked, and voids
\* only in the oracle's silence after the grace period (settle).
THEOREM MarketObeys == MarketSpec => []SettlementObeysOracle
<1>1. MarketInv => SettlementObeysOracle
  BY DEF MarketInv
<1>. QED  BY <1>1, MarketInvHolds, PTL

\* The lock of claim admits one transfer at a time, although recipients may
\* call anything in the middle of theirs (nonReentrant).
THEOREM MarketTransfersOnce == MarketSpec => []OneTransferAtATime
<1>1. MarketInv => OneTransferAtATime
  BY DEF MarketInv
<1>. QED  BY <1>1, MarketInvHolds, PTL

\* What is held beyond what is still owed is what the rule never hands out.
LEMMA FundedMeansSound ==
    MarketInv /\ Funded =>
        /\ MarketSound
        /\ outstanding \in Nat
        /\ balance = outstanding + yesPool + noPool - SumFunction(owed(mode))
<1> SUFFICES ASSUME MarketInv, Funded
             PROVE  /\ MarketSound
                    /\ outstanding \in Nat
                    /\ balance = outstanding + yesPool + noPool - SumFunction(owed(mode))
  OBVIOUS
<1> DEFINE left == [a \in Accounts |-> payoutOf(a)]
<1>0. PoolTypeOK /\ PoolsAreStakes /\ mode \in Modes /\ yesPool \in Nat /\ noPool \in Nat
  BY DEF MarketInv, PoolTypeOK, Funded
<1>1. \A a \in Accounts : owed(mode)[a] = entitlement(a, mode) /\ owed(mode)[a] \in Nat
  BY <1>0, EntitlementsFit DEF owed
<1>2. \A a \in Accounts : /\ paid[a] \in Nat /\ left[a] \in Nat
                          /\ owed(mode)[a] = left[a] + paid[a]
  BY <1>1 DEF paid, payoutOf
<1>3. /\ outstanding = SumFunctionOnSet(left, Accounts)
      /\ SumFunction(paid) = SumFunctionOnSet(paid, Accounts)
      /\ SumFunction(owed(mode)) = SumFunctionOnSet(owed(mode), Accounts)
  BY DEF outstanding, paid, owed, SumFunction
<1> HIDE DEF left
<1>4. outstanding \in Nat /\ SumFunction(paid) \in Nat
  BY <1>2, <1>3, MarketAssumption, SumNat
<1>5. SumFunction(owed(mode)) = outstanding + SumFunction(paid)
  BY <1>2, <1>3, MarketAssumption, SumPlus
<1>6. balance \in Int /\ balance + SumFunction(paid) = yesPool + noPool
  BY DEF Funded
<1>7. SumFunction(owed(mode)) \in Nat /\ SumFunction(owed(mode)) <= yesPool + noPool
  BY <1>0, EntitlementsFit
<1>8. /\ outstanding <= balance /\ balance \in Nat
      /\ balance - outstanding = yesPool + noPool - SumFunction(owed(mode))
  BY <1>0, <1>4, <1>5, <1>6, <1>7
<1>9. MarketTypeOK
  BY <1>8 DEF MarketInv, OracleInv, PoolTypeOK, MarketTypeOK
<1>10. Solvent
  <2>1. ASSUME mode = "Open" PROVE SumFunction(paid) = 0
    BY <2>1, NothingPaid DEF Funded, paid
  <2>2. yesPool = SumFunction(yesStake) /\ noPool = SumFunction(noStake)
    BY <1>0 DEF PoolsAreStakes
  <2> QED
    BY <1>0, <1>6, <1>8, <2>1, <2>2 DEF Solvent
<1>11. OnlyDustIsLeft
  <2>1. ASSUME mode = "Refund" PROVE balance = outstanding
    <3>1. SumFunction(owed(mode)) = yesPool + noPool
      BY <1>0, <2>1, EntitlementsFit
    <3> QED
      BY <1>0, <1>4, <1>7, <1>8, <3>1
  <2>2. ASSUME mode = "PayoutYes" PROVE balance - outstanding < Cardinality(winners)
    <3>1. yesPool > 0
      BY <2>2 DEF MarketInv, SettlementObeysOracle
    <3>2. winners = {a \in Accounts : yesStake[a] # 0}
      BY <2>2 DEF winners
    <3> QED
      BY <1>0, <1>8, <2>2, <3>1, <3>2, EntitlementsFit
  <2>3. ASSUME mode = "PayoutNo" PROVE balance - outstanding < Cardinality(winners)
    <3>1. noPool > 0
      BY <2>3 DEF MarketInv, SettlementObeysOracle
    <3>2. winners = {a \in Accounts : noStake[a] # 0}
      BY <2>3 DEF winners
    <3> QED
      BY <1>0, <1>8, <2>3, <3>1, <3>2, EntitlementsFit
  <2> QED
    BY <2>1, <2>2, <2>3 DEF OnlyDustIsLeft
<1>12. balance = outstanding + yesPool + noPool - SumFunction(owed(mode))
  BY <1>0, <1>4, <1>5, <1>6
<1> QED
  BY <1>4, <1>9, <1>10, <1>11, <1>12 DEF MarketSound

LEMMA FundedHolds == MarketSpec => [](MarketInv /\ Funded)
<1>1. MarketInv /\ MarketInv' /\ Funded /\ [MarketNext]_marketAllVars => Funded'
  BY FundedStep
<1>2. MarketInit => Funded
  BY FundedAtFirst
<1> QED
  BY <1>1, <1>2, MarketInvHolds, PTL DEF MarketSpec

\* The pool never owes more than it holds, also while a recipient holds control;
\* a refund leaves nothing behind, a payout less than a unit per winner (claim,
\* payoutOf).
THEOREM MarketKeepsTheMoney == MarketSpec => []MarketSound
<1>1. MarketInv /\ Funded => MarketSound
  BY FundedMeansSound
<1> QED
  BY <1>1, FundedHolds, PTL

\* From the stakes alone the mirror computes what the contract owes.
LEMMA MirroredEntitlements ==
    ASSUME PoolTypeOK, PoolsAreStakes, NEW m \in Modes
    PROVE  LET d == distribute(m, bookOf)
           IN  /\ d.payouts = owed(m)
               /\ d.total = SumFunction(owed(m))
               /\ d.pool = yesPool + noPool
               /\ d.dust = yesPool + noPool - SumFunction(owed(m))
<1>1. DOMAIN bookOf = Accounts
  BY DEF bookOf
<1>2. /\ [b \in Accounts |-> bookOf[b].yes] = yesStake
      /\ [b \in Accounts |-> bookOf[b].no] = noStake
  BY DEF bookOf, PoolTypeOK
<1>3. /\ SumFunction([b \in Accounts |-> bookOf[b].yes]) = yesPool
      /\ SumFunction([b \in Accounts |-> bookOf[b].no]) = noPool
  BY <1>2 DEF PoolsAreStakes
<1>4. ASSUME NEW b \in Accounts
      PROVE  mirroredPayout(m, [yesStake |-> bookOf[b].yes, noStake |-> bookOf[b].no,
                                yesPool |-> yesPool, noPool |-> noPool])
               = entitlement(b, m)
  <2>1. bookOf[b].yes = yesStake[b] /\ bookOf[b].no = noStake[b]
    BY DEF bookOf
  <2> QED
    BY <2>1 DEF mirroredPayout, entitlement, share, Modes
<1> DEFINE payouts == [b \in Accounts |->
                         mirroredPayout(m, [yesStake |-> bookOf[b].yes, noStake |-> bookOf[b].no,
                                            yesPool |-> yesPool, noPool |-> noPool])]
<1>5. payouts = owed(m)
  BY <1>4 DEF owed
<1>6. distribute(m, bookOf) =
        [payouts |-> payouts, total |-> SumFunction(payouts), pool |-> yesPool + noPool,
         dust |-> yesPool + noPool - SumFunction(payouts)]
  BY <1>1, <1>3, Zenon DEF distribute
<1> HIDE DEF payouts
<1> QED
  BY <1>5, <1>6

\* Before settlement the mirror foresees the rule settle() would freeze, after it
\* the frozen one.
LEMMA MirrorForesees ==
    ASSUME MarketInv, deployed
    PROVE  /\ mode = "Open" /\ isResolved(marketId) =>
                foreseen = modeFor(market[marketId].outcome)
           /\ mode = "Open" /\ ~isResolved(marketId) =>
                foreseen = IF now > resolutionDeadline THEN "Refund" ELSE Null
           /\ mode # "Open" => foreseen = mode \/ finalOutcome = "Unresolved"
<1>0. /\ marketId \in Markets /\ market[marketId].outcome \in Outcomes
      /\ yesPool \in Nat /\ noPool \in Nat /\ now \in Nat /\ resolutionDeadline \in Nat
      /\ mode \in Modes
  BY MarketAssumption
     DEF MarketInv, PoolTypeOK, OracleInv, OracleTypeOK, MarketRecords, deployed,
         resolutionDeadline
<1>1. foreseen =
        CASE isResolved(marketId) /\ market[marketId].outcome = "Yes" ->
                IF yesPool = 0 THEN "Refund" ELSE "PayoutYes"
          [] isResolved(marketId) /\ market[marketId].outcome = "No" ->
                IF noPool = 0 THEN "Refund" ELSE "PayoutNo"
          [] isResolved(marketId) /\ market[marketId].outcome \notin {"Yes", "No"} -> "Refund"
          [] ~isResolved(marketId) /\ now <= resolutionDeadline -> Null
          [] OTHER -> "Refund"
  BY DEF foreseen, settlementMode, views
<1>2. CASE ~isResolved(marketId)
  <2>1. foreseen = IF now > resolutionDeadline THEN "Refund" ELSE Null
    BY <1>0, <1>1, <1>2
  <2>2. finalOutcome = "Unresolved"
    BY <1>2 DEF MarketInv, SettlementObeysOracle, isResolved
  <2> QED
    BY <1>2, <2>1, <2>2
<1>3. CASE isResolved(marketId)
  <2>1. foreseen = modeFor(market[marketId].outcome)
    BY <1>0, <1>1, <1>3 DEF modeFor
  <2>2. ASSUME mode # "Open", finalOutcome # "Unresolved" PROVE foreseen = mode
    BY <1>0, <2>1, <2>2 DEF MarketInv, SettlementObeysOracle, modeFor, Modes, Outcomes
  <2> QED
    BY <1>3, <2>1, <2>2
<1> QED
  BY <1>2, <1>3

\* The arithmetic a bettor's agent uses never parts from the contract's: it
\* foresees the rule settle() will freeze, owes what claim() will pay, and its
\* dust is what stays behind (settlementMode, payoutOf, distribute).
THEOREM PayoutsAreMirrored == MarketSpec => []PayoutMirrorAgrees
<1>1. ASSUME MarketInv, Funded, deployed, NEW m \in Modes
      PROVE  /\ invariantHolds(m, bookOf)
             /\ \A a \in Accounts : distribute(m, bookOf).payouts[a] = entitlement(a, m)
  <2>1. PoolTypeOK /\ PoolsAreStakes
    BY <1>1 DEF MarketInv, Funded
  <2>2. invariantHolds(m, bookOf)
    BY <2>1, MirroredEntitlements, EntitlementsFit DEF invariantHolds
  <2>3. distribute(m, bookOf).payouts = owed(m)
    BY <2>1, MirroredEntitlements
  <2> QED
    BY <2>2, <2>3 DEF owed
<1>2. ASSUME MarketInv, Funded, mode # "Open"
      PROVE  balance = outstanding + distribute(mode, bookOf).dust
  <2>1. PoolTypeOK /\ PoolsAreStakes /\ mode \in Modes /\ yesPool \in Nat /\ noPool \in Nat
    BY <1>2 DEF MarketInv, PoolTypeOK, Funded
  <2>2. distribute(mode, bookOf).dust = yesPool + noPool - SumFunction(owed(mode))
    BY <2>1, MirroredEntitlements
  <2>3. balance = outstanding + yesPool + noPool - SumFunction(owed(mode))
    BY <1>2, FundedMeansSound
  <2>4. SumFunction(owed(mode)) \in Nat
    BY <2>1, EntitlementsFit
  <2>5. outstanding \in Nat
    BY <1>2, FundedMeansSound
  <2> QED
    BY <2>1, <2>2, <2>3, <2>4, <2>5
<1>3. MarketInv /\ Funded => PayoutMirrorAgrees
  BY <1>1, <1>2, MirrorForesees DEF PayoutMirrorAgrees
<1> QED
  BY <1>3, FundedHolds, PTL

\* Deploying a market beside the oracle gives the oracle no new behaviour.
THEOREM MarketKeepsOracle == MarketSpec => OracleSpec
<1>1. MarketInit => OracleInit
  BY DEF MarketInit
<1>2. [MarketNext]_marketAllVars => [OracleNext]_oracleAllVars
  BY MarketLeavesOracle
<1>. QED  BY <1>1, <1>2, PTL DEF MarketSpec, OracleSpec

\* One step after the verdict, or after voiding, moves nobody's entitlement.
LEMMA StepFixesEntitlements ==
    ASSUME MarketInv, [MarketNext]_marketAllVars, deployed,
           isResolved(marketId) \/ mode # "Open", NEW a \in Accounts
    PROVE  prospect(a)' = prospect(a)
<1>0. marketId \in Markets
  BY DEF MarketInv, PoolTypeOK, deployed
<1>. USE DEF prospect, entitlement, modeFor, isResolved
<1>1. CASE OracleStep /\ UNCHANGED <<now, marketVars>>
  <2>1. UNCHANGED <<marketId, mode, yesPool, noPool, yesStake, noStake>>
    BY <1>1 DEF marketVars, deployVars, poolVars
  <2>2. isResolved(marketId) => market'[marketId].outcome = market[marketId].outcome
    BY <1>0, <1>1, VerdictsStay DEF MarketInv, OracleInv
  <2>. QED  BY <2>1, <2>2
<1>2. CASE MarketStep /\ UNCHANGED oracleAllVars
  <2>0. market' = market
    BY <1>2 DEF oracleAllVars, oracleVars
  <2>1. CASE \E m \in Markets, d \in Deadlines : construct(m, d)
    BY <2>1 DEF construct
  <2>2. CASE \E b \in Accounts, v \in Bets : betYes(b, v) \/ betNo(b, v)
    <3>1. isOpen
      BY <2>2 DEF betYes, betNo, _bet
    <3>. QED  BY <3>1, OpenMeansUndecided
  <2>3. CASE settle
    <3>1. mode = "Open" /\ isResolved(marketId)
      BY <2>3 DEF settle
    <3>2. mode' = modeFor(market[marketId].outcome) /\ mode' # "Open"
      BY <2>3, <3>1 DEF settle
    <3>3. UNCHANGED <<marketId, yesPool, noPool, yesStake, noStake>>
      BY <2>3 DEF settle, deployVars, poolVars
    <3>. QED  BY <2>0, <3>1, <3>2, <3>3
  <2>4. CASE (\E b \in Accounts : claim(b)) \/ claimReturns
    <3>1. UNCHANGED <<marketId, mode, yesPool, noPool, yesStake, noStake>>
      BY <2>4 DEF claim, claimReturns, deployVars, poolVars
    <3>. QED  BY <2>0, <3>1
  <2>. QED  BY <1>2, <2>1, <2>2, <2>3, <2>4 DEF MarketStep
<1>3. CASE NextBlock \/ UNCHANGED marketAllVars
  BY <1>3 DEF NextBlock, marketAllVars, marketVars, deployVars, poolVars,
              oracleAllVars, oracleVars
<1>. QED  BY <1>1, <1>2, <1>3 DEF MarketNext

\* Entitlements are fixed from the moment the oracle speaks or the pool voids
\* (_bet, settle, payoutOf).
THEOREM MarketFixesEntitlements == MarketSpec => EntitlementsAreFixed
<1>1. MarketInv /\ [MarketNext]_marketAllVars =>
        [deployed /\ (isResolved(marketId) \/ mode # "Open") =>
            \A a \in Accounts : prospect(a)' = prospect(a)]_marketAllVars
  BY StepFixesEntitlements
<1>. QED  BY <1>1, MarketInvHolds, PTL DEF MarketSpec, EntitlementsAreFixed
-------------------------------------------------------------------------------
(* The oracle under the vault. *)

\* Whatever the vault does, the oracle makes one of its own steps or none.
LEMMA OracleBelow == [VaultNext]_vaultAllVars => [OracleNext]_oracleAllVars
BY DEF VaultNext, OracleNext, vaultAllVars, oracleAllVars

\* A commitment stays as it is; an outcome stays as it is or is recorded now.
LEMMA RecordsGrow ==
    ASSUME OracleInv, [OracleNext]_oracleAllVars, NEW m \in Markets, isCommitted(m)
    PROVE  /\ isCommitted(m)' /\ market'[m].committedAt = market[m].committedAt
           /\ isResolved(m) => market'[m] = market[m]
           /\ isResolved(m)' /\ ~isResolved(m) => market'[m].resolvedAt = now
<1> USE DEF OracleInv
<1>1. CASE UNCHANGED market
  BY <1>1 DEF isCommitted, isResolved
<1>2. ASSUME NEW sender \in Accounts, NEW n \in Markets, NEW h \in Bytes32,
             commitMarket(sender, n, h)
      PROVE  market'[m] = market[m]
  BY <1>2, CommitEffect
<1>3. ASSUME NEW sender \in Accounts, NEW n \in Markets, NEW o \in Outcomes,
             NEW h \in Bytes32, postResolution(sender, n, o, h)
      PROVE  \/ market'[m] = market[m]
             \/ /\ ~isResolved(m)
                /\ market'[m].committedAt = market[m].committedAt
                /\ market'[m].resolvedAt = now
  BY <1>3, ResolveEffect
<1>4. CASE OracleStep
  BY <1>1, <1>2, <1>3, <1>4, OracleStepCases DEF setPublisher, isCommitted, isResolved
<1>5. CASE UNCHANGED oracleVars
  BY <1>1, <1>5 DEF oracleVars
<1> QED
  BY <1>4, <1>5 DEF OracleNext, oracleAllVars

-------------------------------------------------------------------------------
(* The inductive invariant. *)

\* No decision is dated in the future, so that a later outcome is later.
VaultIInv ==
    /\ OracleInv
    /\ VaultTypeOK
    /\ DepositsAreBacked
    /\ \A i \in DOMAIN decisions : decisions[i].timestamp <= now
    /\ DecisionsAreForward

\* What is asked of a decision on m, dated t.
forward(m, t) ==
    /\ isCommitted(m) /\ market[m].committedAt <= t /\ t <= now
    /\ isResolved(m) => t <= market[m].resolvedAt

\* The two conjuncts about decisions, decision by decision, now and in the next state.
LEMMA ForwardByDecision ==
    /\ VaultIInv => \A i \in DOMAIN decisions :
                      forward(decisions[i].marketId, decisions[i].timestamp)
    /\ (\A i \in DOMAIN decisions' : \A m, t :
           m = decisions'[i].marketId /\ t = decisions'[i].timestamp => forward(m, t)')
       /\ posture' = (IF decisions' = <<>> THEN 0 ELSE decisions'[Len(decisions')].direction)
         => /\ DecisionsAreForward'
            /\ \A i \in DOMAIN decisions' : decisions'[i].timestamp <= now'
BY DEF VaultIInv, DecisionsAreForward, forward, isCommitted, isResolved

\* A call to the vault, one case per function.
LEMMA VaultStepCases ==
    ASSUME VaultStep
    PROVE  \/ \E a \in Accounts, v \in Amounts : deposit(a, v) \/ withdraw(a, v)
           \/ \E a \in Accounts, m \in MarketIds, h \in Bytes32, d \in Int8 :
                 rebalance(a, m, h, d)
           \/ \E a \in Accounts, k \in Accounts \cup {ZeroAddress} : setKeeper(a, k)
           \/ \E a \in Accounts, p \in BOOLEAN : setPaused(a, p)
BY DEF VaultStep

\* One account's deposit changes, and the sum of them by as much.
LEMMA OneDepositMoves ==
    ASSUME NEW b \in [Accounts -> Nat], NEW c \in [Accounts -> Nat], NEW a \in Accounts,
           \A x \in Accounts \ {a} : c[x] = b[x]
    PROVE  /\ SumFunction(c) = SumFunction(b) + c[a] - b[a]
           /\ SumFunction(c) \in Nat
           /\ \A x \in Accounts : c[x] <= SumFunction(c)
<1>1. /\ SumFunction(b) = SumFunctionOnSet(b, Accounts)
      /\ SumFunction(c) = SumFunctionOnSet(c, Accounts)
  BY DEF SumFunction
<1>2. \A x \in Accounts : b[x] \in Nat /\ c[x] \in Nat
  OBVIOUS
<1>3. SumFunctionOnSet(c, Accounts) = SumFunctionOnSet(b, Accounts) + c[a] - b[a]
  BY <1>2, VaultV2Assumption, SumUpdate
<1>4. /\ SumFunctionOnSet(c, Accounts) \in Nat
      /\ \A x \in Accounts : c[x] <= SumFunctionOnSet(c, Accounts)
  BY <1>2, VaultV2Assumption, SumNat
<1> QED
  BY <1>1, <1>3, <1>4

\* Money comes and goes by the account, and the total with it.
LEMMA MoneyKeepsInv ==
    ASSUME VaultIInv, NEW a \in Accounts, NEW v \in Amounts,
           deposit(a, v) \/ withdraw(a, v), UNCHANGED oracleAllVars
    PROVE  VaultIInv'
<1>1. v \in Nat /\ balanceOf \in [Accounts -> Nat] /\ balanceOf[a] \in Nat
      /\ held \in Nat /\ totalDeposits = held /\ held = SumFunction(balanceOf)
  BY VaultV2Assumption DEF VaultIInv, VaultTypeOK, DepositsAreBacked
<1>2. UNCHANGED <<postureVars, roleVars>>
  BY DEF deposit, withdraw, pay
<1>3. /\ balanceOf' \in [Accounts -> Nat]
      /\ \A x \in Accounts \ {a} : balanceOf'[x] = balanceOf[x]
      /\ held' = held + balanceOf'[a] - balanceOf[a] /\ totalDeposits' = held'
  <2>1. CASE deposit(a, v)
    BY <1>1, <2>1 DEF deposit
  <2>2. CASE withdraw(a, v)
    BY <1>1, <2>2 DEF withdraw, pay
  <2> QED
    BY <2>1, <2>2
<1>7. /\ held' = SumFunction(balanceOf') /\ held' \in Nat
      /\ \A x \in Accounts : balanceOf'[x] <= held'
  <2>1. /\ SumFunction(balanceOf') = SumFunction(balanceOf) + balanceOf'[a] - balanceOf[a]
        /\ SumFunction(balanceOf') \in Nat
        /\ \A x \in Accounts : balanceOf'[x] <= SumFunction(balanceOf')
    BY <1>1, <1>3, OneDepositMoves
  <2> QED
    BY <1>1, <1>3, <2>1
<1>8. DepositsAreBacked'
  BY <1>3, <1>7 DEF DepositsAreBacked
<1>4. OracleInv'
  BY OracleStepInv DEF VaultIInv
<1>5. VaultTypeOK'
  BY <1>2, <1>3, <1>4, <1>7 DEF VaultIInv, VaultTypeOK, OracleInv, postureVars, roleVars
<1>6. DecisionsAreForward' /\ \A i \in DOMAIN decisions' : decisions'[i].timestamp <= now'
  BY <1>2 DEF VaultIInv, DecisionsAreForward, postureVars, oracleAllVars, oracleVars,
              isCommitted, isResolved
<1> QED
  BY <1>4, <1>5, <1>6, <1>8 DEF VaultIInv

\* A decision is filed on a market that is committed and still open.
LEMMA DecisionKeepsInv ==
    ASSUME VaultIInv, NEW a \in Accounts, NEW m \in MarketIds, NEW h \in Bytes32,
           NEW d \in Int8, rebalance(a, m, h, d), UNCHANGED oracleAllVars
    PROVE  VaultIInv'
<1> DEFINE filed == [marketId |-> m, signalHash |-> h, timestamp |-> now, direction |-> d]
<1>1. /\ m \in Markets /\ h \in Hashes /\ d \in Postures
      /\ isCommitted(m) /\ ~isResolved(m)
  BY DEF rebalance, mayRebalance, MarketIds, Bytes32
<1>2. /\ decisions \in Seq(Decisions) /\ rebalanceCount = Len(decisions)
      /\ now \in Nat /\ OracleInv
  BY DEF VaultIInv, VaultTypeOK, OracleTypeOK
<1>3. filed \in Decisions
  BY <1>1, <1>2 DEF Decisions
<1>4. /\ decisions' = Append(decisions, filed)
      /\ posture' = d /\ lastSignalHash' = h /\ lastMarketId' = m
      /\ rebalanceCount' = rebalanceCount + 1
      /\ UNCHANGED <<depositVars, roleVars>>
  BY DEF rebalance, steer
<1> HIDE DEF filed
<1>5. /\ decisions' \in Seq(Decisions) /\ Len(decisions') = Len(decisions) + 1
      /\ decisions'[Len(decisions) + 1] = filed
      /\ \A i \in 1 .. Len(decisions) : decisions'[i] = decisions[i]
  BY <1>2, <1>3, <1>4
<1>6. OracleInv'
  BY <1>2, OracleStepInv
<1>7. VaultTypeOK'
  BY <1>1, <1>2, <1>4, <1>5, <1>6
     DEF VaultIInv, VaultTypeOK, OracleInv, depositVars, roleVars, MarketIds
<1>8. UNCHANGED <<market, now>>
  BY DEF oracleAllVars, oracleVars
<1>9. ASSUME NEW i \in DOMAIN decisions', NEW n, NEW t,
             n = decisions'[i].marketId, t = decisions'[i].timestamp
      PROVE  forward(n, t)'
  <2>1. CASE i \in 1 .. Len(decisions)
    <3>1. forward(n, t)
      BY <1>2, <1>5, <1>9, <2>1, ForwardByDecision
    <3> QED
      BY <1>8, <3>1 DEF forward, isCommitted, isResolved
  <2>2. CASE i = Len(decisions) + 1
    <3>1. market[m].committedAt <= now
      BY <1>1, <1>2 DEF OracleInv, CommitPrecedesResolution
    <3>2. n = m /\ t = now
      BY <1>5, <1>9, <2>2 DEF filed
    <3> QED
      BY <1>1, <1>2, <1>8, <3>1, <3>2 DEF forward, isCommitted, isResolved
  <2> QED
    BY <1>2, <1>5, <2>1, <2>2
<1>10. decisions' # <<>> /\ posture' = decisions'[Len(decisions')].direction
  <2>1. filed.direction = d
    BY DEF filed
  <2> QED
    BY <1>2, <1>4, <1>5, <2>1
<1>11. DepositsAreBacked'
  BY <1>4 DEF VaultIInv, DepositsAreBacked, depositVars
<1> QED
  BY <1>6, <1>7, <1>9, <1>10, <1>11, ForwardByDecision DEF VaultIInv

\* Roles move; deposits and decisions do not.
LEMMA RolesKeepInv ==
    ASSUME VaultIInv, NEW a \in Accounts,
           \/ \E k \in Accounts \cup {ZeroAddress} : setKeeper(a, k)
           \/ \E p \in BOOLEAN : setPaused(a, p),
           UNCHANGED oracleAllVars
    PROVE  VaultIInv'
<1>1. /\ UNCHANGED <<depositVars, postureVars, vaultOwner>>
      /\ keeper' \in Accounts /\ paused' \in BOOLEAN
  BY DEF setKeeper, setPaused, VaultIInv, VaultTypeOK
<1>2. OracleInv'
  BY OracleStepInv DEF VaultIInv
<1>3. VaultTypeOK'
  BY <1>1, <1>2 DEF VaultIInv, VaultTypeOK, OracleInv, depositVars, postureVars
<1>4. DecisionsAreForward' /\ \A i \in DOMAIN decisions' : decisions'[i].timestamp <= now'
  BY <1>1 DEF VaultIInv, DecisionsAreForward, postureVars, oracleAllVars, oracleVars,
              isCommitted, isResolved
<1>5. DepositsAreBacked'
  BY <1>1 DEF VaultIInv, DepositsAreBacked, depositVars
<1> QED
  BY <1>2, <1>3, <1>4, <1>5 DEF VaultIInv

\* The oracle moves under the vault: outcomes come later than the decisions.
LEMMA OracleKeepsInv ==
    ASSUME VaultIInv, [OracleNext]_oracleAllVars, UNCHANGED vaultVars
    PROVE  VaultIInv'
<1>1. OracleInv /\ OracleInv'
  BY OracleStepInv DEF VaultIInv
<1>2. now \in Nat /\ now' \in Nat /\ now <= now'
  BY <1>1 DEF OracleInv, OracleTypeOK, OracleNext, AdvanceTime, oracleAllVars
<1>3. VaultTypeOK'
  BY <1>1 DEF VaultIInv, VaultTypeOK, OracleInv, vaultVars, depositVars, postureVars,
              roleVars
<1>4. UNCHANGED <<decisions, posture, balanceOf, held, totalDeposits>>
  BY DEF vaultVars, depositVars, postureVars
<1>6. DepositsAreBacked'
  BY <1>4 DEF VaultIInv, DepositsAreBacked
<1>5. ASSUME NEW i \in DOMAIN decisions', NEW m, NEW t,
             m = decisions'[i].marketId, t = decisions'[i].timestamp
      PROVE  forward(m, t)'
  <2>1. decisions[i] \in Decisions
    BY <1>4 DEF VaultIInv, VaultTypeOK
  <2>2. m \in Markets /\ t \in Nat
    BY <1>4, <1>5, <2>1 DEF Decisions
  <2>3. forward(m, t)
    BY <1>4, <1>5, ForwardByDecision
  <2>4. /\ isCommitted(m)' /\ market'[m].committedAt = market[m].committedAt
        /\ isResolved(m) => market'[m] = market[m]
        /\ isResolved(m)' /\ ~isResolved(m) => market'[m].resolvedAt = now
    BY <1>1, <2>2, <2>3, RecordsGrow DEF forward
  <2>5. isResolved(m)' => t <= market'[m].resolvedAt
    BY <2>3, <2>4 DEF forward
  <2>6. t <= now'
    BY <1>2, <2>2, <2>3 DEF forward
  <2> QED
    BY <2>3, <2>4, <2>5, <2>6 DEF forward
<1> QED
  BY <1>1, <1>3, <1>4, <1>5, <1>6, ForwardByDecision DEF VaultIInv, DecisionsAreForward

\* VaultIInv holds throughout: one lemma per kind of step.
LEMMA VaultIInvHolds == VaultSpec => []VaultIInv
<1>1. VaultInit => VaultIInv
  <2> SUFFICES ASSUME VaultInit PROVE VaultIInv
    OBVIOUS
  <2>1. OracleInv /\ now \in Nat
    BY OracleInitInv DEF VaultInit, OracleInv, OracleTypeOK
  <2>2. VaultTypeOK
    <3>1. decisions \in Seq(Decisions) /\ Len(decisions) = 0
      BY DEF VaultInit
    <3>2. posture \in Postures /\ lastSignalHash \in Bytes32 /\ lastMarketId \in MarketIds
      BY DEF VaultInit, Postures, Bytes32, MarketIds
    <3>3. balanceOf \in [Accounts -> Nat] /\ held \in Nat /\ totalDeposits \in Nat
      BY DEF VaultInit
    <3> QED
      BY <2>1, <3>1, <3>2, <3>3 DEF VaultInit, VaultTypeOK, OracleInv
  <2>3. DecisionsAreForward
    BY DEF VaultInit, DecisionsAreForward
  <2>4. DepositsAreBacked
    <3>1. balanceOf \in [Accounts -> Nat] /\ \A a \in Accounts : balanceOf[a] = 0
      BY DEF VaultInit
    <3>2. SumFunction(balanceOf) = SumFunctionOnSet(balanceOf, Accounts)
      BY <3>1 DEF SumFunction
    <3>3. SumFunctionOnSet(balanceOf, Accounts) = 0
      BY <3>1, VaultV2Assumption, SumZero
    <3> QED
      BY <3>1, <3>2, <3>3 DEF VaultInit, DepositsAreBacked
  <2> QED
    BY <2>1, <2>2, <2>3, <2>4 DEF VaultInit, VaultIInv
<1>2. VaultIInv /\ [VaultNext]_vaultAllVars => VaultIInv'
  <2> SUFFICES ASSUME VaultIInv, [VaultNext]_vaultAllVars PROVE VaultIInv'
    OBVIOUS
  <2>1. CASE VaultStep /\ UNCHANGED oracleAllVars
    BY <2>1, VaultStepCases, MoneyKeepsInv, DecisionKeepsInv, RolesKeepInv
  <2>2. CASE UNCHANGED vaultVars
    BY <2>2, OracleBelow, OracleKeepsInv
  <2> QED
    BY <2>1, <2>2 DEF VaultNext, vaultAllVars
<1> QED
  BY <1>1, <1>2, PTL DEF VaultSpec

-------------------------------------------------------------------------------
(* The scorer off the chain. *)

\* One decision: score.mjs and the contract give it the same score.
LEMMA ScorersAgree ==
    ASSUME NEW d \in Postures, NEW o \in Outcomes
    PROVE  /\ scoreDecision(d, OUTCOME[o]) = SCORE[_score(d, o)]
           /\ _score(d, o) \in Scores
           /\ _score(d, o) \in {"Correct", "Wrong"} <=> d # 0 /\ o \in {"Yes", "No"}
BY DEF Postures, Outcomes, scoreDecision, OUTCOME, SCORE, _score, Scores

\* The ordinals tell the scores apart.
LEMMA OrdinalsAreDistinct == \A s, t \in Scores : SCORE[s] = SCORE[t] => s = t
BY DEF Scores, SCORE

\* Four sets without a common element, and what they make up.
LEMMA FourParts ==
    ASSUME NEW A, NEW B, NEW C, NEW D,
           IsFiniteSet(A), IsFiniteSet(B), IsFiniteSet(C), IsFiniteSet(D),
           A \cap B = {}, (A \cup B) \cap C = {}, (A \cup B \cup C) \cap D = {}
    PROVE  Cardinality(A \cup B \cup C \cup D)
             = Cardinality(A) + Cardinality(B) + Cardinality(C) + Cardinality(D)
<1>1. /\ IsFiniteSet(A \cup B)
      /\ Cardinality(A \cup B) = Cardinality(A) + Cardinality(B) - Cardinality({})
  BY FS_Union
<1>2. /\ IsFiniteSet((A \cup B) \cup C)
      /\ Cardinality((A \cup B) \cup C)
           = Cardinality(A \cup B) + Cardinality(C) - Cardinality({})
  BY <1>1, FS_Union
<1>3. Cardinality((A \cup B \cup C) \cup D)
        = Cardinality(A \cup B \cup C) + Cardinality(D) - Cardinality({})
  BY <1>2, FS_Union
<1>4. /\ Cardinality({}) = 0
      /\ Cardinality(A) \in Nat /\ Cardinality(B) \in Nat
      /\ Cardinality(C) \in Nat /\ Cardinality(D) \in Nat
  BY FS_EmptySet, FS_CardinalityType
<1> QED
  BY <1>1, <1>2, <1>3, <1>4

\* Whatever the record holds, the tally of score.mjs is the contract's.
LEMMA MirrorFollows == VaultTypeOK => MirrorAgrees
<1> SUFFICES ASSUME VaultTypeOK PROVE MirrorAgrees
  OBVIOUS
<1> DEFINE Ids == DOMAIN decisions
           filed == [i \in Ids |-> [direction |-> decisions[i].direction,
                                    outcome |-> market[decisions[i].marketId].outcome]]
           scored(s) == {i \in Ids : scoreOf(i) = s}
           tally == tallyTrackRecord(filed)
           record == trackRecord(1, rebalanceCount)
           settledCalls == {i \in Ids : /\ decisions[i].direction # 0
                                        /\ market[decisions[i].marketId].outcome \in {"Yes", "No"}}
<1>1. Ids = 1 .. rebalanceCount /\ rebalanceCount \in Nat
  BY DEF VaultTypeOK
<1>2. ASSUME NEW i \in Ids
      PROVE  /\ decisions[i].direction \in Postures
             /\ market[decisions[i].marketId].outcome \in Outcomes
  <2> HIDE DEF filed, scored, tally, record, settledCalls
  <2>1. decisions[i] \in Decisions
    BY <1>1 DEF VaultTypeOK
  <2>2. market \in [Markets -> MarketRecords]
    BY DEF VaultTypeOK, OracleTypeOK
  <2>3. decisions[i].marketId \in Markets /\ decisions[i].direction \in Postures
    BY <2>1 DEF Decisions
  <2>4. market[decisions[i].marketId] \in MarketRecords
    BY <2>2, <2>3
  <2> QED
    BY <2>3, <2>4 DEF MarketRecords
<1>3. ASSUME NEW i \in Ids
      PROVE  /\ scoreDecision(filed[i].direction, OUTCOME[filed[i].outcome]) = SCORE[scoreOf(i)]
             /\ scoreOf(i) \in Scores
             /\ scoreOf(i) \in {"Correct", "Wrong"} <=> i \in settledCalls
  BY <1>2, ScorersAgree DEF scoreOf
<1>4. \A s \in Scores : record[s] = Cardinality(scored(s))
  BY <1>1 DEF trackRecord
<1>5. ASSUME NEW s \in Scores
      PROVE  Cardinality({i \in DOMAIN filed :
                scoreDecision(filed[i].direction, OUTCOME[filed[i].outcome]) = SCORE[s]})
               = Cardinality(scored(s))
  <2>1. {i \in DOMAIN filed :
           scoreDecision(filed[i].direction, OUTCOME[filed[i].outcome]) = SCORE[s]} = scored(s)
    BY <1>3, OrdinalsAreDistinct
  <2> QED
    BY <2>1
<1>6. /\ IsFiniteSet(scored("Correct")) /\ IsFiniteSet(scored("Wrong"))
      /\ IsFiniteSet(scored("NoClaim")) /\ IsFiniteSet(scored("Pending"))
  BY <1>1, FS_Interval, FS_Subset
<1>7. Cardinality(Ids) = rebalanceCount
  BY <1>1, FS_Interval
<1>8. Cardinality(Ids) = Cardinality(scored("Correct")) + Cardinality(scored("Wrong"))
                           + Cardinality(scored("NoClaim")) + Cardinality(scored("Pending"))
  <2>1. Ids = scored("Correct") \cup scored("Wrong") \cup scored("NoClaim") \cup scored("Pending")
    BY <1>3 DEF Scores
  <2>2. /\ scored("Correct") \cap scored("Wrong") = {}
        /\ (scored("Correct") \cup scored("Wrong")) \cap scored("NoClaim") = {}
        /\ (scored("Correct") \cup scored("Wrong") \cup scored("NoClaim"))
              \cap scored("Pending") = {}
    OBVIOUS
  <2> QED
    BY <1>6, <2>1, <2>2, FourParts
<1>9. /\ Cardinality(scored("Correct")) \in Nat /\ Cardinality(scored("Wrong")) \in Nat
      /\ Cardinality(scored("NoClaim")) \in Nat /\ Cardinality(scored("Pending")) \in Nat
  BY <1>6, FS_CardinalityType
<1>10. Cardinality(scored("Correct")) + Cardinality(scored("Wrong")) = 0 <=> settledCalls = {}
  <2>1. settledCalls = scored("Correct") \cup scored("Wrong")
    BY <1>3
  <2>2. /\ Cardinality(scored("Correct")) = 0 <=> scored("Correct") = {}
        /\ Cardinality(scored("Wrong")) = 0 <=> scored("Wrong") = {}
    BY <1>6, FS_EmptySet
  <2> QED
    BY <1>9, <2>1, <2>2
<1>11. Len(filed) = rebalanceCount
  BY <1>1
<1>12. /\ tally.correct = Cardinality(scored("Correct"))
       /\ tally.wrong = Cardinality(scored("Wrong"))
       /\ tally.noClaim = Cardinality(scored("NoClaim"))
       /\ tally.pending = rebalanceCount
             - (Cardinality(scored("Correct")) + Cardinality(scored("Wrong")))
             - Cardinality(scored("NoClaim"))
       /\ (tally.hitRate = <<>>)
             = (Cardinality(scored("Correct")) + Cardinality(scored("Wrong")) = 0)
  <2> HIDE DEF filed, scored
  <2> QED
    BY <1>5, <1>11 DEF tallyTrackRecord, Scores
<1> HIDE DEF scored, tally, record
<1>13. /\ tally.correct = record["Correct"] /\ tally.wrong = record["Wrong"]
       /\ tally.noClaim = record["NoClaim"] /\ tally.pending = record["Pending"]
       /\ (tally.hitRate = <<>>) = (settledCalls = {})
  BY <1>4, <1>7, <1>8, <1>9, <1>10, <1>12 DEF Scores
<1> QED
  BY <1>3, <1>13 DEF MirrorAgrees, tally, record

-------------------------------------------------------------------------------
(* The theorems. *)

\* Whoever deposits, decides, resolves, pauses and rotates keys: every filed decision
\* is a forward call, and what score.mjs says of the record is what the chain says.
THEOREM VaultHonest == VaultSpec => []VaultInv
<1>1. VaultIInv => VaultInv
  BY MirrorFollows DEF VaultIInv, VaultInv
<1> QED
  BY <1>1, VaultIInvHolds, PTL

\* No decision is amended, and no score changes once it is given.
THEOREM VaultScoresStand == VaultSpec => ScoresAreFinal
<1> DEFINE Kept == \A i \in DOMAIN decisions :
             /\ i \in DOMAIN decisions' /\ decisions'[i] = decisions[i]
             /\ scoreOf(i) # "Pending" => scoreOf(i)' = scoreOf(i)
<1>1. VaultIInv /\ [VaultNext]_vaultAllVars => [Kept]_vaultAllVars
  <2> SUFFICES ASSUME VaultIInv, [VaultNext]_vaultAllVars, NEW i \in DOMAIN decisions
               PROVE  /\ i \in DOMAIN decisions' /\ decisions'[i] = decisions[i]
                      /\ scoreOf(i) # "Pending" => scoreOf(i)' = scoreOf(i)
    OBVIOUS
  <2>1. decisions \in Seq(Decisions) /\ decisions[i] \in Decisions /\ OracleInv
    BY DEF VaultIInv, VaultTypeOK
  <2>2. i \in DOMAIN decisions' /\ decisions'[i] = decisions[i]
    <3>1. ASSUME NEW e, decisions' = Append(decisions, e)
          PROVE  i \in DOMAIN decisions' /\ decisions'[i] = decisions[i]
      BY <2>1, <3>1
    <3>2. CASE UNCHANGED decisions
      BY <3>2
    <3>3. CASE VaultStep
      BY <3>1, <3>2, <3>3, VaultStepCases
         DEF deposit, withdraw, pay, rebalance, steer, setKeeper, setPaused, postureVars
    <3>4. CASE UNCHANGED vaultVars
      BY <3>2, <3>4 DEF vaultVars, postureVars
    <3> QED
      BY <3>3, <3>4 DEF VaultNext, vaultAllVars
  <2>3. PICK m \in Markets : m = decisions[i].marketId /\ m = decisions'[i].marketId
    BY <2>1, <2>2 DEF Decisions
  <2>4. isCommitted(m)
    BY <2>3, ForwardByDecision DEF forward
  <2>5. isResolved(m) => market'[m] = market[m]
    BY <2>1, <2>4, OracleBelow, RecordsGrow
  <2>6. ASSUME scoreOf(i) # "Pending"
        PROVE  decisions[i].direction = 0 \/ isResolved(m)
    BY <2>3, <2>6 DEF scoreOf, _score, isResolved
  <2>7. scoreOf(i) # "Pending" => scoreOf(i)' = scoreOf(i)
    BY <2>2, <2>3, <2>5, <2>6 DEF scoreOf, _score
  <2> QED
    BY <2>2, <2>7
<1> QED
  BY <1>1, VaultIInvHolds, PTL DEF VaultSpec, ScoresAreFinal

\* The second vault does nothing the first could not have done.
THEOREM VaultIsAVault == VaultSpec => ImplementsV1
<1>1. VaultInit => V1!VaultInit
  BY DEF VaultInit, V1!VaultInit
<1>2. [VaultNext]_vaultAllVars => [V1!VaultNext]_(V1!vaultVars)
  <2> SUFFICES ASSUME VaultNext PROVE V1!VaultNext \/ UNCHANGED V1!vaultVars
    <3>1. UNCHANGED vaultAllVars => UNCHANGED V1!vaultVars
      BY DEF vaultAllVars, vaultVars, depositVars, postureVars, roleVars, V1!vaultVars,
             V1!depositVars, V1!postureVars, V1!roleVars
    <3> QED
      BY <3>1
  <2> USE DEF postureVars, roleVars, depositVars, V1!postureVars, V1!roleVars, V1!depositVars
  <2>1. ASSUME NEW a \in Accounts, NEW v \in Amounts, deposit(a, v) \/ withdraw(a, v)
        PROVE  V1!VaultNext
    <3>1. V1!deposit(a, v) \/ V1!withdraw(a, v)
      BY <2>1 DEF deposit, withdraw, pay, V1!deposit, V1!withdraw
    <3> QED
      BY <3>1 DEF V1!VaultNext, V1!CustomerStep
  <2>2. ASSUME NEW a \in Accounts, NEW m \in MarketIds, NEW h \in Bytes32,
               NEW d \in Int8, rebalance(a, m, h, d)
        PROVE  V1!VaultNext
    <3>1. V1!rebalance(a, h, d)
      BY <2>2 DEF rebalance, mayRebalance, steer, V1!rebalance, Postures, V1!Postures
    <3> QED
      BY <3>1 DEF V1!VaultNext, Bytes32, Int8, V1!Int8
  <2>3. ASSUME NEW a \in Accounts,
               \/ \E k \in Accounts \cup {ZeroAddress} : setKeeper(a, k)
               \/ \E p \in BOOLEAN : setPaused(a, p)
        PROVE  V1!VaultNext
    BY <2>3 DEF setKeeper, setPaused, V1!setKeeper, V1!setPaused, V1!VaultNext,
                V1!CustomerStep
  <2>4. CASE VaultStep
    BY <2>1, <2>2, <2>3, <2>4, VaultStepCases
  <2>5. CASE UNCHANGED vaultVars
    BY <2>5 DEF vaultVars, V1!vaultVars
  <2> QED
    BY <2>4, <2>5 DEF VaultNext
<1> QED
  BY <1>1, <1>2, PTL DEF VaultSpec, ImplementsV1, V1!VaultSpec
-------------------------------------------------------------------------------
(* The vault over the oracle, and the way out of it. *)

\* Depositing, rebalancing and rotating keys leave the oracle what it is, so what is
\* proved of OracleSpec holds under the vault (the vault calls only its views).
THEOREM VaultUsesTheOracle == VaultSpec => OracleSpec
<1>1. VaultInit => OracleInit
  BY DEF VaultInit
<1> QED
  BY <1>1, OracleBelow, PTL DEF VaultSpec, OracleSpec

\* Whenever VaultHonest's invariant holds, a depositor who sets out with the whole
\* deposit gets it in one call of withdraw, paused or not, and those who stay are
\* backed as before: so all can leave, one after the other, in any order.  The next
\* state is named outright.
THEOREM EveryDepositCanLeave ==
    ASSUME VaultInv, NEW a \in Accounts, NEW v, v = balanceOf[a], v # 0,
           balanceOf' = [balanceOf EXCEPT ![a] = @ - v],
           totalDeposits' = totalDeposits - v,
           held' = held - v,
           UNCHANGED <<postureVars, roleVars>>
    PROVE  withdraw(a, v) /\ balanceOf'[a] = 0 /\ DepositsAreBacked'
<1>1. /\ balanceOf \in [Accounts -> Nat] /\ v \in Nat
      /\ held \in Nat /\ totalDeposits = held /\ held = SumFunction(balanceOf)
      /\ v <= held
  BY DEF VaultInv, VaultTypeOK, DepositsAreBacked
<1>2. /\ balanceOf' \in [Accounts -> Nat] /\ balanceOf'[a] = 0
      /\ \A x \in Accounts \ {a} : balanceOf'[x] = balanceOf[x]
  <2>1. v - v = 0 /\ balanceOf[a] - v = 0
    BY <1>1
  <2> QED
    BY <1>1, <2>1
<1>3. withdraw(a, v)
  <2>1. v <= balanceOf[a]
    BY <1>1
  <2> QED
    BY <1>1, <2>1 DEF withdraw, pay
<1>4. /\ SumFunction(balanceOf') = SumFunction(balanceOf) - v
      /\ SumFunction(balanceOf') \in Nat
      /\ \A x \in Accounts : balanceOf'[x] <= SumFunction(balanceOf')
  <2>1. /\ SumFunction(balanceOf') = SumFunction(balanceOf) + balanceOf'[a] - balanceOf[a]
        /\ SumFunction(balanceOf') \in Nat
        /\ \A x \in Accounts : balanceOf'[x] <= SumFunction(balanceOf')
    BY <1>1, <1>2, OneDepositMoves
  <2>2. SumFunction(balanceOf) + 0 - v = SumFunction(balanceOf) - v
    BY <1>1
  <2> QED
    BY <1>1, <1>2, <2>1, <2>2
<1>5. DepositsAreBacked'
  BY <1>1, <1>4 DEF DepositsAreBacked
<1> QED
  BY <1>2, <1>3, <1>5
===============================================================================
