------------------------- MODULE VaultKeeperProofs -------------------------
(***************************************************************************)
(* VaultKeeper around PredgeSignalVault for every set of accounts, runs,   *)
(* attestations and hashes, every threshold and every number of tries,     *)
(* faults and rebalances by other keepers.  The agent's posture is         *)
(* accounted for because what is sent was decided on an attestation that   *)
(* verified, and says so as long as it is on its way; a rebalance of an    *)
(* undisturbed run flips the posture because a run during which another    *)
(* run or another keeper moves it is a disturbed one.                      *)
(***************************************************************************)
EXTENDS VaultKeeper, SumTheorems

------------------------------------------------------------------------------
(* The first vault. *)

\* What is deposited is there, account by account.
DepositsAddUp ==
    /\ totalDeposits = SumFunctionOnSet(balanceOf, Accounts)
    /\ held = totalDeposits

BooksAreRight == VaultTypeOK /\ DepositsAddUp

\* A deposit or withdrawal is of one account, and can be paid.
LEMMA DepositMoves ==
    ASSUME BooksAreRight, NEW a \in Accounts, NEW v \in Amounts,
           deposit(a, v) \/ withdraw(a, v)
    PROVE  BooksAreRight'
<1>1. /\ v \in Nat /\ IsFiniteSet(Accounts) /\ balanceOf \in [Accounts -> Nat]
      /\ held \in Nat /\ totalDeposits = held
      /\ held = SumFunctionOnSet(balanceOf, Accounts)
  BY VaultAssumption DEF BooksAreRight, VaultTypeOK, DepositsAddUp
<1>2. UNCHANGED <<postureVars, roleVars>>
  BY DEF deposit, withdraw
<1>3. /\ balanceOf' \in [Accounts -> Nat]
      /\ \A x \in Accounts \ {a} : balanceOf'[x] = balanceOf[x]
      /\ held' = held + balanceOf'[a] - balanceOf[a] /\ totalDeposits' = held'
      /\ held' \in Nat
  <2>1. CASE deposit(a, v)
    BY <1>1, <2>1 DEF deposit
  <2>2. CASE withdraw(a, v)
    BY <1>1, <2>2 DEF withdraw
  <2> QED
    BY <2>1, <2>2
<1>4. \A x \in Accounts : balanceOf[x] \in Int /\ balanceOf'[x] \in Int
  BY <1>1, <1>3
<1>5. SumFunctionOnSet(balanceOf', Accounts)
        = SumFunctionOnSet(balanceOf, Accounts) + balanceOf'[a] - balanceOf[a]
  BY <1>1, <1>3, <1>4, SumUpdate
<1> QED
  BY <1>1, <1>2, <1>3, <1>5 DEF BooksAreRight, VaultTypeOK, DepositsAddUp, postureVars, roleVars

\* Every other call leaves the deposits alone.
LEMMA BooksStayRight == BooksAreRight /\ [VaultNext]_vaultVars => BooksAreRight'
<1> SUFFICES ASSUME BooksAreRight, [VaultNext]_vaultVars PROVE BooksAreRight'
  OBVIOUS
<1> USE DEF BooksAreRight, VaultTypeOK, DepositsAddUp, depositVars, postureVars
<1>1. ASSUME NEW a \in Accounts, NEW k \in Accounts \cup {ZeroAddress}, setKeeper(a, k)
      PROVE  BooksAreRight'
  BY <1>1 DEF setKeeper
<1>2. ASSUME NEW a \in Accounts, NEW p \in BOOLEAN, setPaused(a, p) PROVE BooksAreRight'
  BY <1>2 DEF setPaused
<1>3. ASSUME NEW a \in Accounts, NEW h \in Hashes \cup {ZeroHash}, NEW d \in Int8,
             rebalance(a, h, d)
      PROVE  BooksAreRight'
  BY <1>3 DEF rebalance, roleVars
<1>4. CASE UNCHANGED vaultVars
  BY <1>4 DEF vaultVars, roleVars
<1> QED
  BY <1>1, <1>2, <1>3, <1>4, DepositMoves DEF VaultNext, CustomerStep

LEMMA VaultInitBooks == VaultInit => BooksAreRight
<1> SUFFICES ASSUME VaultInit PROVE BooksAreRight
  OBVIOUS
<1>1. balanceOf \in [Accounts -> Nat] /\ \A a \in Accounts : balanceOf[a] = 0
  BY DEF VaultInit
<1>2. SumFunctionOnSet(balanceOf, Accounts) = 0
  BY <1>1, VaultAssumption, SumZero
<1> QED
  BY <1>1, <1>2 DEF VaultInit, BooksAreRight, VaultTypeOK, DepositsAddUp, Postures

\* Whatever a depositor asks for, whoever holds the keeper's seat and whether or not the
\* vault is paused: it holds what it owes, and knows how much that is.
THEOREM FirstVaultAddsUp == VaultSpec => []BooksAreRight
  BY VaultInitBooks, BooksStayRight, PTL DEF VaultSpec

------------------------------------------------------------------------------
(* The keeper. *)

\* What is sent was decided, by the rule, on an attestation that verified.
decided(call) ==
    \E s \in Attestations : /\ s.hash = call.hash
                            /\ verifyAndPin(s)
                            /\ target(s) = call.direction

RunsAreDecided == \A r \in Runs : run[r].at \in {"send", "wait"} => decided(run[r])
CallsAreDecided == \A i \in DOMAIN mempool : decided(mempool[i])

\* What the runs and the mempool are, the vault apart.
KeeperParts ==
    /\ feed \in Attestations
    /\ issues \in 0 .. MaxIssues
    /\ run \in [Runs -> RunStates]
    /\ mempool \in Seq([by : Runs, hash : Hashes, direction : Postures])
    /\ faults \in 0 .. MaxFaults
    /\ disturbed \in BOOLEAN
    /\ lastKeeper \in Accounts \cup {ZeroAddress}
    /\ others \in 0 .. MaxOthers

KeeperIInv ==
    /\ BooksAreRight /\ KeeperParts
    /\ RunsAreDecided /\ CallsAreDecided /\ PostureHasASignal

\* While nothing fails and no run meets another, one run at a time goes from the posture
\* it read to a call that changes it.
OneRunAtATime ==
    /\ \A r, s \in busy : r = s
    /\ Len(mempool) <= 1
    /\ \A i \in DOMAIN mempool : /\ run[mempool[i].by].at = "wait"
                                 /\ mempool[i].direction # posture
    /\ \A r \in Runs :
          /\ run[r].at \in {"sense", "send"} => mempool = <<>>
          /\ run[r].at = "sense" => run[r].before = posture
          /\ run[r].at = "send" => run[r].direction # posture

Undisturbed == ~disturbed => OneRunAtATime

\* What is left of a queue when its first element is taken.
LEMMA FirstTaken ==
    ASSUME NEW S, NEW q \in Seq(S), q # <<>>
    PROVE  /\ Head(q) \in S /\ Head(q) = q[1] /\ 1 \in DOMAIN q
           /\ Tail(q) \in Seq(S) /\ Len(Tail(q)) = Len(q) - 1
           /\ \A i \in DOMAIN Tail(q) : i + 1 \in DOMAIN q /\ Tail(q)[i] = q[i + 1]
OBVIOUS

LEMMA TargetIsAPosture == \A s : target(s) \in Postures
BY DEF target, Postures

LEMMA RunKinds ==
    ASSUME NEW p \in RunStates
    PROVE  /\ p.at \in {"idle", "sense", "send", "wait"}
           /\ p.at = "idle" <=> p = Idle
           /\ p.at = "sense" => p.before \in Postures
           /\ p.at \in {"send", "wait"} =>
                 /\ p.hash \in Hashes /\ p.direction \in Postures
                 /\ p.tries \in 0 .. MaxTries
                 /\ [p EXCEPT !.at = "wait"] \in RunStates
                 /\ [p EXCEPT !.at = "wait"].at = "wait"
                 /\ [p EXCEPT !.at = "wait"].hash = p.hash
                 /\ [p EXCEPT !.at = "wait"].direction = p.direction
                 /\ p.tries + 1 < MaxTries =>
                       /\ [p EXCEPT !.tries = @ + 1] \in RunStates
                       /\ [p EXCEPT !.tries = @ + 1].at = p.at
                       /\ [p EXCEPT !.tries = @ + 1].hash = p.hash
                       /\ [p EXCEPT !.tries = @ + 1].direction = p.direction
BY KeeperAssumption DEF RunStates, Idle

\* The keeper's calls are calls of the vault.
LEMMA KeeperMovesVault == KeeperParts /\ [KeeperNext]_keeperAllVars => [VaultNext]_vaultVars
<1> SUFFICES ASSUME KeeperParts, [KeeperNext]_keeperAllVars PROVE [VaultNext]_vaultVars
  OBVIOUS
<1>1. ASSUME NEW r \in Runs, RunStep(r) \/ loseAnswer(r) \/ fail(r)
      PROVE  UNCHANGED vaultVars
  BY <1>1 DEF RunStep, cycle, senseAndDecide, decideOn, send, finish, loseAnswer, fail
<1>2. CASE mine
  <2>1. CASE acceptable
    <3>1. Head(mempool) \in [by : Runs, hash : Hashes, direction : Postures]
      BY <1>2, FirstTaken DEF mine, KeeperParts
    <3>2. rebalance(Bot, Head(mempool).hash, Head(mempool).direction)
      BY <1>2, <2>1 DEF mine
    <3>3. Head(mempool).direction \in Int8 /\ Bot \in Accounts
      BY <3>1, KeeperAssumption DEF Postures, Int8
    <3> QED
      BY <3>1, <3>2, <3>3 DEF VaultNext
  <2>2. CASE ~acceptable
    BY <1>2, <2>2 DEF mine
  <2> QED
    BY <2>1, <2>2
<1>3. ASSUME NEW s \in Attestations, publish(s) PROVE UNCHANGED vaultVars
  BY <1>3 DEF publish
<1>4. CASE CustomerStep
  BY <1>4 DEF VaultNext
<1>5. ASSUME NEW a \in Accounts, NEW h \in OtherHashes, NEW d \in Int8, otherRebalance(a, h, d)
      PROVE  VaultNext
  <2>1. rebalance(a, h, d) /\ h \in Hashes \cup {ZeroHash}
    BY <1>5, KeeperAssumption DEF otherRebalance
  <2> QED
    BY <2>1 DEF VaultNext
<1>6. CASE UNCHANGED keeperAllVars
  BY <1>6 DEF keeperAllVars
<1> QED
  BY <1>1, <1>2, <1>3, <1>4, <1>5, <1>6 DEF KeeperNext

\* One run moves on, and what it is about to send is decided.
LEMMA RunTurns ==
    ASSUME run \in [Runs -> RunStates], RunsAreDecided, NEW r \in Runs, NEW p \in RunStates,
           become(r, p), p.at \in {"send", "wait"} => decided(p)
    PROVE  /\ run' \in [Runs -> RunStates] /\ RunsAreDecided'
           /\ run'[r] = p /\ \A s \in Runs \ {r} : run'[s] = run[s]
<1>1. /\ run' \in [Runs -> RunStates]
      /\ run'[r] = p /\ \A s \in Runs \ {r} : run'[s] = run[s]
  BY DEF become
<1>2. ASSUME NEW s \in Runs, run'[s].at \in {"send", "wait"} PROVE decided(run'[s])
  BY <1>1, <1>2 DEF RunsAreDecided
<1>3. RunsAreDecided'
  BY <1>2 DEF RunsAreDecided, decided
<1> QED
  BY <1>1, <1>3

\* A run that sends adds its decided call, or none.
LEMMA CallsAdded ==
    ASSUME KeeperParts, RunsAreDecided, CallsAreDecided, NEW r \in Runs, run[r].at = "send",
           accept(r) \/ UNCHANGED mempool
    PROVE  /\ mempool' \in Seq([by : Runs, hash : Hashes, direction : Postures])
           /\ CallsAreDecided'
           /\ accept(r) => /\ Len(mempool') = Len(mempool) + 1
                           /\ mempool'[Len(mempool) + 1].by = r
                           /\ mempool'[Len(mempool) + 1].direction = run[r].direction
<1> DEFINE call == [by |-> r, hash |-> run[r].hash, direction |-> run[r].direction]
           Entries == [by : Runs, hash : Hashes, direction : Postures]
<1>1. mempool \in Seq(Entries)
  BY DEF KeeperParts
<1>2. call \in Entries
  BY RunKinds DEF KeeperParts
<1>3. decided(run[r])
  BY DEF RunsAreDecided
<1>4. decided(call)
  BY <1>3 DEF decided
<1>5. CASE accept(r)
  <2>1. mempool' = Append(mempool, call)
    BY <1>5 DEF accept
  <2> HIDE DEF call, Entries
  <2>2. /\ mempool' \in Seq(Entries) /\ Len(mempool') = Len(mempool) + 1
        /\ mempool'[Len(mempool) + 1] = call
        /\ \A i \in DOMAIN mempool' :
              mempool'[i] = call \/ (i \in DOMAIN mempool /\ mempool'[i] = mempool[i])
    BY <1>1, <1>2, <2>1
  <2>3. \A i \in DOMAIN mempool' : decided(mempool'[i])
    BY <1>4, <2>2 DEF CallsAreDecided
  <2> QED
    BY <2>2, <2>3 DEF CallsAreDecided, decided, call, Entries
<1>6. CASE UNCHANGED mempool /\ ~accept(r)
  BY <1>1, <1>6 DEF CallsAreDecided, decided
<1> QED
  BY <1>5, <1>6

\* Steps of one run, failing or not: none moves the vault.
LEMMA RunKeeps ==
    ASSUME KeeperIInv, NEW r \in Runs, RunStep(r) \/ loseAnswer(r) \/ fail(r)
    PROVE  KeeperParts' /\ RunsAreDecided' /\ CallsAreDecided'
<1> USE DEF KeeperIInv
<1>0. /\ run \in [Runs -> RunStates] /\ run[r] \in RunStates /\ Idle \in RunStates
      /\ Idle.at = "idle"
  BY DEF KeeperParts, RunStates, Idle
<1>b. UNCHANGED <<lastKeeper, others>>
  BY DEF RunStep, cycle, senseAndDecide, decideOn, send, finish, loseAnswer, fail, seatVars
<1>a. UNCHANGED mempool => CallsAreDecided'
  BY DEF CallsAreDecided, decided
<1>1. CASE cycle(r)
  <2> DEFINE p == [at |-> "sense", before |-> posture]
  <2>1. p \in RunStates /\ p.at = "sense"
    BY DEF RunStates, BooksAreRight, VaultTypeOK
  <2>2. become(r, p) /\ UNCHANGED <<feed, issues, mempool, faults>> /\ disturbed' \in BOOLEAN
    BY <1>1 DEF cycle
  <2> HIDE DEF p
  <2> QED
    BY <1>0, <1>a, <1>b, <2>1, <2>2, RunTurns DEF KeeperParts
<1>2. CASE senseAndDecide(r)
  <2> DEFINE p == [at |-> "send", hash |-> feed.hash, direction |-> target(feed), tries |-> 0]
  <2>1. /\ p \in RunStates /\ p.at = "send"
        /\ p.hash = feed.hash /\ p.direction = target(feed)
    <3>1. feed \in AttestationRecords
      BY KeeperAssumption DEF KeeperParts
    <3>2. feed.hash \in Hashes /\ target(feed) \in Postures /\ 0 \in 0 .. MaxTries
      BY <3>1, TargetIsAPosture, KeeperAssumption DEF AttestationRecords
    <3> QED
      BY <3>2 DEF RunStates
  <2>2. /\ (become(r, p) /\ verifyAndPin(feed)) \/ become(r, Idle)
        /\ UNCHANGED <<feed, issues, mempool, faults, disturbed>>
    BY <1>2 DEF senseAndDecide, decideOn
  <2> HIDE DEF p
  <2>3. verifyAndPin(feed) => decided(p)
    BY <2>1 DEF decided, KeeperParts
  <2> QED
    BY <1>0, <1>a, <1>b, <2>1, <2>2, <2>3, RunTurns DEF KeeperParts
<1>3. CASE send(r)
  <2> DEFINE p == [run[r] EXCEPT !.at = "wait"]
  <2>1. run[r].at = "send" /\ decided(run[r])
    BY <1>3 DEF send, RunsAreDecided
  <2>2. /\ p \in RunStates /\ p.at = "wait"
        /\ p.hash = run[r].hash /\ p.direction = run[r].direction
    BY <1>0, <2>1, RunKinds
  <2>3. /\ become(r, p) \/ become(r, Idle)
        /\ accept(r) \/ UNCHANGED mempool
        /\ UNCHANGED <<feed, issues, faults, disturbed>>
    BY <1>3 DEF send
  <2> HIDE DEF p
  <2>4. decided(p)
    BY <2>1, <2>2 DEF decided
  <2>5. /\ mempool' \in Seq([by : Runs, hash : Hashes, direction : Postures])
        /\ CallsAreDecided'
    BY <2>1, <2>3, CallsAdded
  <2> QED
    BY <1>0, <1>b, <2>2, <2>3, <2>4, <2>5, RunTurns DEF KeeperParts
<1>4. CASE finish(r)
  BY <1>0, <1>4, <1>a, <1>b, RunTurns DEF finish, KeeperParts
<1>5. CASE loseAnswer(r)
  <2> DEFINE p == [run[r] EXCEPT !.tries = @ + 1]
  <2>1. run[r].at = "send" /\ decided(run[r])
    BY <1>5 DEF loseAnswer, RunsAreDecided
  <2>2. run[r].tries + 1 < MaxTries =>
           /\ p \in RunStates /\ p.at = "send"
           /\ p.hash = run[r].hash /\ p.direction = run[r].direction
    BY <1>0, <2>1, RunKinds
  <2>3. /\ (run[r].tries + 1 < MaxTries /\ become(r, p)) \/ become(r, Idle)
        /\ accept(r) \/ UNCHANGED mempool
        /\ UNCHANGED <<feed, issues>> /\ disturbed' \in BOOLEAN /\ faults' \in 0 .. MaxFaults
    BY <1>5, KeeperAssumption DEF loseAnswer, fault, KeeperParts
  <2> HIDE DEF p
  <2>4. run[r].tries + 1 < MaxTries => decided(p)
    BY <2>1, <2>2 DEF decided
  <2>5. /\ mempool' \in Seq([by : Runs, hash : Hashes, direction : Postures])
        /\ CallsAreDecided'
    BY <2>1, <2>3, CallsAdded
  <2> QED
    BY <1>0, <1>b, <2>2, <2>3, <2>4, <2>5, RunTurns DEF KeeperParts
<1>6. CASE fail(r)
  <2>1. faults' \in 0 .. MaxFaults /\ disturbed' \in BOOLEAN
    BY <1>6, KeeperAssumption DEF fail, fault, KeeperParts
  <2> QED
    BY <1>0, <1>6, <1>a, <1>b, <2>1, RunTurns DEF fail, KeeperParts
<1> QED
  BY <1>1, <1>2, <1>3, <1>4, <1>5, <1>6 DEF RunStep

\* The chain moves the posture by a decided call only.
LEMMA MineKeepsDecided ==
    ASSUME KeeperIInv, mine
    PROVE  KeeperParts' /\ RunsAreDecided' /\ CallsAreDecided' /\ PostureHasASignal'
<1> DEFINE Entries == [by : Runs, hash : Hashes, direction : Postures]
<1>1. /\ mempool \in Seq(Entries) /\ mempool # <<>> /\ mempool' = Tail(mempool)
      /\ UNCHANGED <<feed, issues, run, faults, disturbed, others>>
      /\ lastKeeper' \in Accounts \cup {ZeroAddress}
  BY KeeperAssumption DEF KeeperIInv, KeeperParts, mine
<1>2. /\ Head(mempool) = mempool[1] /\ 1 \in DOMAIN mempool
      /\ mempool' \in Seq(Entries)
      /\ \A i \in DOMAIN mempool' : i + 1 \in DOMAIN mempool /\ mempool'[i] = mempool[i + 1]
  <2> HIDE DEF Entries
  <2> QED
    BY <1>1, FirstTaken
<1>3. KeeperParts' /\ RunsAreDecided'
  BY <1>1, <1>2 DEF KeeperIInv, KeeperParts, RunsAreDecided, decided
<1>4. CallsAreDecided'
  <2>1. \A i \in DOMAIN mempool' : decided(mempool'[i])
    BY <1>2 DEF KeeperIInv, CallsAreDecided
  <2> QED
    BY <2>1 DEF CallsAreDecided, decided
<1>5. PostureHasASignal'
  <2>1. CASE acceptable
    <3>1. /\ rebalanceCount' = rebalanceCount + 1 /\ rebalanceCount \in Nat
          /\ posture' = Head(mempool).direction /\ lastSignalHash' = Head(mempool).hash
      BY <2>1 DEF mine, rebalance, KeeperIInv, BooksAreRight, VaultTypeOK
    <3>2. decided(Head(mempool))
      BY <1>2 DEF KeeperIInv, CallsAreDecided
    <3>3. PICK s \in Attestations : /\ s.hash = lastSignalHash' /\ verifyAndPin(s)
                                    /\ target(s) = posture'
      BY <3>1, <3>2 DEF decided
    <3>4. posture' # 0 => ~tooFew(s) /\ ~s.insufficient_data
      BY <3>3 DEF target, decisive
    <3> QED
      BY <3>1, <3>3, <3>4 DEF PostureHasASignal, verifyAndPin, target, decisive, tooFew
  <2>2. CASE ~acceptable
    BY <2>2 DEF mine, vaultVars, postureVars, KeeperIInv, PostureHasASignal, verifyAndPin,
                target, decisive, tooFew
  <2> QED
    BY <2>1, <2>2
<1> QED
  BY <1>3, <1>4, <1>5

LEMMA KeeperStepInv == KeeperIInv /\ [KeeperNext]_keeperAllVars => KeeperIInv'
<1> SUFFICES ASSUME KeeperIInv, [KeeperNext]_keeperAllVars, KeeperParts PROVE KeeperIInv'
  BY DEF KeeperIInv
<1>a. UNCHANGED <<postureVars, lastKeeper>> => PostureHasASignal'
  BY DEF KeeperIInv, postureVars, PostureHasASignal, verifyAndPin, target, decisive, tooFew
<1>b. UNCHANGED <<run, mempool>> => RunsAreDecided' /\ CallsAreDecided'
  BY DEF KeeperIInv, RunsAreDecided, CallsAreDecided, decided
<1>0. KeeperParts' /\ RunsAreDecided' /\ CallsAreDecided' /\ PostureHasASignal'
  <2>1. ASSUME NEW r \in Runs, RunStep(r) \/ loseAnswer(r) \/ fail(r)
        PROVE  KeeperParts' /\ RunsAreDecided' /\ CallsAreDecided' /\ PostureHasASignal'
    <3>1. UNCHANGED <<postureVars, lastKeeper>>
      BY <2>1 DEF RunStep, cycle, senseAndDecide, decideOn, send, finish, loseAnswer, fail,
                  vaultVars, seatVars
    <3> QED
      BY <2>1, <3>1, <1>a, RunKeeps
  <2>2. CASE mine
    BY <2>2, MineKeepsDecided
  <2>3. ASSUME NEW s \in Attestations, publish(s)
        PROVE  KeeperParts' /\ RunsAreDecided' /\ CallsAreDecided' /\ PostureHasASignal'
    <3>1. /\ feed' \in Attestations /\ issues' \in 0 .. MaxIssues
          /\ UNCHANGED <<vaultVars, run, mempool, faults, disturbed, lastKeeper, others>>
      BY <2>3, KeeperAssumption DEF publish, KeeperParts, seatVars
    <3> QED
      BY <3>1, <1>a, <1>b DEF KeeperParts, vaultVars
  <2>4. CASE CustomerStep /\ UNCHANGED keeperVars
    <3>1. UNCHANGED postureVars
      BY <2>4 DEF CustomerStep, deposit, withdraw, setKeeper, setPaused
    <3> QED
      BY <2>4, <3>1, <1>a, <1>b DEF keeperVars, seatVars, KeeperParts
  <2>5. ASSUME NEW a \in Accounts, NEW h \in OtherHashes, NEW d \in Int8, otherRebalance(a, h, d)
        PROVE  KeeperParts' /\ RunsAreDecided' /\ CallsAreDecided' /\ PostureHasASignal'
    <3>1. /\ lastKeeper' = a /\ a # Bot /\ rebalanceCount' = rebalanceCount + 1
          /\ UNCHANGED <<feed, issues, run, mempool, faults>>
          /\ others' \in 0 .. MaxOthers /\ disturbed' \in BOOLEAN
      BY <2>5, KeeperAssumption DEF otherRebalance, rebalance, KeeperParts
    <3>2. rebalanceCount' # 0
      BY <3>1 DEF KeeperIInv, BooksAreRight, VaultTypeOK
    <3> QED
      BY <3>1, <3>2, <1>b DEF KeeperParts, PostureHasASignal
  <2>6. CASE UNCHANGED keeperAllVars
    BY <2>6, <1>a, <1>b DEF keeperAllVars, keeperVars, vaultVars, seatVars, KeeperParts
  <2> QED
    BY <2>1, <2>2, <2>3, <2>4, <2>5, <2>6 DEF KeeperNext
<1>1. BooksAreRight'
  BY KeeperMovesVault, BooksStayRight DEF KeeperIInv
<1> QED
  BY <1>0, <1>1 DEF KeeperIInv

LEMMA KeeperInitInv == KeeperInit => KeeperIInv
<1> SUFFICES ASSUME KeeperInit PROVE KeeperIInv
  OBVIOUS
<1>1. BooksAreRight
  BY VaultInitBooks DEF KeeperInit
<1>2. /\ Idle \in RunStates /\ Idle.at = "idle"
      /\ run = [r \in Runs |-> Idle] /\ mempool = <<>>
  BY DEF KeeperInit, RunStates, Idle
<1>3. KeeperParts
  <2>1. 0 \in 0 .. MaxIssues /\ 0 \in 0 .. MaxFaults /\ 0 \in 0 .. MaxOthers
    BY KeeperAssumption
  <2>2. run \in [Runs -> RunStates]
    BY <1>2
  <2>3. \A S : <<>> \in Seq(S)
    OBVIOUS
  <2> QED
    BY <1>2, <2>1, <2>2, <2>3 DEF KeeperInit, KeeperParts
<1>4. RunsAreDecided /\ CallsAreDecided
  BY <1>2 DEF RunsAreDecided, CallsAreDecided
<1>5. PostureHasASignal
  BY DEF KeeperInit, VaultInit, PostureHasASignal
<1> QED
  BY <1>1, <1>3, <1>4, <1>5 DEF KeeperIInv

LEMMA KeeperIInvHolds == KeeperSpec => []KeeperIInv
  BY KeeperInitInv, KeeperStepInv, PTL DEF KeeperSpec

\* The keeper is a user of the vault like any other, whatever it loses and wherever it
\* dies: what is proved of the vault holds beside it.
THEOREM KeeperUsesTheVault == KeeperSpec => VaultSpec
<1>1. KeeperInit => VaultInit
  BY DEF KeeperInit
<1>2. KeeperIInv /\ [KeeperNext]_keeperAllVars => [VaultNext]_vaultVars
  BY KeeperMovesVault DEF KeeperIInv
<1> QED
  BY <1>1, <1>2, KeeperIInvHolds, PTL DEF KeeperSpec, VaultSpec

\* The agent never moves the vault on a signal that did not verify: as long as its wallet
\* was the last to rebalance, the posture is what the rule takes from the very attestation
\* whose hash the vault stores, however late or often that call was mined, whatever the
\* owner does meanwhile and whatever any keeper it seats has rebalanced on before.
THEOREM KeeperHonest == KeeperSpec => []KeeperInv
<1>1. KeeperIInv => KeeperInv
  BY DEF KeeperIInv, BooksAreRight, KeeperParts, KeeperInv, KeeperTypeOK
<1> QED
  BY <1>1, KeeperIInvHolds, PTL

------------------------------------------------------------------------------
(* The keeper, undisturbed. *)

LEMMA CallsAreOfRuns == KeeperParts => \A i \in DOMAIN mempool : mempool[i].by \in Runs
<1> SUFFICES ASSUME KeeperParts, NEW i \in DOMAIN mempool PROVE mempool[i].by \in Runs
  OBVIOUS
<1> DEFINE Entries == [by : Runs, hash : Hashes, direction : Postures]
<1>1. mempool \in Seq(Entries)
  BY DEF KeeperParts
<1>2. mempool[i] \in Entries
  <2> HIDE DEF Entries
  <2> QED
    BY <1>1
<1> QED
  BY <1>2

\* One run at a time turns; what it became decides whether the others still wait.
LEMMA FlipByRun ==
    ASSUME KeeperIInv, Undisturbed, NEW r \in Runs, RunStep(r) \/ loseAnswer(r) \/ fail(r)
    PROVE  Undisturbed'
<1> SUFFICES ASSUME ~disturbed' PROVE OneRunAtATime'
  BY DEF Undisturbed
<1>0. /\ run \in [Runs -> RunStates] /\ run[r] \in RunStates /\ Idle \in RunStates
      /\ Idle.at = "idle" /\ mempool \in Seq([by : Runs, hash : Hashes, direction : Postures])
  BY DEF KeeperIInv, KeeperParts, RunStates, Idle
<1>1. ~disturbed /\ OneRunAtATime /\ RunStep(r)
  BY DEF KeeperIInv, KeeperParts, Undisturbed, RunStep, cycle, senseAndDecide, decideOn, send,
         finish, loseAnswer, fail, fault
<1>2. ASSUME NEW p \in RunStates, become(r, p)
      PROVE  /\ run'[r] = p /\ \A s \in Runs \ {r} : run'[s] = run[s]
             /\ busy' \subseteq busy \cup {r}
             /\ p = Idle => busy' = busy \ {r}
  BY <1>0, <1>2 DEF become, busy
<1>3. run[r] # Idle => /\ r \in busy /\ busy = {r}
                       /\ \A s \in Runs \ {r} : run[s] = Idle /\ run[s].at = "idle"
                       /\ \A i \in DOMAIN mempool : mempool[i].by = r
  <2>1. \A i \in DOMAIN mempool : mempool[i].by \in Runs /\ run[mempool[i].by].at = "wait"
    BY <1>1, CallsAreOfRuns DEF OneRunAtATime, KeeperIInv
  <2>2. \A i \in DOMAIN mempool : mempool[i].by \in busy
    BY <1>0, <2>1 DEF busy
  <2>3. run[r] # Idle => r \in busy /\ busy = {r}
    BY <1>1 DEF OneRunAtATime, busy
  <2> QED
    BY <1>0, <2>2, <2>3 DEF busy
<1>4. UNCHANGED posture
  BY <1>1 DEF RunStep, cycle, senseAndDecide, decideOn, send, finish, vaultVars, postureVars
<1>5. CASE cycle(r)
  <2> DEFINE p == [at |-> "sense", before |-> posture]
  <2>1. p \in RunStates /\ p.at = "sense" /\ p.before = posture
    BY DEF RunStates, KeeperIInv, BooksAreRight, VaultTypeOK
  <2>2. become(r, p) /\ busy = {} /\ mempool = <<>> /\ UNCHANGED mempool
    BY <1>5 DEF cycle
  <2>3. \A s \in Runs : run[s] = Idle
    BY <2>2 DEF busy
  <2> HIDE DEF p
  <2>4. /\ run'[r] = p /\ \A s \in Runs \ {r} : run'[s].at = "idle" /\ busy' \subseteq {r}
    BY <1>0, <1>2, <2>1, <2>2, <2>3
  <2>5. busy' \subseteq {r}
    BY <1>2, <2>1, <2>2
  <2> QED
    BY <1>4, <2>1, <2>2, <2>4, <2>5 DEF OneRunAtATime
<1>6. CASE senseAndDecide(r)
  <2> DEFINE p == [at |-> "send", hash |-> feed.hash, direction |-> target(feed), tries |-> 0]
  <2>1. run[r].at = "sense" /\ mempool = <<>> /\ run[r].before = posture /\ UNCHANGED mempool
    BY <1>1, <1>6 DEF senseAndDecide, decideOn, OneRunAtATime
  <2>2. run[r] # Idle
    BY <1>0, <2>1
  <2>3. p \in RunStates /\ p.at = "send" /\ p.direction = target(feed)
    <3>1. feed.hash \in Hashes /\ target(feed) \in Postures /\ 0 \in 0 .. MaxTries
      BY TargetIsAPosture, KeeperAssumption DEF KeeperIInv, KeeperParts, AttestationRecords
    <3> QED
      BY <3>1 DEF RunStates
  <2>4. \/ become(r, p) /\ target(feed) # posture
        \/ become(r, Idle)
    BY <1>6, <2>1 DEF senseAndDecide, decideOn
  <2> HIDE DEF p
  <2>5. /\ busy' \subseteq {r} /\ \A s \in Runs \ {r} : run'[s].at = "idle"
        /\ (run'[r].at = "send" /\ run'[r].direction # posture) \/ run'[r].at = "idle"
    BY <1>0, <1>2, <1>3, <2>2, <2>3, <2>4
  <2> QED
    BY <1>4, <2>1, <2>5 DEF OneRunAtATime
<1>7. CASE send(r)
  <2> DEFINE p == [run[r] EXCEPT !.at = "wait"]
  <2>1. run[r].at = "send" /\ mempool = <<>> /\ run[r].direction # posture
    BY <1>1, <1>7 DEF send, OneRunAtATime
  <2>2. run[r] # Idle
    BY <1>0, <2>1
  <2>3. p \in RunStates /\ p.at = "wait"
    BY <1>0, <2>1, RunKinds
  <2>4. \/ become(r, p) /\ accept(r)
        \/ become(r, Idle) /\ UNCHANGED mempool
    BY <1>7 DEF send
  <2> HIDE DEF p
  <2>5. /\ busy' \subseteq {r} /\ \A s \in Runs \ {r} : run'[s].at = "idle"
        /\ \/ run'[r].at = "wait" /\ accept(r)
           \/ run'[r].at = "idle" /\ UNCHANGED mempool
    BY <1>0, <1>2, <1>3, <2>2, <2>3, <2>4
  <2>6. accept(r) => /\ Len(mempool') = 1
                     /\ \A i \in DOMAIN mempool' : /\ mempool'[i].by = r
                                                   /\ mempool'[i].direction # posture
    BY <2>1 DEF accept
  <2> QED
    BY <1>4, <2>1, <2>5, <2>6 DEF OneRunAtATime
<1>8. CASE finish(r)
  <2>1. run[r].at = "wait" /\ become(r, Idle) /\ UNCHANGED mempool
        /\ \A i \in DOMAIN mempool : mempool[i].by # r
    BY <1>8 DEF finish
  <2>2. run[r] # Idle
    BY <1>0, <2>1
  <2>3. mempool = <<>>
    BY <1>0, <1>3, <2>1, <2>2
  <2>4. /\ busy' = {} /\ \A s \in Runs : run'[s].at = "idle"
    BY <1>0, <1>2, <1>3, <2>1, <2>2
  <2> QED
    BY <1>4, <2>1, <2>3, <2>4 DEF OneRunAtATime
<1> QED
  BY <1>1, <1>5, <1>6, <1>7, <1>8 DEF RunStep

\* The one call on its way flips the posture, and leaves the mempool empty.
LEMMA FlipByMine ==
    ASSUME KeeperIInv, Undisturbed, mine
    PROVE  /\ Undisturbed'
           /\ rebalanceCount' # rebalanceCount /\ ~disturbed => posture' # posture
<1> SUFFICES ASSUME ~disturbed
             PROVE  OneRunAtATime' /\ (rebalanceCount' # rebalanceCount => posture' # posture)
  BY DEF Undisturbed, mine
<1> DEFINE Entries == [by : Runs, hash : Hashes, direction : Postures]
<1>1. /\ mempool \in Seq(Entries) /\ mempool # <<>> /\ mempool' = Tail(mempool)
      /\ UNCHANGED run /\ OneRunAtATime
  BY DEF KeeperIInv, KeeperParts, mine, Undisturbed
<1>2. /\ Head(mempool) = mempool[1] /\ 1 \in DOMAIN mempool
      /\ mempool' \in Seq(Entries) /\ Len(mempool') = Len(mempool) - 1
      /\ Len(mempool) \in Nat
  <2> HIDE DEF Entries
  <2> QED
    BY <1>1, FirstTaken
<1>3. Len(mempool) <= 1 /\ mempool[1].direction # posture
  BY <1>1, <1>2 DEF OneRunAtATime
<1>4. mempool' = <<>>
  <2> HIDE DEF Entries
  <2> QED
    BY <1>1, <1>2, <1>3
<1>5. \A r \in Runs : run[r].at \notin {"sense", "send"}
  BY <1>1 DEF OneRunAtATime
<1>6. busy' = busy
  BY <1>1 DEF busy
<1>7. OneRunAtATime'
  BY <1>1, <1>4, <1>5, <1>6 DEF OneRunAtATime
<1>8. ASSUME rebalanceCount' # rebalanceCount PROVE posture' = mempool[1].direction
  BY <1>2, <1>8 DEF mine, rebalance, vaultVars, postureVars
<1> QED
  BY <1>3, <1>7, <1>8

\* What neither the runs nor the mempool nor the posture take part in disturbs nobody.
LEMMA FlipUnmoved ==
    ASSUME Undisturbed, UNCHANGED <<run, mempool, posture, disturbed>>
    PROVE  Undisturbed'
BY DEF Undisturbed, OneRunAtATime, busy

\* Another keeper's rebalance that disturbs nobody finds no run and no call on its way.
LEMMA FlipByOther ==
    ASSUME Undisturbed, NEW a, NEW h, NEW d, otherRebalance(a, h, d)
    PROVE  Undisturbed'
<1> SUFFICES ASSUME ~disturbed' PROVE OneRunAtATime'
  BY DEF Undisturbed
<1>1. busy = {} /\ mempool = <<>> /\ UNCHANGED <<run, mempool>>
  BY DEF otherRebalance
<1>2. \A r \in Runs : run'[r].at = "idle"
  BY <1>1 DEF busy, Idle
<1>3. busy' = {}
  BY <1>1 DEF busy
<1> QED
  BY <1>1, <1>2, <1>3 DEF OneRunAtATime

LEMMA FlipStep ==
    ASSUME KeeperIInv, Undisturbed, [KeeperNext]_keeperAllVars
    PROVE  /\ Undisturbed'
           /\ rebalanceCount' # rebalanceCount /\ lastKeeper' = Bot /\ ~disturbed
                => posture' # posture
<1>1. ASSUME NEW r \in Runs, RunStep(r) \/ loseAnswer(r) \/ fail(r)
      PROVE  Undisturbed' /\ UNCHANGED rebalanceCount
  <2>1. UNCHANGED rebalanceCount
    BY <1>1 DEF RunStep, cycle, senseAndDecide, decideOn, send, finish, loseAnswer, fail,
                vaultVars, postureVars
  <2> QED
    BY <1>1, <2>1, FlipByRun
<1>2. ASSUME NEW s \in Attestations, publish(s) PROVE Undisturbed' /\ UNCHANGED rebalanceCount
  BY <1>2, FlipUnmoved DEF publish, vaultVars, postureVars
<1>3. CASE CustomerStep /\ UNCHANGED keeperVars
  <2>1. UNCHANGED postureVars
    BY <1>3 DEF CustomerStep, deposit, withdraw, setKeeper, setPaused
  <2> QED
    BY <1>3, <2>1, FlipUnmoved DEF keeperVars, postureVars
<1>4. ASSUME NEW a \in Accounts, NEW h \in OtherHashes, NEW d \in Int8, otherRebalance(a, h, d)
      PROVE  Undisturbed' /\ lastKeeper' # Bot
  BY <1>4, FlipByOther DEF otherRebalance
<1>5. CASE UNCHANGED keeperAllVars
  BY <1>5, FlipUnmoved DEF keeperAllVars, keeperVars, vaultVars, postureVars
<1> QED
  BY <1>1, <1>2, <1>3, <1>4, <1>5, FlipByMine DEF KeeperNext

LEMMA UndisturbedHolds == KeeperSpec => []Undisturbed
<1>1. KeeperInit => Undisturbed
  <2> SUFFICES ASSUME KeeperInit PROVE OneRunAtATime
    BY DEF Undisturbed
  <2>1. mempool = <<>> /\ \A r \in Runs : run[r] = Idle
    BY DEF KeeperInit
  <2> QED
    BY <2>1 DEF OneRunAtATime, busy, Idle
<1>2. KeeperIInv /\ Undisturbed /\ [KeeperNext]_keeperAllVars => Undisturbed'
  BY FlipStep
<1> QED
  BY <1>1, <1>2, KeeperIInvHolds, PTL DEF KeeperSpec

\* As long as every call is answered, no two runs overlap and no other keeper rebalances
\* during a run, each rebalance of the agent flips the posture: the decision taken before the send is not outdated when it is mined.
THEOREM KeeperTradesFlips == KeeperSpec => UndisturbedRunsFlip
<1>1. KeeperIInv /\ Undisturbed /\ [KeeperNext]_keeperAllVars
        => [rebalanceCount' # rebalanceCount /\ lastKeeper' = Bot /\ ~disturbed
              => posture' # posture]_keeperAllVars
  BY FlipStep
<1> QED
  BY <1>1, KeeperIInvHolds, UndisturbedHolds, PTL DEF KeeperSpec, UndisturbedRunsFlip
=============================================================================
