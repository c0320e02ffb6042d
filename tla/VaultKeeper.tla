----------------------------- MODULE VaultKeeper -----------------------------
(***************************************************************************)
(* vault-keeper.mjs, the agent that drives PredgeSignalVault, with         *)
(* vault/decide.mjs, vault/vault.mjs, the verification of vault/attest.mjs *)
(* and the retry loop of lib/arc.mjs.                                      *)
(*                                                                         *)
(* One `run` of the command reads the posture, obtains and verifies a      *)
(* signed consensus, decides, and if the posture is to change sends a      *)
(* rebalance and waits for it.  Each await lets the chain, the feed and    *)
(* other runs move on.  A send whose answer is lost may have been accepted *)
(* all the same, and withRetry then sends another.  The mempool keeps what *)
(* was accepted in nonce order: all of it comes from one wallet.           *)
(***************************************************************************)
EXTENDS PredgeSignalVault, Sequences

CONSTANTS Bot,              \* the wallet of VAULT_KEEPER_KEY
          Runs,             \* runs of the command that may overlap
          Attestations,     \* what the feed may publish
          minSmartWallets, flowMinUsd,   \* the thresholds of vault/config.mjs
          MaxTries,         \* tries of withRetry
          MaxFaults,        \* bound on lost answers, failures and crashes
          MaxIssues,        \* bound on changes of the feed
          OtherHashes,      \* what another keeper may rebalance on
          MaxOthers         \* bound on rebalances by other keepers

\* What of a signed consensus decides: is it signed and intact, is its key an
\* active one, has it data, and the watched market if it is there.  `counted`:
\* Number(smart_wallets) is a number; a net flow that is none is like 0.
AttestationRecords ==
    [hash : Hashes, valid : BOOLEAN, pinned : BOOLEAN,
     insufficient_data : BOOLEAN, present : BOOLEAN,
     counted : BOOLEAN, smart_wallets : Nat, direction : {"yes", "no", "split"}, net_flow_usd : Int]

ASSUME KeeperAssumption ==
    /\ Bot \in Accounts
    /\ Attestations \subseteq AttestationRecords
    /\ \A s, t \in Attestations : s.hash = t.hash => s = t
    /\ MaxTries \in Nat \ {0} /\ MaxFaults \in Nat /\ MaxIssues \in Nat
    /\ OtherHashes \subseteq Hashes \cup {ZeroHash} /\ MaxOthers \in Nat

VARIABLES feed,        \* the consensus the feed serves now
          issues,      \* how often it changed
          run,         \* progress of each run
          mempool,     \* accepted rebalances, oldest first
          faults,
          disturbed,   \* history: something failed, or two runs overlapped, or
                       \* another keeper rebalanced during a run
          lastKeeper,  \* the keeper the latest Rebalanced event names
          others       \* how often another keeper rebalanced

seatVars == <<lastKeeper, others>>
keeperVars == <<feed, issues, run, mempool, faults, disturbed, seatVars>>
keeperAllVars == <<vaultVars, keeperVars>>

Idle == [at |-> "idle"]
RunStates ==
    {Idle}
    \cup [at : {"sense"}, before : Postures]
    \cup [at : {"send", "wait"}, hash : Hashes, direction : Postures, tries : 0..MaxTries]

busy == {r \in Runs : run[r] # Idle}

------------------------------------------------------------------------------
(* The pure parts. *)

verifyAndPin(s) == s.valid /\ s.pinned

\* A count that is not a number is not below the minimum.
tooFew(s) == s.counted /\ s.smart_wallets < minSmartWallets

decisive(s) == s.present /\ ~s.insufficient_data /\ ~tooFew(s)

\* The posture vault/decide.mjs asks for.
target(s) ==
    CASE decisive(s) /\ s.direction = "yes" /\ s.net_flow_usd >= flowMinUsd -> 1
      [] decisive(s) /\ s.direction = "no" /\ s.net_flow_usd <= -flowMinUsd -> -1
      [] OTHER -> 0

------------------------------------------------------------------------------
KeeperInit ==
    /\ VaultInit
    /\ keeper = Bot
    /\ feed \in Attestations
    /\ issues = 0
    /\ run = [r \in Runs |-> Idle]
    /\ mempool = <<>>
    /\ faults = 0
    /\ disturbed = FALSE
    /\ lastKeeper = ZeroAddress
    /\ others = 0

become(r, state) == run' = [run EXCEPT ![r] = state]

\* cycle(): the posture is read before anything else.
cycle(r) ==
    /\ run[r] = Idle
    /\ become(r, [at |-> "sense", before |-> posture])
    /\ disturbed' = (disturbed \/ busy # {} \/ mempool # <<>>)
    /\ UNCHANGED <<vaultVars, feed, issues, mempool, faults, seatVars>>

decideOn(r, act) ==
    /\ run[r].at = "sense"
    /\ IF act
       THEN become(r, [at |-> "send", hash |-> feed.hash,
                       direction |-> target(feed), tries |-> 0])
       ELSE become(r, Idle)
    /\ UNCHANGED <<vaultVars, feed, issues, mempool, faults, disturbed, seatVars>>

\* Slips the properties below must notice; none is part of the specification.
senseAndDecide_EveryPoll(r) == decideOn(r, verifyAndPin(feed))
senseAndDecide_Unverified(r) == decideOn(r, target(feed) # run[r].before)
senseAndDecide_NeverFlat(r) ==
    decideOn(r, verifyAndPin(feed) /\ target(feed) \notin {0, run[r].before})

\* senseAndVerify and decide: an attestation that does not verify ends the run,
\* and so does a posture that is already there.
senseAndDecide(r) == decideOn(r, verifyAndPin(feed) /\ target(feed) # run[r].before)

\* The node runs the call before it takes it, against the latest block.
acceptable == keeper = Bot /\ ~paused

accept(r) ==
    /\ acceptable
    /\ mempool' = Append(mempool, [by |-> r, hash |-> run[r].hash,
                                   direction |-> run[r].direction])

fault ==
    /\ faults < MaxFaults
    /\ faults' = faults + 1
    /\ disturbed' = TRUE

\* rebalance() of vault.mjs, one try: sent and answered; or refused for good,
\* which ends the run.
send(r) ==
    /\ run[r].at = "send"
    /\ \/ accept(r) /\ become(r, [run[r] EXCEPT !.at = "wait"])
       \/ ~acceptable /\ become(r, Idle) /\ UNCHANGED mempool
    /\ UNCHANGED <<vaultVars, feed, issues, faults, disturbed, seatVars>>

\* withRetry: the answer did not come; the call may have been accepted or not.
\* The last try gives up.
loseAnswer(r) ==
    /\ run[r].at = "send"
    /\ fault
    /\ accept(r) \/ UNCHANGED mempool
    /\ IF run[r].tries + 1 < MaxTries
       THEN become(r, [run[r] EXCEPT !.tries = @ + 1])
       ELSE become(r, Idle)
    /\ UNCHANGED <<vaultVars, feed, issues, seatVars>>

\* tx.wait(), the state read back and the journal: the last send of this run is
\* mined, and with it, in nonce order, those before.
finish(r) ==
    /\ run[r].at = "wait"
    /\ \A i \in DOMAIN mempool : mempool[i].by # r
    /\ become(r, Idle)
    /\ UNCHANGED <<vaultVars, feed, issues, mempool, faults, disturbed, seatVars>>

\* Any other failure, or a crash: the run ends, what was sent stays sent.
fail(r) ==
    /\ run[r] # Idle
    /\ fault
    /\ become(r, Idle)
    /\ UNCHANGED <<vaultVars, feed, issues, mempool, seatVars>>

\* The chain takes the oldest transaction; if the vault refuses it, it reverts.
mine ==
    /\ mempool # <<>>
    /\ mempool' = Tail(mempool)
    /\ IF acceptable
       THEN /\ rebalance(Bot, Head(mempool).hash, Head(mempool).direction)
            /\ lastKeeper' = Bot
       ELSE UNCHANGED <<vaultVars, lastKeeper>>
    /\ UNCHANGED <<feed, issues, run, faults, disturbed, others>>

publish(s) ==
    /\ issues < MaxIssues
    /\ s # feed
    /\ feed' = s
    /\ issues' = issues + 1
    /\ UNCHANGED <<vaultVars, run, mempool, faults, disturbed, seatVars>>

\* Whoever else the owner seats rebalances on any hash, verified or not.
otherRebalance(a, h, d) ==
    /\ a # Bot
    /\ others < MaxOthers
    /\ rebalance(a, h, d)
    /\ lastKeeper' = a
    /\ others' = others + 1
    /\ disturbed' = (disturbed \/ busy # {} \/ mempool # <<>>)
    /\ UNCHANGED <<feed, issues, run, mempool, faults>>

RunStep(r) == cycle(r) \/ senseAndDecide(r) \/ send(r) \/ finish(r)

KeeperNext ==
    \/ \E r \in Runs : RunStep(r) \/ loseAnswer(r) \/ fail(r)
    \/ mine
    \/ \E s \in Attestations : publish(s)
    \/ CustomerStep /\ UNCHANGED keeperVars
    \/ \E a \in Accounts, h \in OtherHashes, d \in Int8 : otherRebalance(a, h, d)

KeeperSpec == KeeperInit /\ [][KeeperNext]_keeperAllVars

\* The command is run again and again, a run in progress goes on, and what the
\* mempool holds is mined.
KeeperFairSpec ==
    /\ KeeperSpec
    /\ \A r \in Runs : WF_keeperAllVars(RunStep(r))
    /\ WF_keeperAllVars(mine)

------------------------------------------------------------------------------
(* Properties. *)

KeeperTypeOK ==
    /\ VaultTypeOK
    /\ feed \in Attestations
    /\ issues \in 0..MaxIssues
    /\ run \in [Runs -> RunStates]
    /\ mempool \in Seq([by : Runs, hash : Hashes, direction : Postures])
    /\ faults \in 0..MaxFaults
    /\ disturbed \in BOOLEAN
    /\ lastKeeper \in Accounts \cup {ZeroAddress}
    /\ others \in 0..MaxOthers

\* The agent never moves the vault on an unverified signal: when its wallet was
\* the last to rebalance, the hash the vault stores is that of an attestation
\* that verified, and the posture is the one the decision rule takes from
\* exactly that attestation, however old it was when it was mined, however
\* often it was sent and whatever another keeper did in between.
PostureHasASignal ==
    IF rebalanceCount = 0 THEN posture = 0
    ELSE lastKeeper = Bot =>
         \E s \in Attestations :
            /\ s.hash = lastSignalHash
            /\ verifyAndPin(s)
            /\ posture = target(s)
            /\ posture # 0 => ~tooFew(s) /\ ~s.insufficient_data

\* The keeper's and the vault's state is well formed and the posture accounted for.
KeeperInv == KeeperTypeOK /\ PostureHasASignal

\* While every call is answered, runs do not overlap and no other keeper
\* rebalances during a run, every rebalance of the agent flips the posture: it
\* trades direction flips, not polls.
UndisturbedRunsFlip ==
    [][rebalanceCount' # rebalanceCount /\ lastKeeper' = Bot /\ ~disturbed
         => posture' # posture]_keeperAllVars

\* A vault left to the agent comes to hold the posture of the last verified
\* consensus and keeps it, through lost answers, crashes and overlapping runs,
\* and whatever posture another keeper left behind.
FollowsTheFeed ==
    <>[](keeper = Bot /\ ~paused) => <>[](verifyAndPin(feed) => posture = target(feed))
==============================================================================
