# A TLA+ model of Predge on Arc

This directory models the contracts, services and command lines of the
repository in TLA+, checks small instances of them with TLC, and proves theorems
about them with the TLA+ proof system (TLAPS). Paths below are relative to the
repository.

To check a module: `tlc -config Publisher.cfg MCPublisher`. To check the proofs:
`tlapm PredgeOracleProofs.tla`. `PROJECT.json` lists every run, the source lines
behind every definition, the hazards and the findings.

## 1. Inventory of the system

| Part | State it keeps | Operations | Hard behaviour | What makes it correct | Model |
|---|---|---|---|---|---|
| `contracts/PredgeOracle.sol` | one record per market (commitment, resolution), publisher, two counters | `commitMarket`, `postResolution`, `setPublisher`, free views | rotation of the publisher between commit and resolve, several transactions in one block | a resolution rests on an older commitment; nothing is rewritten; the counters are exact | `PredgeOracle` |
| `oracle.mjs`, `script/gen-oracle-key.mjs`, `verify-cachet.mjs` | the signing key and the published list of keys; no state between commands | `commit`, `resolve`, `read`, `demo`; generate and publish a key; verify a receipt | lost answers, crashes between writing and publishing a key, a record read in two calls, a seat that moved | success is only reported of what is on the chain; what verifies was signed | `OraclePublisher` |
| `contracts/ExampleMarket.sol` | two pools, stakes per account, payout mode, re-entry lock | constructor, `betYes`, `betNo`, `settle`, `claim` | reads the oracle at three moments; hands control to recipients; divides integers; oracle may stay silent | solvent at every instant; pays what the oracle said; strands nobody | `ExampleMarket` |
| `market/payout.mjs` | none | `settlementMode`, `payoutOf`, `distribute`, `invariantHolds` | the same arithmetic written twice | agrees with the contract in every state | `PayoutMirror` |
| `contracts/AgentJob.sol` | one record per job, escrow | `createJob`, `submit`, `complete`, `reject` | roles that coincide, decisions that repeat | escrow leaves once; a deliverable is final | `AgentJob` |
| `contracts/PredgeValidatorBond.sol` | one stake per request, total bonded, validator | `stakeAndCommit`, `recordScore`, `challenge`, `reclaim`, `setValidator` | reads another contract at two moments; a challenge races the end of the window; validator rotated with bonds open | bonds are backed; only a contradicted verdict is slashed; a verdict stays open for a window | `PredgeValidatorBond` |
| `contracts/PredgeSettlement.sol` | balance, `Paid` events | `payForRoute`, `withdraw`, bare payment | several events in one transaction | events are the receipts of money received | `PaymentGateway` |
| `gateway/server.mjs`, `gateway/catalog.mjs` | `quotes`, `usedTxs`, both in memory only | quote, redeem by hash, redeem by scan, status, eviction | requests overlap at every `await`; restart forgets the replay guard; the guard is keyed by text a client wrote; RPC fails | one request, one unlock; every unlock paid in full | `PaymentGateway` |
| `agent.mjs`, `lib/arc.mjs` | one purchase; `withRetry` around every send | discover, pay, redeem, `--watch`, replay test | a send whose answer is lost is repeated; the gateway restarts or evicts in between | a receipt unlocks; one purchase, one payment, one more per lost answer at most | `BuyerAgent`, `RetriedCalls` |
| `contracts/PredgeAgentValidator.sol` | one record per request, validator, two counters | `validationRequest`, `validationResponse`, `setValidator`, `getValidationStatus`, `getSummary` | as the oracle; a failing score is 0, the value of an empty slot | a verdict rests on a request and is permanent; the summaries account for every verdict | `PredgeAgentValidator` |
| `agent-settlement.mjs` | the escrow of each job of the demo | commit the test, judge, record, settle | an open request reads like a failed one; sends repeat; the key rotates | an escrow follows the recorded verdict | `AgentSettlement` |
| `contracts/PredgeRefundArbiter.sol`, `MockRefundProtocol.sol` | filings, rulings, bonds, operator, window, minimum bond; seat and refunds of the protocol | `fileEvidence`, `rule`, `challenge`, `reclaim`, `setOperator`, `setParams`, `setLockupSeconds`; the protocol's own calls | parameters and operator change under open rulings; filings race rulings; calls a foreign contract | a ruling cites a filing that cannot change; bonds are held and leave once; refunds follow evidence | `PredgeRefundArbiter` |
| `contracts/PredgeSignalVault.sol`, `...V2.sol` | deposits, posture, keeper, pause; V2 also the decisions | `deposit`, `withdraw`, `rebalance`, `setKeeper`, `setPaused`; V2's scores | decision, commitment and resolution share timestamps; scores are computed at every read | deposits can always leave; decisions are forward calls; a score is final | `PredgeSignalVault`, `PredgeSignalVaultV2` |
| `vault-keeper.mjs`, `vault/*.mjs` | none between cycles | sense, verify, decide, rebalance; score off the chain | posture read before several awaits; a send whose answer is lost is repeated; runs overlap; crashes; another keeper in between | never moves on an unverified signal; follows the feed; scores as the contract does | `VaultKeeper`, `PredgeSignalVaultV2` (scores) |
| `script/live-loop-mainnet.mjs`, `script/reclaim-bonds.mjs`, `job.mjs` | receipt files | eleven calls on four contracts; the sweep of the bonds the receipts name; a job demo | a crash at any step; an id read back from a counter others move; strangers' jobs; a sweep that reckons the window from another time than the contract | escrow follows the verdict; money is accounted for; bonds come back | `LiveLoop` |
| `script/deploy*.mjs`, `script/deploy.js` | deployment files | deploy on the addresses of earlier files, write a file, hand over a seat | lost answers and crashes between the deployment and the file; `--only` | a file names a contract that is there and wired as meant | `DeploymentScripts` |
| wallets, anchoring, end-to-end test, web page | none, or one file | sequential I/O | | | not modelled, section 7 |

The contracts interact by reading one another: the market and the second vault
read the oracle, the bond reads the job, the arbiter calls the refund protocol.
The keeper reads and writes the first vault. The gateway reads the chain
(receipts and events) and never writes to it; its buyer writes to the chain and
talks to the gateway. The loop ties job, bond, registry and settlement together.
Publisher, validator, evaluator and operator are addresses that owners can
change at any time. The command lines share one helper, `withRetry`, and with it
one hazard: an answer that is lost makes them send again. `PROJECT.json` lists
the hazards, each at its line.

## 2. How the code became a model

*Transactions.* A transaction that reverts leaves no trace, so a contract's
functions are actions whose guards are the function's `require`s in conjunction
and whose primed variables are its assignments. The sender, the value and every
argument range over small sets that contain bad values too (address(0), zero
hashes, zero amounts), so that each guard is exercised.

*Time.* `now` is `block.timestamp`. It moves in an action of its own, so any
number of transactions share a timestamp, as in one block. It starts at 1: the
contracts use 0 for "never". `MaxTime` bounds it.

*Transfers.* A contract that finishes its writes before it transfers can be re-entered
only after its last write, and a failing transfer undoes all of it. A call made by the
recipient is then no different from the next transaction with the same timestamp, and
the function is one action. That holds for `AgentJob`, `PredgeValidatorBond`,
`PredgeRefundArbiter` and both vaults. `ExampleMarket.claim` writes its lock again
*after* the transfer, so it is two actions, `claim` and `claimReturns`, with the stack
of open transfers in `calls`; the clock stands still between them and every other
action, on the market and on the oracle, may happen there.

*Widths.* Escrow and bond are `uint96(msg.value)`: the value is reduced modulo
`U96`. `totalBonded` is a checked `uint96` sum: a stake that would overflow it
reverts. `JobAssumption` says that one call carries less than 2^96, which the
supply of the native coin ensures. `uint64` times and `uint256` sums do not
overflow in the life of the chain.

*The gateway.* JavaScript runs a handler without interruption up to its next
`await`. A request is two actions: `presentTx` or `presentRequest` (everything
up to the first `await`) and `answer` (everything after the last). Requests in
progress live in `handler`. The lookups between are no actions: receipts are
final, so a lookup that misses a payment mined meanwhile gives the answer that a
request ending before the payment would have got. A restart empties `open` and
`usedTxs`. A quote is numbered in the order it was made; a UUID is never drawn
twice. A redeem token is known only to the client it was given to and is
modelled by the request it names. A transaction hash can be written in upper or
lower case: the chain knows it in any (`Spellings`), `usedTxs` is keyed by the text,
which is the client's own when it presents a hash and ethers' (`Canonical`) when the
gateway finds the event itself. The window of the event scan (50 000 blocks)
does not appear: a quote is evicted after an hour, long before.

*Sends.* `RetriedCalls` models a call from a command line to its receipt, and
every client module extends it but `VaultKeeper`, which keeps a mempool of its own
in the same manner. A send has three outcomes: answered (`send`),
refused for good (`send`, the client throws), or unanswered (`loseAnswer`), when
it may or may not have been accepted and `withRetry` tries again, up to
`MaxTries`. What was accepted is in `mempool`, where the calls of one wallet are
mined in the order of their nonces. The node runs a call before it accepts it,
so a call that would revert is refused, unless the chain changes before it is
mined; then it reverts there and `wait()` throws. A client waits for its last,
answered send only. A client may also die at any step (`crash`). Lost answers and
crashes draw on one budget, `MaxFaults`. A `withRetry` around a read is
invisible.

*The keeper.* A run of `vault-keeper.mjs` is `cycle` (the posture is read),
`senseAndDecide` (the attestation is verified and the decision taken), the send
and `finish`; between them the chain, the feed, owners and other runs act. Of an
attestation the model keeps what decides: whether signature and payload are
intact, whether its key is pinned, and the fields of the watched market; a count of
wallets that is not a number (`counted`) is below no minimum, as in JavaScript. A
second run stands for a second process with the same key. The owner may seat another
keeper, who rebalances on any hash (`otherRebalance`). `disturbed` is a history
variable: a fault occurred, two runs overlapped, or another keeper rebalanced during a
run; so is `lastKeeper`, whom the latest `Rebalanced` event names.

*The publisher.* A run of `oracle.mjs` signs and sends; `read` is two calls and anything
may happen between them. `gen-oracle-key.mjs` is three steps (draw, write, publish) and
may die between any two; a run in that gap signs with a key nobody published. A payload
carries the time it was signed at, so what run r signs under kind k has a hash of its
own, `<<r, k>>`; `attestations` holds the envelopes signed so far. Whoever else sits on
the publisher's seat may write any hash beside any market and outcome, that of a run's
attestation too (`OtherStep`). The verifier compares signature, key, hash and the two
times, not the payload's market or outcome with the record, and `VerdictsAreRight` says
no more than that allows. `resolver` is a history variable: who sent each resolution, as
its transaction tells.

*The buyer.* It has one request in progress, the handler of its own name; all
other handlers are anybody's. It pays in whole prices out of `Funds`. A response
that does not arrive ends its run.

*The loop.* A loop is a sequence of calls, each with its arguments and what its
receipt leaves behind (`LiveLoop`, the steps). Its wallet is client, validator
and sweeper, a key derived from it the provider. Receipts are written after the
last step only. The sweep knows a bond by its receipt file. Loops and sweep work on
the mainnet, `job.mjs` on the testnet, and each has an `AgentJob` of its own: a
behaviour is about one of the two (`network`). All demos are of one wallet, which may
be the loop's; each takes its job's id from `jobCount()` after its own job is mined,
when other demos and strangers may have moved it. On both networks strangers create
jobs with any parties and hashes, deliver and decide in any job that names them, and
request validations (`strangerStep`). There is one bond contract: the receipts do not
name theirs, so a sweep after a redeployment passes over the bonds of the old one.

*Deployments.* A contract is its place in the order of deployment with its kind
and the contracts it was wired to. A file exists once a script has written it;
the next script reads it when it starts.

*The arbiter.* `This` is the arbiter's own address, as the protocol sees it.
`rule` includes the call into the protocol, so that a refused call undoes the
ruling. Before the contract is given the protocol's seat, any account may hold
it.

*Left out:* free text (`attestationRef`, `reason`, labels), the hash helpers,
event fields nobody reads, wording of answers and gas.

*Slips.* A definition such as `commitMarket_Overwrites`, whose name extends the
name of an action, is no part of any specification. It is the action with a
plausible mistake, used to see that the properties notice it.

## 3. The modules

| Module | Models or states | Composes |
|---|---|---|
| `CommitBeforeOutcome` | abstract: seals and openings, each key once, seal first | |
| `MoneyInTrust` | abstract: money taken once per purpose, kept whole, paid out once | |
| `PaidResponses` | abstract: a gateway that never forgets and serves one request at a time | |
| `PredgeOracle` | the oracle; `ImplementsRegistry` maps its storage to seals and openings | refines `CommitBeforeOutcome` |
| `OraclePublisher` | the publisher's command line, the keys, the verifier | `PredgeOracle`, `RetriedCalls` |
| `ExampleMarket` | one pool beside the oracle | `PredgeOracle` |
| `PayoutMirror` | the pool's arithmetic in JavaScript | `ExampleMarket` |
| `AgentJob` | the jobs | |
| `PredgeValidatorBond` | the bonds beside the jobs they read; `HoldsInTrust` maps escrows and bonds to money in trust | `AgentJob`; refines `MoneyInTrust` twice |
| `PredgeAgentValidator` | the validator's registry | refines `CommitBeforeOutcome` |
| `LiveLoop` | the loop and the sweep on four contracts of the mainnet, the demos on the testnet's jobs, strangers on both | `PredgeValidatorBond`, `PredgeAgentValidator`, `RetriedCalls` |
| `AgentSettlement` | the ERC-8004 demo | `PredgeAgentValidator`, `RetriedCalls` |
| `PaymentGateway` | settlement contract and gateway; `ImplementsPaidResponses` | refines `PaidResponses` |
| `BuyerAgent` | a buyer against the gateway | `PaymentGateway`, `RetriedCalls` |
| `PredgeRefundArbiter` | the arbiter in the seat of the mock protocol; `BondsInTrust` | refines `MoneyInTrust` |
| `PredgeSignalVault` | the first vault | |
| `PredgeSignalVaultV2` | the second vault and `score.mjs`; `ImplementsV1` | `PredgeOracle`; refines `PredgeSignalVault` |
| `VaultKeeper` | the keeper and the feed around the first vault | `PredgeSignalVault` |
| `DeploymentScripts` | the deployment scripts and their files | `RetriedCalls` |
| `RetriedCalls` | a send, its answer, its receipt | |
| `MC...` | instances for TLC | |
| `...Proofs` | the theorems, section 5 | |
| `SumTheorems` | lemmas on sums over finite sets, for the proofs about money | |

A proof module is named after the module it is about, and some reach further:
`PredgeOracleProofs` holds the theorems about `OraclePublisher` too, and those about the
contracts that read the oracle (`ExampleMarket` with `PayoutMirror`, and
`PredgeSignalVaultV2`), `PredgeAgentValidatorProofs` those about `AgentSettlement`,
`PaymentGatewayProofs` those about `BuyerAgent`, `PredgeValidatorBondProofs` those about
`LiveLoop` and `VaultKeeperProofs` those about `PredgeSignalVault`.

Names follow the source. In `PredgeOracle`, `market` is `_markets` and
`oracleOwner` is `owner`. In `ExampleMarket`, `entitlement(a, m)` is `payoutOf`
without its `claimed` check, under a payout rule `m`; `modeFor` is the part of
`settle` that turns an outcome into a rule. In `AgentJob`, `complete` and
`reject` share `decide`. In `PredgeValidatorBond`, `submittedAt` is a history
variable (the block time of the `Submitted` event), which no guard reads. In
`PredgeRefundArbiter`, `seat` is the protocol's `arbiter` and `commit` the writes
of `rule`. In `PredgeSignalVaultV2`, `steer` is the writes of `rebalance`. In
`PaymentGateway`, `quote` is every quote object ever made and `open` the keys of
the map `quotes`; `served` is the history of 200 answers; `verifyByTxHash`,
`scanForPayment`, `redeem`, `makeQuote` and `evictOldQuotes` are the functions
of those names.

## 4. The runs

| Run | Instance | Shows |
|---|---|---|
| `Publisher` | 2 accounts, 1 market, 2 runs that may overlap, 2 keys, 1 fault, 2 tries per send, 2 timestamps; somebody else on the seat (`OthersBound`) | `OracleInv` (`OracleTypeOK`, `CommitPrecedesResolution`, `CountersMatchRecords`), `ReportsAreTrue`, `VerdictsAreRight`, and that the oracle implements the abstract registry (`ImplementsRegistry`) |
| `Market` | 2 accounts, stakes up to 2 per side, 2 deadlines, grace 1, 5 timestamps | `MarketSound` (well formed, solvent, bounded dust, one transfer at a time), `SettlementObeysOracle`, `PayoutMirrorAgrees`, `EntitlementsAreFixed`; under fairness `EveryoneIsPaid` |
| `Bond` | 2 accounts in all roles, 2 jobs, 1 test, window 1, 2 timestamps | `BondInv` (`BondTypeOK`, `BondsAreBacked`, the escrows included, `BondIsBoundToItsJob`), `OnlyLiesAreSlashed`, `VerdictsAreFinal` (the jobs too), `EarlyCloseIsASlash`, and that escrows and bonds are money in trust (`HoldsInTrust`); under fairness `ScoredBondsClose` |
| `Gateway` | a buyer beside a stranger's requests, 2 routes, 2 quotes, 2 transactions, 2 spellings of a hash, eviction, 1 restart, 1 fault, 2 redemptions | `OnePaymentOneUnlock`, `EveryUnlockWasPaid`, `GatewayInv` (`GatewayTypeOK`, `GuardMatchesHistory`), `ReceiptsUnlock`, `BuyersPayOnce` |
| `Vault` | 2 accounts, 2 markets, 2 timestamps, 2 decisions | `DepositsCanLeave`, `VaultInv` (`VaultTypeOK`, `DecisionsAreForward`, `MirrorAgrees`), `ScoresAreFinal`, and that the second vault implements the first (`ImplementsV1`) |
| `Arbiter` | 2 accounts in all roles, 2 payments, 2 hashes, bonds 0 and 1, windows 0 and 1, 3 timestamps | `ArbiterInv` (`ArbiterTypeOK`, `OpenBondsAreHeld`, `NoRulingIsSlashable`), `RulingsAreFinal`, `RefundsFollowEvidence`, and that the bonds are money in trust (`BondsInTrust`) |
| `Validator` | 2 accounts, 2 requests, a demo of 2 jobs, 1 fault, 2 timestamps | `ValidatorInv` (`ValidatorTypeOK`, `ResponseRestsOnRequest`), `SummariesAddUp`, `EscrowMatchesVerdict`, and that the registry implements the abstract one (`ImplementsRegistry`) |
| `Keeper` | 2 accounts, 2 overlapping runs, 1 fault, 1 change of the feed, 2 tries per send, 4 attestations, 1 rebalance by another keeper | `KeeperInv` (`KeeperTypeOK`, `PostureHasASignal`), `UndisturbedRunsFlip`; under fairness `FollowsTheFeed` |
| `Loop` | 1 loop and the sweep, or 2 demos of one wallet; 1 stranger's job, 3 jobs, 1 fault, window 1, 3 timestamps | `EscrowFollowsVerdict`, `MoneyIsAccountedFor`; under fairness `ReceiptedBondsComeBack` |
| `Deploy` | 3 runs of the scripts, 2 faults, both networks | `FilesFit`, `OrphansHaveACause` |
| `BondWindow`, `GatewayMatch` | smaller | a counterexample each, section 6 |

*Why the bounds are enough.* Accounts are compared for equality only. Two of
them can hold different roles or the same, and can be the old and the new holder
of a role; in `Loop` the wallet, the provider derived from it and a stranger are
three. The smallest pool with an uneven division is 3 against 1, which two
accounts staking at most 2 per side produce, in every distribution, hedged
accounts included. Five timestamps separate the deadline, the end of the grace
period and a time after both, for either deadline. In `Bond`, two timestamps with
a window of 1 put submission, stake, verdict and reclaim in any order with and
without equal times, and two jobs about one test are what one stake can confuse.
That two stakes leave each other alone is left to the theorems. Two quotes, two transactions and
two requests are what one request can confuse with another; one restart
separates what memory knew from what the chain knows. `OtherTransactions` has the
payments of strangers, full or short, with the memo of either quote, and one
transaction that pays two quotes. Two spellings are the canonical one and any other,
and `TrialBound` tries the other where it can matter, on transactions of several
events. It also has the balance withdrawn after one payment, and time for eviction in
behaviours without a restart: a restart forgets more than eviction does.

In `Publisher`, whoever else holds the seat writes the hash of any run's attestation,
signed or yet to be, beside the market and any outcome; `OthersBound` leaves out only
that it commits to the hash of a resolution, resolves with that of a commitment, or
settles as Invalid, and the theorems need no such bound. In `Loop`, the loop's wallet
and the demos' are the same account, the strangers' jobs are those in which the provider
is the derived key, the wallet or the stranger and the evaluator the wallet, and one in
which the wallet works for the stranger; with three jobs, two demos and a stranger's job
meet, and so do a loop, its `createJob` sent twice and a stranger's. `TrialBound` has
the loop about one of the two signals, and keeps the clock and the registry still on the
testnet, where no call reads them. In `Keeper` the owner is the account other than the
agent's and the only one to deposit: a rebalance reads neither.

One fault is one lost answer or one crash; whatever it does, a second one would
find a client that is dead, or that sends a third time what was sent twice.
`Deploy` takes two, because a run that a fault has cut short is followed by runs
that can be cut short too: three runs, one that leaves something behind, one that
builds on it and one after. Two tries per send are one that is lost and one that
is answered. Two loops of one wallet side by side are out of TLC's reach; their
calls meet only in the nonces, which `RetriedCalls` orders, and in ids the loop
takes from its own receipts.

Two decisions and two markets let a later decision, on the same market or
another, disturb an earlier one, in all orders of commitment, decision and
resolution with equal and unequal times. Two payments share the arbiter's
balance; three timestamps separate a ruling, the end of either window and a
time after it. The four attestations are a long signal on the threshold of
both limits, one a wallet short of it, a decisive one that was tampered with, and a
short one whose count of wallets is not a number. `MaxRebalances` in `Keeper` is never
reached: one fault, one change of the feed and one rebalance by another keeper allow
far fewer.

*Fairness.* Market: blocks keep coming; a transfer in progress ends (the gas of its
transaction is finite); somebody calls `settle`, which anyone may; each staker who is
owed money keeps trying to claim. Nothing is assumed of the oracle's publisher. Bond:
blocks keep coming, and the holder of the validator's key sweeps expired bonds (of those
whose window ends before the clock does), which is what `script/reclaim-bonds.mjs` is
for. Nothing is assumed of challengers, providers or evaluators. Keeper: the command is
run again and again (by hand or by a scheduler), a run in progress goes on, and what the
mempool holds is mined; nothing is assumed of the owner or the feed, and faults are
finite in number. Loop: time passes, and the sweep is run again and again, as its header
asks; nothing is assumed of the loops, which may stop anywhere. The other systems
promise nothing that must happen, and their runs assume no fairness.

*Deadlock* is checked in `Market`, `Bond`, `Gateway`, `Vault`, `Arbiter` and
`Keeper`: some transaction can always be sent, or some request made. It is not
checked in `Publisher`, `Validator`, `Loop` and `Deploy`: a command line ends, the
runs of the instance are finite in number, and when all have ended nothing more
happens.

## 5. The theorems

Each is proved for every value of the constants that its assumptions allow. The
assumptions say that address(0) and the contracts themselves send no
transactions, that the zero hash is not a content, that amounts, times and
bounds are natural numbers, that one call carries less than 2^96 units, and that
every route has a positive price. They say that accounts of a market or a vault,
markets, payments, agents, requests and request hashes are finite in number (an
address has 160 bits, an id or a hash 256); sums and counts need it. Of the command
lines they say that a withRetry tries at least once, that the wallets of the
publisher and of the demo are accounts and the demo's agent an agent, that a throwaway
key is none of the generated ones, that what a run signs has a hash of its own, that
a buyer has a request of its own in the gateway and can send the price of every
route; that the wallet of the loop and the key derived from it are two accounts and the
wallet of the demos any account, that the digest of a signal is a deliverable, the hash
of a demo's job a spec hash, and what passes a demo's test is not the garbage; that
the keeper's wallet is an account and a hash stands for one attestation; that `Canonical`
is a spelling; and that an
`--only` list is not empty and names contracts of the plan, and somebody deploys
(`OracleAssumption`, `PublisherAssumption`, `MarketAssumption`, `ArbiterAssumption`,
`ValidatorAssumption`, `VaultV2Assumption`, `VaultAssumption`, `KeeperAssumption`,
`JobAssumption`, `BondAssumption`, `GatewayAssumption`, `RetryAssumption`,
`SettlementAssumption`, `BuyerAssumption`, `LoopAssumption`,
`DeploymentAssumption`). TLC evaluates all of
them on its instances.

| Theorem | Statement |
|---|---|
| `OracleInvHolds` | `OracleSpec => []OracleInv`; its parts are `OracleTypeCorrect`, `OracleCommitsFirst` and `OracleCounts` |
| `OracleNeverEdits` | `OracleSpec => RecordsArePermanent` |
| `OracleIsARegistry` | `OracleSpec => ImplementsRegistry`: initial states map to initial states, every step to a step or a stutter |
| `OracleSealsFirst` | seen as an abstract registry the oracle opens nothing without a seal that is not younger, and no key twice |
| `PublisherUsesTheOracle` | `PublisherSpec => OracleSpec`: the theorems above hold beside the publisher's command line |
| `ReportsHold` | `PublisherSpec => []ReportsAreTrue` |
| `VerdictsHold` | `PublisherSpec => []VerdictsAreRight`: what is called verified a run signed, and for that market and outcome if its wallet sent it; what the CLI embedded in a later second than the commitment verifies |
| `ValidatorHonest`, `ValidatorNeverEdits`, `ValidatorIsARegistry`, `ValidatorSealsFirst` | the same four for the validator's registry: `[]ValidatorInv`, `VerdictsArePermanent`, `ImplementsRegistry` |
| `ValidatorSummariesAddUp` | `ValidatorSpec => []SummariesAddUp` |
| `SettlementUsesTheRegistry` | `SettlementSpec => ValidatorSpec`: the theorems above hold beside the demo |
| `EscrowsFollowVerdicts` | `SettlementSpec => []EscrowMatchesVerdict` |
| `MarketObeys` | `MarketSpec => []SettlementObeysOracle` |
| `MarketTransfersOnce` | `MarketSpec => []OneTransferAtATime` |
| `MarketFixesEntitlements` | `MarketSpec => EntitlementsAreFixed` |
| `MarketKeepsTheMoney` | `MarketSpec => []MarketSound`: well formed, solvent, dust bounded |
| `PayoutsAreMirrored` | `MarketSpec => []PayoutMirrorAgrees`: `payout.mjs` and the contract never part |
| `MarketKeepsOracle` | `MarketSpec => OracleSpec`: the theorems above hold beside a market |
| `BondStaysBound` | `BondSpec => []BondIsBoundToItsJob` |
| `BondVerdictsAreFinal` | `BondSpec => VerdictsAreFinal` |
| `BondClosesEarlyBySlash` | `BondSpec => EarlyCloseIsASlash` |
| `OnlyLiarsPay` | `BondSpec => []OnlyLiesAreSlashed` |
| `BondHonest` | `BondSpec => []BondInv`; its part about money is `BondMoneyIsThere` |
| `BondHoldsInTrust` | `BondSpec => HoldsInTrust`: each escrow and each bond is taken once, kept whole, paid out once |
| `BondUsesTheJobs` | `BondSpec => JobSpec` |
| `LoopsUseTheBond` | `LoopSpec => BondSpec`: the theorems above hold beside the operator scripts |
| `LoopsLeaveTheBondSound` | so they do: `LoopSpec` implies `HoldsInTrust`, `VerdictsAreFinal`, `EarlyCloseIsASlash`, `[]BondInv` and `[]OnlyLiesAreSlashed` |
| `LoopsUseTheRegistry` | `LoopSpec` implies `ValidatorSpec` of the registry it writes to: the theorems on the registry hold beside the operator scripts too |
| `LoopsPayRightly` | `LoopSpec => []LoopsPayOnVerdicts`: the part of `EscrowFollowsVerdict` about the loops' jobs and bonds |
| `VerdictsBeforeMoney` | `LoopSpec => []EscrowFollowsVerdict`, whatever the demos of one wallet and strangers do to the counter |
| `SpendingIsAccountedFor` | `LoopSpec => []MoneyIsAccountedFor` |
| `OneUnlockPerPayment` | `GatewaySpec => []OnePaymentOneUnlock`: one response per request; on one transaction two at most, and then under two spellings |
| `UnlocksAreCoveredByMoney` | `GatewaySpec => []EveryUnlockWasPaid`; its first half is `UnlocksArePaid` |
| `GatewayHonest` | `GatewaySpec => []GatewayInv`; its second half is `GuardIsHistory` |
| `GatewayReleasesPaid`, `BuyersGetPaidResponses` | `GatewaySpec => ImplementsPaidResponses`, and `BuyerSpec` too |
| `BuyersAreServed` | `BuyerSpec => []ReceiptsUnlock` |
| `BuyersPayForOne` | `BuyerSpec => []BuyersPayOnce` |
| `PromisesHoldForBuyers` | `BuyerSpec => [](OnePaymentOneUnlock /\ EveryUnlockWasPaid /\ GatewayInv)` |
| `VaultHonest` | `VaultSpec => []VaultInv`: storage, deposits backed, forward decisions, and `score.mjs` agreeing with the contract |
| `VaultScoresStand` | `VaultSpec => ScoresAreFinal` |
| `VaultIsAVault` | `VaultSpec => ImplementsV1` |
| `VaultUsesTheOracle` | `VaultSpec => OracleSpec`: the theorems on the oracle hold under the second vault |
| `EveryDepositCanLeave` | under `VaultInv` a withdrawal of a whole deposit is a step, paused or not, and leaves the others backed |
| `FirstVaultAddsUp` | `VaultSpec => []BooksAreRight` of `PredgeSignalVault`: what is held and `totalDeposits` are the sum of the balances |
| `KeeperUsesTheVault` | `KeeperSpec => VaultSpec`: the first vault behaves as specified beside its keeper |
| `KeeperHonest` | `KeeperSpec => []KeeperInv` |
| `KeeperTradesFlips` | `KeeperSpec => UndisturbedRunsFlip` |
| `ArbiterHonest` | `ArbiterSpec => []ArbiterInv`: the storage is well formed, the bonds are there (`ArbiterHoldsBonds`) and no ruling can be slashed |
| `ArbiterHoldsInTrust` | `ArbiterSpec => BondsInTrust` |
| `ArbiterNeverEdits` | `ArbiterSpec => RulingsAreFinal` |
| `ArbiterRefundsOnEvidence` | `ArbiterSpec => RefundsFollowEvidence` |
| `FilesCanBeReliedOn` | `DeploySpec => []FilesFit` |
| `EveryOrphanHasACause` | `DeploySpec => []OrphansHaveACause`: two contracts at most for each lost answer or crash |

*Sums.* Money is a sum over accounts, jobs, stakes, payments, mempool or
responses. The community modules define such a sum by a recursive function, and
the library's induction theorems cannot be used for it, because they speak of an
operator. `SumTheorems` states induction with a set in its place
(`SubsetInduction`, from the well-foundedness of the strict subsets of a finite
set): the subsets for which the claim holds contain the whole set. It follows that
the recursive function exists (`SumExists`), is unique, and that any element may be
taken out of a sum (`SumTakeOut`), not just the one the definition chooses. From
that come the rules the other modules cite: a sum changes by what one part changes
(`SumUpdate`), is monotone, counts (`SumCount`), splits (`SumSplit`), and covers
another sum part by part (`SumCovered`) or group by group (`SumGrouped`).

*The oracle and the registry.* The type invariant is inductive alone. With it,
`CommitPrecedesResolution` is inductive: a commitment is stamped `now`, a
resolution is only written over a commitment, and `now` never decreases. The
counters follow from the cardinality of the sets of committed and resolved
markets, each of which grows by exactly the market written; this is where the
markets must be finite. `RecordsArePermanent` needs the invariant that times of
commitment are positive, because 0 stands for "never". The refinement maps
storage to seals and openings; `commitMarket` is `Seal`, `postResolution` is
`Open`, and a rotation of the publisher is a stutter. The validator's registry
goes the same way; its invariant adds that requests are well dated
(`RequestsAreSound`), because there a score of 0 says nothing. Its counters are the
cardinalities of the requests made and, agent by agent, of those answered
(`CountersCount`); an average lies between the scores it averages
(`AverageBetween`).

*The publisher.* `PublisherIInv` joins three kinds of facts. What a run may count on
(`RunFacts`): it sends what it set out to, hears of a success only when its own record
is there (`MinedIsHeard`), and what it found resolved stays as it was, which is why
`read` may ask twice. What holds of the keys (`KeyFacts`, `KeyIsTheOne`): the script
refuses to replace a key file, so a generated key that signed anything is the one key
there ever is, and a later publication cannot put another in its place. And where
signatures come from (`SignatureFacts`): every resolution of the CLI's in the mempool,
every one its wallet has sent and every envelope on the chain was signed by a run, for
that market and that outcome. A call sent twice, or one that a run which has died left
in the mempool, is still signed by it. Of what others resolve nothing is known but that
an envelope which passes the checks was signed by some run.

*The ERC-8004 demo.* `SettlementIInv` adds what one demo knows (`RunFollows`): what
it sends while it responds is its own verdict, and once it hears of a success the
registry holds that verdict. A demo hears of a success only for the call it waits
for, so a success cannot be that of another holder of the key; and a recorded
verdict stays (`VerdictStays`), so neither a later answer nor a rotation disturbs
an escrow that was settled (`EscrowIsRight`).

*The market.* `MarketInv` adds to the oracle's invariant that a rule is chosen
only for a deployed pool and an outcome copied only with a rule
(`RuleAfterDeployment`). `SettlementObeysOracle` is then inductive, because the
oracle never changes a verdict (`VerdictsStay`) and because where bets are
accepted no rule has been chosen (`OpenMeansUndecided`): a rule means a verdict
or a time after the deadline. The same lemma is the heart of
`MarketFixesEntitlements`. For the money the invariant is `Funded`: the pools are
the sums of the stakes, and balance and payments together are the pools. It says
nothing of rounding. `SharesFit` does: multiplied by the winning side, each share
lies within `winning - 1` of what its stake deserves, so the rounded-down shares of
a pool fit into it and miss less than one unit per winner. `MarketSound` follows
from the two without induction, as does the mirror: `distribute` sums the same
stakes under other names (`MirroredEntitlements`), and `settlementMode` foresees the
rule (`MirrorForesees`).

*The bond.* `BondIInv` says that job ids are given out in order and that an
unwritten job is about no test (`JobsAreNumbered`), so that a stake whose job
names the test is on a job that exists; and that a stake is scored after it is
posted and closed after it is scored (`StakesGoForward`), so that nothing with a
verdict is written over. `BondStepEffect` reduces every call to one of three
changes of one stake: `posted`, `judged`, `closed`. A job only goes forward
(`JobStepKeepsJobs`), so what a verdict is compared with stands
(`VerdictsStand`). For `OnlyLiarsPay` the set of closed contradicted verdicts
never loses a member, and a slash adds one that was open before. For
`BondMoneyIsThere` one call moves one escrow or one bond, and the balance with it;
`uint96(msg.value)` is the value because of `JobAssumption`, and a bond is positive
exactly while it is open.

*The loop.* `LoopIInv` says of every call on its way, in the mempool or on a wire, that
it was due: the steps before it were done for that very signal and job (`DoneUpTo`).
Such a call may be mined late, twice, or after its process died, so the heart of the
proof is that what was done stays done (`DoneStays`), whoever's call is mined
(`ChainCases`, `ContractsKeep`), and hence that a call once due stays due
(`CallsStayDue`). Of every job (`jobIsApart`) it says what can have become of it: on the
mainnet one of the wallet's own has the derived key for its provider and is paid after
the verdicts, and one that a stranger made the wallet judge is never decided, because a
loop takes its ids from its own receipts. On the testnet a demo may get a job of another
demo or of a stranger; but its `submit` goes through only where its wallet is the
provider and nothing was delivered yet, so what it decides later is what it delivered
itself (`holdsWork`, `WorkStays`). Strangers do their part in a job and change nothing
that was relied on (`StrangersKeep`). A success that a loop hears of is that of its own
call (`MinedIsDone`). For `SpendingIsAccountedFor` the invariant is a ledger
(`LedgerOf`): what was spent on a signal, or will be once the mempool is empty, is no
more than the answers its loop received and the answers that were lost; a signal is
requested once, so one loop alone spends on it. A stranger's job is of another client
and in nobody's ledger.

*The gateway.* The replay guard does not carry the proof alone, for a restart empties
it. `ServedForGood` says of every response: either the guard holds its transaction under
the text it was named with, or no quote that can still be redeemed (one in the map, or
in the hands of a request in progress) is a memo of it. A restart makes the second true,
since it forgets all quotes with the guard; a new quote keeps it, since no payment mined
so far can name it (`MemosAreOfQuotes`). When a response is released, an earlier one on
the same transaction and the same text would have been seen by the guard in the first
case and contradicts the memo of the quote in hand in the second. Under another text the
guard is blind. A text of the client's own comes with a hash, and by hash only the first
event of a transaction is redeemed, so there is one such response at most, beside one
that the scan found: two in all, each on its own event. `Transactions` may be all
non-empty sequences of calls, those of a buyer included. `Books` says that what was
taken in is what the transactions carried; the responses on one transaction rest on
different events of it, so each transaction covers its own (`TransactionCovers`), and
the sum of them covers all (`UnlocksAreCovered`).

*The buyer.* `BuyerIInv` keeps, for each buyer, that the calls in flight are the
payment of its quote and nothing else (`CallsArePayments`); that its outlay, spent
or in the mempool, is at most one price for itself and one for each lost answer
(`OutlayIsBounded`); that what it waits for in the gateway is its own lookup
(`HandlerFollows`); and that a try which failed for another reason than the lookup
means that it is shut out (`ProgressIsEarned`). What shuts a request out does so for
good, until the request is served or forgotten (`HistoryStays`, `ShutStays`): that is
why a buyer's own payment must do for its quote (`OwnPaymentDoes`) and a refusal is
final (`RefusalIsForGood`). Steps of strangers leave a buyer's part alone
(`StillKeepsFacts`).

*The vault.* The vault only reads the oracle, so the oracle's invariant carries over
(`OracleBelow`). A decision is dated no later than now, so an outcome that comes later
is later (`DecisionsAreForward`); a recorded outcome stays, so a score does. The
contract answers for a record that has a decision in it (`trackRecord` reverts
otherwise), and there `MirrorAgrees` compares. `MirrorFollows` needs no induction: the
two scorers agree on one decision (`ScorersAgree`), and the tally is the cardinality of
four disjoint sets. A deposit or a withdrawal moves one balance and the total alike
(`DepositsAreBacked`).

*The keeper.* `KeeperIInv` says that whatever a run is about to send, waits for, or has
left in the mempool was decided on a verified attestation with that hash
(`RunsAreDecided`, `CallsAreDecided`); what is decided stays so, whatever the feed says
next. A posture that the agent's wallet set therefore has a signal, however late its call is
mined; of one that another keeper set nothing is claimed, for the vault asks for none.
That a rebalance flips is not true of every run: two runs may decide the same, or another
keeper may move the vault after the posture was read. `OneRunAtATime` is what
holds as long as nothing was disturbed: the mempool has the call of the only run there
is, and the vault still has the posture that run found. Another keeper's rebalance
between two runs disturbs neither; the second run reads what it left.

*The arbiter.* That no ruling is slashable is not inductive alone. `Citations`
adds that every ruling cites a non-zero hash which the cited party has filed. A
filing that is there cannot be written again (`FileEffect`), so citations
survive every filing; a ruling is written with its citation checked
(`RuleEffect`); and under `Citations` the guard of `challenge` is false, so the
slash count stays zero. Once the contract has the seat, no account can call the
protocol past it (`SeatedStep`): what refunds is a ruling. One ruling's bond
moves at a time, and the balance with it (`OneBondMoves`).

*The deployments.* `DeployIInv` says that one process deploys at a time and that what
it waits for is on its way (`OneOperator`), that what is in a file is there and the last
job named is the one in its file (`FilesHold`), and that the script waits for the call it
means: what it hears of is newer than every file, and the seat of its mock is free until
its arbiter is there (`ScriptFits`). The calls of the one wallet are mined in the order
of their nonces, so a call left over from a lost answer or a dead run may be mined under
a later script; `GoesOn` is what such a step leaves alone, and a script hears of its own
call only. `FilesFit` follows. `OrphansHaveACause` is a bound that no step keeps by
itself, for an orphan may appear long after the fault that caused it. `FaultsPay` is the
ledger that is inductive: orphans, deployments in the mempool other than the one waited
for, and the script's `debt`, what it may still give up with no further fault (a mock
and its arbiter while the handover may be refused, because an unanswered one precedes
it). A lost answer or a crash pays for two; to mine a call nobody waits for moves an
entry of the ledger and leaves the sum.

*Money in trust.* Three contracts hold money for others, and each promises the same of
it: `MoneyInTrust` has one phase per key (nothing, held, paid out), takes a sum once and
pays it out whole, once. For `AgentJob` the keys are the jobs and the phase is the job's
state; for the bond they are the request hashes, for the arbiter the payments. A
decision, a slash, a reclaim are all `PayOut`, for the abstract contract does not ask
who wins; verdicts, submissions, filings, changes of key, operator, window and minimum
are stutters, and that is the point: none of them touches money. The proofs use the
invariants of each contract (a closed stake has no bond, a decided job no escrow; a bond
is not reduced modulo 2^96, by `JobAssumption`).

*Paid responses.* `PaidResponses` is what the gateway that the README of the repository
describes comes to, whatever text a transaction is named with: quotes, payments and
responses, for good, and a response released in one step against a payment that covers
the quote, if the quote released none before; a payment that carries the prices of
several quotes may release one for each. What
`PaymentGateway` adds (requests that stop at every `await`, a map that is evicted, a
guard that a restart empties) is invisible there. The step that counts is the one that
serves: `OnePaymentOneUnlock` holds after it, as part of the inductive invariant, so the
request it adds to the history is in none of the earlier entries;
that is the guard of `Release`, which the gateway itself can only check in a memory that
it may have lost. A quote is read again with every later payment (`SharesStay`): what a
transaction carries for a quote must not change when quotes are added or redeemed.

*Only model-checked:* everything under fairness (`EveryoneIsPaid`,
`ScoredBondsClose`, `FollowsTheFeed`, `ReceiptedBondsComeBack`), which the prover
does not reason about, and `DepositsCanLeave`, for its `ENABLED`. What that says is
proved in the form the prover has: `EveryDepositCanLeave` names the next state and shows
that it is reached by `withdraw`, from every state that satisfies `VaultInv`, and
`VaultHonest` that every reachable state does.

*Only proved:* `ImplementsPaidResponses`, which doubles the time of the run `Gateway`,
and `BuyersGetPaidResponses` covers that instance with all others.

## 6. Where the code and its comments differ

The first two have a run with a counterexample and an entry in `PROJECT.json`.

- *Dispute window.* A verdict may be recorded before the submission. Its window
  then runs while every challenge reverts with `NotSubmitted`, and the bond can
  be reclaimed as soon as the submission shows the verdict wrong.
  (`FullWindowToChallenge`)
- *Top-up.* The scan takes the first event with the memo. A short payment hides
  every later full one from `?request_id=`; only the transaction hash finds it.
  (`FullPaymentUnlocks`)

The following can be read off the code and have no run:

- *Contracts.* `PredgeOracle.commitLeadTime` is 0 for a market committed and
  resolved in one block; its comment says it is non-zero on every resolved
  market. `PredgeAgentValidator.sol:202` says the same of every answered request, which
  can be answered in the block it was made in; `ResponseRestsOnRequest` allows equality.
  The comment on `PredgeSignalVaultV2` likewise promises strict order
  where times can be equal; `DecisionsAreForward` states the order that holds.
  `ExampleMarket` never reduces its pools; the comment says their sum is what
  the contract owes and decreases after settlement. A bond can be staked after
  the deliverable was submitted, when the committed test is no longer a
  commitment (`PredgeValidatorBond.sol:145`); and `reclaim` pays the validator
  of the day, not the one that posted the bond. A party that filed evidence can
  become the arbiter's operator and rule on its own filing
  (`PredgeRefundArbiter.sol:107`). A pending validation request reads a score of
  0, which the demo's consumer takes for a refund.
- *Lost answers.* A rebalance whose answer is lost is sent again, and when both
  are mined the second changes no posture (`vault/decide.mjs:17` says a
  rebalance "happens only when the target posture DIFFERS"). `createJob` sent
  twice leaves an escrow no script knows; `payForRoute` sent twice pays twice. A
  commitment sent twice reverts the second time, and `oracle.mjs` reports a
  failure though the record is there. `setArbiter` sent twice is refused the
  second time, and the deployment file is never written.
- *Publisher.* The verifier wants the outcome strictly later than the commitment
  (`verify-cachet.mjs:168`), which the contract does not. It never reads the market or
  the outcome in the signed bytes, nor their kind, so whoever sits on the publisher's
  seat may write the hash of a genuine attestation beside another market or outcome,
  and the verifier says "VERIFIED — this resolution is what Predge signed before the
  outcome" (`verify-cachet.mjs:267`). A crash between writing
  a key and publishing it leaves a signer nobody can verify.
- *Gateway.* The README promises "One payment, one unlock", and the guard is to map a
  transaction hash to the request it redeemed (`server.mjs:51`) and to answer
  `tx_already_redeemed`. It is keyed by the text of the `X-Arc-Payment` header, which
  nothing brings into one case, so a transaction that pays two quotes is answered twice
  when it is named once by the client in upper case and found once by the scan.
  `OnePaymentOneUnlock` states what holds: a request, and with it a `Paid` event, unlocks
  once.
- *Keeper.* `Number(smart_wallets) < min` is false of a count that is not a number
  (`vault/decide.mjs:54`), which therefore counts as enough; `PostureHasASignal` says no
  more than that. A rebalance by another keeper that the owner seats needs no signal.
- *Buyer.* The replay test (`agent.mjs:145`) expects 409 and sends no token, so the
  gateway answers 401. The agent's default RPC is the testnet's while the gateway
  quotes the mainnet, and it never compares chain ids. A response lost on its way
  leaves the quote spent. A buyer with money for one payment whose answer is lost
  is refused when it sends again, and dies with its payment unredeemed.
- *Operator.* A loop that dies after its stake leaves a bond that no receipt file
  names, though `reclaim-bonds.mjs:69` speaks of every request hash ever staked;
  and the sweep reckons the window from `stakedAt`, the contract from `scoredAt`.
  Two demos of one wallet may decide each other's job, or a stranger's that names it as
  provider and evaluator: `job.mjs:96` reads the id back from `jobCount()`. Each decides
  by what it delivered there, and its own job may stay open. The receipts do not name the
  bond contract, so after a redeployment the sweep passes over what the old one holds.
  `deploy-bond.mjs` passes
  two of three arguments and can never deploy. `--only=AgentJob`, or a crash
  after its file, leaves the bond on the old job, and a redeployed oracle leaves
  the market on the old one. `genwallet.js` overwrites an `.env` that has no
  `PRIVATE_KEY` line.

## 7. Not modelled, and what could follow

- `script/genwallet.js`, `script/setup-agent.mjs`, `script/demo-arbiter.mjs`,
  `e2e.mjs`, `web/`, the videos: they write one file, call each contract once in
  a fixed order or show what a contract answers, and nothing another step depends
  on is kept. `anchor.mjs` and the `--deep` scan of `verify-cachet.mjs` read and
  write a hash in calldata that nothing else reads.
- `bond.mjs` calls an ABI the contract no longer has; its sends are refused.
- Of the keeper: the journal, the smoke test, the sample feed and `deposit()`.
- Of the scripts: `fundProvider`, `--estimate`, overrides by environment
  variables and checks of balances, which end a run before it sends.
- Signatures and hashes: a signature is valid or not, a hash stands for its
  content. Gas, reorganisations of the chain and the window of the event scan.

What could follow: an instance of `LiveLoop` with two loops of one wallet, which the
theorems cover.
