-------------------------- MODULE DeploymentScripts --------------------------
(***************************************************************************)
(* The operator's deployment scripts, run one after the other from one     *)
(* wallet: deploy-mainnet.mjs with or without --only, the testnet script   *)
(* of each contract, deploy-market.mjs and deploy-arbiter.mjs.  A script   *)
(* finds the contracts it builds on by the files earlier runs wrote, and   *)
(* other programs find them the same way.                                  *)
(*                                                                         *)
(* An address is the place of a contract in the order of deployment; the   *)
(* two networks share the order and no files.  deploy.js prints what it    *)
(* deployed and writes no file: what it printed is taken for one, and its  *)
(* optional payment is left out.  deploy-bond.mjs hands the constructor    *)
(* two of its three arguments and ends before it sends anything.           *)
(***************************************************************************)
EXTENDS RetriedCalls, FiniteSets

CONSTANTS OnlyLists,     \* the --only lists in use; a run without is the whole plan
          MaxContracts,  \* bound on deployments
          MaxRuns,       \* bound on runs of scripts
          MaxTime        \* bound on the clock

\* A slip the properties must notice: the order of the constructors' headers.
PLAN_BondFirst ==
    <<"PredgeSettlement", "PredgeOracle", "PredgeAgentValidator", "PredgeValidatorBond",
      "AgentJob", "PredgeSignalVault">>

\* deploy-mainnet.mjs, in its order: the bond reads the job, so the job is first.
PLAN ==
    <<"PredgeSettlement", "PredgeOracle", "PredgeAgentValidator", "AgentJob",
      "PredgeValidatorBond", "PredgeSignalVault">>

Kinds == Range(PLAN) \cup {"ExampleMarket", "MockRefundProtocol", "PredgeRefundArbiter"}
Nets == {"mainnet", "testnet"}
Nowhere == 0
Addresses == 1 .. MaxContracts
Unset == [address |-> Nowhere, on |-> Nowhere]

ASSUME DeploymentAssumption ==
    /\ \A list \in OnlyLists : list # {} /\ list \subseteq Range(PLAN)
    /\ {MaxContracts, MaxRuns} \subseteq Nat /\ MaxTime \in Nat \ {0}
    /\ Clients # {}

VARIABLES contracts,  \* what was deployed, in order: kind, and the contract it reads
          market,     \* per oracle: is the market id committed, resolved?
          seat,       \* per MockRefundProtocol: its arbiter, Nowhere for the deployer
          now,        \* block.timestamp
          file,       \* per network and kind: the file that names a contract
          script,     \* progress of the run under way
          runs,       \* runs started
          whole,      \* history: the mainnet files are those of one finished whole plan
          named       \* history: addresses some file has ever held

worldVars == <<contracts, market, seat, now>>
operatorVars == <<file, script, runs, whole, named>>
deployVars == <<worldVars, callVars, operatorVars>>

op == CHOOSE c \in Clients : TRUE

Deployments == [step : {"deploy"}, net : Nets, kind : Kinds, on : Addresses \cup {Nowhere},
                deadline : 0 .. MaxTime + 1]
Handovers == [step : {"setArbiter"}, on : Addresses, to : Addresses]

Idle == [at |-> "idle"]
ScriptStates ==
    {Idle}
    \cup [at : {"deploy"}, net : Nets, todo : Seq(Kinds), only : SUBSET Kinds,
          summary : [Kinds -> Addresses \cup {Nowhere}], on : Addresses \cup {Nowhere}]
    \cup [at : {"preflight"}, oracle : Addresses, deadline : Nat]
    \cup [at : {"hand"}, mock : Addresses, arbiter : Addresses]

DeployInit ==
    /\ contracts = <<>>
    /\ market = [a \in Addresses |-> "unknown"]
    /\ seat = [a \in Addresses |-> Nowhere]
    /\ now = 1
    /\ CallInit
    /\ file = [net \in Nets |-> [kind \in Kinds |-> Unset]]
    /\ script = Idle
    /\ runs = 0
    /\ whole = FALSE
    /\ named = {}

------------------------------------------------------------------------------
(* The chain. *)

\* What the constructor, or setArbiter, requires.
accepts(call) ==
    /\ call.step = "setArbiter" => seat[call.on] = Nowhere
    /\ call.step = "deploy" /\ call.kind = "ExampleMarket" =>
          market[call.on] = "committed" /\ call.deadline > now

operatorOf(call) == op

mine(i) ==
    /\ isNext(i, operatorOf)
    /\ LET c == mempool[i].call
       IN  \/ /\ c.step = "deploy" /\ accepts(c)
              /\ contracts' = Append(contracts, [net |-> c.net, kind |-> c.kind, on |-> c.on])
              /\ mined(i, [at |-> "ok", log |-> Len(contracts) + 1])
              /\ UNCHANGED seat
           \/ /\ c.step = "setArbiter" /\ accepts(c)
              /\ seat' = [seat EXCEPT ![c.on] = c.to]
              /\ mined(i, [at |-> "ok", log |-> c.to])
              /\ UNCHANGED contracts
           \/ /\ ~accepts(c)
              /\ mined(i, [at |-> "thrown"])
              /\ UNCHANGED <<contracts, seat>>
    /\ UNCHANGED <<market, now, operatorVars>>

\* The publisher commits to the market and resolves it, on whichever oracle; markets
\* are only opened on the testnet.
publish(a) ==
    /\ a \in DOMAIN contracts
    /\ contracts[a].kind = "PredgeOracle" /\ contracts[a].net = "testnet"
    /\ \/ market[a] = "unknown" /\ market' = [market EXCEPT ![a] = "committed"]
       \/ market[a] = "committed" /\ market' = [market EXCEPT ![a] = "resolved"]
    /\ UNCHANGED <<contracts, seat, now, callVars, operatorVars>>

passTime ==
    /\ now < MaxTime /\ now' = now + 1
    /\ UNCHANGED <<contracts, market, seat, callVars, operatorVars>>

Send ==
    /\ wire[op].at = "send"
    /\ Len(contracts) + Len(mempool) < MaxContracts
    /\ LET ok == accepts(wire[op].call) IN send(op, ok) \/ loseAnswer(op, ok)
    /\ UNCHANGED <<worldVars, operatorVars>>

------------------------------------------------------------------------------
(* The scripts. *)

deploy(net, kind, on, deadline) ==
    issue(op, [step |-> "deploy", net |-> net, kind |-> kind, on |-> on,
               deadline |-> deadline])

begin == script = Idle /\ runs < MaxRuns /\ runs' = runs + 1

\* What the constructor is handed; argsFor reads the summary as it stands.
argsFor(kind, summary) ==
    CASE kind = "PredgeValidatorBond" -> summary["AgentJob"]
      [] kind = "PredgeRefundArbiter" -> summary["MockRefundProtocol"]
      [] OTHER -> Nowhere

\* ethers refuses to build a bond on a job that is not there.
buildable(kind, on) == kind = "PredgeValidatorBond" => on # Nowhere

addressesIn(net) == [kind \in Kinds |-> file[net][kind].address]

\* Names what to deploy, what is known already, and sends the first of it.
run(net, todo, only) ==
    LET summary == addressesIn(net)
        on == argsFor(todo[1], summary)
    IN  /\ buildable(todo[1], on)
        /\ script' = [at |-> "deploy", net |-> net, todo |-> todo, only |-> only,
                      summary |-> summary, on |-> on]
        /\ deploy(net, todo[1], on, 0)

\* What is wanted of the plan, in its order.
planned(only) ==
    LET upTo[k \in 0 .. Len(PLAN)] ==
            IF k = 0 THEN <<>>
            ELSE upTo[k - 1] \o (IF PLAN[k] \in only THEN <<PLAN[k]>> ELSE <<>>)
    IN  upTo[Len(PLAN)]

\* deploy-mainnet.mjs, with or without --only.
startMainnet(only) ==
    /\ begin
    /\ run("mainnet", planned(only), only)
    /\ whole' = FALSE
    /\ UNCHANGED <<worldVars, file, named>>

startTestnet(kind) ==
    /\ begin
    /\ run("testnet", <<kind>>, {kind})
    /\ UNCHANGED <<worldVars, file, whole, named>>

\* The testnet scripts, each for one contract that needs no other.
deploySettlement == startTestnet("PredgeSettlement")
deployOracle == startTestnet("PredgeOracle")
deployValidator == startTestnet("PredgeAgentValidator")
deployJob == startTestnet("AgentJob")
deployVault == startTestnet("PredgeSignalVault")

\* deploy-arbiter.mjs without ARBITER_TARGET: a mock first.
startArbiter ==
    /\ begin
    /\ run("mainnet", <<"MockRefundProtocol", "PredgeRefundArbiter">>, {"PredgeRefundArbiter"})
    /\ UNCHANGED <<worldVars, file, whole, named>>

\* deploy-market.mjs takes its oracle from the file and a deadline to come.
startMarket ==
    /\ begin
    /\ file["testnet"]["PredgeOracle"].address # Nowhere
    /\ script' = [at |-> "preflight", oracle |-> file["testnet"]["PredgeOracle"].address,
                  deadline |-> now + 1]
    /\ UNCHANGED <<worldVars, callVars, file, whole, named>>

\* It refuses politely; the outcome may still come before the deployment does.
preflight ==
    /\ script.at = "preflight"
    /\ \/ /\ market[script.oracle] = "committed"
          /\ script' = [at |-> "deploy", net |-> "testnet", todo |-> <<"ExampleMarket">>,
                        only |-> {"ExampleMarket"}, summary |-> addressesIn("testnet"),
                        on |-> script.oracle]
          /\ deploy("testnet", "ExampleMarket", script.oracle, script.deadline)
       \/ /\ market[script.oracle] # "committed"
          /\ script' = Idle
          /\ UNCHANGED callVars
    /\ UNCHANGED <<worldVars, file, runs, whole, named>>

\* The summary once the contract just deployed is in it.
built == [script.summary EXCEPT ![Head(script.todo)] = wire[op].log]

writeFile(net, kind, address, on) ==
    /\ file' = [file EXCEPT ![net][kind] = [address |-> address, on |-> on]]
    /\ named' = named \cup {address}

\* On to the next contract of the plan, or the end.
goOn ==
    LET todo == Tail(script.todo)
        on == argsFor(Head(todo), built)
    IN  \/ /\ todo = <<>>
           /\ script' = Idle
           /\ whole' = (whole \/ script.only = Range(PLAN))
           /\ hangUp(op)
        \/ /\ todo # <<>> /\ buildable(Head(todo), on)
           /\ script' = [at |-> "deploy", net |-> script.net, todo |-> todo,
                         only |-> script.only, summary |-> built, on |-> on]
           /\ deploy(script.net, Head(todo), on, 0)
           /\ UNCHANGED whole
        \/ /\ todo # <<>> /\ ~buildable(Head(todo), on)
           /\ script' = Idle
           /\ hangUp(op)
           /\ UNCHANGED whole

isDeployed(kinds) ==
    script.at = "deploy" /\ wire[op].at = "ok" /\ Head(script.todo) \in kinds

\* A slip the properties must notice: the files are all written when the plan is done.
deployed_FilesLast ==
    /\ isDeployed(Kinds \ {"MockRefundProtocol", "PredgeRefundArbiter"})
    /\ goOn
    /\ LET done == IF Tail(script.todo) = <<>> THEN script.only ELSE {}
       IN  /\ file' = [file EXCEPT ![script.net] =
                         [kind \in Kinds |-> IF kind \in done
                                             THEN [address |-> built[kind],
                                                   on |-> argsFor(kind, built)]
                                             ELSE @[kind]]]
           /\ named' = named \cup {built[kind] : kind \in done}
    /\ UNCHANGED <<worldVars, runs>>

\* A contract of the plan is there: it joins the summary and its file is written.
deployed ==
    /\ isDeployed(Kinds \ {"MockRefundProtocol", "PredgeRefundArbiter"})
    /\ goOn
    /\ writeFile(script.net, Head(script.todo), wire[op].log, script.on)
    /\ UNCHANGED <<worldVars, runs>>

\* The mock, then the arbiter on it, then the seat.
mockDeployed ==
    /\ isDeployed({"MockRefundProtocol"})
    /\ goOn
    /\ UNCHANGED <<worldVars, runs, file, named>>

arbiterDeployed ==
    /\ isDeployed({"PredgeRefundArbiter"})
    /\ script' = [at |-> "hand", mock |-> script.on, arbiter |-> wire[op].log]
    /\ issue(op, [step |-> "setArbiter", on |-> script.on, to |-> wire[op].log])
    /\ UNCHANGED <<worldVars, runs, whole, file, named>>

\* Only now is the arbiter's file written, which names the mock too.
seatHanded ==
    /\ script.at = "hand" /\ wire[op].at = "ok"
    /\ file' = [file EXCEPT !["mainnet"]["PredgeRefundArbiter"] =
                  [address |-> script.arbiter, on |-> script.mock]]
    /\ named' = named \cup {script.arbiter, script.mock}
    /\ script' = Idle
    /\ hangUp(op)
    /\ UNCHANGED <<worldVars, runs, whole>>

scriptDies ==
    /\ script # Idle
    /\ crash(op) \/ (wire[op].at = "thrown" /\ hangUp(op))
    /\ script' = Idle
    /\ UNCHANGED <<worldVars, file, runs, whole, named>>

------------------------------------------------------------------------------
DeployNext ==
    \/ \E only \in OnlyLists \cup {Range(PLAN)} : startMainnet(only)
    \/ deploySettlement \/ deployOracle \/ deployValidator \/ deployJob \/ deployVault
    \/ startArbiter \/ startMarket \/ preflight
    \/ deployed \/ mockDeployed \/ arbiterDeployed \/ seatHanded \/ scriptDies
    \/ Send
    \/ \E i \in DOMAIN mempool : mine(i)
    \/ \E a \in Addresses : publish(a)
    \/ passTime

------------------------------------------------------------------------------
DeployTypeOK ==
    /\ contracts \in Seq([net : Nets, kind : Kinds, on : Addresses \cup {Nowhere}])
    /\ market \in [Addresses -> {"unknown", "committed", "resolved"}]
    /\ seat \in [Addresses -> Addresses \cup {Nowhere}]
    /\ now \in 1 .. MaxTime
    /\ wire \in [Clients -> WireStates(Deployments \cup Handovers, Addresses)]
    /\ mempool \in Seq(Accepted(Deployments \cup Handovers))
    /\ faults \in 0 .. MaxFaults
    /\ file \in [Nets -> [Kinds -> [address : Addresses \cup {Nowhere},
                                    on : Addresses \cup {Nowhere}]]]
    /\ script \in ScriptStates
    /\ runs \in 0 .. MaxRuns
    /\ whole \in BOOLEAN
    /\ named \in SUBSET Addresses

\* What a file says is on the chain: a contract of that kind, built on that other one.
FilesTellTheTruth ==
    \A net \in Nets : \A kind \in Kinds :
        file[net][kind] # Unset =>
            /\ file[net][kind].address \in DOMAIN contracts
            /\ contracts[file[net][kind].address] =
                 [net |-> net, kind |-> kind, on |-> file[net][kind].on]

\* A bond reads the newest job its network's files had named when it was built, and
\* when the whole plan was run to its end, the job the files name.
BondReadsTheJob ==
    LET bond == file["mainnet"]["PredgeValidatorBond"]
    IN  /\ bond # Unset =>
            /\ contracts[bond.on].kind = "AgentJob"
            /\ \A a \in named :
                 contracts[a].kind = "AgentJob" /\ contracts[a].net = "mainnet"
                    /\ a < bond.address => a <= bond.on
        /\ whole => bond.on = file["mainnet"]["AgentJob"].address

\* A market reads an oracle that committed to it; a named arbiter holds the mock's seat.
MarketAndArbiterAreWired ==
    /\ LET entry == file["testnet"]["ExampleMarket"]
       IN  entry # Unset => /\ contracts[entry.on].kind = "PredgeOracle"
                            /\ market[entry.on] # "unknown"
    /\ LET entry == file["mainnet"]["PredgeRefundArbiter"]
       IN  entry # Unset => /\ contracts[entry.on].kind = "MockRefundProtocol"
                            /\ seat[entry.on] = entry.address

\* The deployment files can be relied on: whatever answers were lost and wherever a
\* script died, each names a mined contract of its kind wired to the contracts the
\* script meant, and after a whole run the bond reads the job beside it.
FilesFit == DeployTypeOK /\ FilesTellTheTruth /\ BondReadsTheJob /\ MarketAndArbiterAreWired

\* Contracts of the run under way that have no file yet.
inHand ==
    {wire[c].log : c \in {k \in Clients : wire[k].at = "ok"}}
    \cup (CASE script.at = "deploy" -> {script.on}
             [] script.at = "hand" -> {script.mock, script.arbiter}
             [] OTHER -> {})

\* Each file is written as soon as its contract is there: a lost answer or a crash
\* strands at most two contracts (a mock and its arbiter) that no file ever named,
\* and without one nothing is stranded.
OrphansHaveACause ==
    Cardinality((DOMAIN contracts \ named) \ inHand) <= 2 * faults

DeploySpec == DeployInit /\ [][DeployNext]_deployVars
==============================================================================
