---------------------- MODULE DeploymentScriptsProofs ----------------------
(***************************************************************************)
(* DeploymentScripts for every set of --only lists, any number of runs,    *)
(* deployments and tries, and wherever answers are lost or a script dies.  *)
(*                                                                         *)
(* The files can be relied on because of what a script knows when it       *)
(* writes one: DeployIInv says that the one script under way waits for the *)
(* call it means, that what it hears of is there, is newer than every file *)
(* and was built on what it meant, and that a mock's seat is asked for     *)
(* once per deployment.  The world may go on under it; nothing it rests on *)
(* is ever undone.                                                         *)
(*                                                                         *)
(* FaultsPay counts the contracts no file will ever name before they are   *)
(* there: an orphan is paid for when the answer to its call is lost or the *)
(* script dies, not when its call is mined.                                *)
(***************************************************************************)
EXTENDS DeploymentScripts, SumTheorems

------------------------------------------------------------------------------
(* The plan. *)

\* The plan, kind by kind.
LEMMA PlanIs ==
    /\ Len(PLAN) = 6 /\ DOMAIN PLAN = 1 .. 6
    /\ PLAN[1] = "PredgeSettlement" /\ PLAN[2] = "PredgeOracle"
    /\ PLAN[3] = "PredgeAgentValidator" /\ PLAN[4] = "AgentJob"
    /\ PLAN[5] = "PredgeValidatorBond" /\ PLAN[6] = "PredgeSignalVault"
    /\ Range(PLAN) = {"PredgeSettlement", "PredgeOracle", "PredgeAgentValidator", "AgentJob",
                      "PredgeValidatorBond", "PredgeSignalVault"}
<1>1. /\ Len(PLAN) = 6 /\ DOMAIN PLAN = 1 .. 6
      /\ PLAN[1] = "PredgeSettlement" /\ PLAN[2] = "PredgeOracle"
      /\ PLAN[3] = "PredgeAgentValidator" /\ PLAN[4] = "AgentJob"
      /\ PLAN[5] = "PredgeValidatorBond" /\ PLAN[6] = "PredgeSignalVault"
  BY DEF PLAN
<1>2. DOMAIN PLAN = {1, 2, 3, 4, 5, 6}
  BY <1>1
<1>3. Range(PLAN) = {PLAN[i] : i \in {1, 2, 3, 4, 5, 6}}
  BY <1>2 DEF Range
<1> QED
  BY <1>1, <1>3

\* planned(only) is the last of the sequences its definition builds.
grows(f, only) ==
    f = [k \in 0 .. Len(PLAN) |->
            IF k = 0 THEN <<>>
            ELSE f[k - 1] \o (IF PLAN[k] \in only THEN <<PLAN[k]>> ELSE <<>>)]

\* The sequences it builds exist.
LEMMA PlannedGrows ==
    ASSUME NEW only
    PROVE  \E f : grows(f, only) /\ planned(only) = f[6]
<1> DEFINE t(k) == IF PLAN[k] \in only THEN <<PLAN[k]>> ELSE <<>>
           f1 == <<>> \o t(1)
           f2 == f1 \o t(2)
           f3 == f2 \o t(3)
           f4 == f3 \o t(4)
           f5 == f4 \o t(5)
           f6 == f5 \o t(6)
           g == [k \in 0 .. 6 |-> CASE k = 0 -> <<>> [] k = 1 -> f1 [] k = 2 -> f2 [] k = 3 -> f3
                                    [] k = 4 -> f4 [] k = 5 -> f5 [] k = 6 -> f6]
           next(f, k) == IF k = 0 THEN <<>> ELSE f[k - 1] \o t(k)
<1>1. /\ g[0] = <<>> /\ g[1] = g[0] \o t(1) /\ g[2] = g[1] \o t(2) /\ g[3] = g[2] \o t(3)
      /\ g[4] = g[3] \o t(4) /\ g[5] = g[4] \o t(5) /\ g[6] = g[5] \o t(6)
  <2>1. /\ g[0] = <<>> /\ g[1] = f1 /\ g[2] = f2 /\ g[3] = f3 /\ g[4] = f4 /\ g[5] = f5
        /\ g[6] = f6
    <3> HIDE DEF f1, f2, f3, f4, f5, f6
    <3> QED
      OBVIOUS
  <2> HIDE DEF g, t
  <2> QED
    BY <2>1
<1>2. g = [k \in 0 .. 6 |-> g[k]]
  OBVIOUS
<1>3. \A k \in 0 .. 6 : g[k] = next(g, k)
  <2> HIDE DEF g, t
  <2>1. \A k \in 0 .. 6 : k = 0 \/ k = 1 \/ k = 2 \/ k = 3 \/ k = 4 \/ k = 5 \/ k = 6
    OBVIOUS
  <2>2. /\ 1 - 1 = 0 /\ 2 - 1 = 1 /\ 3 - 1 = 2 /\ 4 - 1 = 3 /\ 5 - 1 = 4 /\ 6 - 1 = 5
    OBVIOUS
  <2> QED
    BY <1>1, <2>1, <2>2
<1>4. grows(g, only)
  <2> HIDE DEF g
  <2>1. g = [k \in 0 .. 6 |-> next(g, k)]
    BY <1>2, <1>3
  <2> QED
    BY <2>1, PlanIs DEF grows
<1> DEFINE f == CHOOSE h : grows(h, only)
<1>5. grows(f, only)
  BY <1>4
<1>6. planned(only) = f[6]
  BY PlanIs DEF planned, grows
<1> QED
  BY <1>5, <1>6

\* What is left of the whole plan, counted from its end.
planLeft(todo) ==
    Len(todo) \in 1 .. 6 /\ \A i \in DOMAIN todo : todo[i] = PLAN[6 - Len(todo) + i]

\* One more kind of the plan is looked at.
upToIs(q, k, only) ==
    /\ q \in Seq(Range(PLAN))
    /\ q = <<>> <=> \A i \in 1 .. k : PLAN[i] \notin only
    /\ only = Range(PLAN) => Len(q) = k /\ \A i \in 1 .. k : q[i] = PLAN[i]

\* Looking at one more kind of the plan keeps its order.
LEMMA UpToGrows ==
    ASSUME NEW only, NEW q, NEW k \in 0 .. 5, upToIs(q, k, only)
    PROVE  upToIs(q \o (IF PLAN[k + 1] \in only THEN <<PLAN[k + 1]>> ELSE <<>>), k + 1, only)
<1> DEFINE S == Range(PLAN)
           p == PLAN[k + 1]
           r == q \o (IF p \in only THEN <<p>> ELSE <<>>)
<1> SUFFICES upToIs(r, k + 1, only)
  OBVIOUS
<1>0. p \in S /\ q \in Seq(S) /\ k + 1 \in 1 .. 6 /\ \A i \in 1 .. k + 1 : i \in 1 .. k \/ i = k + 1
  BY PlanIs DEF Range, upToIs
<1>1. CASE p \in only
  <2>1. r = q \o <<p>>
    BY <1>1
  <2> HIDE DEF S, p, r
  <2>2. /\ r \in Seq(S) /\ Len(r) = Len(q) + 1 /\ r # <<>> /\ r[Len(q) + 1] = p
        /\ \A i \in 1 .. Len(q) : r[i] = q[i]
    BY <1>0, <2>1
  <2>3. r = <<>> <=> \A i \in 1 .. k + 1 : PLAN[i] \notin only
    BY <1>0, <1>1, <2>2 DEF p
  <2>4. only = S => Len(r) = k + 1 /\ \A i \in 1 .. k + 1 : r[i] = PLAN[i]
    <3>1. ASSUME only = S PROVE Len(q) = k /\ \A i \in 1 .. k : q[i] = PLAN[i]
      BY <3>1 DEF upToIs, S
    <3>2. ASSUME only = S, NEW i \in 1 .. k + 1 PROVE r[i] = PLAN[i]
      BY <1>0, <2>2, <3>1, <3>2 DEF p
    <3> QED
      BY <2>2, <3>1, <3>2
  <2> QED
    BY <2>2, <2>3, <2>4 DEF upToIs, S
<1>2. CASE p \notin only
  <2>1. r = q
    BY <1>0, <1>2
  <2>2. only # S
    BY <1>0, <1>2
  <2> HIDE DEF S, p, r
  <2>3. q = <<>> <=> \A i \in 1 .. k + 1 : PLAN[i] \notin only
    BY <1>0, <1>2 DEF upToIs, p
  <2> QED
    BY <1>0, <2>1, <2>2, <2>3 DEF upToIs, S
<1> QED
  BY <1>1, <1>2

\* What is wanted is some of the plan, and all of it when all is wanted.
LEMMA PlannedIs ==
    ASSUME NEW only, only # {}, only \subseteq Range(PLAN)
    PROVE  /\ planned(only) \in Seq(Range(PLAN)) /\ planned(only) # <<>>
           /\ only = Range(PLAN) => planLeft(planned(only)) /\ Len(planned(only)) = 6
<1>1. PICK f : grows(f, only) /\ planned(only) = f[6]
  BY PlannedGrows
<1> DEFINE Q == {k \in Nat : k <= 6 => upToIs(f[k], k, only)}
<1>2. 0 \in Q
  <2>1. f[0] = <<>>
    BY <1>1, PlanIs DEF grows
  <2>2. Range(PLAN) # {}
    BY PlanIs
  <2>3. upToIs(<<>>, 0, only)
    <3>1. <<>> \in Seq(Range(PLAN)) /\ Len(<<>>) = 0 /\ 1 .. 0 = {}
      OBVIOUS
    <3> QED
      BY <3>1 DEF upToIs
  <2> QED
    BY <2>1, <2>3
<1>3. ASSUME NEW k \in Q PROVE k + 1 \in Q
  <2> SUFFICES ASSUME k \in 0 .. 5 PROVE upToIs(f[k + 1], k + 1, only)
    OBVIOUS
  <2>1. f[k + 1] = f[k] \o (IF PLAN[k + 1] \in only THEN <<PLAN[k + 1]>> ELSE <<>>)
    <3> HIDE DEF Q
    <3>1. k + 1 \in 0 .. Len(PLAN) /\ k + 1 # 0 /\ (k + 1) - 1 = k
      BY PlanIs
    <3>2. f[k + 1] = IF k + 1 = 0 THEN <<>>
                     ELSE f[(k + 1) - 1]
                            \o (IF PLAN[k + 1] \in only THEN <<PLAN[k + 1]>> ELSE <<>>)
      BY <1>1, <3>1 DEF grows
    <3> QED
      BY <3>1, <3>2
  <2>2. upToIs(f[k], k, only)
    OBVIOUS
  <2> QED
    BY <2>1, <2>2, UpToGrows
<1>4. upToIs(f[6], 6, only)
  <2> HIDE DEF Q
  <2>1. Nat \subseteq Q
    BY <1>2, <1>3, NumberInduction
  <2> QED
    BY <2>1 DEF Q
<1>5. f[6] # <<>>
  <2>1. PICK kind \in only : kind \in Range(PLAN)
    OBVIOUS
  <2>2. PICK k \in DOMAIN PLAN : kind = PLAN[k]
    BY <2>1 DEF Range
  <2> QED
    BY <1>4, <2>1, <2>2, PlanIs DEF upToIs
<1>6. only = Range(PLAN) => planLeft(f[6]) /\ Len(f[6]) = 6
  <2> SUFFICES ASSUME only = Range(PLAN) PROVE planLeft(f[6]) /\ Len(f[6]) = 6
    OBVIOUS
  <2> HIDE DEF Q
  <2>1. Len(f[6]) = 6 /\ DOMAIN f[6] = 1 .. 6 /\ \A i \in 1 .. 6 : f[6][i] = PLAN[i]
    BY <1>4 DEF upToIs
  <2>2. \A i \in 1 .. 6 : 6 - 6 + i = i
    OBVIOUS
  <2> QED
    BY <2>1, <2>2 DEF planLeft
<1> QED
  BY <1>1, <1>4, <1>5, <1>6 DEF upToIs

------------------------------------------------------------------------------
(* The inductive invariant of the deployments. *)

AllCalls == Deployments \cup Handovers
DeployWires == WireStates(AllCalls, Addresses)
opWire == wire[op]

isBuilt(a, net, kind, on) ==
    a \in DOMAIN contracts /\ contracts[a] = [net |-> net, kind |-> kind, on |-> on]
handsOver(entry, mock) == entry.call.step = "setArbiter" /\ entry.call.on = mock

\* The scripts are one process.  What it waits for is on its way, room is left for what
\* is, and nothing is known of a contract that is not there.
OneOperator ==
    /\ \A c \in Clients : c # op => wire[c] = Quiet
    /\ \A i \in DOMAIN mempool : mempool[i].by = op
    /\ opWire.at = "wait" =>
          \E i \in DOMAIN mempool : mempool[i].answered /\ mempool[i].call = opWire.call
    /\ Len(contracts) + Len(mempool) <= MaxContracts
    /\ \A i \in DOMAIN mempool : \A a \in Addresses :
          handsOver(mempool[i], a) => a \in DOMAIN contracts
    /\ \A a \in Addresses : seat[a] # Nowhere => a \in DOMAIN contracts

isJob(a) == contracts[a].kind = "AgentJob" /\ contracts[a].net = "mainnet"
jobFile == file["mainnet"]["AgentJob"].address

\* What is in a file is named, nothing but a mock is built on an unnamed contract, and
\* the last job named is the one in its file.
FilesAreNamed ==
    /\ named \subseteq DOMAIN contracts
    /\ \A net \in Nets, kind \in Kinds :
          file[net][kind] # Unset =>
             /\ file[net][kind].address \in named
             /\ kind \in {"PredgeValidatorBond", "ExampleMarket", "PredgeRefundArbiter"} =>
                   file[net][kind].on \in DOMAIN contracts
    /\ \A net \in Nets : file[net]["MockRefundProtocol"] = Unset
    /\ \A a \in named : isJob(a) => a <= jobFile

FilesHold ==
    /\ FilesTellTheTruth /\ BondReadsTheJob /\ MarketAndArbiterAreWired
    /\ FilesAreNamed

\* The script deploys the kind at hand; what it heard of is newer than every file.
DeploysKind ==
    /\ opWire.at # "quiet"
    /\ opWire.at \in {"send", "wait"} =>
          /\ opWire.call.step = "deploy" /\ opWire.call.net = script.net
          /\ opWire.call.kind = Head(script.todo) /\ opWire.call.on = script.on
    /\ opWire.at = "ok" =>
          /\ isBuilt(opWire.log, script.net, Head(script.todo), script.on)
          /\ \A a \in named : a < opWire.log

\* What is to be deployed and what is known of the files.
DeploysPlan ==
    LET todo == script.todo
    IN  /\ todo # <<>>
        /\ \/ Range(todo) \subseteq Range(PLAN)
           \/ todo = <<"ExampleMarket">> \/ todo = <<"PredgeRefundArbiter">>
           \/ todo = <<"MockRefundProtocol", "PredgeRefundArbiter">>
        /\ \A kind \in Kinds \ {"MockRefundProtocol"} :
              script.summary[kind] = file[script.net][kind].address
        /\ script.net = "testnet" =>
              Range(todo) \cap {"PredgeValidatorBond", "MockRefundProtocol",
                                "PredgeRefundArbiter"} = {}
        /\ script.net = "mainnet" /\ Range(todo) \subseteq Range(PLAN) => ~whole
        /\ script.only = Range(PLAN) =>
              /\ script.net = "mainnet" /\ planLeft(todo)
              /\ Len(todo) = 1 => file["mainnet"]["PredgeValidatorBond"].on = jobFile

\* The seat of a mock that nobody has asked for.
isFree(mock) ==
    seat[mock] = Nowhere /\ \A i \in DOMAIN mempool : ~handsOver(mempool[i], mock)

\* What the kind at hand is built on is there.
DeploysOn ==
    /\ Head(script.todo) = "ExampleMarket" =>
          /\ script.net = "testnet" /\ script.on \in named
          /\ contracts[script.on].kind = "PredgeOracle" /\ market[script.on] # "unknown"
    /\ Head(script.todo) = "PredgeValidatorBond" =>
          script.on = jobFile /\ jobFile # Nowhere
    /\ Head(script.todo) = "PredgeRefundArbiter" =>
          /\ script.on \in DOMAIN contracts \ named
          /\ contracts[script.on].kind = "MockRefundProtocol" /\ isFree(script.on)
    /\ Head(script.todo) = "MockRefundProtocol" /\ opWire.at = "ok" => isFree(opWire.log)
    /\ Head(script.todo)
          \notin {"ExampleMarket", "PredgeValidatorBond", "PredgeRefundArbiter"} =>
          script.on = Nowhere

\* The script hands the mock's seat to its arbiter; no file names either yet.
HandsSeat ==
    /\ opWire.at # "quiet"
    /\ isBuilt(script.arbiter, "mainnet", "PredgeRefundArbiter", script.mock)
    /\ script.mock \in DOMAIN contracts /\ contracts[script.mock].kind = "MockRefundProtocol"
    /\ script.mock \notin named /\ script.arbiter \notin named
    /\ opWire.at \in {"send", "wait"} =>
          opWire.call = [step |-> "setArbiter", on |-> script.mock, to |-> script.arbiter]
    /\ opWire.at = "ok" => seat[script.mock] = script.arbiter

ScriptFits ==
    /\ script.at \in {"idle", "preflight"} => opWire.at = "quiet"
    /\ script.at = "preflight" =>
          /\ script.oracle \in named /\ contracts[script.oracle].kind = "PredgeOracle"
          /\ script.deadline <= MaxTime + 1
    /\ script.at = "deploy" => DeploysKind /\ DeploysPlan /\ DeploysOn
    /\ script.at = "hand" => HandsSeat

DeployIInv == DeployTypeOK /\ OneOperator /\ FilesHold /\ ScriptFits

------------------------------------------------------------------------------
(* The parts of the state. *)

\* The kinds of contracts, one by one.
LEMMA KindsAre ==
    Kinds = {"PredgeSettlement", "PredgeOracle", "PredgeAgentValidator", "AgentJob",
             "PredgeValidatorBond", "PredgeSignalVault", "ExampleMarket",
             "MockRefundProtocol", "PredgeRefundArbiter"}
BY PlanIs DEF Kinds

\* The scripts run as a client.
LEMMA OpIsClient == op \in Clients
BY DeploymentAssumption DEF op

\* What a call says.
LEMMA DeployCalls ==
    ASSUME NEW c \in AllCalls
    PROVE  /\ c.step \in {"deploy", "setArbiter"}
           /\ c.step = "deploy" => /\ c.net \in Nets /\ c.kind \in Kinds
                                   /\ c.on \in Addresses \cup {Nowhere}
           /\ c.step = "setArbiter" => c.on \in Addresses /\ c.to \in Addresses
BY DEF AllCalls, Deployments, Handovers

\* What a state of the wire says.
LEMMA DeployWireKinds ==
    ASSUME NEW s \in DeployWires
    PROVE  /\ s.at \in {"quiet", "thrown", "send", "wait", "ok"}
           /\ s.at = "quiet" => s = Quiet
           /\ s.at \in {"send", "wait"} => s.call \in AllCalls
           /\ s.at = "send" => s.tries \in 0 .. MaxTries - 1
           /\ s.at = "ok" => s.log \in Addresses
BY DEF DeployWires, WireStates, Quiet

\* The states a wire can take.
LEMMA WireWays ==
    /\ Quiet \in DeployWires /\ Quiet.at = "quiet"
    /\ [at |-> "thrown"] \in DeployWires
    /\ \A a \in Addresses : [at |-> "ok", log |-> a] \in DeployWires
    /\ \A c \in AllCalls : /\ [at |-> "wait", call |-> c] \in DeployWires
                           /\ [at |-> "send", call |-> c, tries |-> 0] \in DeployWires
<1>1. 0 \in 0 .. MaxTries - 1
  BY RetryAssumption
<1> QED
  BY <1>1 DEF DeployWires, WireStates, Quiet

\* What the script hears, it alone hears.
LEMMA OpHears ==
    ASSUME wire \in [Clients -> DeployWires], NEW s \in DeployWires, hear(op, s)
    PROVE  /\ wire' \in [Clients -> DeployWires] /\ opWire' = s
           /\ (\A c \in Clients : c # op => wire[c] = Quiet) =>
                 \A c \in Clients : c # op => wire'[c] = Quiet
BY OpIsClient DEF hear, opWire

\* What a state of the script says.
LEMMA ScriptKinds ==
    ASSUME NEW s \in ScriptStates
    PROVE  /\ s.at \in {"idle", "deploy", "preflight", "hand"}
           /\ s.at = "idle" <=> s = Idle
           /\ s.at = "deploy" =>
                 /\ s.net \in Nets /\ s.todo \in Seq(Kinds) /\ s.only \in SUBSET Kinds
                 /\ s.summary \in [Kinds -> Addresses \cup {Nowhere}]
                 /\ s.on \in Addresses \cup {Nowhere}
           /\ s.at = "preflight" => s.oracle \in Addresses /\ s.deadline \in Nat
           /\ s.at = "hand" => s.mock \in Addresses /\ s.arbiter \in Addresses
BY DEF ScriptStates, Idle

\* The states a script can take.
LEMMA ScriptWays ==
    /\ Idle \in ScriptStates /\ Idle.at = "idle"
    /\ \A a, b \in Addresses :
          [at |-> "hand", mock |-> a, arbiter |-> b] \in ScriptStates
    /\ \A a \in Addresses, t \in Nat :
          [at |-> "preflight", oracle |-> a, deadline |-> t] \in ScriptStates
    /\ \A net \in Nets, todo \in Seq(Kinds), only \in SUBSET Kinds,
          summary \in [Kinds -> Addresses \cup {Nowhere}], on \in Addresses \cup {Nowhere} :
          [at |-> "deploy", net |-> net, todo |-> todo, only |-> only, summary |-> summary,
           on |-> on] \in ScriptStates
BY DEF ScriptStates, Idle

\* A contract that is there has an address.
LEMMA ContractIds ==
    ASSUME DeployTypeOK, OneOperator
    PROVE  /\ DOMAIN contracts = 1 .. Len(contracts) /\ Len(contracts) \in Nat
           /\ DOMAIN mempool = 1 .. Len(mempool) /\ Len(mempool) \in Nat
           /\ DOMAIN contracts \subseteq Addresses /\ Nowhere \notin DOMAIN contracts
           /\ Nowhere \notin Addresses
<1>1. /\ DOMAIN contracts = 1 .. Len(contracts) /\ Len(contracts) \in Nat
      /\ DOMAIN mempool = 1 .. Len(mempool) /\ Len(mempool) \in Nat
  BY DEF DeployTypeOK
<1> QED
  BY <1>1, DeploymentAssumption DEF OneOperator, Addresses, Nowhere

\* The first of a list of kinds, and what remains.
LEMMA FirstOf ==
    ASSUME NEW S, NEW q \in Seq(S), q # <<>>
    PROVE  /\ Head(q) \in S /\ Head(q) = q[1] /\ 1 \in DOMAIN q /\ Len(q) \in Nat /\ Len(q) >= 1
           /\ Tail(q) \in Seq(S) /\ Len(Tail(q)) = Len(q) - 1
           /\ DOMAIN q = 1 .. Len(q) /\ DOMAIN Tail(q) = 1 .. Len(q) - 1
           /\ \A i \in DOMAIN Tail(q) : i + 1 \in DOMAIN q /\ Tail(q)[i] = q[i + 1]
           /\ Range(q) = {Head(q)} \cup Range(Tail(q))
<1>1. /\ Head(q) \in S /\ Head(q) = q[1] /\ 1 \in DOMAIN q /\ Len(q) \in Nat /\ Len(q) >= 1
      /\ Tail(q) \in Seq(S) /\ Len(Tail(q)) = Len(q) - 1
      /\ DOMAIN q = 1 .. Len(q) /\ DOMAIN Tail(q) = 1 .. Len(q) - 1
      /\ \A i \in DOMAIN Tail(q) : i + 1 \in DOMAIN q /\ Tail(q)[i] = q[i + 1]
  OBVIOUS
<1>2. ASSUME NEW i \in DOMAIN q PROVE q[i] \in {Head(q)} \cup Range(Tail(q))
  <2>1. CASE i = 1
    BY <1>1, <2>1
  <2>2. CASE i # 1
    <3>1. i - 1 \in DOMAIN Tail(q) /\ (i - 1) + 1 = i
      BY <1>1, <2>2
    <3> QED
      BY <1>1, <3>1 DEF Range
  <2> QED
    BY <2>1, <2>2
<1>3. \A i \in DOMAIN Tail(q) : Tail(q)[i] \in Range(q)
  BY <1>1 DEF Range
<1>4. Range(q) = {Head(q)} \cup Range(Tail(q))
  BY <1>1, <1>2, <1>3 DEF Range
<1> QED
  BY <1>1, <1>4

------------------------------------------------------------------------------
(* The chain goes on under the script. *)

\* Nothing that a file says or rests on is undone.
StaysBuilt ==
    /\ \A a \in DOMAIN contracts : a \in DOMAIN contracts' /\ contracts'[a] = contracts[a]
    /\ \A a \in Addresses : market[a] # "unknown" => market'[a] # "unknown"
    /\ \A a \in Addresses : seat[a] # Nowhere => seat'[a] = seat[a]

\* A seat is handed by a call on its way, and the script's own is all that is added.
HandedByACall ==
    /\ \A a \in Addresses :
          seat'[a] # seat[a] => \E i \in DOMAIN mempool : handsOver(mempool[i], a)
    /\ \A i \in DOMAIN mempool' :
          \/ \E j \in DOMAIN mempool : mempool'[i] = mempool[j]
          \/ opWire.at = "send" /\ mempool'[i].call = opWire.call

\* What the script hears, if anything, is so.
HearsTheTruth ==
    LET call == opWire.call
        log == opWire'.log
    IN  /\ call.step = "deploy" =>
              /\ log = Len(contracts) + 1 /\ log \in DOMAIN contracts'
              /\ contracts'[log] = [net |-> call.net, kind |-> call.kind, on |-> call.on]
        /\ call.step = "setArbiter" => seat'[call.on] = call.to
WireFollows ==
    \/ opWire' = opWire
    \/ /\ opWire.at \in {"send", "wait"}
       /\ \/ opWire'.at = "thrown"
          \/ opWire'.at \in {"send", "wait"} /\ opWire'.call = opWire.call
          \/ opWire'.at = "ok" /\ HearsTheTruth

\* Files stay true while nothing they rest on is undone.
LEMMA FilesStay ==
    ASSUME DeployTypeOK, OneOperator, FilesHold, StaysBuilt, UNCHANGED <<file, whole, named>>
    PROVE  FilesHold'
<1>0. /\ file \in [Nets -> [Kinds -> [address : Addresses \cup {Nowhere},
                                      on : Addresses \cup {Nowhere}]]]
      /\ "mainnet" \in Nets /\ "testnet" \in Nets
      /\ {"PredgeValidatorBond", "ExampleMarket", "PredgeRefundArbiter", "AgentJob"}
            \subseteq Kinds
  BY KindsAre DEF DeployTypeOK, Nets
<1>1. DOMAIN contracts \subseteq Addresses /\ Nowhere \notin DOMAIN contracts
  BY ContractIds
<1>2. named \subseteq DOMAIN contracts
  BY DEF FilesHold, FilesAreNamed
<1>3. ASSUME NEW net \in Nets, NEW kind \in Kinds, file[net][kind] # Unset
      PROVE  /\ file[net][kind].address \in named /\ file[net][kind].address \in DOMAIN contracts
             /\ kind \in {"PredgeValidatorBond", "ExampleMarket", "PredgeRefundArbiter"} =>
                   file[net][kind].on \in DOMAIN contracts
  BY <1>2, <1>3 DEF FilesHold, FilesAreNamed
<1>4. FilesTellTheTruth'
  BY <1>3 DEF FilesHold, FilesTellTheTruth, StaysBuilt
<1>5. FilesAreNamed'
  BY <1>2, <1>3 DEF FilesHold, FilesAreNamed, StaysBuilt, isJob, jobFile
<1>6. BondReadsTheJob'
  BY <1>0, <1>2, <1>3 DEF FilesHold, BondReadsTheJob, StaysBuilt
<1>7. MarketAndArbiterAreWired'
  <2>1. file["testnet"]["ExampleMarket"] # Unset =>
           /\ contracts[file["testnet"]["ExampleMarket"].on]' =
                 contracts[file["testnet"]["ExampleMarket"].on]
           /\ market'[file["testnet"]["ExampleMarket"].on] # "unknown"
    BY <1>0, <1>1, <1>3 DEF FilesHold, MarketAndArbiterAreWired, StaysBuilt
  <2>2. ASSUME file["mainnet"]["PredgeRefundArbiter"] # Unset
        PROVE  LET mock == file["mainnet"]["PredgeRefundArbiter"].on
               IN  contracts'[mock] = contracts[mock] /\ seat'[mock] = seat[mock]
    <3> DEFINE entry == file["mainnet"]["PredgeRefundArbiter"]
    <3>1. entry.address \in DOMAIN contracts /\ entry.on \in DOMAIN contracts
      BY <1>0, <1>3, <2>2
    <3>2. seat[entry.on] = entry.address
      BY <2>2 DEF FilesHold, MarketAndArbiterAreWired
    <3> QED
      BY <1>1, <3>1, <3>2 DEF StaysBuilt
  <2> QED
    BY <2>1, <2>2 DEF FilesHold, MarketAndArbiterAreWired
<1> QED
  BY <1>4, <1>5, <1>6, <1>7 DEF FilesHold

\* So does what the script knows, whatever it hears.
LEMMA ScriptGoesOn ==
    ASSUME DeployTypeOK, OneOperator, FilesHold, ScriptFits,
           StaysBuilt, HandedByACall, WireFollows, UNCHANGED <<file, script, whole, named>>,
           wire' \in [Clients -> DeployWires]
    PROVE  ScriptFits'
<1>0. /\ script \in ScriptStates /\ Nowhere \notin DOMAIN contracts
      /\ DOMAIN contracts = 1 .. Len(contracts) /\ Len(contracts) \in Nat
      /\ DOMAIN contracts \subseteq Addresses /\ named \subseteq DOMAIN contracts
      /\ Nowhere \notin Addresses
  BY ContractIds DEF DeployTypeOK, FilesHold, FilesAreNamed
<1>1. ASSUME script.at \in {"idle", "preflight"} PROVE opWire'.at = "quiet"
  BY <1>1 DEF ScriptFits, WireFollows
<1>2. ASSUME script.at = "preflight"
      PROVE  /\ script.oracle \in named /\ contracts'[script.oracle].kind = "PredgeOracle"
             /\ script.deadline <= MaxTime + 1
  BY <1>0, <1>2 DEF ScriptFits, StaysBuilt
<1>3. ASSUME script.at = "deploy" PROVE (DeploysKind /\ DeploysPlan /\ DeploysOn)'
  <2>0. DeploysKind /\ DeploysPlan /\ DeploysOn
    BY <1>3 DEF ScriptFits
  <2>1. DeploysKind'
    <3>1. CASE opWire' = opWire
      BY <1>0, <2>0, <3>1 DEF DeploysKind, isBuilt, StaysBuilt
    <3>2. CASE opWire.at \in {"send", "wait"} /\ opWire'.at = "thrown"
      BY <3>2 DEF DeploysKind
    <3>3. CASE /\ opWire.at \in {"send", "wait"} /\ opWire'.at \in {"send", "wait"}
               /\ opWire'.call = opWire.call
      BY <2>0, <3>3 DEF DeploysKind
    <3>4. CASE opWire.at \in {"send", "wait"} /\ opWire'.at = "ok" /\ HearsTheTruth
      BY <1>0, <2>0, <3>4 DEF DeploysKind, isBuilt, HearsTheTruth
    <3> QED
      BY <3>1, <3>2, <3>3, <3>4 DEF WireFollows
  <2>2. DeploysPlan'
    BY <2>0 DEF DeploysPlan, jobFile, planLeft
  <2>3. DeploysOn'
    <3>0. opWire.at = "send" => opWire.call.step = "deploy"
      BY <2>0 DEF DeploysKind
    <3>1. ASSUME NEW a \in Addresses, isFree(a) PROVE isFree(a)'
      BY <3>0, <3>1 DEF isFree, HandedByACall, handsOver
    <3>2. ASSUME Head(script.todo) = "MockRefundProtocol", opWire'.at = "ok"
          PROVE  (isFree(opWire.log))'
      <4>1. PICK a \in Addresses : a = opWire'.log
        BY <3>2, OpIsClient, DeployWireKinds DEF opWire
      <4>2. isFree(a)
        <5>1. CASE opWire' = opWire
          BY <2>0, <3>2, <4>1, <5>1 DEF DeploysOn
        <5>2. CASE opWire.at \in {"send", "wait"} /\ HearsTheTruth
          <6>1. a \notin DOMAIN contracts
            BY <1>0, <2>0, <3>2, <4>1, <5>2 DEF DeploysKind, HearsTheTruth
          <6> QED
            BY <6>1 DEF OneOperator, isFree
        <5> QED
          BY <3>2, <5>1, <5>2 DEF WireFollows
      <4>3. isFree(a)'
        BY <3>1, <4>2
      <4> QED
        BY <4>1, <4>3 DEF isFree
    <3>3. Head(script.todo) = "PredgeRefundArbiter" => script.on \in Addresses
      BY <1>0, <2>0 DEF DeploysOn
    <3>4. ASSUME Head(script.todo) = "PredgeRefundArbiter" PROVE isFree(script.on)'
      <4>1. PICK a \in Addresses : a = script.on
        BY <3>3, <3>4
      <4>2. isFree(a)'
        BY <2>0, <3>1, <3>4, <4>1 DEF DeploysOn
      <4> QED
        BY <4>1, <4>2 DEF isFree
    <3>5. /\ Head(script.todo) = "ExampleMarket" =>
                /\ script.net = "testnet" /\ script.on \in named
                /\ contracts'[script.on].kind = "PredgeOracle" /\ market'[script.on] # "unknown"
          /\ Head(script.todo) = "PredgeRefundArbiter" =>
                /\ script.on \in DOMAIN contracts' \ named
                /\ contracts'[script.on].kind = "MockRefundProtocol"
      BY <1>0, <2>0 DEF DeploysOn, StaysBuilt
    <3> HIDE DEF isFree
    <3> QED
      BY <2>0, <3>2, <3>4, <3>5 DEF DeploysOn, jobFile
  <2> QED
    BY <2>1, <2>2, <2>3
<1>4. ASSUME script.at = "hand" PROVE HandsSeat'
  <2>0. HandsSeat /\ script.mock \in Addresses /\ script.arbiter \in Addresses
    BY <1>0, <1>4, ScriptKinds DEF ScriptFits
  <2>1. /\ isBuilt(script.arbiter, "mainnet", "PredgeRefundArbiter", script.mock)'
        /\ script.mock \in DOMAIN contracts'
        /\ contracts'[script.mock].kind = "MockRefundProtocol"
        /\ script.mock \notin named' /\ script.arbiter \notin named'
    BY <2>0 DEF HandsSeat, isBuilt, StaysBuilt
  <2>2. /\ opWire'.at # "quiet"
        /\ opWire'.at \in {"send", "wait"} =>
              opWire'.call = [step |-> "setArbiter", on |-> script.mock,
                              to |-> script.arbiter]
        /\ opWire'.at = "ok" => seat'[script.mock] = script.arbiter
    <3>1. CASE opWire' = opWire
      BY <1>0, <2>0, <3>1 DEF HandsSeat, StaysBuilt
    <3>2. CASE opWire.at \in {"send", "wait"} /\ opWire'.at = "thrown"
      BY <3>2
    <3>3. CASE /\ opWire.at \in {"send", "wait"} /\ opWire'.at \in {"send", "wait"}
               /\ opWire'.call = opWire.call
      BY <2>0, <3>3 DEF HandsSeat
    <3>4. CASE opWire.at \in {"send", "wait"} /\ opWire'.at = "ok" /\ HearsTheTruth
      BY <2>0, <3>4 DEF HandsSeat, HearsTheTruth
    <3> QED
      BY <3>1, <3>2, <3>3, <3>4 DEF WireFollows
  <2> QED
    BY <2>1, <2>2 DEF HandsSeat
<1> QED
  BY <1>1, <1>2, <1>3, <1>4 DEF ScriptFits

GoesOn == StaysBuilt /\ HandedByACall /\ WireFollows /\ UNCHANGED <<file, script, whole, named>>

Contracts == [net : Nets, kind : Kinds, on : Addresses \cup {Nowhere}]
builtBy(call) == [net |-> call.net, kind |-> call.kind, on |-> call.on]

\* How the oldest call ends: it builds, hands a seat, or is refused.
endsAs(call, outcome) ==
    \/ /\ call.step = "deploy" /\ UNCHANGED seat
       /\ contracts' = Append(contracts, builtBy(call))
       /\ outcome = [at |-> "ok", log |-> Len(contracts) + 1]
    \/ /\ call.step = "setArbiter" /\ UNCHANGED contracts
       /\ seat[call.on] = Nowhere /\ seat' = [seat EXCEPT ![call.on] = call.to]
       /\ outcome = [at |-> "ok", log |-> call.to]
    \/ ~accepts(call) /\ UNCHANGED <<contracts, seat>> /\ outcome = [at |-> "thrown"]

\* The wallet is one, so the oldest call is mined.
LEMMA MineEnds ==
    ASSUME DeployTypeOK, OneOperator, NEW i \in DOMAIN mempool, mine(i)
    PROVE  /\ i = 1 /\ mempool[1].call \in AllCalls /\ mempool[1].by = op
           /\ \E o \in DeployWires :
                 /\ endsAs(mempool[1].call, o) /\ mined(1, o) /\ o.at \in {"ok", "thrown"}
<1>1. /\ i \in 1 .. Len(mempool) /\ Len(mempool) \in Nat /\ mempool[i] \in Accepted(AllCalls)
      /\ Len(contracts) + Len(mempool) <= MaxContracts /\ Len(contracts) \in Nat
  BY DEF DeployTypeOK, OneOperator, AllCalls
<1>2. i = 1
  <2>1. \A k \in 1 .. i - 1 : FALSE
    BY DEF mine, isNext, operatorOf
  <2> QED
    BY <1>1, <2>1
<1> DEFINE c == mempool[1].call
<1>3. c \in AllCalls /\ mempool[1].by = op
  BY <1>1, <1>2 DEF Accepted, OneOperator
<1>4. \/ /\ c.step = "deploy" /\ mined(1, [at |-> "ok", log |-> Len(contracts) + 1])
         /\ contracts' = Append(contracts, builtBy(c))
         /\ UNCHANGED seat
      \/ /\ c.step = "setArbiter" /\ accepts(c) /\ mined(1, [at |-> "ok", log |-> c.to])
         /\ seat' = [seat EXCEPT ![c.on] = c.to] /\ UNCHANGED contracts
      \/ ~accepts(c) /\ mined(1, [at |-> "thrown"]) /\ UNCHANGED <<contracts, seat>>
  BY <1>2 DEF mine, builtBy
<1>5. Len(contracts) + 1 \in Addresses
  BY <1>1, DeploymentAssumption DEF Addresses
<1>6. c.step = "setArbiter" => c.to \in Addresses /\ (accepts(c) => seat[c.on] = Nowhere)
  BY <1>3, DeployCalls DEF accepts
<1> HIDE DEF c
<1>7. \E o \in DeployWires : endsAs(c, o) /\ mined(1, o) /\ o.at \in {"ok", "thrown"}
  <2>1. CASE /\ c.step = "deploy" /\ mined(1, [at |-> "ok", log |-> Len(contracts) + 1])
             /\ contracts' = Append(contracts, builtBy(c))
             /\ UNCHANGED seat
    <3>1. [at |-> "ok", log |-> Len(contracts) + 1] \in DeployWires
      BY <1>5, WireWays
    <3>2. endsAs(c, [at |-> "ok", log |-> Len(contracts) + 1])
      BY <2>1 DEF endsAs
    <3> QED
      BY <2>1, <3>1, <3>2
  <2>2. CASE /\ c.step = "setArbiter" /\ accepts(c) /\ mined(1, [at |-> "ok", log |-> c.to])
             /\ seat' = [seat EXCEPT ![c.on] = c.to] /\ UNCHANGED contracts
    <3>1. [at |-> "ok", log |-> c.to] \in DeployWires
      BY <1>6, <2>2, WireWays
    <3>2. endsAs(c, [at |-> "ok", log |-> c.to])
      BY <1>6, <2>2 DEF endsAs
    <3> QED
      BY <2>2, <3>1, <3>2
  <2>3. CASE ~accepts(c) /\ mined(1, [at |-> "thrown"]) /\ UNCHANGED <<contracts, seat>>
    <3>1. endsAs(c, [at |-> "thrown"])
      BY <2>3 DEF endsAs
    <3> QED
      BY <2>3, <3>1, WireWays
  <2> QED
    BY <1>4, <2>1, <2>2, <2>3
<1> QED
  BY <1>2, <1>3, <1>7 DEF c

\* What is left of the mempool, and whom it tells.
LEMMA MinedIs ==
    ASSUME DeployTypeOK, OneOperator, 1 \in DOMAIN mempool, NEW o, mined(1, o)
    PROVE  /\ mempool' \in Seq(Accepted(AllCalls)) /\ Len(mempool') = Len(mempool) - 1
           /\ DOMAIN mempool' = 1 .. Len(mempool) - 1
           /\ \A k \in DOMAIN mempool' : k + 1 \in DOMAIN mempool /\ mempool'[k] = mempool[k + 1]
           /\ IF mempool[1].answered /\ opWire = [at |-> "wait", call |-> mempool[1].call]
              THEN hear(op, o) ELSE UNCHANGED wire
           /\ UNCHANGED faults
<1>1. mempool \in Seq(Accepted(AllCalls)) /\ mempool[1].by = op
  BY DEF DeployTypeOK, OneOperator, AllCalls
<1>2. /\ mempool' = cutOut(mempool, 1) /\ UNCHANGED faults
      /\ IF mempool[1].answered /\ opWire = [at |-> "wait", call |-> mempool[1].call]
         THEN hear(op, o) ELSE UNCHANGED wire
  BY <1>1 DEF mined, RemoveAt, cutOut, opWire
<1> DEFINE S == Accepted(AllCalls)
<1> HIDE DEF S
<1>3. /\ mempool' \in Seq(S) /\ Len(mempool') = Len(mempool) - 1
      /\ \A k \in 1 .. Len(mempool) - 1 :
            mempool'[k] = mempool[IF k < 1 THEN k ELSE k + 1]
  BY <1>1, <1>2, CutOut DEF S
<1>4. Len(mempool) \in Nat /\ DOMAIN mempool = 1 .. Len(mempool)
  BY <1>1
<1>5. DOMAIN mempool' = 1 .. Len(mempool) - 1
  BY <1>3
<1>6. \A k \in 1 .. Len(mempool) - 1 :
         k + 1 \in DOMAIN mempool /\ mempool'[k] = mempool[k + 1]
  BY <1>3, <1>4
<1> QED
  BY <1>2, <1>3, <1>5, <1>6 DEF S

\* A list with one more element.
LEMMA AppendedIs ==
    ASSUME NEW S, NEW q \in Seq(S), NEW e \in S
    PROVE  /\ Append(q, e) \in Seq(S) /\ Len(Append(q, e)) = Len(q) + 1 /\ Len(q) \in Nat
           /\ Append(q, e)[Len(q) + 1] = e /\ DOMAIN Append(q, e) = 1 .. Len(q) + 1
           /\ \A i \in DOMAIN q : i \in DOMAIN Append(q, e) /\ Append(q, e)[i] = q[i]
OBVIOUS

\* A contract more is there, and the others as they were.
LEMMA BuiltIs ==
    ASSUME contracts \in Seq(Contracts), NEW call \in AllCalls, call.step = "deploy",
           contracts' = Append(contracts, builtBy(call))
    PROVE  /\ contracts' \in Seq(Contracts) /\ Len(contracts') = Len(contracts) + 1
           /\ contracts' # contracts /\ DOMAIN contracts' = 1 .. Len(contracts')
           /\ Len(contracts) + 1 \in DOMAIN contracts'
           /\ contracts'[Len(contracts) + 1] = builtBy(call)
           /\ \A a \in DOMAIN contracts : a \in DOMAIN contracts' /\ contracts'[a] = contracts[a]
<1>1. builtBy(call) \in Contracts
  BY DeployCalls DEF Contracts, builtBy
<1>2. /\ contracts' \in Seq(Contracts) /\ Len(contracts') = Len(contracts) + 1
      /\ Len(contracts) \in Nat
      /\ contracts'[Len(contracts) + 1] = builtBy(call)
      /\ DOMAIN contracts' = 1 .. Len(contracts) + 1
      /\ \A a \in DOMAIN contracts : a \in DOMAIN contracts' /\ contracts'[a] = contracts[a]
  BY <1>1, AppendedIs
<1>3. contracts' # contracts
  <2>1. Len(contracts') # Len(contracts)
    BY <1>2
  <2> QED
    BY <2>1
<1> QED
  BY <1>2, <1>3

\* A call that is mined undoes nothing.
LEMMA MineGoesOn ==
    ASSUME DeployTypeOK, OneOperator, ScriptFits, NEW i \in DOMAIN mempool, mine(i)
    PROVE  DeployTypeOK' /\ OneOperator' /\ GoesOn
<1>0. /\ contracts \in Seq(Contracts)
      /\ seat \in [Addresses -> Addresses \cup {Nowhere}]
      /\ wire \in [Clients -> DeployWires]
      /\ Len(contracts) \in Nat /\ DOMAIN contracts = 1 .. Len(contracts)
      /\ Len(mempool) \in Nat /\ DOMAIN mempool = 1 .. Len(mempool)
      /\ Nowhere \notin Addresses
  BY ContractIds DEF DeployTypeOK, DeployWires, AllCalls, Contracts
<1> DEFINE c == mempool[1].call
<1>1. i = 1 /\ 1 \in DOMAIN mempool /\ c \in AllCalls
  BY MineEnds
<1>2. PICK o \in DeployWires : endsAs(c, o) /\ mined(1, o) /\ o.at \in {"ok", "thrown"}
  BY MineEnds
<1>3. /\ mempool' \in Seq(Accepted(AllCalls)) /\ Len(mempool') = Len(mempool) - 1
      /\ DOMAIN mempool' = 1 .. Len(mempool) - 1
      /\ \A k \in DOMAIN mempool' : k + 1 \in DOMAIN mempool /\ mempool'[k] = mempool[k + 1]
      /\ IF mempool[1].answered /\ opWire = [at |-> "wait", call |-> c]
         THEN hear(op, o) ELSE UNCHANGED wire
      /\ UNCHANGED faults
  BY <1>1, <1>2, MinedIs
<1>4. UNCHANGED <<market, now, file, script, runs, whole, named>>
  BY DEF mine, operatorVars
<1> HIDE DEF c
<1>5. /\ wire' \in [Clients -> DeployWires] /\ \A d \in Clients : d # op => wire'[d] = Quiet
      /\ \/ opWire' = opWire
            /\ ~(mempool[1].answered /\ opWire = [at |-> "wait", call |-> c])
         \/ opWire = [at |-> "wait", call |-> c] /\ opWire' = o
  <2>1. CASE mempool[1].answered /\ opWire = [at |-> "wait", call |-> c]
    <3>1. hear(op, o)
      BY <1>3, <2>1
    <3>2. \A d \in Clients : d # op => wire[d] = Quiet
      BY DEF OneOperator
    <3> QED
      BY <1>0, <2>1, <3>1, <3>2, OpHears
  <2>2. CASE ~(mempool[1].answered /\ opWire = [at |-> "wait", call |-> c])
    BY <1>0, <1>3, <2>2 DEF OneOperator, opWire
  <2> QED
    BY <2>1, <2>2
<1>6. c.step = "deploy" /\ contracts' = Append(contracts, builtBy(c)) =>
         /\ contracts' \in Seq(Contracts) /\ Len(contracts') = Len(contracts) + 1
         /\ contracts' # contracts /\ DOMAIN contracts' = 1 .. Len(contracts')
         /\ Len(contracts) + 1 \in DOMAIN contracts'
         /\ contracts'[Len(contracts) + 1] = builtBy(c)
         /\ \A a \in DOMAIN contracts :
               a \in DOMAIN contracts' /\ contracts'[a] = contracts[a]
  BY <1>0, <1>1, BuiltIs DEF c
<1>7. /\ contracts' \in Seq(Contracts)
      /\ Len(contracts') = Len(contracts) \/ Len(contracts') = Len(contracts) + 1
      /\ \A a \in DOMAIN contracts : a \in DOMAIN contracts' /\ contracts'[a] = contracts[a]
  BY <1>0, <1>2, <1>6 DEF endsAs
<1>8. /\ seat' \in [Addresses -> Addresses \cup {Nowhere}]
      /\ \A a \in Addresses : seat[a] # Nowhere => seat'[a] = seat[a]
      /\ \A a \in Addresses : seat'[a] # seat[a] => handsOver(mempool[1], a)
  <2>1. CASE UNCHANGED seat
    BY <1>0, <2>1
  <2>2. CASE ~UNCHANGED seat
    <3>1. /\ c.step = "setArbiter" /\ seat[c.on] = Nowhere
          /\ seat' = [seat EXCEPT ![c.on] = c.to]
      BY <1>2, <2>2 DEF endsAs
    <3>2. c.on \in Addresses /\ c.to \in Addresses
      BY <1>1, <3>1, DeployCalls DEF c
    <3> QED
      BY <1>0, <3>1, <3>2 DEF handsOver, c
  <2> QED
    BY <2>1, <2>2
<1>9. DeployTypeOK'
  BY <1>3, <1>4, <1>5, <1>7, <1>8 DEF DeployTypeOK, DeployWires, AllCalls, Contracts
<1>10. OneOperator'
  <2>1. \A k \in DOMAIN mempool' : mempool'[k].by = op
    BY <1>3 DEF OneOperator
  <2>2. opWire'.at = "wait" =>
           \E k \in DOMAIN mempool' : mempool'[k].answered /\ mempool'[k].call = opWire'.call
    <3> SUFFICES ASSUME opWire'.at = "wait"
                 PROVE \E k \in DOMAIN mempool' :
                          mempool'[k].answered /\ mempool'[k].call = opWire'.call
      OBVIOUS
    <3>1. /\ opWire' = opWire
          /\ ~(mempool[1].answered /\ opWire = [at |-> "wait", call |-> c])
      BY <1>2, <1>5
    <3>2. opWire = [at |-> "wait", call |-> opWire.call]
      <4>1. opWire \in DeployWires /\ opWire.at = "wait"
        BY <1>0, <3>1, OpIsClient DEF opWire
      <4> QED
        BY <4>1 DEF DeployWires, WireStates, Quiet
    <3>3. PICK j \in DOMAIN mempool : mempool[j].answered /\ mempool[j].call = opWire.call
      BY <3>1 DEF OneOperator
    <3>4. j # 1
      BY <3>1, <3>2, <3>3 DEF c
    <3>5. j - 1 \in DOMAIN mempool' /\ (j - 1) + 1 = j
      BY <1>0, <1>3, <3>4
    <3>6. mempool'[j - 1] = mempool[j]
      BY <1>3, <3>5
    <3> QED
      BY <3>1, <3>3, <3>5, <3>6
  <2>3. Len(contracts') + Len(mempool') <= MaxContracts
    <3>1. /\ Len(contracts) + Len(mempool) <= MaxContracts
          /\ MaxContracts \in Nat
      BY DeploymentAssumption DEF OneOperator
    <3>2. /\ Len(contracts) \in Nat /\ Len(mempool) \in Nat
          /\ Len(mempool') = Len(mempool) - 1
          /\ Len(contracts') = Len(contracts) \/ Len(contracts') = Len(contracts) + 1
      BY <1>0, <1>3, <1>7
    <3> QED
      BY <3>1, <3>2
  <2>4. \A k \in DOMAIN mempool' : \A a \in Addresses :
           handsOver(mempool'[k], a) => a \in DOMAIN contracts'
    BY <1>3, <1>7 DEF OneOperator
  <2>5. \A a \in Addresses : seat'[a] # Nowhere => a \in DOMAIN contracts'
    BY <1>1, <1>7, <1>8 DEF OneOperator
  <2> QED
    BY <1>5, <2>1, <2>2, <2>3, <2>4, <2>5 DEF OneOperator, handsOver
<1>11. StaysBuilt
  BY <1>4, <1>7, <1>8 DEF StaysBuilt
<1>12. HandedByACall
  BY <1>1, <1>3, <1>8 DEF HandedByACall
<1>13. WireFollows
  <2>1. ASSUME opWire = [at |-> "wait", call |-> c], opWire' = o, o.at = "ok"
        PROVE  HearsTheTruth
    <3>1. opWire.call = c
      BY <2>1
    <3>2. ASSUME c.step = "deploy"
          PROVE  /\ o.log = Len(contracts) + 1 /\ o.log \in DOMAIN contracts'
                 /\ contracts'[o.log] = [net |-> c.net, kind |-> c.kind, on |-> c.on]
      <4>1. /\ o = [at |-> "ok", log |-> Len(contracts) + 1]
            /\ contracts' = Append(contracts, builtBy(c))
        BY <1>2, <2>1, <3>2 DEF endsAs
      <4> QED
        BY <1>6, <3>2, <4>1 DEF builtBy
    <3>3. ASSUME c.step = "setArbiter" PROVE seat'[c.on] = c.to
      <4>1. seat' = [seat EXCEPT ![c.on] = c.to]
        BY <1>2, <2>1, <3>3 DEF endsAs
      <4>2. c.on \in Addresses
        BY <1>1, <3>3, DeployCalls DEF c
      <4> QED
        BY <1>0, <4>1, <4>2
    <3> QED
      BY <2>1, <3>1, <3>2, <3>3 DEF HearsTheTruth
  <2> QED
    BY <1>2, <1>5, <2>1 DEF WireFollows
<1> QED
  BY <1>4, <1>9, <1>10, <1>11, <1>12, <1>13 DEF GoesOn

\* A try changes what the script waits for and adds its call, or not, to the mempool.
LEMMA SendIs ==
    ASSUME DeployTypeOK, Send
    PROVE  /\ opWire.at = "send" /\ opWire.call \in AllCalls /\ faults' \in 0 .. MaxFaults
           /\ \E s \in DeployWires :
                 /\ hear(op, s)
                 /\ \/ s.at = "thrown"
                    \/ s.at = "send" /\ s.call = opWire.call
                    \/ s.at = "wait" /\ s.call = opWire.call /\ accept(op, TRUE)
           /\ UNCHANGED mempool \/ accept(op, TRUE) \/ accept(op, FALSE)
<1>0. /\ opWire \in DeployWires /\ opWire.at = "send" /\ opWire.call \in AllCalls
      /\ opWire.tries \in 0 .. MaxTries - 1 /\ MaxTries \in Nat /\ MaxFaults \in Nat
      /\ opWire = [at |-> "send", call |-> opWire.call, tries |-> opWire.tries]
      /\ faults \in 0 .. MaxFaults
  <2>1. opWire \in DeployWires /\ opWire.at = "send" /\ faults \in 0 .. MaxFaults
    BY OpIsClient DEF Send, opWire, DeployTypeOK, DeployWires, AllCalls
  <2>2. opWire = [at |-> "send", call |-> opWire.call, tries |-> opWire.tries]
    BY <2>1 DEF DeployWires, WireStates, Quiet
  <2> QED
    BY <2>1, <2>2, DeployWireKinds, RetryAssumption
<1> DEFINE ok == accepts(opWire.call)
<1>1. send(op, ok) \/ loseAnswer(op, ok)
  BY DEF Send, opWire
<1>2. CASE send(op, ok)
  <2>1. \/ accept(op, TRUE) /\ hear(op, [at |-> "wait", call |-> opWire.call])
        \/ hear(op, [at |-> "thrown"]) /\ UNCHANGED mempool
    BY <1>2 DEF send, opWire
  <2>2. UNCHANGED faults
    BY <1>2 DEF send
  <2> QED
    BY <1>0, <2>1, <2>2, WireWays
<1>3. CASE loseAnswer(op, ok)
  <2> DEFINE s == [opWire EXCEPT !.tries = @ + 1]
  <2>1. opWire.tries + 1 < MaxTries =>
           s \in DeployWires /\ s.at = "send" /\ s.call = opWire.call
    <3> SUFFICES ASSUME opWire.tries + 1 < MaxTries
                 PROVE  s \in DeployWires /\ s.at = "send" /\ s.call = opWire.call
      OBVIOUS
    <3>1. s = [at |-> "send", call |-> opWire.call, tries |-> opWire.tries + 1]
      BY <1>0
    <3>2. opWire.tries + 1 \in 0 .. MaxTries - 1
      BY <1>0
    <3> QED
      BY <1>0, <3>1, <3>2 DEF DeployWires, WireStates
  <2>2. /\ faults' \in 0 .. MaxFaults
        /\ UNCHANGED mempool \/ accept(op, FALSE)
        /\ \/ opWire.tries + 1 < MaxTries /\ hear(op, s)
           \/ hear(op, [at |-> "thrown"])
    <3>1. faults' \in 0 .. MaxFaults
      BY <1>0, <1>3 DEF loseAnswer, fault
    <3>2. UNCHANGED mempool \/ accept(op, FALSE)
      BY <1>3 DEF loseAnswer
    <3>3. hear(op, IF opWire.tries + 1 < MaxTries THEN s ELSE [at |-> "thrown"])
      BY <1>3 DEF loseAnswer, opWire
    <3> HIDE DEF s
    <3> QED
      BY <3>1, <3>2, <3>3
  <2> HIDE DEF s
  <2> QED
    BY <1>0, <2>1, <2>2, WireWays
<1> QED
  BY <1>1, <1>2, <1>3

\* Nor does a try to send.
LEMMA SendGoesOn ==
    ASSUME DeployTypeOK, OneOperator, FilesHold, ScriptFits, Send
    PROVE  DeployTypeOK' /\ OneOperator' /\ GoesOn
<1>0. /\ wire \in [Clients -> DeployWires] /\ mempool \in Seq(Accepted(AllCalls))
      /\ Len(mempool) \in Nat /\ DOMAIN mempool = 1 .. Len(mempool) /\ Len(contracts) \in Nat
      /\ Len(contracts) + Len(mempool) < MaxContracts /\ op \in Clients
      /\ UNCHANGED <<worldVars, operatorVars>>
  BY ContractIds, OpIsClient DEF DeployTypeOK, DeployWires, AllCalls, Send
<1>1. opWire.at = "send" /\ opWire.call \in AllCalls /\ faults' \in 0 .. MaxFaults
  BY SendIs
<1>2. PICK s \in DeployWires :
         /\ hear(op, s)
         /\ \/ s.at = "thrown"
            \/ s.at = "send" /\ s.call = opWire.call
            \/ s.at = "wait" /\ s.call = opWire.call /\ accept(op, TRUE)
  BY SendIs
<1>3. /\ wire' \in [Clients -> DeployWires] /\ opWire' = s
      /\ \A d \in Clients : d # op => wire'[d] = Quiet
  BY <1>0, <1>2, OpHears DEF OneOperator
<1> DEFINE entry(b) == [by |-> op, call |-> opWire.call, answered |-> b]
<1>4. /\ accept(op, TRUE) => mempool' = Append(mempool, entry(TRUE))
      /\ accept(op, FALSE) => mempool' = Append(mempool, entry(FALSE))
      /\ entry(TRUE) \in Accepted(AllCalls) /\ entry(FALSE) \in Accepted(AllCalls)
  BY <1>0, <1>1 DEF accept, opWire, Accepted
<1>a. ASSUME NEW e \in Accepted(AllCalls), mempool' = Append(mempool, e)
      PROVE  /\ mempool' \in Seq(Accepted(AllCalls)) /\ Len(mempool') = Len(mempool) + 1
             /\ Len(mempool) + 1 \in DOMAIN mempool' /\ mempool'[Len(mempool) + 1] = e
             /\ \A i \in DOMAIN mempool' :
                   i = Len(mempool) + 1 \/ (i \in DOMAIN mempool /\ mempool'[i] = mempool[i])
  <2>1. /\ mempool' \in Seq(Accepted(AllCalls)) /\ Len(mempool') = Len(mempool) + 1
        /\ mempool'[Len(mempool) + 1] = e /\ DOMAIN mempool' = 1 .. Len(mempool) + 1
        /\ \A i \in DOMAIN mempool : i \in DOMAIN mempool' /\ mempool'[i] = mempool[i]
    BY <1>0, <1>a, AppendedIs
  <2> QED
    BY <1>0, <2>1
<1>5. /\ mempool' \in Seq(Accepted(AllCalls))
      /\ Len(mempool') = Len(mempool) \/ Len(mempool') = Len(mempool) + 1
      /\ \A i \in DOMAIN mempool' :
            (\E j \in DOMAIN mempool : mempool'[i] = mempool[j])
               \/ (mempool'[i].by = op /\ mempool'[i].call = opWire.call)
  <2>1. CASE UNCHANGED mempool
    BY <1>0, <2>1
  <2>2. CASE accept(op, TRUE) \/ accept(op, FALSE)
    <3>1. PICK e \in Accepted(AllCalls) :
             /\ mempool' = Append(mempool, e) /\ e.by = op /\ e.call = opWire.call
      BY <1>4, <2>2
    <3> QED
      BY <1>a, <3>1
  <2> QED
    BY <2>1, <2>2, SendIs
<1>6. handsOver([call |-> opWire.call], opWire.call.on) =>
         opWire.call.on \in DOMAIN contracts
  <2> SUFFICES ASSUME opWire.call.step = "setArbiter" PROVE opWire.call.on \in DOMAIN contracts
    BY DEF handsOver
  <2>1. script.at \in {"deploy", "hand"}
    BY <1>1, ScriptKinds DEF ScriptFits, DeployTypeOK
  <2>2. script.at = "hand"
    BY <1>1, <2>1 DEF ScriptFits, DeploysKind
  <2>3. HandsSeat
    BY <2>2 DEF ScriptFits
  <2>4. opWire.call = [step |-> "setArbiter", on |-> script.mock, to |-> script.arbiter]
    BY <1>1, <2>3 DEF HandsSeat
  <2>5. opWire.call.on = script.mock
    BY <2>4
  <2> QED
    BY <2>3, <2>5 DEF HandsSeat
<1> HIDE DEF entry
<1>7. DeployTypeOK'
  BY <1>0, <1>1, <1>3, <1>5
     DEF DeployTypeOK, DeployWires, AllCalls, worldVars, operatorVars
<1>8. OneOperator'
  <2>1. \A i \in DOMAIN mempool' : mempool'[i].by = op
    BY <1>5 DEF OneOperator
  <2>2. opWire'.at = "wait" =>
           \E k \in DOMAIN mempool' : mempool'[k].answered /\ mempool'[k].call = opWire'.call
    <3> SUFFICES ASSUME s.at = "wait"
                 PROVE \E k \in DOMAIN mempool' :
                          mempool'[k].answered /\ mempool'[k].call = s.call
      BY <1>3
    <3>1. s.call = opWire.call /\ accept(op, TRUE)
      BY <1>2
    <3>2. /\ mempool'[Len(mempool) + 1] = entry(TRUE)
          /\ Len(mempool) + 1 \in DOMAIN mempool'
      BY <1>4, <1>a, <3>1
    <3> QED
      BY <3>1, <3>2 DEF entry
  <2>3. Len(contracts') + Len(mempool') <= MaxContracts
    <3>1. MaxContracts \in Nat /\ Len(contracts') = Len(contracts)
      BY <1>0, DeploymentAssumption DEF worldVars
    <3> QED
      BY <1>0, <1>5, <3>1
  <2>4. ASSUME NEW k \in DOMAIN mempool', NEW a \in Addresses, handsOver(mempool'[k], a)
        PROVE  a \in DOMAIN contracts'
    <3>1. CASE \E j \in DOMAIN mempool : mempool'[k] = mempool[j]
      BY <1>0, <2>4, <3>1 DEF OneOperator, worldVars
    <3>2. CASE mempool'[k].call = opWire.call
      BY <1>0, <1>6, <2>4, <3>2 DEF handsOver, worldVars
    <3> QED
      BY <1>5, <3>1, <3>2
  <2>5. \A a \in Addresses : seat'[a] # Nowhere => a \in DOMAIN contracts'
    BY <1>0 DEF OneOperator, worldVars
  <2> QED
    BY <1>3, <2>1, <2>2, <2>3, <2>4, <2>5 DEF OneOperator, handsOver
<1>9. GoesOn
  <2>1. StaysBuilt
    BY <1>0 DEF StaysBuilt, worldVars
  <2>2. HandedByACall
    BY <1>0, <1>1, <1>5 DEF HandedByACall, worldVars
  <2>3. WireFollows
    BY <1>1, <1>2, <1>3 DEF WireFollows
  <2> QED
    BY <1>0, <2>1, <2>2, <2>3 DEF GoesOn, operatorVars
<1> QED
  BY <1>7, <1>8, <1>9

\* Nor do markets and time.
LEMMA WorldGoesOn ==
    ASSUME DeployTypeOK, OneOperator, passTime \/ \E a \in Addresses : publish(a)
    PROVE  DeployTypeOK' /\ OneOperator' /\ GoesOn
<1>1. /\ UNCHANGED <<contracts, seat, callVars, operatorVars>>
      /\ now' \in 1 .. MaxTime
      /\ market' \in [Addresses -> {"unknown", "committed", "resolved"}]
      /\ \A a \in Addresses : market[a] # "unknown" => market'[a] # "unknown"
  <2>1. CASE passTime
    BY <2>1, DeploymentAssumption DEF passTime, DeployTypeOK
  <2>2. ASSUME NEW a \in Addresses, publish(a)
        PROVE  /\ UNCHANGED <<contracts, seat, now, callVars, operatorVars>>
               /\ market' \in [Addresses -> {"unknown", "committed", "resolved"}]
               /\ \A b \in Addresses : market[b] # "unknown" => market'[b] # "unknown"
    BY <2>2 DEF publish, DeployTypeOK
  <2> QED
    BY <2>1, <2>2 DEF DeployTypeOK
<1>2. DeployTypeOK'
  BY <1>1 DEF DeployTypeOK, callVars, operatorVars
<1>3. OneOperator'
  BY <1>1 DEF OneOperator, callVars, opWire, handsOver
<1>4. GoesOn
  BY <1>1 DEF GoesOn, StaysBuilt, HandedByACall, WireFollows, callVars, operatorVars, opWire
<1> QED
  BY <1>2, <1>3, <1>4

\* However the chain goes on, the files hold and the script knows what is so.
LEMMA ChainKeeps ==
    ASSUME DeployIInv,
           \/ Send
           \/ \E i \in DOMAIN mempool : mine(i)
           \/ \E a \in Addresses : publish(a)
           \/ passTime
    PROVE  DeployIInv'
<1>1. DeployTypeOK' /\ OneOperator' /\ GoesOn
  BY SendGoesOn, MineGoesOn, WorldGoesOn DEF DeployIInv
<1>2. FilesHold'
  BY <1>1, FilesStay DEF GoesOn, DeployIInv
<1>3. ScriptFits'
  BY <1>1, ScriptGoesOn DEF GoesOn, DeployIInv, DeployTypeOK, DeployWires, AllCalls
<1> QED
  BY <1>1, <1>2, <1>3 DEF DeployIInv

------------------------------------------------------------------------------
(* The script goes on over the chain. *)

\* It turns to its next call.
LEMMA Issues ==
    ASSUME DeployTypeOK, OneOperator, NEW call \in AllCalls, issue(op, call),
           UNCHANGED worldVars
    PROVE  /\ OneOperator' /\ wire' \in [Clients -> DeployWires] /\ UNCHANGED <<mempool, faults>>
           /\ opWire' = [at |-> "send", call |-> call, tries |-> 0]
<1> DEFINE s == [at |-> "send", call |-> call, tries |-> 0]
<1>1. s \in DeployWires /\ s.at = "send"
  BY WireWays
<1>2. hear(op, s) /\ UNCHANGED <<mempool, faults>> /\ wire \in [Clients -> DeployWires]
  BY DEF issue, DeployTypeOK, DeployWires, AllCalls
<1> HIDE DEF s
<1>3. /\ wire' \in [Clients -> DeployWires] /\ opWire' = s
      /\ \A c \in Clients : c # op => wire'[c] = Quiet
  BY <1>1, <1>2, OpHears DEF OneOperator
<1>4. OneOperator'
  BY <1>1, <1>2, <1>3 DEF OneOperator, worldVars, handsOver
<1> QED
  BY <1>2, <1>3, <1>4 DEF s

\* It waits for nothing more, or dies.
LEMMA HangsUp ==
    ASSUME DeployTypeOK, OneOperator, hangUp(op) \/ crash(op), UNCHANGED worldVars
    PROVE  /\ OneOperator' /\ wire' \in [Clients -> DeployWires] /\ UNCHANGED mempool
           /\ opWire' = Quiet /\ opWire'.at = "quiet" /\ faults' \in 0 .. MaxFaults
<1>1. hear(op, Quiet) /\ UNCHANGED mempool /\ wire \in [Clients -> DeployWires]
  BY DEF hangUp, crash, DeployTypeOK, DeployWires, AllCalls
<1>2. faults' \in 0 .. MaxFaults
  BY RetryAssumption DEF hangUp, crash, fault, DeployTypeOK
<1>3. /\ wire' \in [Clients -> DeployWires] /\ opWire' = Quiet
      /\ \A c \in Clients : c # op => wire'[c] = Quiet
  BY <1>1, WireWays, OpHears DEF OneOperator
<1>4. opWire'.at = "quiet"
  BY <1>3, WireWays
<1>5. OneOperator'
  BY <1>1, <1>3, <1>4 DEF OneOperator, worldVars, handsOver
<1> QED
  BY <1>1, <1>2, <1>3, <1>4, <1>5

\* The script is over.
LEMMA ScriptEnds == script' = Idle /\ opWire'.at = "quiet" => ScriptFits'
<1> SUFFICES ASSUME script' = Idle, opWire'.at = "quiet" PROVE ScriptFits'
  OBVIOUS
<1>1. script'.at = "idle"
  BY ScriptWays
<1> QED
  BY <1>1 DEF ScriptFits

\* Files are left alone; a new whole plan may have begun.
LEMMA FilesUntouched ==
    ASSUME FilesHold, UNCHANGED <<worldVars, file, named>>, whole' => whole
    PROVE  FilesHold'
<1>1. UNCHANGED <<contracts, market, seat, file, named>>
  BY DEF worldVars
<1>2. FilesTellTheTruth' /\ MarketAndArbiterAreWired' /\ FilesAreNamed'
  BY <1>1 DEF FilesHold, FilesTellTheTruth, MarketAndArbiterAreWired, FilesAreNamed, isJob,
              jobFile
<1>3. BondReadsTheJob'
  BY <1>1 DEF FilesHold, BondReadsTheJob
<1> QED
  BY <1>2, <1>3 DEF FilesHold

\* What a network's files say.
LEMMA FileFacts ==
    ASSUME DeployTypeOK, OneOperator, FilesHold, NEW net \in Nets, NEW kind \in Kinds
    PROVE  /\ file[net][kind].address \in Addresses \cup {Nowhere}
           /\ file[net][kind].address # Nowhere =>
                 /\ file[net][kind] # Unset /\ file[net][kind].address \in named
                 /\ file[net][kind].address \in DOMAIN contracts
                 /\ contracts[file[net][kind].address].kind = kind
                 /\ contracts[file[net][kind].address].net = net
<1>1. file[net][kind] \in [address : Addresses \cup {Nowhere}, on : Addresses \cup {Nowhere}]
  BY DEF DeployTypeOK
<1>2. file[net][kind].address # Nowhere => file[net][kind] # Unset
  BY DEF Unset
<1>3. file[net][kind] # Unset =>
         /\ file[net][kind].address \in named
         /\ file[net][kind].address \in DOMAIN contracts
         /\ contracts[file[net][kind].address] =
              [net |-> net, kind |-> kind, on |-> file[net][kind].on]
  BY DEF FilesHold, FilesAreNamed, FilesTellTheTruth
<1> QED
  BY <1>1, <1>2, <1>3

\* What a run sets out to do.
isPlan(net, todo, only) ==
    /\ net \in Nets /\ todo \in Seq(Kinds) /\ todo # <<>> /\ only \in SUBSET Kinds
    /\ \/ Range(todo) \subseteq Range(PLAN)
       \/ todo = <<"MockRefundProtocol", "PredgeRefundArbiter">>
    /\ net = "testnet" =>
          Range(todo) \cap {"PredgeValidatorBond", "MockRefundProtocol",
                            "PredgeRefundArbiter"} = {}
    /\ only = Range(PLAN) => net = "mainnet" /\ planLeft(todo) /\ Len(todo) = 6

\* A deployment is a call.
LEMMA DeployCall ==
    ASSUME NEW net \in Nets, NEW kind \in Kinds, NEW on \in Addresses \cup {Nowhere},
           NEW deadline \in 0 .. MaxTime + 1
    PROVE  [step |-> "deploy", net |-> net, kind |-> kind, on |-> on, deadline |-> deadline]
              \in AllCalls
BY DEF AllCalls, Deployments

\* A run that sets out with a plan knows what it needs to.
LEMMA Runs ==
    ASSUME DeployIInv, begin, NEW net, NEW todo, NEW only, run(net, todo, only),
           isPlan(net, todo, only), UNCHANGED <<worldVars, file, named>>, whole' \in BOOLEAN,
           whole' => whole, net = "mainnet" /\ Range(todo) \subseteq Range(PLAN) => ~whole'
    PROVE  DeployIInv'
<1> USE DEF DeployIInv
<1> DEFINE summary == addressesIn(net)
           kind == Head(todo)
           on == argsFor(kind, summary)
           call == [step |-> "deploy", net |-> net, kind |-> kind, on |-> on, deadline |-> 0]
           s == [at |-> "deploy", net |-> net, todo |-> todo, only |-> only,
                 summary |-> summary, on |-> on]
<1>1. /\ net \in Nets /\ todo \in Seq(Kinds) /\ todo # <<>> /\ only \in SUBSET Kinds
      /\ kind \in Kinds /\ kind = todo[1] /\ kind \in Range(todo) /\ Len(todo) \in Nat
  <2>1. net \in Nets /\ todo \in Seq(Kinds) /\ todo # <<>> /\ only \in SUBSET Kinds
    BY DEF isPlan
  <2> QED
    BY <2>1, FirstOf
<1>2. script' = s /\ issue(op, call) /\ buildable(kind, on)
  BY <1>1 DEF run, deploy
<1>3. /\ summary \in [Kinds -> Addresses \cup {Nowhere}]
      /\ \A k \in Kinds : summary[k] = file[net][k].address
  BY <1>1, FileFacts DEF addressesIn
<1>4. kind = "PredgeValidatorBond" =>
         net = "mainnet" /\ on = jobFile /\ jobFile # Nowhere /\ on \in Addresses
  <2> SUFFICES ASSUME kind = "PredgeValidatorBond"
               PROVE  /\ net = "mainnet" /\ on = jobFile /\ jobFile # Nowhere
                      /\ on \in Addresses
    OBVIOUS
  <2>1. net = "mainnet" /\ "AgentJob" \in Kinds
    BY <1>1, KindsAre DEF isPlan, Nets
  <2>2. on = summary["AgentJob"]
    BY DEF argsFor
  <2>3. on = jobFile /\ on \in Addresses \cup {Nowhere}
    BY <1>3, <2>1, <2>2 DEF jobFile
  <2> QED
    BY <1>2, <2>1, <2>3 DEF buildable
<1>5. kind \notin {"ExampleMarket", "PredgeRefundArbiter"}
  <2>1. CASE Range(todo) \subseteq Range(PLAN)
    BY <1>1, <2>1, PlanIs
  <2>2. CASE todo = <<"MockRefundProtocol", "PredgeRefundArbiter">>
    BY <2>2
  <2> QED
    BY <2>1, <2>2 DEF isPlan
<1>6. kind # "PredgeValidatorBond" => on = Nowhere
  BY <1>5 DEF argsFor
<1>7. on \in Addresses \cup {Nowhere} /\ 0 \in 0 .. MaxTime + 1
  BY <1>4, <1>6, DeploymentAssumption
<1>8. call \in AllCalls /\ s \in ScriptStates
  BY <1>1, <1>3, <1>7, DeployCall, ScriptWays
<1>9. /\ call.step = "deploy" /\ call.net = net /\ call.kind = kind /\ call.on = on
      /\ s.at = "deploy" /\ s.net = net /\ s.todo = todo /\ s.only = only
      /\ s.summary = summary /\ s.on = on /\ Head(todo) = kind
  OBVIOUS
<1> HIDE DEF summary, kind, on, call, s
<1>10. /\ OneOperator' /\ wire' \in [Clients -> DeployWires] /\ UNCHANGED <<mempool, faults>>
       /\ opWire' = [at |-> "send", call |-> call, tries |-> 0]
  BY <1>2, <1>8, Issues
<1>11. DeployTypeOK'
  <2>1. runs' \in 0 .. MaxRuns
    BY DeploymentAssumption DEF begin, DeployTypeOK
  <2> QED
    BY <1>2, <1>8, <1>10, <2>1 DEF DeployTypeOK, DeployWires, AllCalls, worldVars
<1>12. FilesHold'
  BY FilesUntouched
<1>13. script' = s /\ opWire'.at = "send" /\ opWire'.call = call
       /\ UNCHANGED <<file, named, contracts, market, seat>>
  BY <1>2, <1>10 DEF worldVars
<1>14. DeploysKind'
  BY <1>9, <1>13 DEF DeploysKind
<1>15. DeploysPlan'
  <2>1. only = Range(PLAN) => net = "mainnet" /\ planLeft(todo) /\ Len(todo) # 1
    BY DEF isPlan
  <2> QED
    BY <1>1, <1>3, <1>9, <1>13, <2>1 DEF DeploysPlan, isPlan, jobFile
<1>16. DeploysOn'
  BY <1>4, <1>5, <1>6, <1>9, <1>13 DEF DeploysOn, jobFile
<1>17. ScriptFits'
  BY <1>9, <1>13, <1>14, <1>15, <1>16 DEF ScriptFits
<1> QED
  BY <1>10, <1>11, <1>12, <1>17

\* The mainnet script sets out with what is wanted of the plan.
LEMMA MainnetStarts ==
    ASSUME DeployIInv, NEW only \in OnlyLists \cup {Range(PLAN)}, startMainnet(only)
    PROVE  DeployIInv'
<1>1. only # {} /\ only \subseteq Range(PLAN)
  BY DeploymentAssumption, PlanIs
<1>2. Range(PLAN) \subseteq Kinds /\ "mainnet" \in Nets /\ "testnet" # "mainnet"
  BY DEF Kinds, Nets
<1> DEFINE todo == planned(only)
<1>3. /\ todo \in Seq(Range(PLAN)) /\ todo # <<>>
      /\ only = Range(PLAN) => planLeft(todo) /\ Len(todo) = 6
  BY <1>1, PlannedIs
<1> HIDE DEF todo
<1>4. todo \in Seq(Kinds) /\ Range(todo) \subseteq Range(PLAN)
  <2> DEFINE S == Range(PLAN)
  <2>1. todo \in Seq(S) /\ S \subseteq Kinds
    BY <1>2, <1>3
  <2> HIDE DEF S
  <2>2. todo \in Seq(Kinds) /\ \A i \in DOMAIN todo : todo[i] \in S
    BY <2>1
  <2> QED
    BY <2>2 DEF Range, S
<1>5. isPlan("mainnet", todo, only)
  BY <1>1, <1>2, <1>3, <1>4 DEF isPlan
<1> QED
  BY <1>5, Runs DEF startMainnet, todo

\* A testnet script sets out with one contract that needs no other.
LEMMA TestnetStarts ==
    ASSUME DeployIInv, NEW kind \in {"PredgeSettlement", "PredgeOracle", "PredgeAgentValidator",
                                     "AgentJob", "PredgeSignalVault"}, startTestnet(kind)
    PROVE  DeployIInv'
<1>1. /\ kind \in Kinds /\ kind \in Range(PLAN) /\ "testnet" \in Nets
      /\ kind \notin {"PredgeValidatorBond", "MockRefundProtocol", "PredgeRefundArbiter"}
  BY KindsAre, PlanIs DEF Nets
<1>2. /\ <<kind>> \in Seq(Kinds) /\ <<kind>> # <<>> /\ Range(<<kind>>) = {kind}
      /\ {kind} \in SUBSET Kinds /\ {kind} # Range(PLAN)
  BY <1>1, PlanIs DEF Range
<1>3. isPlan("testnet", <<kind>>, {kind})
  BY <1>1, <1>2 DEF isPlan
<1>4. whole' = whole /\ whole \in BOOLEAN
  BY DEF startTestnet, DeployIInv, DeployTypeOK
<1> QED
  BY <1>3, <1>4, Runs DEF startTestnet

\* The arbiter's script sets out with the mock.
LEMMA ArbiterStarts == ASSUME DeployIInv, startArbiter PROVE DeployIInv'
<1> DEFINE todo == <<"MockRefundProtocol", "PredgeRefundArbiter">>
<1>1. /\ todo \in Seq(Kinds) /\ todo # <<>> /\ "mainnet" \in Nets
      /\ {"PredgeRefundArbiter"} \in SUBSET Kinds /\ {"PredgeRefundArbiter"} # Range(PLAN)
      /\ ~(Range(todo) \subseteq Range(PLAN)) /\ "testnet" # "mainnet"
  <2>1. todo[1] = "MockRefundProtocol" /\ 1 \in DOMAIN todo
    OBVIOUS
  <2>2. "MockRefundProtocol" \in Range(todo)
    BY <2>1 DEF Range
  <2> QED
    BY <2>2, KindsAre, PlanIs DEF Nets
<1>2. isPlan("mainnet", todo, {"PredgeRefundArbiter"})
  BY <1>1 DEF isPlan
<1>3. whole' = whole /\ whole \in BOOLEAN
  BY DEF startArbiter, DeployIInv, DeployTypeOK
<1> QED
  BY <1>1, <1>2, <1>3, Runs DEF startArbiter

\* The market's script finds its oracle by a file.
LEMMA MarketStarts == ASSUME DeployIInv, startMarket PROVE DeployIInv'
<1> USE DEF DeployIInv
<1> DEFINE oracle == file["testnet"]["PredgeOracle"].address
           s == [at |-> "preflight", oracle |-> oracle, deadline |-> now + 1]
<1>1. "testnet" \in Nets /\ "PredgeOracle" \in Kinds
  BY KindsAre DEF Nets
<1>2. /\ oracle \in Addresses /\ oracle \in named
      /\ contracts[oracle].kind = "PredgeOracle"
  BY <1>1, FileFacts DEF startMarket
<1>3. /\ script = Idle /\ script' = s /\ runs' = runs + 1 /\ runs < MaxRuns
      /\ UNCHANGED <<worldVars, callVars, file, whole, named>>
  BY DEF startMarket, begin
<1>4. now + 1 \in Nat /\ now + 1 <= MaxTime + 1 /\ runs' \in 0 .. MaxRuns
  BY <1>3, DeploymentAssumption DEF DeployTypeOK
<1>5. /\ s \in ScriptStates /\ s.at = "preflight" /\ s.oracle = oracle
      /\ s.deadline = now + 1
  BY <1>2, <1>4, ScriptWays
<1>6. opWire.at = "quiet"
  BY <1>3, ScriptWays DEF ScriptFits
<1> HIDE DEF oracle, s
<1>7. DeployTypeOK' /\ OneOperator'
  BY <1>3, <1>4, <1>5 DEF DeployTypeOK, OneOperator, worldVars, callVars, opWire, handsOver
<1>8. FilesHold'
  BY <1>3, FilesUntouched
<1>9. ScriptFits'
  BY <1>2, <1>3, <1>4, <1>5, <1>6 DEF ScriptFits, opWire, callVars, worldVars
<1> QED
  BY <1>7, <1>8, <1>9

\* It deploys on an oracle that committed, or not at all.
LEMMA PreflightKeeps == ASSUME DeployIInv, preflight PROVE DeployIInv'
<1> USE DEF DeployIInv
<1>0. /\ script.at = "preflight" /\ script \in ScriptStates
      /\ script.oracle \in Addresses /\ script.deadline \in Nat
      /\ script.deadline <= MaxTime + 1 /\ script.oracle \in named
      /\ contracts[script.oracle].kind = "PredgeOracle"
      /\ UNCHANGED <<worldVars, file, runs, whole, named>>
  BY ScriptKinds DEF preflight, ScriptFits, DeployTypeOK
<1>1. FilesHold'
  BY <1>0, FilesUntouched
<1>2. CASE script' = Idle /\ UNCHANGED callVars
  <2>1. opWire'.at = "quiet"
    BY <1>0, <1>2 DEF ScriptFits, opWire, callVars
  <2>2. DeployTypeOK' /\ OneOperator'
    BY <1>0, <1>2, ScriptWays
       DEF DeployTypeOK, OneOperator, worldVars, callVars, opWire, handsOver
  <2> QED
    BY <1>1, <1>2, <2>1, <2>2, ScriptEnds
<1>3. CASE ~(script' = Idle /\ UNCHANGED callVars)
  <2> DEFINE summary == addressesIn("testnet")
             call == [step |-> "deploy", net |-> "testnet", kind |-> "ExampleMarket",
                      on |-> script.oracle, deadline |-> script.deadline]
             s == [at |-> "deploy", net |-> "testnet", todo |-> <<"ExampleMarket">>,
                   only |-> {"ExampleMarket"}, summary |-> summary, on |-> script.oracle]
  <2>1. /\ market[script.oracle] = "committed" /\ script' = s /\ issue(op, call)
    BY <1>3 DEF preflight, deploy
  <2>2. /\ "testnet" \in Nets /\ "ExampleMarket" \in Kinds
        /\ "ExampleMarket" \notin Range(PLAN) /\ {"ExampleMarket"} \in SUBSET Kinds
        /\ {"ExampleMarket"} # Range(PLAN)
    BY KindsAre, PlanIs DEF Nets
  <2>3. /\ <<"ExampleMarket">> \in Seq(Kinds) /\ <<"ExampleMarket">> # <<>>
        /\ Head(<<"ExampleMarket">>) = "ExampleMarket"
        /\ Range(<<"ExampleMarket">>) = {"ExampleMarket"}
    BY <2>2 DEF Range
  <2>4. /\ summary \in [Kinds -> Addresses \cup {Nowhere}]
        /\ \A k \in Kinds : summary[k] = file["testnet"][k].address
    BY <2>2, FileFacts DEF addressesIn
  <2>5. script.deadline \in 0 .. MaxTime + 1
    BY <1>0, DeploymentAssumption
  <2>6. call \in AllCalls /\ s \in ScriptStates
    BY <1>0, <2>2, <2>3, <2>4, <2>5, DeployCall, ScriptWays
  <2>7. /\ call.step = "deploy" /\ call.net = "testnet" /\ call.kind = "ExampleMarket"
        /\ call.on = script.oracle
        /\ s.at = "deploy" /\ s.net = "testnet" /\ s.todo = <<"ExampleMarket">>
        /\ s.only = {"ExampleMarket"} /\ s.summary = summary /\ s.on = script.oracle
    OBVIOUS
  <2> HIDE DEF summary, call, s
  <2>8. /\ OneOperator' /\ wire' \in [Clients -> DeployWires] /\ UNCHANGED <<mempool, faults>>
        /\ opWire' = [at |-> "send", call |-> call, tries |-> 0]
    BY <1>0, <2>1, <2>6, Issues
  <2>9. DeployTypeOK'
    BY <1>0, <2>1, <2>6, <2>8 DEF DeployTypeOK, DeployWires, AllCalls, worldVars
  <2>10. /\ script' = s /\ opWire'.at = "send" /\ opWire'.call = call
         /\ UNCHANGED <<file, named, contracts, market, seat>>
    BY <1>0, <2>1, <2>8 DEF worldVars
  <2>11. DeploysKind'
    BY <2>3, <2>7, <2>10 DEF DeploysKind
  <2>12. DeploysPlan'
    BY <2>2, <2>3, <2>4, <2>7, <2>10 DEF DeploysPlan
  <2>13. DeploysOn'
    BY <1>0, <2>1, <2>3, <2>7, <2>10 DEF DeploysOn
  <2>14. ScriptFits'
    BY <2>7, <2>10, <2>11, <2>12, <2>13 DEF ScriptFits
  <2> QED
    BY <1>1, <2>8, <2>9, <2>14
<1> QED
  BY <1>2, <1>3

\* The contract at hand is there, and newer than every file.
LEMMA ThereIs ==
    ASSUME DeployIInv, NEW kinds, isDeployed(kinds)
    PROVE  /\ script.at = "deploy" /\ DeploysKind /\ DeploysPlan /\ DeploysOn
           /\ script.net \in Nets /\ script.todo \in Seq(Kinds) /\ script.todo # <<>>
           /\ script.only \in SUBSET Kinds
           /\ script.summary \in [Kinds -> Addresses \cup {Nowhere}]
           /\ script.on \in Addresses \cup {Nowhere}
           /\ Head(script.todo) \in kinds /\ Head(script.todo) \in Kinds
           /\ Head(script.todo) \in Range(script.todo)
           /\ opWire.at = "ok" /\ opWire.log \in Addresses /\ wire[op].log = opWire.log
           /\ isBuilt(opWire.log, script.net, Head(script.todo), script.on)
           /\ contracts[opWire.log].kind = Head(script.todo)
           /\ contracts[opWire.log].net = script.net
           /\ \A a \in named : a \in Nat /\ a < opWire.log
<1>1. /\ script.at = "deploy" /\ opWire.at = "ok" /\ Head(script.todo) \in kinds
      /\ script \in ScriptStates /\ opWire \in DeployWires
  BY OpIsClient DEF isDeployed, opWire, DeployIInv, DeployTypeOK, DeployWires, AllCalls
<1>2. DeploysKind /\ DeploysPlan /\ DeploysOn
  BY <1>1 DEF DeployIInv, ScriptFits
<1>3. /\ script.net \in Nets /\ script.todo \in Seq(Kinds) /\ script.todo # <<>>
      /\ script.only \in SUBSET Kinds
      /\ script.summary \in [Kinds -> Addresses \cup {Nowhere}]
      /\ script.on \in Addresses \cup {Nowhere}
  BY <1>1, <1>2, ScriptKinds DEF DeploysPlan
<1>4. Head(script.todo) \in Kinds /\ Head(script.todo) \in Range(script.todo)
  BY <1>3, FirstOf
<1>5. /\ opWire.log \in Addresses
      /\ isBuilt(opWire.log, script.net, Head(script.todo), script.on)
      /\ \A a \in named : a < opWire.log
  BY <1>1, <1>2, DeployWireKinds DEF DeploysKind
<1>6. \A a \in named : a \in Nat
  BY ContractIds DEF DeployIInv, FilesHold, FilesAreNamed, Addresses
<1>7. /\ contracts[opWire.log].kind = Head(script.todo)
      /\ contracts[opWire.log].net = script.net
  BY <1>5 DEF isBuilt
<1> QED
  BY <1>1, <1>2, <1>3, <1>4, <1>5, <1>6, <1>7 DEF opWire

\* A contract of the plan that is written down fits the files.
LEMMA FileWritten ==
    ASSUME DeployIInv, NEW kind \in Kinds \ {"MockRefundProtocol", "PredgeRefundArbiter"},
           isDeployed({kind}), UNCHANGED worldVars,
           writeFile(script.net, kind, opWire.log, script.on), whole' \in BOOLEAN,
           whole' => \/ whole
                     \/ script.only = Range(PLAN) /\ Tail(script.todo) = <<>>
    PROVE  FilesHold'
<1> USE DEF DeployIInv
<1> DEFINE net == script.net
           a == opWire.log
           on == script.on
<1>0. /\ DeploysPlan /\ DeploysOn /\ net \in Nets /\ on \in Addresses \cup {Nowhere}
      /\ Head(script.todo) = kind /\ kind \in Range(script.todo)
      /\ script.todo \in Seq(Kinds) /\ script.todo # <<>>
      /\ a \in Addresses /\ isBuilt(a, net, kind, on)
      /\ contracts[a].kind = kind /\ contracts[a].net = net
      /\ \A b \in named : b \in Nat /\ b < a
  BY ThereIs
<1>1. /\ file \in [Nets -> [Kinds -> [address : Addresses \cup {Nowhere},
                                      on : Addresses \cup {Nowhere}]]]
      /\ "mainnet" \in Nets /\ "testnet" \in Nets /\ "mainnet" # "testnet"
      /\ {"PredgeValidatorBond", "ExampleMarket", "PredgeRefundArbiter", "AgentJob",
          "MockRefundProtocol"} \subseteq Kinds
      /\ a # Nowhere /\ Nowhere \notin DOMAIN contracts /\ UNCHANGED <<contracts, market, seat>>
      /\ a \in Nat
  <2>1. /\ "mainnet" \in Nets /\ "testnet" \in Nets /\ "mainnet" # "testnet"
        /\ {"PredgeValidatorBond", "ExampleMarket", "PredgeRefundArbiter", "AgentJob",
            "MockRefundProtocol"} \subseteq Kinds
    BY KindsAre DEF Nets
  <2>2. a # Nowhere /\ Nowhere \notin DOMAIN contracts
    BY <1>0, ContractIds
  <2>3. a \in Nat
    BY <1>0, DeploymentAssumption DEF Addresses
  <2>4. UNCHANGED <<contracts, market, seat>>
    BY DEF worldVars
  <2>5. file \in [Nets -> [Kinds -> [address : Addresses \cup {Nowhere},
                                    on : Addresses \cup {Nowhere}]]]
    BY DEF DeployTypeOK
  <2> QED
    BY <2>1, <2>2, <2>3, <2>4, <2>5
<1>2. /\ file' = [file EXCEPT ![net][kind] = [address |-> a, on |-> on]]
      /\ named' = named \cup {a}
  BY DEF writeFile
<1>3. /\ file'[net][kind] = [address |-> a, on |-> on]
      /\ \A n \in Nets, k \in Kinds : n # net \/ k # kind => file'[n][k] = file[n][k]
  BY <1>0, <1>1, <1>2
<1>4. /\ file'[net][kind].address = a /\ file'[net][kind].on = on
      /\ file'[net][kind] # Unset
  BY <1>1, <1>3 DEF Unset
<1>5. named \subseteq DOMAIN contracts /\ a \in DOMAIN contracts
  BY <1>0 DEF FilesHold, FilesAreNamed, isBuilt
<1>6. FilesTellTheTruth'
  <2>1. ASSUME NEW n \in Nets, NEW k \in Kinds, file'[n][k] # Unset
        PROVE  /\ file'[n][k].address \in DOMAIN contracts
               /\ contracts[file'[n][k].address] =
                    [net |-> n, kind |-> k, on |-> file'[n][k].on]
    <3>1. CASE n = net /\ k = kind
      BY <1>0, <1>4, <3>1 DEF isBuilt
    <3>2. CASE n # net \/ k # kind
      BY <1>3, <2>1, <3>2 DEF FilesHold, FilesTellTheTruth
    <3> QED
      BY <3>1, <3>2
  <2> QED
    BY <1>1, <2>1 DEF FilesTellTheTruth
<1>7. kind = "PredgeValidatorBond" =>
         /\ net = "mainnet" /\ on = jobFile /\ on \in DOMAIN contracts
         /\ contracts[on].kind = "AgentJob"
  <2> SUFFICES ASSUME kind = "PredgeValidatorBond"
               PROVE  /\ net = "mainnet" /\ on = jobFile /\ on \in DOMAIN contracts
                      /\ contracts[on].kind = "AgentJob"
    OBVIOUS
  <2>1. net = "mainnet"
    BY <1>0 DEF DeploysPlan, Nets
  <2>2. on = jobFile /\ jobFile # Nowhere
    BY <1>0 DEF DeploysOn
  <2> QED
    BY <1>1, <2>1, <2>2, FileFacts DEF jobFile
<1>8. kind = "ExampleMarket" =>
         /\ net = "testnet" /\ on \in named
         /\ contracts[on].kind = "PredgeOracle" /\ market[on] # "unknown"
  BY <1>0 DEF DeploysOn
<1>9. jobFile' = IF net = "mainnet" /\ kind = "AgentJob" THEN a ELSE jobFile
  BY <1>1, <1>3, <1>4 DEF jobFile
<1>10. FilesAreNamed'
  <2>1. ASSUME NEW n \in Nets, NEW k \in Kinds, file'[n][k] # Unset
        PROVE  /\ file'[n][k].address \in named'
               /\ k \in {"PredgeValidatorBond", "ExampleMarket", "PredgeRefundArbiter"} =>
                     file'[n][k].on \in DOMAIN contracts
    <3>1. CASE n = net /\ k = kind
      BY <1>2, <1>4, <1>5, <1>7, <1>8, <3>1
    <3>2. CASE n # net \/ k # kind
      BY <1>2, <1>3, <2>1, <3>2 DEF FilesHold, FilesAreNamed
    <3> QED
      BY <3>1, <3>2
  <2>2. \A n \in Nets : file'[n]["MockRefundProtocol"] = Unset
    BY <1>1, <1>3 DEF FilesHold, FilesAreNamed
  <2>3. ASSUME NEW b \in named', contracts[b].kind = "AgentJob", contracts[b].net = "mainnet"
        PROVE  b <= jobFile'
    <3>1. CASE b = a
      BY <1>0, <1>1, <1>9, <2>3, <3>1
    <3>2. CASE b \in named
      <4>1. b <= jobFile
        BY <2>3, <3>2 DEF FilesHold, FilesAreNamed, isJob
      <4>2. b < a /\ b \in Nat
        BY <1>0, <3>2
      <4> QED
        BY <1>1, <1>9, <4>1, <4>2
    <3> QED
      BY <1>2, <3>1, <3>2
  <2>4. named' \subseteq DOMAIN contracts
    BY <1>2, <1>5
  <2> QED
    BY <1>1, <2>1, <2>2, <2>3, <2>4 DEF FilesAreNamed, isJob
<1>11. BondReadsTheJob'
  <2> DEFINE bond == file["mainnet"]["PredgeValidatorBond"]
  <2>1. CASE net = "mainnet" /\ kind = "PredgeValidatorBond"
    <3>1. bond'.address = a /\ bond'.on = jobFile /\ jobFile' = jobFile
      BY <1>4, <1>7, <1>9, <2>1
    <3>2. contracts[jobFile].kind = "AgentJob"
      BY <1>7, <2>1
    <3>3. ASSUME NEW b \in named', contracts[b].kind = "AgentJob",
                 contracts[b].net = "mainnet"
          PROVE  b <= jobFile
      BY <1>1, <1>10, <3>1, <3>3 DEF FilesAreNamed, isJob
    <3> QED
      BY <1>1, <3>1, <3>2, <3>3 DEF BondReadsTheJob, jobFile
  <2>2. CASE ~(net = "mainnet" /\ kind = "PredgeValidatorBond")
    <3>1. bond' = bond
      BY <1>1, <1>3, <2>2
    <3>2. bond # Unset =>
             /\ bond.address \in named /\ contracts[bond.on].kind = "AgentJob"
             /\ \A b \in named : contracts[b].kind = "AgentJob" /\ contracts[b].net = "mainnet"
                                    /\ b < bond.address => b <= bond.on
      BY <1>1 DEF FilesHold, BondReadsTheJob, FilesAreNamed
    <3>3. bond # Unset => ~(a < bond.address)
      BY <1>0, <1>1, <3>2
    <3>4. bond # Unset =>
             \A b \in named' : contracts[b].kind = "AgentJob" /\ contracts[b].net = "mainnet"
                                  /\ b < bond.address => b <= bond.on
      BY <1>2, <3>2, <3>3
    <3>5. ASSUME whole' PROVE bond.on = jobFile'
      <4>1. CASE whole
        <5>1. bond.on = jobFile
          BY <4>1 DEF FilesHold, BondReadsTheJob, jobFile
        <5>2. net = "testnet"
          <6>1. CASE Range(script.todo) \subseteq Range(PLAN)
            BY <1>0, <4>1, <6>1 DEF DeploysPlan, Nets
          <6>2. CASE ~(Range(script.todo) \subseteq Range(PLAN))
            <7>1. script.todo = <<"ExampleMarket">>
              BY <1>0, <6>2 DEF DeploysPlan
            <7> QED
              BY <1>0, <1>8, <7>1
          <6> QED
            BY <6>1, <6>2
        <5> QED
          BY <1>1, <1>9, <5>1, <5>2
      <4>2. CASE ~whole
        <5>1. script.only = Range(PLAN) /\ Tail(script.todo) = <<>>
          BY <3>5, <4>2
        <5>2. planLeft(script.todo) /\ (Len(script.todo) = 1 => bond.on = jobFile)
          BY <1>0, <5>1 DEF DeploysPlan
        <5>3. Len(script.todo) = 1 /\ kind = script.todo[1] /\ 1 \in DOMAIN script.todo
          <6>1. /\ Len(Tail(script.todo)) = Len(script.todo) - 1 /\ Len(script.todo) \in Nat
                /\ Head(script.todo) = script.todo[1] /\ 1 \in DOMAIN script.todo
            BY <1>0, FirstOf
          <6>2. Len(Tail(script.todo)) = 0
            <7>1. Len(<<>>) = 0
              OBVIOUS
            <7> QED
              BY <5>1, <7>1
          <6> QED
            BY <1>0, <6>1, <6>2
        <5>4. script.todo[1] = PLAN[6 - 1 + 1]
          BY <5>2, <5>3 DEF planLeft
        <5>5. kind = "PredgeSignalVault"
          BY <5>3, <5>4, PlanIs
        <5> QED
          BY <1>9, <5>2, <5>3, <5>5
      <4> QED
        BY <4>1, <4>2
    <3> HIDE DEF bond
    <3>6. /\ bond' # Unset =>
                /\ contracts[bond'.on].kind = "AgentJob"
                /\ \A b \in named' : contracts[b].kind = "AgentJob"
                      /\ contracts[b].net = "mainnet" /\ b < bond'.address => b <= bond'.on
          /\ whole' => bond'.on = jobFile'
      BY <3>1, <3>2, <3>4, <3>5
    <3> USE DEF bond
    <3> QED
      BY <1>1, <3>6 DEF BondReadsTheJob, jobFile
  <2> QED
    BY <2>1, <2>2
<1>12. MarketAndArbiterAreWired'
  <2>1. file'["mainnet"]["PredgeRefundArbiter"] = file["mainnet"]["PredgeRefundArbiter"]
    BY <1>1, <1>3
  <2>2. CASE net = "testnet" /\ kind = "ExampleMarket"
    BY <1>1, <1>4, <1>8, <2>1, <2>2 DEF FilesHold, MarketAndArbiterAreWired
  <2>3. CASE ~(net = "testnet" /\ kind = "ExampleMarket")
    <3>1. file'["testnet"]["ExampleMarket"] = file["testnet"]["ExampleMarket"]
      BY <1>1, <1>3, <2>3
    <3> QED
      BY <1>1, <2>1, <3>1 DEF FilesHold, MarketAndArbiterAreWired
  <2> QED
    BY <2>2, <2>3
<1> QED
  BY <1>6, <1>10, <1>11, <1>12 DEF FilesHold

\* The files as the script's summary knows them, once the kind at hand is in both.
LEMMA SummaryFollows ==
    ASSUME DeployIInv, NEW kinds, isDeployed(kinds)
    PROVE  /\ built \in [Kinds -> Addresses \cup {Nowhere}]
           /\ built[Head(script.todo)] = opWire.log
           /\ \A k \in Kinds \ {Head(script.todo), "MockRefundProtocol"} :
                 built[k] = file[script.net][k].address
<1>1. /\ script.summary \in [Kinds -> Addresses \cup {Nowhere}]
      /\ Head(script.todo) \in Kinds /\ opWire.log \in Addresses
      /\ wire[op].log = opWire.log /\ DeploysPlan
  BY ThereIs
<1>2. built = [script.summary EXCEPT ![Head(script.todo)] = opWire.log]
  BY <1>1 DEF built
<1>3. \A k \in Kinds \ {"MockRefundProtocol"} : script.summary[k] = file[script.net][k].address
  BY <1>1 DEF DeploysPlan
<1> QED
  BY <1>1, <1>2, <1>3

\* What remains of a plan is one, and shorter.
LEMMA PlanShrinks ==
    ASSUME DeployIInv, NEW kinds, isDeployed(kinds), kinds \cap {"MockRefundProtocol",
           "PredgeRefundArbiter"} = {}, Tail(script.todo) # <<>>
    PROVE  LET todo == Tail(script.todo)
           IN  /\ todo \in Seq(Kinds) /\ Head(todo) \in Range(PLAN)
               /\ Range(script.todo) \subseteq Range(PLAN)
               /\ Range(todo) \subseteq Range(script.todo) /\ Head(todo) \in Range(script.todo)
               /\ planLeft(script.todo) => planLeft(todo)
               /\ planLeft(script.todo) /\ Len(todo) = 1 =>
                     Head(script.todo) = "PredgeValidatorBond"
<1> DEFINE todo == Tail(script.todo)
<1>1. /\ script.todo \in Seq(Kinds) /\ script.todo # <<>> /\ DeploysPlan
      /\ Head(script.todo) \notin {"MockRefundProtocol", "PredgeRefundArbiter"}
  BY ThereIs
<1>2. /\ todo \in Seq(Kinds) /\ Len(todo) = Len(script.todo) - 1 /\ Len(script.todo) \in Nat
      /\ DOMAIN script.todo = 1 .. Len(script.todo) /\ DOMAIN todo = 1 .. Len(script.todo) - 1
      /\ \A i \in DOMAIN todo : i + 1 \in DOMAIN script.todo /\ todo[i] = script.todo[i + 1]
      /\ Range(script.todo) = {Head(script.todo)} \cup Range(todo)
      /\ Head(script.todo) = script.todo[1] /\ 1 \in DOMAIN script.todo
  BY <1>1, FirstOf
<1>3. Head(todo) = todo[1] /\ 1 \in DOMAIN todo /\ Head(todo) \in Range(todo)
  <2>1. /\ Head(todo) = todo[1] /\ 1 \in DOMAIN todo
        /\ Range(todo) = {Head(todo)} \cup Range(Tail(todo))
    BY <1>2, FirstOf
  <2> QED
    BY <2>1
<1>4. Range(script.todo) \subseteq Range(PLAN)
  <2>1. Tail(<<"ExampleMarket">>) = <<>> /\ Tail(<<"PredgeRefundArbiter">>) = <<>>
    OBVIOUS
  <2>2. Head(<<"MockRefundProtocol", "PredgeRefundArbiter">>) = "MockRefundProtocol"
    OBVIOUS
  <2> QED
    BY <1>1, <2>1, <2>2 DEF DeploysPlan
<1> HIDE DEF todo
<1>5. ASSUME planLeft(script.todo) PROVE planLeft(todo)
  <2>1. /\ Len(script.todo) \in 1 .. 6
        /\ \A i \in DOMAIN script.todo : script.todo[i] = PLAN[6 - Len(script.todo) + i]
    BY <1>5 DEF planLeft
  <2>2. Len(todo) \in 1 .. 6 /\ Len(todo) = Len(script.todo) - 1
    <3>1. PICK n \in 1 .. 6 : n = Len(script.todo)
      BY <2>1
    <3>2. Len(todo) = n - 1
      BY <1>2, <3>1
    <3>3. 1 \in 1 .. n - 1
      <4>1. Len(script.todo) - 1 = n - 1
        BY <3>1
      <4>2. DOMAIN todo = 1 .. Len(script.todo) - 1
        BY ONLY <1>2
      <4> QED
        BY ONLY <1>3, <4>1, <4>2
    <3>4. n - 1 \in 1 .. 6
      <4>1. n \in 1 .. 6
        BY <3>1
      <4> QED
        BY ONLY <3>3, <4>1
    <3> QED
      BY ONLY <3>1, <3>2, <3>4
  <2>3. ASSUME NEW i \in DOMAIN todo PROVE todo[i] = PLAN[6 - Len(todo) + i]
    <3>1. i + 1 \in DOMAIN script.todo /\ todo[i] = script.todo[i + 1] /\ i \in Nat
      BY <1>2
    <3>2. 6 - Len(script.todo) + (i + 1) = 6 - Len(todo) + i
      BY <1>2, <3>1
    <3>3. script.todo[i + 1] = PLAN[6 - Len(script.todo) + (i + 1)]
      BY <2>1, <3>1
    <3> QED
      BY <3>1, <3>2, <3>3
  <2> QED
    BY <2>2, <2>3 DEF planLeft
<1>6. ASSUME planLeft(script.todo), Len(todo) = 1
      PROVE  Head(script.todo) = "PredgeValidatorBond"
  <2>1. Len(script.todo) = 2
    <3>1. Len(todo) = Len(script.todo) - 1 /\ Len(script.todo) \in Nat
      BY <1>2
    <3>2. PICK n \in Nat : n = Len(script.todo)
      BY <3>1
    <3>3. n - 1 = 1
      BY <1>6, <3>1, <3>2
    <3> QED
      BY <3>2, <3>3
  <2>2. script.todo[1] = PLAN[6 - Len(script.todo) + 1]
    BY <1>2, <1>6 DEF planLeft
  <2> QED
    <3>1. 6 - 2 + 1 = 5
      OBVIOUS
    <3> QED
      BY <1>2, <2>1, <2>2, <3>1, PlanIs
<1> QED
  BY <1>2, <1>3, <1>4, <1>5, <1>6 DEF todo

\* The next kind of the plan is sent.
LEMMA NextIsSent ==
    ASSUME DeployIInv, deployed, Tail(script.todo) # <<>>,
           buildable(Head(Tail(script.todo)), argsFor(Head(Tail(script.todo)), built))
    PROVE  DeployIInv'
<1> USE DEF DeployIInv
<1> DEFINE Ours == Kinds \ {"MockRefundProtocol", "PredgeRefundArbiter"}
           kind == Head(script.todo)
           todo == Tail(script.todo)
           next == Head(todo)
           on == argsFor(next, built)
           a == opWire.log
           call == [step |-> "deploy", net |-> script.net, kind |-> next, on |-> on,
                    deadline |-> 0]
           s == [at |-> "deploy", net |-> script.net, todo |-> todo, only |-> script.only,
                 summary |-> built, on |-> on]
<1>1. /\ isDeployed(Ours) /\ isDeployed({kind}) /\ UNCHANGED <<worldVars, runs, whole>>
      /\ writeFile(script.net, kind, a, script.on)
      /\ script' = s /\ issue(op, call)
  BY DEF deployed, isDeployed, goOn, deploy, opWire
<1>2. /\ DeploysPlan /\ DeploysOn /\ script.net \in Nets /\ script.only \in SUBSET Kinds
      /\ script.at = "deploy" /\ script \in ScriptStates /\ script.todo # <<>>
      /\ script.todo \in Seq(Kinds) /\ script.on \in Addresses \cup {Nowhere}
      /\ kind \in Ours /\ kind \in Range(script.todo) /\ a \in Addresses
  BY <1>1, ThereIs DEF DeployTypeOK
<1>3. /\ built \in [Kinds -> Addresses \cup {Nowhere}] /\ built[kind] = a
      /\ \A k \in Kinds \ {kind, "MockRefundProtocol"} : built[k] = file[script.net][k].address
  BY <1>1, SummaryFollows
<1>4. /\ todo \in Seq(Kinds) /\ next \in Range(PLAN) /\ todo # <<>>
      /\ Range(script.todo) \subseteq Range(PLAN) /\ next \in Range(script.todo)
      /\ Range(todo) \subseteq Range(script.todo)
      /\ planLeft(script.todo) => planLeft(todo)
      /\ planLeft(script.todo) /\ Len(todo) = 1 => kind = "PredgeValidatorBond"
  <2>1. Ours \cap {"MockRefundProtocol", "PredgeRefundArbiter"} = {}
    OBVIOUS
  <2> HIDE DEF Ours
  <2> QED
    BY <1>1, <2>1, PlanShrinks
<1>5. next \in Kinds /\ next \notin {"ExampleMarket", "PredgeRefundArbiter", "MockRefundProtocol"}
  BY <1>4, PlanIs, KindsAre
<1>6. /\ file' = [file EXCEPT ![script.net][kind] = [address |-> a, on |-> script.on]]
      /\ named' = named \cup {a}
  BY <1>1 DEF writeFile
<1>7. /\ \A k \in Kinds \ {"MockRefundProtocol"} : built[k] = file'[script.net][k].address
      /\ file' \in [Nets -> [Kinds -> [address : Addresses \cup {Nowhere},
                                       on : Addresses \cup {Nowhere}]]]
      /\ \A n \in Nets, k \in Kinds : n # script.net \/ k # kind => file'[n][k] = file[n][k]
      /\ file'[script.net][kind].on = script.on
  BY <1>2, <1>3, <1>6 DEF DeployTypeOK
<1>8. "mainnet" \in Nets /\ {"AgentJob", "PredgeValidatorBond"} \subseteq Kinds
  BY KindsAre DEF Nets
<1>9. next = "PredgeValidatorBond" =>
         /\ script.net = "mainnet" /\ on = jobFile' /\ jobFile' # Nowhere /\ on \in Addresses
  <2> SUFFICES ASSUME next = "PredgeValidatorBond"
               PROVE  /\ script.net = "mainnet" /\ on = jobFile' /\ jobFile' # Nowhere
                      /\ on \in Addresses
    OBVIOUS
  <2>1. script.net = "mainnet"
    BY <1>2, <1>4 DEF DeploysPlan, Nets
  <2>2. on = built["AgentJob"]
    BY DEF argsFor
  <2>3. on = jobFile' /\ on \in Addresses \cup {Nowhere}
    BY <1>3, <1>7, <1>8, <2>1, <2>2 DEF jobFile
  <2>4. on # Nowhere
    BY DEF buildable
  <2> QED
    BY <2>1, <2>3, <2>4
<1>10. next # "PredgeValidatorBond" => on = Nowhere
  BY <1>5 DEF argsFor
<1>11. on \in Addresses \cup {Nowhere} /\ 0 \in 0 .. MaxTime + 1
  BY <1>9, <1>10, DeploymentAssumption
<1>12. call \in AllCalls /\ s \in ScriptStates
  <2>1. call \in AllCalls
    <3> HIDE DEF on, next
    <3> QED
      BY <1>2, <1>5, <1>11, DeployCall
  <2>2. s \in ScriptStates
    <3> HIDE DEF on, todo
    <3> QED
      BY <1>2, <1>3, <1>4, <1>11, ScriptWays
  <2> QED
    BY <2>1, <2>2
<1>13. /\ call.step = "deploy" /\ call.net = script.net /\ call.kind = next /\ call.on = on
       /\ s.at = "deploy" /\ s.net = script.net /\ s.todo = todo /\ s.only = script.only
       /\ s.summary = built /\ s.on = on /\ Head(todo) = next
  OBVIOUS
<1>14. FilesHold'
  BY <1>1, <1>2, FileWritten DEF DeployTypeOK
<1> HIDE DEF call, s, on, next, todo, a, kind
<1>15. /\ OneOperator' /\ wire' \in [Clients -> DeployWires] /\ UNCHANGED <<mempool, faults>>
       /\ opWire' = [at |-> "send", call |-> call, tries |-> 0]
  BY <1>1, <1>12, Issues
<1>16. DeployTypeOK'
  BY <1>1, <1>2, <1>6, <1>7, <1>12, <1>15 DEF DeployTypeOK, DeployWires, AllCalls, worldVars
<1>17. /\ script' = s /\ opWire'.at = "send" /\ opWire'.call = call
       /\ UNCHANGED <<contracts, market, seat, whole>>
  BY <1>1, <1>15 DEF worldVars
<1>18. DeploysKind'
  BY <1>13, <1>17 DEF DeploysKind
<1>19. DeploysPlan'
  <2>1. ASSUME script.only = Range(PLAN)
        PROVE  /\ script.net = "mainnet" /\ planLeft(todo)
               /\ Len(todo) = 1 => file'["mainnet"]["PredgeValidatorBond"].on = jobFile'
    <3>1. script.net = "mainnet" /\ planLeft(script.todo)
      BY <1>2, <2>1 DEF DeploysPlan
    <3>2. ASSUME Len(todo) = 1
          PROVE  file'["mainnet"]["PredgeValidatorBond"].on = jobFile'
      <4>1. kind = "PredgeValidatorBond"
        BY <1>4, <3>1, <3>2
      <4>2. script.on = jobFile
        BY <1>2, <4>1 DEF DeploysOn, kind
      <4>3. jobFile' = jobFile
        BY <1>7, <1>8, <4>1 DEF jobFile
      <4> QED
        BY <1>7, <3>1, <4>1, <4>2, <4>3
    <3> QED
      BY <1>4, <3>1, <3>2
  <2>2. /\ script.net = "testnet" =>
              Range(todo) \cap {"PredgeValidatorBond", "MockRefundProtocol",
                                "PredgeRefundArbiter"} = {}
        /\ script.net = "mainnet" => ~whole
    BY <1>2, <1>4 DEF DeploysPlan
  <2> QED
    BY <1>4, <1>7, <1>13, <1>17, <2>1, <2>2 DEF DeploysPlan
<1>20. DeploysOn'
  BY <1>5, <1>9, <1>10, <1>13, <1>17 DEF DeploysOn
<1>21. ScriptFits'
  BY <1>13, <1>17, <1>18, <1>19, <1>20 DEF ScriptFits
<1> QED
  BY <1>14, <1>15, <1>16, <1>21

\* A contract of the plan is there: its file is written, and the next is sent.
LEMMA DeployedKeeps == ASSUME DeployIInv, deployed PROVE DeployIInv'
<1> USE DEF DeployIInv
<1> DEFINE kind == Head(script.todo)
<1>1. /\ isDeployed(Kinds \ {"MockRefundProtocol", "PredgeRefundArbiter"}) /\ goOn
      /\ isDeployed({kind}) /\ UNCHANGED <<worldVars, runs>>
      /\ kind \in Kinds \ {"MockRefundProtocol", "PredgeRefundArbiter"}
      /\ writeFile(script.net, kind, opWire.log, script.on)
  BY DEF deployed, isDeployed, opWire
<1>2. CASE /\ Tail(script.todo) # <<>>
           /\ buildable(Head(Tail(script.todo)), argsFor(Head(Tail(script.todo)), built))
  BY <1>2, NextIsSent
<1>3. CASE ~(/\ Tail(script.todo) # <<>>
             /\ buildable(Head(Tail(script.todo)), argsFor(Head(Tail(script.todo)), built)))
  <2>1. /\ script' = Idle /\ hangUp(op)
        /\ \/ Tail(script.todo) = <<>> /\ whole' = (whole \/ script.only = Range(PLAN))
           \/ UNCHANGED whole
    BY <1>1, <1>3 DEF goOn
  <2>2. whole' \in BOOLEAN /\ whole \in BOOLEAN
    BY <2>1 DEF DeployTypeOK
  <2>3. whole' => whole \/ (script.only = Range(PLAN) /\ Tail(script.todo) = <<>>)
    BY <2>1, <2>2
  <2>4. FilesHold'
    BY <1>1, <2>2, <2>3, FileWritten
  <2>5. /\ OneOperator' /\ wire' \in [Clients -> DeployWires] /\ UNCHANGED mempool
        /\ opWire'.at = "quiet" /\ faults' \in 0 .. MaxFaults
    BY <1>1, <2>1, HangsUp
  <2>6. /\ named' = named \cup {opWire.log} /\ opWire.log \in Addresses
        /\ file' \in [Nets -> [Kinds -> [address : Addresses \cup {Nowhere},
                                         on : Addresses \cup {Nowhere}]]]
    BY <1>1, ThereIs DEF writeFile, DeployTypeOK
  <2>7. DeployTypeOK'
    BY <1>1, <2>1, <2>2, <2>5, <2>6, ScriptWays
       DEF DeployTypeOK, DeployWires, AllCalls, worldVars
  <2>8. ScriptFits'
    BY <2>1, <2>5, ScriptEnds
  <2> QED
    BY <2>4, <2>5, <2>7, <2>8
<1> QED
  BY <1>2, <1>3

\* The mock is there, and its arbiter is sent.
LEMMA MockKeeps == ASSUME DeployIInv, mockDeployed PROVE DeployIInv'
<1> USE DEF DeployIInv
<1> DEFINE a == opWire.log
           arbiter == <<"PredgeRefundArbiter">>
           call == [step |-> "deploy", net |-> "mainnet", kind |-> "PredgeRefundArbiter",
                    on |-> a, deadline |-> 0]
           s == [at |-> "deploy", net |-> "mainnet", todo |-> arbiter, only |-> script.only,
                 summary |-> built, on |-> a]
<1>1. /\ isDeployed({"MockRefundProtocol"}) /\ goOn
      /\ UNCHANGED <<worldVars, runs, file, named>>
  BY DEF mockDeployed
<1>2. /\ DeploysPlan /\ DeploysOn /\ script.net \in Nets /\ script.only \in SUBSET Kinds
      /\ Head(script.todo) = "MockRefundProtocol" /\ a \in Addresses
      /\ Head(script.todo) \in Range(script.todo) /\ opWire.at = "ok"
      /\ isBuilt(a, script.net, "MockRefundProtocol", script.on)
      /\ contracts[a].kind = "MockRefundProtocol" /\ \A b \in named : b \in Nat /\ b < a
      /\ script.todo \in Seq(Kinds) /\ script.todo # <<>>
  BY <1>1, ThereIs
<1>3. /\ built \in [Kinds -> Addresses \cup {Nowhere}] /\ built["MockRefundProtocol"] = a
      /\ \A k \in Kinds \ {"MockRefundProtocol"} : built[k] = file[script.net][k].address
  BY <1>1, <1>2, SummaryFollows
<1>4. /\ script.todo = <<"MockRefundProtocol", "PredgeRefundArbiter">>
      /\ Tail(script.todo) = arbiter /\ script.net = "mainnet"
  <2>1. "MockRefundProtocol" \notin Range(PLAN)
    BY PlanIs
  <2>2. Head(<<"ExampleMarket">>) = "ExampleMarket"
        /\ Head(<<"PredgeRefundArbiter">>) = "PredgeRefundArbiter"
        /\ Tail(<<"MockRefundProtocol", "PredgeRefundArbiter">>) = arbiter
    OBVIOUS
  <2>3. script.net = "mainnet"
    BY <1>2 DEF DeploysPlan, Nets
  <2> HIDE DEF arbiter
  <2> QED
    BY <1>2, <2>1, <2>2, <2>3 DEF DeploysPlan
<1>5. /\ arbiter \in Seq(Kinds) /\ arbiter # <<>> /\ Head(arbiter) = "PredgeRefundArbiter"
      /\ Range(arbiter) = {"PredgeRefundArbiter"} /\ "PredgeRefundArbiter" \in Kinds
      /\ "PredgeRefundArbiter" \notin Range(PLAN) /\ "mainnet" \in Nets
      /\ "mainnet" # "testnet"
  BY KindsAre, PlanIs DEF Range, Nets
<1>6. /\ script' = s /\ issue(op, call) /\ UNCHANGED whole
  <2>1. argsFor("PredgeRefundArbiter", built) = a
    BY <1>3 DEF argsFor
  <2>2. buildable("PredgeRefundArbiter", a)
    BY DEF buildable
  <2> HIDE DEF arbiter
  <2> QED
    BY <1>1, <1>4, <1>5, <2>1, <2>2 DEF goOn, deploy
<1>7. script.only # Range(PLAN)
  <2> SUFFICES ASSUME planLeft(script.todo) PROVE FALSE
    BY <1>2 DEF DeploysPlan
  <2>1. 1 \in DOMAIN script.todo /\ script.todo[1] = "MockRefundProtocol"
        /\ Len(script.todo) = 2
    BY <1>4
  <2>2. script.todo[1] = PLAN[6 - 2 + 1] /\ 6 - 2 + 1 = 5
    BY <2>1 DEF planLeft
  <2> QED
    BY <2>1, <2>2, PlanIs
<1>8. a \in DOMAIN contracts /\ a \notin named /\ isFree(a)
  BY <1>2 DEF isBuilt, DeploysOn
<1>9. 0 \in 0 .. MaxTime + 1
  BY DeploymentAssumption
<1>10. call \in AllCalls
  <2> HIDE DEF a
  <2> QED
    BY <1>2, <1>5, <1>9, DeployCall
<1>11. s \in ScriptStates
  <2> HIDE DEF a, arbiter
  <2> QED
    BY <1>2, <1>3, <1>5, ScriptWays
<1>12. /\ call.step = "deploy" /\ call.net = "mainnet" /\ call.kind = "PredgeRefundArbiter"
       /\ call.on = a /\ s.at = "deploy" /\ s.net = "mainnet" /\ s.todo = arbiter
       /\ s.only = script.only /\ s.summary = built /\ s.on = a
  OBVIOUS
<1>13. FilesHold'
  BY <1>1, <1>6, FilesUntouched
<1> HIDE DEF call, s, a, arbiter
<1>14. /\ OneOperator' /\ wire' \in [Clients -> DeployWires] /\ UNCHANGED <<mempool, faults>>
       /\ opWire' = [at |-> "send", call |-> call, tries |-> 0]
  BY <1>1, <1>6, <1>10, Issues
<1>15. DeployTypeOK'
  BY <1>1, <1>6, <1>11, <1>14 DEF DeployTypeOK, DeployWires, AllCalls, worldVars
<1>16. /\ script' = s /\ opWire'.at = "send" /\ opWire'.call = call
       /\ UNCHANGED <<contracts, market, seat, whole, file, named, mempool>>
  BY <1>1, <1>6, <1>14 DEF worldVars
<1>17. DeploysKind'
  BY <1>5, <1>12, <1>16 DEF DeploysKind
<1>18. DeploysPlan'
  <2>1. arbiter = <<"PredgeRefundArbiter">>
    BY DEF arbiter
  <2> QED
    BY <1>3, <1>4, <1>5, <1>7, <1>12, <1>16, <2>1 DEF DeploysPlan
<1>19. DeploysOn'
  BY <1>2, <1>5, <1>8, <1>12, <1>16 DEF DeploysOn, isFree, handsOver
<1>20. ScriptFits'
  BY <1>12, <1>16, <1>17, <1>18, <1>19 DEF ScriptFits
<1> QED
  BY <1>13, <1>14, <1>15, <1>20

\* The arbiter is there, and the mock's seat is handed to it.
LEMMA ArbiterKeeps == ASSUME DeployIInv, arbiterDeployed PROVE DeployIInv'
<1> USE DEF DeployIInv
<1> DEFINE a == opWire.log
           mock == script.on
           call == [step |-> "setArbiter", on |-> mock, to |-> a]
           s == [at |-> "hand", mock |-> mock, arbiter |-> a]
<1>1. /\ isDeployed({"PredgeRefundArbiter"}) /\ UNCHANGED <<worldVars, runs, whole, file, named>>
      /\ script' = s /\ issue(op, call)
  BY DEF arbiterDeployed, opWire
<1>2. /\ DeploysPlan /\ DeploysOn /\ script.net \in Nets
      /\ Head(script.todo) = "PredgeRefundArbiter" /\ a \in Addresses
      /\ Head(script.todo) \in Range(script.todo)
      /\ isBuilt(a, script.net, "PredgeRefundArbiter", mock)
      /\ \A b \in named : b \in Nat /\ b < a
  BY <1>1, ThereIs
<1>3. script.net = "mainnet"
  BY <1>2 DEF DeploysPlan, Nets
<1>4. /\ mock \in DOMAIN contracts /\ mock \notin named /\ mock \in Addresses
      /\ contracts[mock].kind = "MockRefundProtocol" /\ a \notin named
  BY <1>2, ContractIds DEF DeploysOn
<1>5. call \in AllCalls /\ s \in ScriptStates
  BY <1>2, <1>4, ScriptWays DEF AllCalls, Handovers
<1>6. s.at = "hand" /\ s.mock = mock /\ s.arbiter = a /\ call.step = "setArbiter"
  OBVIOUS
<1>7. FilesHold'
  BY <1>1, FilesUntouched
<1> HIDE DEF s, a, mock
<1>8. /\ OneOperator' /\ wire' \in [Clients -> DeployWires] /\ UNCHANGED <<mempool, faults>>
      /\ opWire' = [at |-> "send", call |-> call, tries |-> 0]
  <2> HIDE DEF call
  <2> QED
    BY <1>1, <1>5, Issues
<1>9. DeployTypeOK'
  BY <1>1, <1>5, <1>8 DEF DeployTypeOK, DeployWires, AllCalls, worldVars
<1>10. HandsSeat'
  BY <1>1, <1>2, <1>3, <1>4, <1>6, <1>8 DEF HandsSeat, isBuilt, worldVars
<1>11. ScriptFits'
  BY <1>1, <1>6, <1>10 DEF ScriptFits
<1> QED
  BY <1>7, <1>8, <1>9, <1>11

\* The arbiter has the seat, and its file is written.
LEMMA SeatKeeps == ASSUME DeployIInv, seatHanded PROVE DeployIInv'
<1> USE DEF DeployIInv
<1> DEFINE a == script.arbiter
           mock == script.mock
<1>1. /\ script.at = "hand" /\ opWire.at = "ok" /\ script' = Idle /\ hangUp(op)
      /\ file' = [file EXCEPT !["mainnet"]["PredgeRefundArbiter"] =
                    [address |-> a, on |-> mock]]
      /\ named' = named \cup {a, mock}
      /\ UNCHANGED <<worldVars, runs, whole>>
  BY DEF seatHanded, opWire
<1>2. /\ a \in Addresses /\ mock \in Addresses /\ HandsSeat
  BY <1>1, ScriptKinds DEF ScriptFits, DeployTypeOK
<1>3. /\ isBuilt(a, "mainnet", "PredgeRefundArbiter", mock) /\ mock \in DOMAIN contracts
      /\ contracts[mock].kind = "MockRefundProtocol" /\ seat[mock] = a
      /\ a \in DOMAIN contracts /\ contracts[a].kind = "PredgeRefundArbiter"
  BY <1>1, <1>2 DEF HandsSeat, isBuilt
<1>4. /\ OneOperator' /\ wire' \in [Clients -> DeployWires] /\ UNCHANGED mempool
      /\ opWire'.at = "quiet" /\ faults' \in 0 .. MaxFaults
  BY <1>1, HangsUp
<1>5. ScriptFits'
  BY <1>1, <1>4, ScriptEnds
<1>6. /\ file \in [Nets -> [Kinds -> [address : Addresses \cup {Nowhere},
                                      on : Addresses \cup {Nowhere}]]]
      /\ "mainnet" \in Nets /\ "testnet" \in Nets /\ "mainnet" # "testnet"
      /\ {"PredgeValidatorBond", "ExampleMarket", "PredgeRefundArbiter", "AgentJob",
          "MockRefundProtocol"} \subseteq Kinds
      /\ UNCHANGED <<contracts, market, seat>>
  BY <1>1, KindsAre DEF DeployTypeOK, Nets, worldVars
<1> HIDE DEF a, mock
<1>7. /\ file'["mainnet"]["PredgeRefundArbiter"] = [address |-> a, on |-> mock]
      /\ \A n \in Nets, k \in Kinds :
            n # "mainnet" \/ k # "PredgeRefundArbiter" => file'[n][k] = file[n][k]
      /\ file' \in [Nets -> [Kinds -> [address : Addresses \cup {Nowhere},
                                       on : Addresses \cup {Nowhere}]]]
  BY <1>1, <1>2, <1>6
<1>8. DeployTypeOK'
  BY <1>1, <1>2, <1>4, <1>7, ScriptWays DEF DeployTypeOK, DeployWires, AllCalls, worldVars
<1>9. \A b \in named' : contracts[b].kind = "AgentJob" => b \in named
  BY <1>1, <1>3
<1>10. FilesTellTheTruth'
  <2>1. ASSUME NEW n \in Nets, NEW k \in Kinds, file'[n][k] # Unset
        PROVE  /\ file'[n][k].address \in DOMAIN contracts
               /\ contracts[file'[n][k].address] =
                    [net |-> n, kind |-> k, on |-> file'[n][k].on]
    <3>1. CASE n = "mainnet" /\ k = "PredgeRefundArbiter"
      BY <1>3, <1>7, <3>1 DEF isBuilt
    <3>2. CASE n # "mainnet" \/ k # "PredgeRefundArbiter"
      BY <1>7, <2>1, <3>2 DEF FilesHold, FilesTellTheTruth
    <3> QED
      BY <3>1, <3>2
  <2> QED
    BY <1>6, <2>1 DEF FilesTellTheTruth
<1>11. FilesAreNamed'
  <2>1. ASSUME NEW n \in Nets, NEW k \in Kinds, file'[n][k] # Unset
        PROVE  /\ file'[n][k].address \in named'
               /\ k \in {"PredgeValidatorBond", "ExampleMarket", "PredgeRefundArbiter"} =>
                     file'[n][k].on \in DOMAIN contracts
    <3>1. CASE n = "mainnet" /\ k = "PredgeRefundArbiter"
      BY <1>1, <1>3, <1>7, <3>1
    <3>2. CASE n # "mainnet" \/ k # "PredgeRefundArbiter"
      BY <1>1, <1>7, <2>1, <3>2 DEF FilesHold, FilesAreNamed
    <3> QED
      BY <3>1, <3>2
  <2>2. \A n \in Nets : file'[n]["MockRefundProtocol"] = Unset
    BY <1>6, <1>7 DEF FilesHold, FilesAreNamed
  <2>3. named' \subseteq DOMAIN contracts
    BY <1>1, <1>3 DEF FilesHold, FilesAreNamed
  <2>4. jobFile' = jobFile
    BY <1>6, <1>7 DEF jobFile
  <2>5. \A b \in named' : isJob(b) => b <= jobFile
    BY <1>9 DEF FilesHold, FilesAreNamed, isJob
  <2> QED
    BY <1>6, <2>1, <2>2, <2>3, <2>4, <2>5 DEF FilesAreNamed, isJob
<1>12. BondReadsTheJob'
  <2>1. /\ file'["mainnet"]["PredgeValidatorBond"] = file["mainnet"]["PredgeValidatorBond"]
        /\ file'["mainnet"]["AgentJob"] = file["mainnet"]["AgentJob"]
    BY <1>6, <1>7
  <2> QED
    BY <1>1, <1>6, <1>9, <2>1 DEF FilesHold, BondReadsTheJob
<1>13. MarketAndArbiterAreWired'
  <2>1. file'["testnet"]["ExampleMarket"] = file["testnet"]["ExampleMarket"]
    BY <1>6, <1>7
  <2>2. /\ file'["mainnet"]["PredgeRefundArbiter"].address = a
        /\ file'["mainnet"]["PredgeRefundArbiter"].on = mock
    BY <1>7
  <2> QED
    BY <1>3, <1>6, <2>1, <2>2 DEF FilesHold, MarketAndArbiterAreWired
<1>14. FilesHold'
  BY <1>10, <1>11, <1>12, <1>13 DEF FilesHold
<1> QED
  BY <1>4, <1>5, <1>8, <1>14

\* Wherever a script dies, the files stay as they are.
LEMMA DeathKeeps == ASSUME DeployIInv, scriptDies PROVE DeployIInv'
<1> USE DEF DeployIInv
<1>1. /\ script' = Idle /\ (hangUp(op) \/ crash(op))
      /\ UNCHANGED <<worldVars, file, runs, whole, named>>
  BY DEF scriptDies
<1>2. /\ OneOperator' /\ wire' \in [Clients -> DeployWires] /\ UNCHANGED mempool
      /\ opWire'.at = "quiet" /\ faults' \in 0 .. MaxFaults
  BY <1>1, HangsUp
<1>3. DeployTypeOK'
  BY <1>1, <1>2, ScriptWays DEF DeployTypeOK, DeployWires, AllCalls, worldVars
<1>4. FilesHold'
  BY <1>1, FilesUntouched
<1> QED
  BY <1>1, <1>2, <1>3, <1>4, ScriptEnds

\* Before the first run there is nothing to rely on.
LEMMA DeployInitInv == DeployInit => DeployIInv
<1> SUFFICES ASSUME DeployInit PROVE DeployIInv
  OBVIOUS
<1>1. /\ wire = [c \in Clients |-> Quiet] /\ mempool = <<>> /\ faults = 0
      /\ contracts = <<>> /\ script = Idle /\ named = {} /\ whole = FALSE /\ runs = 0
      /\ \A net \in Nets, kind \in Kinds : file[net][kind] = Unset
      /\ \A a \in Addresses : seat[a] = Nowhere
      /\ opWire = Quiet /\ opWire.at = "quiet" /\ script.at = "idle"
  BY OpIsClient, WireWays, ScriptWays DEF DeployInit, CallInit, opWire
<1>2. DOMAIN contracts = {} /\ Len(contracts) = 0 /\ DOMAIN mempool = {} /\ Len(mempool) = 0
  BY <1>1
<1>3. /\ "mainnet" \in Nets /\ "testnet" \in Nets
      /\ {"PredgeValidatorBond", "ExampleMarket", "PredgeRefundArbiter", "AgentJob",
          "MockRefundProtocol"} \subseteq Kinds
  BY KindsAre DEF Nets
<1>4. DeployTypeOK
  <2>1. \A S : <<>> \in Seq(S)
    OBVIOUS
  <2>2. 0 \in 0 .. MaxFaults /\ 0 \in 0 .. MaxRuns /\ now \in 1 .. MaxTime
    BY RetryAssumption, DeploymentAssumption DEF DeployInit
  <2>3. /\ market \in [Addresses -> {"unknown", "committed", "resolved"}]
        /\ seat \in [Addresses -> Addresses \cup {Nowhere}]
        /\ file \in [Nets -> [Kinds -> [address : Addresses \cup {Nowhere},
                                        on : Addresses \cup {Nowhere}]]]
    BY DEF DeployInit, Unset
  <2>4. wire \in [Clients -> DeployWires] /\ script \in ScriptStates
    BY <1>1, WireWays, ScriptWays
  <2> QED
    BY <1>1, <2>1, <2>2, <2>3, <2>4 DEF DeployTypeOK, DeployWires, AllCalls
<1>5. OneOperator
  BY <1>1, <1>2, DeploymentAssumption DEF OneOperator
<1>6. FilesHold
  BY <1>1, <1>2, <1>3 DEF FilesHold, FilesTellTheTruth, BondReadsTheJob,
                          MarketAndArbiterAreWired, FilesAreNamed
<1>7. ScriptFits
  BY <1>1 DEF ScriptFits
<1> QED
  BY <1>4, <1>5, <1>6, <1>7 DEF DeployIInv

\* Every step keeps the invariant.
LEMMA DeployStepInv == DeployIInv /\ [DeployNext]_deployVars => DeployIInv'
<1> SUFFICES ASSUME DeployIInv, [DeployNext]_deployVars PROVE DeployIInv'
  OBVIOUS
<1>1. ASSUME NEW only \in OnlyLists \cup {Range(PLAN)}, startMainnet(only) PROVE DeployIInv'
  BY <1>1, MainnetStarts
<1>2. CASE deploySettlement \/ deployOracle \/ deployValidator \/ deployJob \/ deployVault
  BY <1>2, TestnetStarts
     DEF deploySettlement, deployOracle, deployValidator, deployJob, deployVault
<1>3. CASE startArbiter \/ startMarket \/ preflight
  BY <1>3, ArbiterStarts, MarketStarts, PreflightKeeps
<1>4. CASE deployed \/ mockDeployed \/ arbiterDeployed \/ seatHanded \/ scriptDies
  BY <1>4, DeployedKeeps, MockKeeps, ArbiterKeeps, SeatKeeps, DeathKeeps
<1>5. CASE Send \/ (\E i \in DOMAIN mempool : mine(i)) \/ (\E a \in Addresses : publish(a))
           \/ passTime
  BY <1>5, ChainKeeps
<1>6. CASE UNCHANGED deployVars
  <2>1. /\ UNCHANGED <<worldVars, callVars, operatorVars>>
        /\ UNCHANGED <<contracts, market, seat, now, wire, mempool, faults, file, script, runs,
                       whole, named>>
    BY <1>6 DEF deployVars, worldVars, callVars, operatorVars
  <2>2. DeployTypeOK' /\ OneOperator'
    BY <2>1 DEF DeployIInv, DeployTypeOK, OneOperator, opWire, handsOver
  <2>3. FilesHold'
    BY <2>1, FilesUntouched DEF DeployIInv
  <2>4. GoesOn
    BY <2>1 DEF GoesOn, StaysBuilt, HandedByACall, WireFollows, opWire
  <2>5. ScriptFits'
    BY <2>2, <2>4, ScriptGoesOn DEF GoesOn, DeployIInv, DeployTypeOK, DeployWires, AllCalls
  <2> QED
    BY <2>2, <2>3, <2>5 DEF DeployIInv
<1> QED
  BY <1>1, <1>2, <1>3, <1>4, <1>5, <1>6 DEF DeployNext

\* The inductive invariant holds.
LEMMA DeployIInvHolds == DeploySpec => []DeployIInv
BY DeployInitInv, DeployStepInv, PTL DEF DeploySpec

\* The deployment files can be relied on: whatever answers were lost and wherever a
\* script died, each names a mined contract of its kind wired to the contracts the
\* script meant, the newest job its network's files had named for a bond, an oracle
\* that committed for a market, a mock whose seat it holds for an arbiter; and after a
\* whole run of deploy-mainnet.mjs the bond reads the job named beside it.
THEOREM FilesCanBeReliedOn == DeploySpec => []FilesFit
<1>1. DeployIInv => FilesFit
  BY DEF DeployIInv, FilesHold, FilesFit
<1> QED
  BY <1>1, DeployIInvHolds, PTL

------------------------------------------------------------------------------
(* The ledger of the contracts that no file names. *)

orphans == (DOMAIN contracts \ named) \ inHand
deploysIn(pool) == {i \in DOMAIN pool : pool[i].call.step = "deploy"}
onItsWay == IF opWire.at = "wait" /\ opWire.call.step = "deploy" THEN 1 ELSE 0

\* The call that hands the mock's seat can only succeed.
seatIsSafe(mock) ==
    /\ opWire.at \in {"send", "wait"} /\ seat[mock] = Nowhere
    /\ \A i, j \in DOMAIN mempool :
          handsOver(mempool[i], mock) /\ handsOver(mempool[j], mock) => i = j
    /\ opWire.at = "send" => \A i \in DOMAIN mempool : ~handsOver(mempool[i], mock)

\* What the script may still give up without another fault.
debt ==
    IF script.at = "hand" /\ opWire.at # "ok" /\ ~seatIsSafe(script.mock) THEN 2
    ELSE IF /\ script.at = "deploy" /\ opWire.at = "thrown"
            /\ Head(script.todo) = "PredgeRefundArbiter" THEN 1
    ELSE 0

\* Each fault pays for two: contracts that are orphans, that will be when a call nobody
\* waits for is mined, or that the script has yet to give up.
FaultsPay ==
    /\ script.at = "hand" /\ opWire.at = "ok" => opWire.log = script.arbiter
    /\ Cardinality(orphans) + Cardinality(deploysIn(mempool)) - onItsWay + debt <= 2 * faults

held(w, s) ==
    (IF w.at = "ok" THEN {w.log} ELSE {})
    \cup (IF s.at = "deploy" THEN {s.on}
          ELSE IF s.at = "hand" THEN {s.mock, s.arbiter} ELSE {})

\* Only one client has anything in hand.
LEMMA HeldIs ==
    ASSUME NEW w, NEW s, \A c \in Clients : c # op => w[c] = Quiet
    PROVE  {w[c].log : c \in {k \in Clients : w[k].at = "ok"}}
             \cup (CASE s.at = "deploy" -> {s.on}
                      [] s.at = "hand" -> {s.mock, s.arbiter}
                      [] OTHER -> {})
           = held(w[op], s)
<1>1. \A c \in Clients : w[c].at = "ok" => c = op
  BY WireWays
<1>2. {w[c].log : c \in {k \in Clients : w[k].at = "ok"}}
        = IF w[op].at = "ok" THEN {w[op].log} ELSE {}
  BY <1>1, OpIsClient
<1>3. (CASE s.at = "deploy" -> {s.on} [] s.at = "hand" -> {s.mock, s.arbiter} [] OTHER -> {})
        = IF s.at = "deploy" THEN {s.on} ELSE IF s.at = "hand" THEN {s.mock, s.arbiter} ELSE {}
  OBVIOUS
<1> QED
  BY <1>2, <1>3 DEF held

\* The orphans, before and after a step.
LEMMA OrphansAre ==
    /\ OneOperator => orphans = (DOMAIN contracts \ named) \ held(opWire, script)
    /\ OneOperator' => orphans' = (DOMAIN contracts' \ named') \ held(opWire', script')
<1>1. OneOperator => inHand = held(opWire, script)
  BY HeldIs DEF OneOperator, inHand, opWire
<1>2. OneOperator' => inHand' = held(opWire', script')
  BY HeldIs DEF OneOperator, inHand, opWire
<1> QED
  BY <1>1, <1>2 DEF orphans

\* A set of places in a list is finite.
LEMMA PartOfList ==
    ASSUME NEW S, NEW q \in Seq(S), NEW T, T \subseteq DOMAIN q
    PROVE  IsFiniteSet(T) /\ Cardinality(T) \in Nat
<1>1. DOMAIN q = 1 .. Len(q) /\ Len(q) \in Nat
  OBVIOUS
<1>2. IsFiniteSet(1 .. Len(q))
  BY <1>1, FS_Interval
<1>3. IsFiniteSet(T)
  BY <1>1, <1>2, FS_Subset
<1> QED
  BY <1>3, FS_CardinalityType

\* The numbers in the ledger, before and after a step.
LEMMA LedgerCounts ==
    ASSUME DeployTypeOK, DeployTypeOK'
    PROVE  /\ IsFiniteSet(orphans) /\ Cardinality(orphans) \in Nat
           /\ IsFiniteSet(orphans') /\ Cardinality(orphans') \in Nat
           /\ Cardinality(deploysIn(mempool)) \in Nat
           /\ Cardinality(deploysIn(mempool')) \in Nat
           /\ faults \in Nat /\ faults' \in Nat
           /\ onItsWay \in 0 .. 1 /\ onItsWay' \in 0 .. 1
           /\ debt \in 0 .. 2 /\ debt' \in 0 .. 2
<1>1. /\ contracts \in Seq(Contracts) /\ contracts' \in Seq(Contracts)
      /\ mempool \in Seq(Accepted(AllCalls)) /\ mempool' \in Seq(Accepted(AllCalls))
      /\ faults \in Nat /\ faults' \in Nat
  BY RetryAssumption DEF DeployTypeOK, AllCalls, Contracts
<1>2. /\ orphans \subseteq DOMAIN contracts /\ orphans' \subseteq DOMAIN contracts'
      /\ deploysIn(mempool) \subseteq DOMAIN mempool
      /\ deploysIn(mempool') \subseteq DOMAIN mempool'
  BY DEF orphans, deploysIn
<1>3. /\ onItsWay \in 0 .. 1 /\ onItsWay' \in 0 .. 1
      /\ debt \in 0 .. 2 /\ debt' \in 0 .. 2
  BY DEF onItsWay, debt
<1> HIDE DEF orphans, deploysIn, onItsWay, debt
<1>4. /\ IsFiniteSet(orphans) /\ Cardinality(orphans) \in Nat
      /\ Cardinality(deploysIn(mempool)) \in Nat
  BY <1>1, <1>2, PartOfList
<1>5. /\ IsFiniteSet(orphans') /\ Cardinality(orphans') \in Nat
      /\ Cardinality(deploysIn(mempool')) \in Nat
  BY <1>1, <1>2, PartOfList
<1> QED
  BY <1>1, <1>3, <1>4, <1>5

\* A mined deployment is no longer on its way.
LEMMA DeploysLeft ==
    ASSUME NEW S, NEW p \in Seq(S), NEW q \in Seq(S), 1 \in DOMAIN p,
           \A k \in DOMAIN q : k + 1 \in DOMAIN p /\ q[k] = p[k + 1]
    PROVE  Cardinality(deploysIn(q))
             <= Cardinality(deploysIn(p)) - (IF p[1].call.step = "deploy" THEN 1 ELSE 0)
<1> DEFINE A == deploysIn(p)
           B == deploysIn(q)
           f == [k \in B |-> k + 1]
<1>1. IsFiniteSet(A) /\ Cardinality(A) \in Nat
  <2>1. A \subseteq DOMAIN p
    BY DEF deploysIn
  <2> QED
    BY <2>1, PartOfList
<1>2. /\ IsFiniteSet(A \ {1})
      /\ Cardinality(A \ {1}) = IF 1 \in A THEN Cardinality(A) - 1 ELSE Cardinality(A)
  BY <1>1, FS_RemoveElement
<1>3. 1 \in A <=> p[1].call.step = "deploy"
  BY DEF deploysIn
<1>4. DOMAIN q \subseteq Nat \ {0}
  OBVIOUS
<1>5. f \in Injection(B, A \ {1})
  <2>1. \A k \in B : k \in Nat \ {0} /\ k + 1 \in A \ {1}
    BY <1>4 DEF deploysIn
  <2> HIDE DEF A, B
  <2>2. f \in [B -> A \ {1}] /\ \A j, k \in B : f[j] = f[k] => j = k
    BY <2>1
  <2> HIDE DEF f
  <2> QED
    BY <2>2 DEF Injection, IsInjective
<1> HIDE DEF A, B, f
<1>6. Cardinality(B) <= Cardinality(A \ {1})
  BY <1>2, <1>5, FS_Injection
<1> QED
  BY <1>1, <1>2, <1>3, <1>6 DEF A, B

\* An accepted one is.
LEMMA DeploysMore ==
    ASSUME NEW S, NEW p \in Seq(S), NEW e \in S
    PROVE  Cardinality(deploysIn(Append(p, e)))
             <= Cardinality(deploysIn(p)) + (IF e.call.step = "deploy" THEN 1 ELSE 0)
<1> DEFINE A == deploysIn(p)
           B == deploysIn(Append(p, e))
           n == Len(p) + 1
<1>1. IsFiniteSet(A) /\ Cardinality(A) \in Nat
  <2>1. A \subseteq DOMAIN p
    BY DEF deploysIn
  <2> QED
    BY <2>1, PartOfList
<1>2. /\ Append(p, e)[n] = e /\ DOMAIN Append(p, e) = 1 .. n /\ Len(p) \in Nat
      /\ \A i \in DOMAIN p : Append(p, e)[i] = p[i]
      /\ DOMAIN p = 1 .. Len(p)
  BY AppendedIs
<1>3. \A i \in 1 .. n : i = n \/ i \in DOMAIN p
  BY <1>2
<1>4. B \subseteq A \cup {n} /\ (e.call.step # "deploy" => B \subseteq A)
  BY <1>2, <1>3 DEF deploysIn
<1> HIDE DEF A, B, n
<1>5. /\ IsFiniteSet(A \cup {n})
      /\ Cardinality(A \cup {n}) = IF n \in A THEN Cardinality(A) ELSE Cardinality(A) + 1
  BY <1>1, FS_AddElement
<1>6. Cardinality(B) <= Cardinality(A \cup {n}) /\ Cardinality(B) \in Nat
  BY <1>4, <1>5, FS_Subset, FS_CardinalityType
<1>7. B \subseteq A => Cardinality(B) <= Cardinality(A)
  BY <1>1, FS_Subset
<1> QED
  BY <1>1, <1>4, <1>5, <1>6, <1>7 DEF A, B

\* Two elements more are at most two more.
LEMMA AtMostMore ==
    ASSUME NEW A, NEW B, NEW x, NEW y, IsFiniteSet(A), IsFiniteSet(B), B \subseteq A \cup {x, y}
    PROVE  /\ Cardinality(B) <= Cardinality(A) + 2
           /\ x = y => Cardinality(B) <= Cardinality(A) + 1
           /\ B \subseteq A => Cardinality(B) <= Cardinality(A)
<1>1. /\ IsFiniteSet(A \cup {x})
      /\ Cardinality(A \cup {x}) = IF x \in A THEN Cardinality(A) ELSE Cardinality(A) + 1
      /\ Cardinality(A) \in Nat /\ Cardinality(B) \in Nat
  BY FS_AddElement, FS_CardinalityType
<1> DEFINE C == A \cup {x}
<1> HIDE DEF C
<1>2. IsFiniteSet(C) /\ Cardinality(C) \in Nat /\ Cardinality(C) <= Cardinality(A) + 1
  BY <1>1, FS_CardinalityType DEF C
<1>3. /\ IsFiniteSet(C \cup {y})
      /\ Cardinality(C \cup {y}) = IF y \in C THEN Cardinality(C) ELSE Cardinality(C) + 1
  BY <1>2, FS_AddElement
<1>4. Cardinality(B) <= Cardinality(C \cup {y})
  <2>1. B \subseteq C \cup {y}
    BY DEF C
  <2> QED
    BY <1>3, <2>1, FS_Subset
<1>5. x = y => Cardinality(B) <= Cardinality(C)
  <2>1. x = y => B \subseteq C
    BY DEF C
  <2> QED
    BY <1>2, <2>1, FS_Subset
<1>6. B \subseteq A => Cardinality(B) <= Cardinality(A)
  BY FS_Subset
<1> QED
  BY <1>1, <1>2, <1>3, <1>4, <1>5, <1>6

\* A step that strands nothing.
LEMMA NothingStrands ==
    ASSUME DeployIInv, FaultsPay, DeployIInv', UNCHANGED <<mempool, faults>>,
           orphans' \subseteq orphans, onItsWay = 0, debt' = 0,
           script'.at = "hand" => opWire'.at # "ok"
    PROVE  FaultsPay'
<1>1. /\ IsFiniteSet(orphans) /\ Cardinality(orphans) \in Nat
      /\ Cardinality(orphans') \in Nat
      /\ Cardinality(deploysIn(mempool)) \in Nat
      /\ faults \in Nat /\ onItsWay' \in 0 .. 1 /\ debt \in 0 .. 2
  BY LedgerCounts DEF DeployIInv
<1>2. Cardinality(orphans') <= Cardinality(orphans)
  BY <1>1, FS_Subset
<1>3. Cardinality(orphans) + Cardinality(deploysIn(mempool)) - onItsWay + debt <= 2 * faults
  BY DEF FaultsPay
<1>4. deploysIn(mempool)' = deploysIn(mempool)
  BY DEF deploysIn
<1> HIDE DEF orphans, deploysIn, onItsWay, debt
<1>5. Cardinality(orphans') + Cardinality(deploysIn(mempool)) - onItsWay' + debt' <= 2 * faults
  BY <1>1, <1>2, <1>3
<1> QED
  BY <1>4, <1>5 DEF FaultsPay

\* What a plan builds on has a file.
LEMMA OnIsNamed ==
    ASSUME DeployIInv, script.at = "deploy", Head(script.todo) # "PredgeRefundArbiter"
    PROVE  script.on \in named \/ script.on = Nowhere
<1>1. DeploysOn /\ DeployTypeOK /\ OneOperator /\ FilesHold
  BY DEF DeployIInv, ScriptFits
<1>2. jobFile # Nowhere => jobFile \in named
  BY <1>1, FileFacts, KindsAre DEF jobFile, Nets
<1> QED
  BY <1>1, <1>2 DEF DeploysOn

\* What the script hears is on its wire.
LEMMA OpTurns ==
    ASSUME DeployIInv, NEW s, hear(op, s)
    PROVE  opWire' = s
BY OpIsClient DEF hear, opWire, DeployIInv, DeployTypeOK

\* The script only turns to something when it waits for nothing.
LEMMA BeginningStrandsNothing ==
    ASSUME DeployIInv, FaultsPay, DeployIInv', script.at \in {"idle", "preflight"},
           UNCHANGED <<contracts, named, mempool, faults>>,
           opWire'.at \in {"quiet", "send"}, script'.at # "hand"
    PROVE  FaultsPay'
<1>1. opWire.at = "quiet" /\ OneOperator /\ OneOperator'
  BY DEF DeployIInv, ScriptFits
<1>2. held(opWire, script) = {}
  BY <1>1 DEF held
<1>3. orphans' \subseteq orphans
  BY <1>1, <1>2, OrphansAre
<1>4. onItsWay = 0 /\ debt' = 0
  BY <1>1 DEF onItsWay, debt
<1> HIDE DEF orphans
<1> QED
  BY <1>3, <1>4, NothingStrands

\* Runs begin with empty hands.
LEMMA BeginningOwes ==
    ASSUME DeployIInv, FaultsPay, DeployIInv',
           \/ \E only \in OnlyLists \cup {Range(PLAN)} : startMainnet(only)
           \/ deploySettlement \/ deployOracle \/ deployValidator \/ deployJob \/ deployVault
           \/ startArbiter \/ startMarket \/ preflight
    PROVE  FaultsPay'
<1>1. ASSUME NEW net, NEW todo, NEW only, begin, run(net, todo, only),
             UNCHANGED <<worldVars, named>>
      PROVE  FaultsPay'
  <2>1. PICK call : issue(op, call)
    BY <1>1 DEF run, deploy
  <2>2. opWire' = [at |-> "send", call |-> call, tries |-> 0] /\ UNCHANGED <<mempool, faults>>
    BY <2>1, OpTurns DEF issue
  <2>3. script.at = "idle" /\ script'.at = "deploy"
    BY <1>1, ScriptWays DEF begin, run
  <2> QED
    BY <1>1, <2>2, <2>3, BeginningStrandsNothing DEF worldVars
<1>2. ASSUME NEW only \in OnlyLists \cup {Range(PLAN)}, startMainnet(only) PROVE FaultsPay'
  BY <1>1, <1>2 DEF startMainnet
<1>3. CASE deploySettlement \/ deployOracle \/ deployValidator \/ deployJob \/ deployVault
  BY <1>1, <1>3 DEF startTestnet, deploySettlement, deployOracle, deployValidator, deployJob,
                    deployVault
<1>4. CASE startArbiter
  BY <1>1, <1>4 DEF startArbiter
<1>5. CASE startMarket
  <2>1. /\ script.at = "idle" /\ script'.at = "preflight"
        /\ UNCHANGED <<worldVars, callVars, named>>
    BY <1>5, ScriptWays DEF startMarket, begin
  <2>2. UNCHANGED <<contracts, mempool, faults, opWire>>
    BY <2>1 DEF worldVars, callVars, opWire
  <2>3. opWire'.at = "quiet"
    BY <2>1, <2>2 DEF DeployIInv, ScriptFits
  <2> QED
    BY <2>1, <2>2, <2>3, BeginningStrandsNothing
<1>6. CASE preflight
  <2>1. script.at = "preflight" /\ UNCHANGED <<worldVars, named>> /\ opWire.at = "quiet"
    BY <1>6 DEF preflight, DeployIInv, ScriptFits
  <2>2. CASE script' = Idle /\ UNCHANGED callVars
    <3>1. UNCHANGED <<contracts, mempool, faults, opWire>> /\ script'.at = "idle"
      BY <2>1, <2>2, ScriptWays DEF worldVars, callVars, opWire
    <3> QED
      BY <2>1, <3>1, BeginningStrandsNothing
  <2>3. CASE script'.at = "deploy" /\ \E call : issue(op, call)
    <3>1. PICK call : issue(op, call)
      BY <2>3
    <3>2. /\ opWire' = [at |-> "send", call |-> call, tries |-> 0]
          /\ UNCHANGED <<mempool, faults>>
      BY <3>1, OpTurns DEF issue
    <3> QED
      BY <2>1, <2>3, <3>2, BeginningStrandsNothing DEF worldVars
  <2>4. \/ script' = Idle /\ UNCHANGED callVars
        \/ script'.at = "deploy" /\ \E call : issue(op, call)
    BY <1>6 DEF preflight, deploy
  <2> QED
    BY <2>2, <2>3, <2>4
<1> QED
  BY <1>2, <1>3, <1>4, <1>5, <1>6

\* How the script goes on when what it waited for is there.
LEMMA GoOnIs ==
    ASSUME DeployIInv, goOn
    PROVE  /\ UNCHANGED <<mempool, faults>>
           /\ \/ script' = Idle /\ opWire'.at = "quiet"
              \/ script'.at = "deploy" /\ opWire'.at = "send"
<1>1. \/ script' = Idle /\ hangUp(op)
      \/ script'.at = "deploy" /\ \E call : issue(op, call)
  BY DEF goOn, deploy
<1>2. CASE script' = Idle /\ hangUp(op)
  <2>1. opWire' = Quiet /\ UNCHANGED <<mempool, faults>>
    BY <1>2, OpTurns DEF hangUp
  <2> QED
    BY <1>2, <2>1, WireWays
<1>3. CASE script'.at = "deploy" /\ \E call : issue(op, call)
  <2>1. PICK call : issue(op, call)
    BY <1>3
  <2>2. opWire' = [at |-> "send", call |-> call, tries |-> 0] /\ UNCHANGED <<mempool, faults>>
    BY <2>1, OpTurns DEF issue
  <2> QED
    BY <1>3, <2>2
<1> QED
  BY <1>1, <1>2, <1>3

\* A contract that gets its file is no orphan.
LEMMA DeployedOwes == ASSUME DeployIInv, FaultsPay, DeployIInv', deployed PROVE FaultsPay'
<1>1. /\ script.at = "deploy" /\ opWire.at = "ok" /\ goOn /\ UNCHANGED contracts
      /\ Head(script.todo) # "PredgeRefundArbiter" /\ named' = named \cup {opWire.log}
  BY DEF deployed, isDeployed, writeFile, worldVars, opWire
<1>2. /\ UNCHANGED <<mempool, faults>>
      /\ \/ script' = Idle /\ opWire'.at = "quiet"
         \/ script'.at = "deploy" /\ opWire'.at = "send"
  BY <1>1, GoOnIs
<1>3. /\ OneOperator /\ OneOperator' /\ Nowhere \notin DOMAIN contracts
      /\ (script.on \in named \/ script.on = Nowhere)
  BY <1>1, OnIsNamed, ContractIds DEF DeployIInv
<1>4. held(opWire, script) = {opWire.log, script.on}
  BY <1>1 DEF held
<1>5. orphans' \subseteq orphans
  BY <1>1, <1>3, <1>4, OrphansAre
<1>6. onItsWay = 0 /\ debt' = 0 /\ script'.at # "hand"
  BY <1>1, <1>2, ScriptWays DEF onItsWay, debt
<1> HIDE DEF orphans
<1> QED
  BY <1>2, <1>5, <1>6, NothingStrands

\* A mock stays in hand until its arbiter is there.
LEMMA MockOwes == ASSUME DeployIInv, FaultsPay, DeployIInv', mockDeployed PROVE FaultsPay'
<1> DEFINE a == opWire.log
           arbiter == <<"PredgeRefundArbiter">>
<1>1. /\ isDeployed({"MockRefundProtocol"}) /\ goOn /\ UNCHANGED <<contracts, named>>
      /\ script.at = "deploy" /\ opWire.at = "ok" /\ Head(script.todo) = "MockRefundProtocol"
      /\ DeployTypeOK /\ OneOperator /\ OneOperator' /\ FilesHold
  BY DEF mockDeployed, isDeployed, worldVars, opWire, DeployIInv
<1>2. /\ UNCHANGED <<mempool, faults>>
      /\ \/ script' = Idle /\ opWire'.at = "quiet"
         \/ script'.at = "deploy" /\ opWire'.at = "send"
  BY <1>1, GoOnIs
<1>3. script.on = Nowhere /\ Nowhere \notin DOMAIN contracts
  BY <1>1, ContractIds DEF DeployIInv, ScriptFits, DeploysOn
<1>4. script.todo = <<"MockRefundProtocol", "PredgeRefundArbiter">>
  <2>1. "MockRefundProtocol" \notin Range(PLAN)
    BY PlanIs
  <2>2. /\ Head(<<"ExampleMarket">>) = "ExampleMarket"
        /\ Head(<<"PredgeRefundArbiter">>) = "PredgeRefundArbiter"
    OBVIOUS
  <2>3. DeploysPlan /\ script.todo \in Seq(Kinds) /\ script.todo # <<>>
    BY <1>1, ScriptKinds DEF DeployIInv, ScriptFits, DeploysPlan, DeployTypeOK
  <2>4. Head(script.todo) \in Range(script.todo)
    BY <2>3, FirstOf
  <2> QED
    BY <1>1, <2>1, <2>2, <2>3, <2>4 DEF DeploysPlan
<1>5. script'.on = a /\ script'.at = "deploy"
  <2>1. built["MockRefundProtocol"] = a
    <3>1. script.summary \in [Kinds -> Addresses \cup {Nowhere}]
          /\ "MockRefundProtocol" \in Kinds
      BY <1>1, ScriptKinds, KindsAre DEF DeployTypeOK
    <3> QED
      BY <1>1, <3>1 DEF built, opWire
  <2>2. argsFor("PredgeRefundArbiter", built) = a /\ buildable("PredgeRefundArbiter", a)
    BY <2>1 DEF argsFor, buildable
  <2>3. Tail(script.todo) = arbiter /\ arbiter # <<>> /\ Head(arbiter) = "PredgeRefundArbiter"
    BY <1>4
  <2> HIDE DEF arbiter, a
  <2>4. goOn
    BY <1>1
  <2>5. script' = [at |-> "deploy", net |-> script.net, todo |-> arbiter, only |-> script.only,
                   summary |-> built, on |-> a]
    BY <2>2, <2>3, <2>4 DEF goOn
  <2> QED
    BY <2>5
<1>6. /\ held(opWire, script) = {a, script.on}
      /\ opWire'.at # "ok" => held(opWire', script') = {a}
  BY <1>1, <1>5 DEF held
<1>7. orphans' \subseteq orphans
  BY <1>1, <1>2, <1>3, <1>6, OrphansAre
<1>8. onItsWay = 0 /\ debt' = 0 /\ script'.at # "hand"
  BY <1>1, <1>2, <1>5, ScriptWays DEF onItsWay, debt
<1> HIDE DEF orphans
<1> QED
  BY <1>2, <1>7, <1>8, NothingStrands

\* Nobody has asked for the mock's seat, so asking for it is safe.
LEMMA ArbiterOwes == ASSUME DeployIInv, FaultsPay, DeployIInv', arbiterDeployed PROVE FaultsPay'
<1> DEFINE a == opWire.log
           mock == script.on
           call == [step |-> "setArbiter", on |-> mock, to |-> a]
<1>1. /\ script.at = "deploy" /\ opWire.at = "ok" /\ UNCHANGED <<contracts, seat, named>>
      /\ Head(script.todo) = "PredgeRefundArbiter" /\ issue(op, call)
      /\ script' = [at |-> "hand", mock |-> mock, arbiter |-> a]
      /\ OneOperator /\ OneOperator' /\ isFree(mock)
  BY DEF arbiterDeployed, isDeployed, worldVars, opWire, DeployIInv, ScriptFits, DeploysOn
<1>2. /\ opWire' = [at |-> "send", call |-> call, tries |-> 0]
      /\ UNCHANGED <<mempool, faults>>
  BY <1>1, OpTurns DEF issue
<1>3. held(opWire, script) = {a, mock} /\ held(opWire', script') = {a, mock}
  BY <1>1, <1>2 DEF held
<1>4. orphans' \subseteq orphans
  BY <1>1, <1>3, OrphansAre
<1>5. onItsWay = 0
  BY <1>1 DEF onItsWay
<1>6. debt' = 0
  <2>1. script'.at = "hand" /\ script'.mock = mock /\ opWire'.at = "send"
    BY <1>1, <1>2
  <2>2. PICK m : m = script.on
    OBVIOUS
  <2>3. seatIsSafe(m)'
    BY <1>1, <1>2, <2>1, <2>2 DEF seatIsSafe, isFree, handsOver
  <2>4. seatIsSafe(script.mock)'
    BY <2>1, <2>2, <2>3 DEF seatIsSafe
  <2> QED
    BY <2>1, <2>4 DEF debt
<1> HIDE DEF orphans
<1> QED
  BY <1>1, <1>2, <1>4, <1>5, <1>6, NothingStrands

\* The mock and its arbiter get their file.
LEMMA SeatOwes == ASSUME DeployIInv, FaultsPay, DeployIInv', seatHanded PROVE FaultsPay'
<1>1. /\ script.at = "hand" /\ opWire.at = "ok" /\ script' = Idle /\ hangUp(op)
      /\ named' = named \cup {script.arbiter, script.mock} /\ UNCHANGED contracts
      /\ opWire.log = script.arbiter /\ OneOperator /\ OneOperator'
  BY DEF seatHanded, opWire, worldVars, FaultsPay, DeployIInv
<1>2. opWire' = Quiet /\ opWire'.at = "quiet" /\ UNCHANGED <<mempool, faults>>
  BY <1>1, OpTurns, WireWays DEF hangUp
<1>3. held(opWire, script) = {script.arbiter, script.mock}
  BY <1>1 DEF held
<1>4. orphans' \subseteq orphans
  BY <1>1, <1>3, OrphansAre
<1>5. onItsWay = 0 /\ debt' = 0 /\ script'.at # "hand"
  BY <1>1, <1>2, ScriptWays DEF onItsWay, debt
<1> HIDE DEF orphans
<1> QED
  BY <1>2, <1>4, <1>5, NothingStrands

\* The script dies: with a fault, or for a call that was refused.
LEMMA DeathOwes == ASSUME DeployIInv, FaultsPay, DeployIInv', scriptDies PROVE FaultsPay'
<1>1. /\ script # Idle /\ script' = Idle /\ UNCHANGED <<contracts, named>>
      /\ \/ crash(op)
         \/ opWire.at = "thrown" /\ hangUp(op)
      /\ OneOperator /\ OneOperator' /\ DeployTypeOK /\ DeployTypeOK'
  BY DEF scriptDies, worldVars, opWire, DeployIInv
<1>2. /\ opWire' = Quiet /\ opWire'.at = "quiet" /\ UNCHANGED mempool
      /\ \/ faults' = faults + 1
         \/ faults' = faults /\ opWire.at = "thrown"
  BY <1>1, OpTurns, WireWays DEF hangUp, crash, fault
<1>3. /\ script'.at = "idle" /\ held(opWire', script') = {}
      /\ onItsWay' = 0 /\ debt' = 0 /\ deploysIn(mempool)' = deploysIn(mempool)
  BY <1>1, <1>2, ScriptWays DEF held, onItsWay, debt, deploysIn
<1>4. /\ orphans = (DOMAIN contracts \ named) \ held(opWire, script)
      /\ orphans' = DOMAIN contracts \ named
  BY <1>1, <1>3, OrphansAre
<1>5. script.at \in {"deploy", "preflight", "hand"} /\ opWire \in DeployWires
  BY <1>1, ScriptKinds, OpIsClient DEF DeployTypeOK, DeployWires, AllCalls, opWire
<1>6. Nowhere \notin DOMAIN contracts
  BY <1>1, ContractIds
<1>7. /\ IsFiniteSet(orphans) /\ Cardinality(orphans) \in Nat
      /\ IsFiniteSet(orphans') /\ Cardinality(orphans') \in Nat
      /\ Cardinality(deploysIn(mempool)) \in Nat
      /\ faults \in Nat /\ onItsWay \in 0 .. 1 /\ debt \in 0 .. 2
  BY <1>1, LedgerCounts
<1>8. Cardinality(orphans) + Cardinality(deploysIn(mempool)) - onItsWay + debt <= 2 * faults
  BY DEF FaultsPay
<1>9. \/ /\ Cardinality(orphans') <= Cardinality(orphans) + 2 /\ onItsWay = 0
         /\ opWire.at = "thrown" => debt = 2
      \/ /\ Cardinality(orphans') <= Cardinality(orphans) + 1
         /\ opWire.at = "thrown" => debt = 1
      \/ Cardinality(orphans') <= Cardinality(orphans)
  <2>1. CASE script.at = "preflight"
    <3>1. held(opWire, script) = {}
      BY <2>1 DEF held, DeployIInv, ScriptFits
    <3>2. orphans' = orphans
      BY <1>4, <3>1
    <3> HIDE DEF orphans
    <3> QED
      BY <1>7, <3>2
  <2>2. CASE script.at = "hand"
    <3>1. held(opWire, script) = {script.mock, script.arbiter}
      BY <2>2 DEF held, FaultsPay
    <3>2. orphans' \subseteq orphans \cup {script.mock, script.arbiter}
      BY <1>4, <3>1
    <3>3. onItsWay = 0
      BY <2>2 DEF onItsWay, DeployIInv, ScriptFits, HandsSeat
    <3>4. opWire.at = "thrown" => debt = 2
      BY <2>2 DEF debt, seatIsSafe
    <3> HIDE DEF orphans
    <3>5. Cardinality(orphans') <= Cardinality(orphans) + 2
      BY <1>7, <3>2, AtMostMore
    <3> QED
      BY <3>3, <3>4, <3>5
  <2>3. CASE script.at = "deploy" /\ opWire.at = "ok"
    <3>1. held(opWire, script) = {opWire.log, script.on}
      BY <2>3 DEF held
    <3>2. orphans' \subseteq orphans \cup {opWire.log, script.on}
      BY <1>4, <3>1
    <3>3. onItsWay = 0
      BY <2>3 DEF onItsWay
    <3> HIDE DEF orphans
    <3>4. Cardinality(orphans') <= Cardinality(orphans) + 2
      BY <1>7, <3>2, AtMostMore
    <3> QED
      BY <2>3, <3>3, <3>4
  <2>4. CASE script.at = "deploy" /\ opWire.at # "ok"
    <3>1. held(opWire, script) = {script.on}
      BY <2>4 DEF held
    <3>2. CASE Head(script.todo) = "PredgeRefundArbiter"
      <4>1. orphans' \subseteq orphans \cup {script.on, script.on}
        BY <1>4, <3>1
      <4>2. opWire.at = "thrown" => debt = 1
        BY <2>4, <3>2 DEF debt
      <4> HIDE DEF orphans
      <4>3. Cardinality(orphans') <= Cardinality(orphans) + 1
        BY <1>7, <4>1, AtMostMore
      <4> QED
        BY <4>2, <4>3
    <3>3. CASE Head(script.todo) # "PredgeRefundArbiter"
      <4>1. script.on \in named \/ script.on = Nowhere
        BY <2>4, <3>3, OnIsNamed
      <4>2. orphans' \subseteq orphans
        BY <1>4, <1>6, <3>1, <4>1
      <4> HIDE DEF orphans
      <4>3. Cardinality(orphans') <= Cardinality(orphans)
        BY <1>7, <4>2, FS_Subset
      <4> QED
        BY <4>3
    <3> QED
      BY <3>2, <3>3
  <2> QED
    BY <1>5, <2>1, <2>2, <2>3, <2>4
<1>10. opWire.at = "thrown" => onItsWay = 0
  BY DEF onItsWay
<1> HIDE DEF orphans, deploysIn, onItsWay, debt
<1>11. Cardinality(orphans') + Cardinality(deploysIn(mempool)) - onItsWay' + debt' <= 2 * faults'
  BY <1>2, <1>3, <1>7, <1>8, <1>9, <1>10
<1> QED
  BY <1>3, <1>11 DEF FaultsPay

\* A deployment leaves the mempool for the orphans, or for the hands of the script.
LEMMA LedgerBalances ==
    ASSUME NEW o \in Nat, NEW o2 \in Nat, NEW s \in Nat, NEW s2 \in Nat,
           NEW w \in 0 .. 1, NEW w2 \in 0 .. 1, NEW d \in 0 .. 2, NEW d2 \in 0 .. 2,
           NEW f \in Nat, NEW x, NEW y \in 0 .. 1, NEW z \in 0 .. 1,
           x = y + z, s2 <= s - x, o2 <= o + y, w2 = w - z, d2 <= d,
           o + s - w + d <= 2 * f
    PROVE  o2 + s2 - w2 + d2 <= 2 * f
OBVIOUS

\* A call is mined: one that nobody waits for strands what it builds.
LEMMA MineOwes ==
    ASSUME DeployIInv, FaultsPay, DeployIInv', NEW i \in DOMAIN mempool, mine(i)
    PROVE  FaultsPay'
<1> DEFINE first == mempool[1]
           c == first.call
           waits == first.answered /\ opWire = [at |-> "wait", call |-> c]
           builds == c.step = "deploy"
           n == Len(contracts) + 1
<1>0. /\ DeployTypeOK /\ DeployTypeOK' /\ OneOperator /\ OneOperator'
      /\ contracts \in Seq(Contracts) /\ mempool \in Seq(Accepted(AllCalls))
      /\ wire \in [Clients -> DeployWires] /\ opWire \in DeployWires
      /\ script \in ScriptStates /\ seat \in [Addresses -> Addresses \cup {Nowhere}]
  BY OpIsClient DEF DeployIInv, DeployTypeOK, DeployWires, AllCalls, Contracts, opWire
<1>1. /\ 1 \in DOMAIN mempool /\ c \in AllCalls /\ DOMAIN mempool = 1 .. Len(mempool)
      /\ Len(mempool) \in Nat
  BY <1>0, MineEnds, ContractIds
<1>2. PICK o \in DeployWires : endsAs(c, o) /\ mined(1, o) /\ o.at \in {"ok", "thrown"}
  BY <1>0, MineEnds
<1>3. /\ mempool' \in Seq(Accepted(AllCalls)) /\ DOMAIN mempool' = 1 .. Len(mempool) - 1
      /\ \A k \in DOMAIN mempool' : k + 1 \in DOMAIN mempool /\ mempool'[k] = mempool[k + 1]
      /\ IF waits THEN hear(op, o) ELSE UNCHANGED wire
      /\ UNCHANGED faults
  BY <1>0, <1>1, <1>2, MinedIs
<1>4. UNCHANGED <<script, named, file>>
  BY DEF mine, operatorVars
<1>5. IF waits THEN opWire' = o ELSE opWire' = opWire
  BY <1>3, OpTurns DEF opWire
<1>6. /\ o.at = "ok" /\ builds => o.log = n
      /\ o.at = "ok" /\ c.step = "setArbiter" => o.log = c.to
      /\ contracts' # contracts =>
            o.at = "ok" /\ builds /\ contracts' = Append(contracts, builtBy(c))
      /\ o.at = "thrown" => ~accepts(c) /\ UNCHANGED <<contracts, seat>>
      /\ \/ UNCHANGED seat
         \/ c.step = "setArbiter" /\ seat' = [seat EXCEPT ![c.on] = c.to]
  BY <1>2 DEF endsAs
<1>7. waits => opWire.at = "wait" /\ opWire.call = c
  OBVIOUS
<1>8. c.step = "setArbiter" => c.on \in Addresses
  BY <1>1, DeployCalls
<1>9. Cardinality(deploysIn(mempool'))
        <= Cardinality(deploysIn(mempool)) - (IF builds THEN 1 ELSE 0)
  <2> DEFINE S == Accepted(AllCalls)
  <2>1. mempool \in Seq(S) /\ mempool' \in Seq(S)
    BY <1>0, <1>3
  <2> HIDE DEF S
  <2> QED
    BY <1>1, <1>3, <2>1, DeploysLeft
<1> HIDE DEF c, first, waits, builds, n
<1>10. /\ IsFiniteSet(orphans) /\ Cardinality(orphans) \in Nat
       /\ IsFiniteSet(orphans') /\ Cardinality(orphans') \in Nat
       /\ Cardinality(deploysIn(mempool)) \in Nat /\ Cardinality(deploysIn(mempool')) \in Nat
       /\ faults \in Nat /\ onItsWay \in 0 .. 1 /\ onItsWay' \in 0 .. 1
       /\ debt \in 0 .. 2 /\ debt' \in 0 .. 2
  BY <1>0, LedgerCounts
<1>11. Cardinality(orphans') <= Cardinality(orphans) + (IF builds /\ ~waits THEN 1 ELSE 0)
  <2>1. /\ orphans = (DOMAIN contracts \ named) \ held(opWire, script)
        /\ orphans' = (DOMAIN contracts' \ named) \ held(opWire', script)
    BY <1>0, <1>4, OrphansAre
  <2>2. DOMAIN contracts' \subseteq DOMAIN contracts \cup {n}
        /\ (~builds => DOMAIN contracts' = DOMAIN contracts)
    <3>1. CASE contracts' = contracts
      BY <3>1
    <3>2. CASE contracts' # contracts
      <4>1. builds /\ contracts' = Append(contracts, builtBy(c))
        BY <1>6, <3>2
      <4>2. DOMAIN contracts' = 1 .. Len(contracts')
            /\ Len(contracts') = Len(contracts) + 1 /\ Len(contracts) \in Nat
        BY <1>0, <1>1, <4>1, BuiltIs DEF builds
      <4>3. DOMAIN contracts = 1 .. Len(contracts)
        BY <1>0
      <4> QED
        BY <4>1, <4>2, <4>3 DEF n
    <3> QED
      BY <3>1, <3>2
  <2>3. held(opWire, script) \subseteq held(opWire', script)
    <3>1. waits => opWire.at # "ok"
      BY <1>7
    <3> QED
      BY <1>5, <3>1 DEF held
  <2>4. builds /\ waits /\ o.at = "ok" => n \in held(opWire', script)
    BY <1>5, <1>6 DEF held
  <2>5. builds /\ waits /\ o.at # "ok" => contracts' = contracts
    BY <1>6
  <2>6. ~(builds /\ ~waits) => orphans' \subseteq orphans
    BY <2>1, <2>2, <2>3, <2>4, <2>5
  <2>7. orphans' \subseteq orphans \cup {n, n}
    BY <2>1, <2>2, <2>3
  <2> HIDE DEF orphans
  <2>8. Cardinality(orphans') <= Cardinality(orphans) + 1
    BY <1>10, <2>7, AtMostMore
  <2>9. orphans' \subseteq orphans => Cardinality(orphans') <= Cardinality(orphans)
    BY <1>10, FS_Subset
  <2> QED
    BY <1>10, <2>6, <2>8, <2>9
<1>12. onItsWay' = onItsWay - (IF builds /\ waits THEN 1 ELSE 0)
  <2>1. CASE waits
    <3>1. opWire'.at # "wait" /\ opWire.at = "wait" /\ opWire.call = c
      BY <1>2, <1>5, <1>7, <2>1
    <3> QED
      BY <2>1, <3>1 DEF onItsWay, builds
  <2>2. CASE ~waits
    BY <1>5, <2>2 DEF onItsWay
  <2> QED
    BY <2>1, <2>2
<1>13. debt' <= debt
  <2>1. CASE script.at = "hand"
    <3>0. HandsSeat /\ script.mock \in Addresses
      BY <1>0, <2>1, ScriptKinds DEF DeployIInv, ScriptFits
    <3> DEFINE its == [step |-> "setArbiter", on |-> script.mock, to |-> script.arbiter]
    <3>1. ASSUME opWire'.at # "ok" PROVE opWire.at # "ok"
      BY <1>5, <1>7, <3>1
    <3>2. ASSUME opWire'.at # "ok", seatIsSafe(script.mock) PROVE seatIsSafe(script.mock)'
      <4>1. /\ opWire.at \in {"send", "wait"} /\ opWire.call = its
            /\ seat[script.mock] = Nowhere
        BY <3>0, <3>2 DEF seatIsSafe, HandsSeat
      <4>2. ~waits
        <5> SUFFICES ASSUME waits PROVE FALSE
          OBVIOUS
        <5>1. o.at = "thrown" /\ c = its
          BY <1>2, <1>5, <1>7, <3>2, <4>1
        <5>2. ~accepts(its)
          BY <1>6, <5>1
        <5> QED
          BY <4>1, <5>2 DEF accepts
      <4>3. ~handsOver(first, script.mock)
        <5> SUFFICES ASSUME handsOver(mempool[1], script.mock) PROVE FALSE
          BY DEF first
        <5>1. opWire.at = "wait"
          BY <1>1, <3>2, <4>1 DEF seatIsSafe
        <5>2. PICK j \in DOMAIN mempool : mempool[j].answered /\ mempool[j].call = opWire.call
          BY <1>0, <5>1 DEF OneOperator
        <5>3. handsOver(mempool[j], script.mock)
          BY <4>1, <5>2 DEF handsOver
        <5>4. j = 1
          BY <1>1, <3>2, <5>3 DEF seatIsSafe
        <5>5. opWire = [at |-> "wait", call |-> opWire.call]
          BY <1>0, <5>1 DEF DeployWires, WireStates, Quiet
        <5> QED
          BY <4>2, <5>2, <5>4, <5>5 DEF waits, first, c
      <4>4. seat'[script.mock] = Nowhere
        <5>1. ~(c.step = "setArbiter" /\ c.on = script.mock)
          BY <4>3 DEF handsOver, c
        <5> QED
          BY <1>0, <1>6, <3>0, <4>1, <5>1
      <4>5. opWire' = opWire
        BY <1>5, <4>2
      <4>6. ASSUME NEW k \in DOMAIN mempool', NEW l \in DOMAIN mempool',
                   handsOver(mempool'[k], script.mock), handsOver(mempool'[l], script.mock)
            PROVE  k = l
        <5>1. /\ k + 1 \in DOMAIN mempool /\ mempool'[k] = mempool[k + 1] /\ k \in Nat
              /\ l + 1 \in DOMAIN mempool /\ mempool'[l] = mempool[l + 1] /\ l \in Nat
          BY <1>3
        <5>2. k + 1 = l + 1
          BY <3>2, <4>6, <5>1 DEF seatIsSafe
        <5> QED
          BY <5>1, <5>2
      <4>7. ASSUME opWire'.at = "send", NEW k \in DOMAIN mempool'
            PROVE  ~handsOver(mempool'[k], script.mock)
        BY <1>3, <3>2, <4>5, <4>7 DEF seatIsSafe
      <4>8. PICK m : m = script.mock
        OBVIOUS
      <4>9. seatIsSafe(m)'
        BY <4>1, <4>4, <4>5, <4>6, <4>7, <4>8 DEF seatIsSafe, handsOver
      <4> QED
        BY <1>4, <4>8, <4>9 DEF seatIsSafe
    <3> HIDE DEF seatIsSafe
    <3> QED
      BY <1>4, <1>10, <2>1, <3>1, <3>2 DEF debt
  <2>2. CASE script.at = "deploy"
    <3>1. ASSUME opWire'.at = "thrown", Head(script.todo) = "PredgeRefundArbiter"
          PROVE  opWire.at = "thrown"
      <4> SUFFICES ASSUME waits PROVE FALSE
        BY <1>5, <3>1
      <4>1. /\ o.at = "thrown" /\ c.step = "deploy" /\ c.kind = "PredgeRefundArbiter"
        BY <1>5, <1>7, <2>2, <3>1 DEF DeployIInv, ScriptFits, DeploysKind
      <4> QED
        BY <1>6, <4>1 DEF accepts
    <3> QED
      BY <1>4, <2>2, <3>1 DEF debt
  <2>3. CASE script.at \notin {"hand", "deploy"}
    BY <1>4, <2>3 DEF debt
  <2> QED
    BY <2>1, <2>2, <2>3
<1>14. script'.at = "hand" /\ opWire'.at = "ok" => opWire'.log = script'.arbiter
  <2> SUFFICES ASSUME script.at = "hand", opWire'.at = "ok" PROVE opWire'.log = script.arbiter
    BY <1>4
  <2>1. CASE waits
    <3>1. c = [step |-> "setArbiter", on |-> script.mock, to |-> script.arbiter]
      BY <1>7, <2>1 DEF DeployIInv, ScriptFits, HandsSeat
    <3> QED
      BY <1>5, <1>6, <2>1, <3>1
  <2>2. CASE ~waits
    BY <1>5, <2>2 DEF FaultsPay
  <2> QED
    BY <2>1, <2>2
<1>15. Cardinality(orphans) + Cardinality(deploysIn(mempool)) - onItsWay + debt <= 2 * faults
  BY DEF FaultsPay
<1> DEFINE x == IF builds THEN 1 ELSE 0
           y == IF builds /\ ~waits THEN 1 ELSE 0
           z == IF builds /\ waits THEN 1 ELSE 0
<1>a. x = y + z /\ x \in 0 .. 1 /\ y \in 0 .. 1 /\ z \in 0 .. 1
  OBVIOUS
<1> HIDE DEF orphans, deploysIn, onItsWay, debt
<1>b. /\ Cardinality(deploysIn(mempool')) <= Cardinality(deploysIn(mempool)) - x
      /\ Cardinality(orphans') <= Cardinality(orphans) + y
      /\ onItsWay' = onItsWay - z
  BY <1>9, <1>11, <1>12
<1> HIDE DEF x, y, z
<1>16. Cardinality(orphans') + Cardinality(deploysIn(mempool')) - onItsWay' + debt'
         <= 2 * faults'
  BY <1>3, <1>10, <1>13, <1>15, <1>a, <1>b, LedgerBalances
<1>17. deploysIn(mempool)' = deploysIn(mempool')
  BY DEF deploysIn
<1> QED
  BY <1>14, <1>16, <1>17 DEF FaultsPay

\* A try adds its call to the ledger with a receipt to wait for, or with a fault.
LEMMA SendOwes == ASSUME DeployIInv, FaultsPay, DeployIInv', Send PROVE FaultsPay'
<1> DEFINE c == opWire.call
           ok == accepts(c)
           x == IF c.step = "deploy" THEN 1 ELSE 0
           entry(b) == [by |-> op, call |-> c, answered |-> b]
<1>0. /\ DeployTypeOK /\ DeployTypeOK' /\ OneOperator /\ OneOperator' /\ opWire.at = "send"
      /\ mempool \in Seq(Accepted(AllCalls)) /\ op \in Clients
      /\ script \in ScriptStates /\ c \in AllCalls
      /\ UNCHANGED <<contracts, seat, named, script>>
      /\ send(op, ok) \/ loseAnswer(op, ok)
  BY SendIs, OpIsClient
     DEF DeployIInv, DeployTypeOK, AllCalls, Send, worldVars, operatorVars, opWire
<1>1. /\ IsFiniteSet(orphans) /\ Cardinality(orphans) \in Nat
      /\ Cardinality(deploysIn(mempool)) \in Nat /\ Cardinality(deploysIn(mempool')) \in Nat
      /\ faults \in Nat /\ onItsWay' \in 0 .. 1 /\ debt \in 0 .. 2 /\ debt' \in 0 .. 2
      /\ Cardinality(orphans') \in Nat
  BY <1>0, LedgerCounts
<1>2. onItsWay = 0 /\ x \in 0 .. 1
  BY <1>0 DEF onItsWay
<1>3. \/ /\ ok /\ accept(op, TRUE) /\ opWire' = [at |-> "wait", call |-> c]
         /\ UNCHANGED faults
      \/ ~ok /\ UNCHANGED <<mempool, faults>> /\ opWire'.at = "thrown"
      \/ /\ UNCHANGED mempool \/ accept(op, FALSE)
         /\ faults' = faults + 1 /\ opWire'.at # "ok" /\ opWire'.at # "wait"
  <2>1. CASE send(op, ok)
    <3>1. \/ /\ ok /\ accept(op, TRUE) /\ UNCHANGED faults
             /\ hear(op, [at |-> "wait", call |-> c])
          \/ ~ok /\ UNCHANGED <<mempool, faults>> /\ hear(op, [at |-> "thrown"])
      BY <2>1 DEF send, opWire
    <3>2. /\ hear(op, [at |-> "wait", call |-> c]) => opWire' = [at |-> "wait", call |-> c]
          /\ hear(op, [at |-> "thrown"]) => opWire' = [at |-> "thrown"]
      BY OpTurns
    <3> HIDE DEF ok
    <3>3. opWire' = [at |-> "thrown"] => opWire'.at = "thrown"
      OBVIOUS
    <3> QED
      BY <3>1, <3>2, <3>3
  <2>2. CASE loseAnswer(op, ok)
    <3> DEFINE w == [opWire EXCEPT !.tries = @ + 1]
               s == IF opWire.tries + 1 < MaxTries THEN w ELSE [at |-> "thrown"]
    <3>1. /\ UNCHANGED mempool \/ accept(op, FALSE)
          /\ faults' = faults + 1 /\ hear(op, s)
      BY <2>2 DEF loseAnswer, fault, opWire
    <3>2. w.at = "send"
      <4>1. opWire \in DeployWires
        BY <1>0 DEF DeployTypeOK, DeployWires, AllCalls, opWire
      <4>2. opWire = [at |-> "send", call |-> opWire.call, tries |-> opWire.tries]
        BY <1>0, <4>1 DEF DeployWires, WireStates, Quiet
      <4> QED
        BY <4>2
    <3> HIDE DEF w
    <3>3. s.at # "ok" /\ s.at # "wait"
      BY <3>2
    <3> HIDE DEF s
    <3> QED
      BY <3>1, <3>3, OpTurns
  <2> QED
    BY <1>0, <2>1, <2>2
<1>4. opWire'.at # "ok"
  <2>1. opWire' = [at |-> "wait", call |-> c] => opWire'.at = "wait"
    OBVIOUS
  <2> HIDE DEF ok, c
  <2> QED
    BY <1>3, <2>1
<1>5. Cardinality(orphans') <= Cardinality(orphans)
  <2>1. held(opWire', script') = held(opWire, script)
    BY <1>0, <1>4 DEF held
  <2>2. orphans' = orphans
    BY <1>0, <2>1, OrphansAre
  <2> QED
    BY <1>1, <2>2
<1>6. /\ accept(op, TRUE) => mempool' = Append(mempool, entry(TRUE))
      /\ accept(op, FALSE) => mempool' = Append(mempool, entry(FALSE))
      /\ entry(TRUE) \in Accepted(AllCalls) /\ entry(FALSE) \in Accepted(AllCalls)
      /\ entry(TRUE).call = c /\ entry(FALSE).call = c
  BY <1>0 DEF accept, opWire, Accepted
<1>7. ASSUME accept(op, TRUE) \/ accept(op, FALSE)
      PROVE  Cardinality(deploysIn(mempool')) <= Cardinality(deploysIn(mempool)) + x
  <2>1. PICK e \in Accepted(AllCalls) : mempool' = Append(mempool, e) /\ e.call = c
    BY <1>6, <1>7
  <2> DEFINE S == Accepted(AllCalls)
  <2>2. mempool \in Seq(S) /\ e \in S
    BY <1>0
  <2> HIDE DEF S
  <2>3. Cardinality(deploysIn(Append(mempool, e)))
          <= Cardinality(deploysIn(mempool)) + (IF e.call.step = "deploy" THEN 1 ELSE 0)
    BY <2>2, DeploysMore
  <2> QED
    BY <2>1, <2>3
<1>8. /\ script.at = "deploy" => c.step = "deploy" /\ c.kind = Head(script.todo)
      /\ script.at = "hand" =>
            /\ c = [step |-> "setArbiter", on |-> script.mock, to |-> script.arbiter]
            /\ script.mock \in Addresses
      /\ script.at = "deploy" \/ script.at = "hand"
  BY <1>0, ScriptKinds DEF DeployIInv, ScriptFits, DeploysKind, HandsSeat
<1>9. script'.at = "hand" /\ opWire'.at = "ok" => opWire'.log = script'.arbiter
  BY <1>4
<1>10. Cardinality(orphans) + Cardinality(deploysIn(mempool)) + debt <= 2 * faults
  BY <1>1, <1>2 DEF FaultsPay
<1>11. deploysIn(mempool)' = deploysIn(mempool')
  BY DEF deploysIn
<1> HIDE DEF ok
<1>12. ASSUME accept(op, TRUE), opWire' = [at |-> "wait", call |-> c], UNCHANGED faults
       PROVE  Cardinality(deploysIn(mempool')) - onItsWay' + debt'
                <= Cardinality(deploysIn(mempool)) + debt + 2 * faults' - 2 * faults
  <2>1. onItsWay' = x
    BY <1>12 DEF onItsWay
  <2>2. debt' <= debt
    <3>1. CASE script.at = "deploy"
      BY <1>0, <1>1, <1>12, <3>1 DEF debt
    <3>2. CASE script.at = "hand"
      <4>1. ASSUME seatIsSafe(script.mock) PROVE seatIsSafe(script.mock)'
        <5>1. /\ seat[script.mock] = Nowhere
              /\ \A i \in DOMAIN mempool : ~handsOver(mempool[i], script.mock)
          BY <1>0, <4>1 DEF seatIsSafe
        <5>2. \A i \in DOMAIN mempool' :
                 handsOver(mempool'[i], script.mock) => i = Len(mempool) + 1
          <6> DEFINE S == Accepted(AllCalls)
          <6>1. PICK e \in S : mempool \in Seq(S) /\ mempool' = Append(mempool, e)
            BY <1>0, <1>6, <1>12
          <6> HIDE DEF S
          <6>2. /\ DOMAIN mempool' = 1 .. Len(mempool) + 1
                /\ \A i \in DOMAIN mempool : mempool'[i] = mempool[i]
                /\ DOMAIN mempool = 1 .. Len(mempool) /\ Len(mempool) \in Nat
            BY <6>1, AppendedIs
          <6>3. \A i \in DOMAIN mempool' : i = Len(mempool) + 1 \/ i \in DOMAIN mempool
            BY <6>2
          <6> QED
            BY <5>1, <6>2, <6>3
        <5>3. PICK m : m = script.mock
          OBVIOUS
        <5>4. seatIsSafe(m)'
          BY <1>0, <1>12, <5>1, <5>2, <5>3 DEF seatIsSafe, handsOver
        <5> QED
          BY <1>0, <5>3, <5>4 DEF seatIsSafe
      <4> HIDE DEF seatIsSafe
      <4> QED
        BY <1>0, <1>1, <1>4, <3>2, <4>1 DEF debt
    <3> QED
      BY <1>8, <3>1, <3>2
  <2>3. Cardinality(deploysIn(mempool')) <= Cardinality(deploysIn(mempool)) + x
    BY <1>7, <1>12
  <2> HIDE DEF x, deploysIn, debt, onItsWay
  <2> QED
    BY <1>1, <1>2, <1>12, <2>1, <2>2, <2>3
<1>13. ASSUME ~ok, UNCHANGED <<mempool, faults>>, opWire'.at = "thrown"
       PROVE  Cardinality(deploysIn(mempool')) - onItsWay' + debt'
                <= Cardinality(deploysIn(mempool)) + debt + 2 * faults' - 2 * faults
  <2>1. debt' <= debt
    <3>1. CASE script.at = "deploy"
      <4>1. Head(script.todo) = "ExampleMarket"
        BY <1>8, <1>13, <3>1 DEF ok, accepts
      <4> QED
        BY <1>0, <1>1, <3>1, <4>1 DEF debt
    <3>2. CASE script.at = "hand"
      <4>1. c.step = "setArbiter" /\ c.on = script.mock
        BY <1>8, <3>2
      <4>2. seat[script.mock] # Nowhere
        BY <1>13, <4>1 DEF ok, accepts
      <4>3. debt = 2
        BY <1>0, <3>2, <4>2 DEF debt, seatIsSafe
      <4> QED
        BY <1>1, <4>3
    <3> QED
      BY <1>8, <3>1, <3>2
  <2>2. onItsWay' = 0 /\ Cardinality(deploysIn(mempool')) = Cardinality(deploysIn(mempool))
    BY <1>13 DEF onItsWay
  <2> HIDE DEF deploysIn, debt, onItsWay
  <2> QED
    BY <1>1, <1>13, <2>1, <2>2
<1>14. ASSUME UNCHANGED mempool \/ accept(op, FALSE), faults' = faults + 1,
              opWire'.at # "ok", opWire'.at # "wait"
       PROVE  Cardinality(deploysIn(mempool')) - onItsWay' + debt'
                <= Cardinality(deploysIn(mempool)) + debt + 2 * faults' - 2 * faults
  <2>1. onItsWay' = 0
    BY <1>14 DEF onItsWay
  <2>2. Cardinality(deploysIn(mempool')) <= Cardinality(deploysIn(mempool)) + x
    <3>1. CASE mempool' = mempool
      BY <1>1, <1>2, <3>1
    <3> QED
      BY <1>7, <1>14, <3>1
  <2>3. x + debt' <= 2
    <3>1. CASE script.at = "deploy"
      BY <1>0, <3>1 DEF debt
    <3>2. CASE script.at = "hand"
      <4>1. x = 0
        BY <1>8, <3>2
      <4> QED
        BY <1>1, <4>1
    <3> QED
      BY <1>8, <3>1, <3>2
  <2>4. 2 * faults' - 2 * faults = 2
    BY <1>1, <1>14
  <2> HIDE DEF c, entry, x, deploysIn, debt, onItsWay
  <2>5. Cardinality(deploysIn(mempool')) - onItsWay' + debt'
          <= Cardinality(deploysIn(mempool)) + debt + 2
    <3>1. PICK a \in Nat, b \in Nat, d \in 0 .. 2, e \in 0 .. 2, y \in 0 .. 1 :
             /\ a = Cardinality(deploysIn(mempool)) /\ b = Cardinality(deploysIn(mempool'))
             /\ d = debt /\ e = debt' /\ y = x
      BY <1>1, <1>2
    <3>2. b <= a + y /\ y + e <= 2
      BY <2>2, <2>3, <3>1
    <3>3. b - 0 + e <= a + d + 2
      BY <3>2
    <3> QED
      BY <2>1, <3>1, <3>3
  <2>6. faults' \in Nat
    BY <1>1, <1>14
  <2> QED
    BY <1>1, <2>4, <2>5, <2>6
<1>15. Cardinality(deploysIn(mempool')) - onItsWay' + debt'
         <= Cardinality(deploysIn(mempool)) + debt + 2 * faults' - 2 * faults
  BY <1>3, <1>12, <1>13, <1>14
<1>16. faults' \in Nat
  BY <1>0, LedgerCounts
<1> HIDE DEF orphans, deploysIn, onItsWay, debt
<1>17. Cardinality(orphans') + Cardinality(deploysIn(mempool')) - onItsWay' + debt'
         <= 2 * faults'
  BY <1>1, <1>5, <1>10, <1>15, <1>16
<1> QED
  BY <1>9, <1>11, <1>17 DEF FaultsPay

\* Markets and time are no business of the ledger's.
LEMMA IdleOwes ==
    ASSUME FaultsPay, UNCHANGED <<contracts, seat, wire, mempool, faults, script, named>>
    PROVE  FaultsPay'
BY DEF FaultsPay, orphans, inHand, deploysIn, onItsWay, debt, seatIsSafe, handsOver, opWire

\* The ledger begins empty.
LEMMA FaultsPayInit == DeployInit => FaultsPay
<1> SUFFICES ASSUME DeployInit PROVE FaultsPay
  OBVIOUS
<1>1. /\ contracts = <<>> /\ mempool = <<>> /\ faults = 0
      /\ script.at = "idle" /\ opWire.at = "quiet"
  BY OpIsClient, WireWays, ScriptWays DEF DeployInit, CallInit, opWire
<1>2. orphans = {} /\ deploysIn(mempool) = {} /\ onItsWay = 0 /\ debt = 0
  BY <1>1 DEF orphans, deploysIn, onItsWay, debt
<1>3. Cardinality(orphans) = 0 /\ Cardinality(deploysIn(mempool)) = 0
  BY <1>2, FS_EmptySet
<1> HIDE DEF orphans, deploysIn, onItsWay, debt
<1>4. Cardinality(orphans) + Cardinality(deploysIn(mempool)) - onItsWay + debt <= 2 * faults
  BY <1>1, <1>2, <1>3
<1> QED
  BY <1>1, <1>4 DEF FaultsPay

\* Every step keeps the ledger.
LEMMA FaultsPayStep ==
    ASSUME DeployIInv, FaultsPay, DeployIInv', [DeployNext]_deployVars PROVE FaultsPay'
<1>1. CASE \/ \E only \in OnlyLists \cup {Range(PLAN)} : startMainnet(only)
           \/ deploySettlement \/ deployOracle \/ deployValidator \/ deployJob \/ deployVault
           \/ startArbiter \/ startMarket \/ preflight
  BY <1>1, BeginningOwes
<1>2. CASE deployed \/ mockDeployed \/ arbiterDeployed \/ seatHanded \/ scriptDies
  BY <1>2, DeployedOwes, MockOwes, ArbiterOwes, SeatOwes, DeathOwes
<1>3. CASE Send \/ \E i \in DOMAIN mempool : mine(i)
  BY <1>3, SendOwes, MineOwes
<1>4. CASE (\E a \in Addresses : publish(a)) \/ passTime \/ UNCHANGED deployVars
  <2>1. UNCHANGED <<contracts, seat, callVars, operatorVars>>
    BY <1>4 DEF publish, passTime, deployVars, worldVars
  <2> QED
    BY <2>1, IdleOwes DEF callVars, operatorVars
<1> QED
  BY <1>1, <1>2, <1>3, <1>4 DEF DeployNext

\* A call waited for is in the mempool, so the ledger never counts below the orphans.
LEMMA LedgerBounds == DeployIInv /\ FaultsPay => OrphansHaveACause
<1> SUFFICES ASSUME DeployIInv, FaultsPay PROVE OrphansHaveACause
  OBVIOUS
<1>1. /\ contracts \in Seq(Contracts) /\ mempool \in Seq(Accepted(AllCalls)) /\ faults \in Nat
      /\ OneOperator
  BY RetryAssumption DEF DeployIInv, DeployTypeOK, AllCalls, Contracts
<1> DEFINE A == orphans
           B == deploysIn(mempool)
<1>2. A \subseteq DOMAIN contracts /\ B \subseteq DOMAIN mempool
  BY DEF orphans, deploysIn
<1>3. onItsWay = 1 => B # {}
  BY <1>1 DEF onItsWay, OneOperator, deploysIn
<1>4. onItsWay \in 0 .. 1 /\ debt \in 0 .. 2
  BY DEF onItsWay, debt
<1>5. Cardinality(A) + Cardinality(B) - onItsWay + debt <= 2 * faults
  BY DEF FaultsPay
<1>6. Cardinality((DOMAIN contracts \ named) \ inHand) = Cardinality(A)
  BY DEF orphans
<1> HIDE DEF A, B, onItsWay, debt
<1>7. /\ Cardinality(A) \in Nat /\ Cardinality(B) \in Nat /\ IsFiniteSet(B)
  BY <1>1, <1>2, PartOfList
<1>8. B # {} => Cardinality(B) >= 1
  BY <1>7, FS_EmptySet
<1>9. Cardinality(A) <= 2 * faults
  BY <1>1, <1>3, <1>4, <1>5, <1>7, <1>8
<1> QED
  BY <1>6, <1>9 DEF OrphansHaveACause

\* Orphans have a cause: contracts that no file ever named, other than those the run
\* under way is about to name, are at most two for each lost answer or crash.
THEOREM EveryOrphanHasACause == DeploySpec => []OrphansHaveACause
<1>1. DeployInit => FaultsPay
  BY FaultsPayInit
<1>2. DeployIInv /\ FaultsPay /\ DeployIInv' /\ [DeployNext]_deployVars => FaultsPay'
  BY FaultsPayStep
<1>3. DeployIInv /\ FaultsPay => OrphansHaveACause
  BY LedgerBounds
<1> QED
  BY <1>1, <1>2, <1>3, DeployIInvHolds, PTL DEF DeploySpec
==============================================================================
