------------------------------- MODULE MCLoop -------------------------------
(***************************************************************************)
(* A small instance of LiveLoop: on the mainnet one loop and the sweep, on *)
(* the testnet two demos of one wallet, and a stranger's job on either.    *)
(***************************************************************************)
EXTENDS LiveLoop, TLC

CONSTANTS s1, s2, x1, x2, l1, d1, d2, stranger

MCSha256 == s1 :> x1 @@ s2 :> x1
MCDemoSpec == d1 :> s1 @@ d2 :> s2
MCWant == d1 :> x1 @@ d2 :> x1

\* A job that looks like the loop's, one that makes a demo's wallet do all the
\* work, one that has it judge a stranger's and one that has it work for one.
MCOtherJobs ==
    [provider : {ProviderWallet, DemoWallet, stranger}, evaluator : {Wallet}, specHash : {s1}]
    \cup {[provider |-> DemoWallet, evaluator |-> stranger, specHash |-> s1]}

\* Loops about another signal are no different, and nothing on the testnet
\* depends on the time or on the registry.
TrialBound ==
    /\ \A l \in Loops : loop[l].at # "idle" => loop[l].r = s1
    /\ network = "testnet" => now = 1 /\ requestCount = 0
    /\ ~ValidationRegistry!isRequested(s2)
==============================================================================
