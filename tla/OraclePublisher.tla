--------------------------- MODULE OraclePublisher ---------------------------
(***************************************************************************)
(* oracle.mjs, the command line that publishes to PredgeOracle, with the   *)
(* key generator script/gen-oracle-key.mjs and the reader's side of the    *)
(* bargain, verify-cachet.mjs.                                             *)
(*                                                                         *)
(* A run of the CLI signs an attestation, sends its keccak hash and waits. *)
(* All runs share one wallet.  The publisher's seat may move, and then     *)
(* others write to the registry too.                                       *)
(*                                                                         *)
(* A payload carries the time it was signed at: what run r signs under     *)
(* kind k hashes to a value of its own, <<r, k>>.                          *)
(***************************************************************************)
EXTENDS PredgeOracle, RetriedCalls

CONSTANTS Wallet,     \* the address of ORACLE_PUBLISHER_KEY
          Commands,   \* the command lines typed; each client runs one
          Keys,       \* ed25519 keys script/gen-oracle-key.mjs may generate
          Ephemeral,  \* any throwaway key
          NoKey

Kinds == {"market-precommit", "market-resolution"}

CommandLines ==
    [cmd : {"commit", "read"}, m : Markets]
    \cup [cmd : {"resolve"}, m : Markets, outcome : Outcomes \ {"Unresolved"},
          embed : BOOLEAN]
    \cup [cmd : {"demo"}, m : Markets, outcome : {"Yes"}, embed : {FALSE}]

ASSUME PublisherAssumption ==
    /\ Wallet \in Accounts
    /\ Clients \X Kinds \subseteq Hashes
    /\ Commands \subseteq CommandLines
    /\ Ephemeral \notin Keys /\ NoKey \notin Keys \cup {Ephemeral}

VARIABLES run,             \* progress of each run
          attestations,    \* the envelopes the runs have signed and printed
          attestationRef,  \* what the oracle stored beside each resolution
          resolver,        \* who sent each resolution, as its transaction tells
          keyFile,         \* the key in ~/.predge-x402
          envKey,          \* ORACLE_SIGNING_KEY in .env
          registry         \* the published key and whether it is active

keyVars == <<keyFile, envKey, registry>>
refVars == <<attestationRef, resolver>>
publisherVars == <<run, callVars, attestations, refVars, keyVars>>
publisherAllVars == <<oracleAllVars, publisherVars>>

Idle == [at |-> "idle"]
RunStates ==
    {Idle}
    \cup [at : {"commitMarket", "postResolution", "done", "failed"}, do : Commands,
          key : Keys \cup {Ephemeral}]
    \cup [at : {"read"}, do : Commands, saw : BOOLEAN]
    \cup [at : {"shown"}, do : Commands, saw : BOOLEAN, lead : Nat]

Calls == [call : {"commitMarket", "postResolution"}, do : Commands,
          key : Keys \cup {Ephemeral}, by : Clients]

\* What an evidence reference leads to: nothing, a web page, or the envelope.
NoRef == [to |-> "nothing"]
Url == [to |-> "page"]
Envelopes == [hash : Hashes, signer : Keys \cup {Ephemeral},
              public_key : Keys \cup {Ephemeral}]
References == {NoRef, Url} \cup [to : {"envelope"}, envelope : Envelopes]

------------------------------------------------------------------------------
\* By default the deployer is the owner and the publisher.
PublisherInit ==
    /\ OracleInit
    /\ oracleOwner = Wallet /\ publisher = Wallet
    /\ CallInit
    /\ run = [r \in Clients |-> Idle]
    /\ attestations = {}
    /\ attestationRef = [m \in Markets |-> NoRef]
    /\ resolver = [m \in Markets |-> ZeroAddress]
    /\ keyFile = NoKey
    /\ envKey = NoKey
    /\ registry = [key |-> NoKey, active |-> FALSE]

become(r, state) == run' = [run EXCEPT ![r] = state]

\* Without a well-formed seed in the environment, a throwaway key signs.
signingKeypair == IF envKey = NoKey THEN Ephemeral ELSE envKey

hashOf(r, call) ==
    <<r, IF call = "commitMarket" THEN "market-precommit" ELSE "market-resolution">>

attestation(r, call, key) ==
    [hash |-> hashOf(r, call), signer |-> key, public_key |-> key]

\* signedHash and the call that carries it.
publish(r, call, do) ==
    /\ attestations' = attestations \cup {attestation(r, call, signingKeypair)}
    /\ become(r, [at |-> call, do |-> do, key |-> signingKeypair])
    /\ issue(r, [call |-> call, do |-> do, key |-> signingKeypair, by |-> r])

\* connect() and the first thing each command does.
start(r, do) ==
    /\ run[r] = Idle
    /\ \/ do.cmd \in {"commit", "demo"} /\ publish(r, "commitMarket", do)
       \/ do.cmd = "resolve" /\ publish(r, "postResolution", do)
       \/ /\ do.cmd = "read"
          /\ become(r, [at |-> "read", do |-> do, saw |-> isResolved(do.m)])
          /\ UNCHANGED <<callVars, attestations>>
    /\ UNCHANGED <<oracleAllVars, refVars, keyVars>>

\* `read` asks twice: the record first, the lead time after.
readLead(r) ==
    /\ run[r].at = "read"
    /\ LET rec == market[run[r].do.m]
       IN  become(r, [at |-> "shown", do |-> run[r].do, saw |-> run[r].saw,
                      lead |-> IF rec.outcome = "Unresolved" THEN 0
                               ELSE rec.resolvedAt - rec.committedAt])
    /\ UNCHANGED <<oracleAllVars, callVars, attestations, refVars, keyVars>>

acceptable(c) ==
    /\ publisher = Wallet
    /\ IF c.call = "commitMarket"
       THEN ~isCommitted(c.do.m)
       ELSE isCommitted(c.do.m) /\ ~isResolved(c.do.m)

Send(r) ==
    /\ wire[r].at = "send"
    /\ LET ok == acceptable(wire[r].call) IN send(r, ok) \/ loseAnswer(r, ok)
    /\ UNCHANGED <<oracleAllVars, run, attestations, refVars, keyVars>>

\* After a receipt the demo goes on to its resolution, the others are done; an
\* exception ends the run.
goOn(r) ==
    /\ \/ /\ wire[r].at = "ok"
          /\ IF run[r].do.cmd = "demo" /\ run[r].at = "commitMarket"
             THEN publish(r, "postResolution", run[r].do)
             ELSE /\ become(r, [run[r] EXCEPT !.at = "done"]) /\ hangUp(r)
                  /\ UNCHANGED attestations
       \/ /\ wire[r].at = "thrown"
          /\ become(r, [run[r] EXCEPT !.at = "failed"]) /\ hangUp(r)
          /\ UNCHANGED attestations
    /\ UNCHANGED <<oracleAllVars, refVars, keyVars>>

stop(r) ==
    /\ run[r].at \in {"commitMarket", "postResolution"}
    /\ crash(r)
    /\ become(r, [run[r] EXCEPT !.at = "failed"])
    /\ UNCHANGED <<oracleAllVars, attestations, refVars, keyVars>>

\* The whole envelope with --embed, else an address.
evidenceRef(c) ==
    IF c.do.embed
    THEN [to |-> "envelope", envelope |-> attestation(c.by, c.call, c.key)]
    ELSE Url

\* The chain takes the oldest call; if the oracle refuses it, it reverts.
mine ==
    /\ mempool # <<>>
    /\ LET c == Head(mempool).call
       IN  \/ /\ c.call = "commitMarket"
              /\ commitMarket(Wallet, c.do.m, hashOf(c.by, c.call))
              /\ mined(1, [at |-> "ok", log |-> 0])
              /\ UNCHANGED refVars
           \/ /\ c.call = "postResolution"
              /\ postResolution(Wallet, c.do.m, c.do.outcome, hashOf(c.by, c.call))
              /\ mined(1, [at |-> "ok", log |-> 0])
              /\ attestationRef' = [attestationRef EXCEPT ![c.do.m] = evidenceRef(c)]
              /\ resolver' = [resolver EXCEPT ![c.do.m] = Wallet]
           \/ /\ ~acceptable(c)
              /\ mined(1, [at |-> "thrown"])
              /\ UNCHANGED <<oracleVars, refVars>>
    /\ UNCHANGED <<now, run, attestations, keyVars>>

------------------------------------------------------------------------------
(* script/gen-oracle-key.mjs and the published registry. *)

\* Slips the properties below must notice; none is part of the specification.
writeKey_Overwrites(k) ==
    /\ k # keyFile
    /\ keyFile' = k
    /\ UNCHANGED <<oracleAllVars, run, callVars, attestations, refVars, envKey, registry>>

\* The key is written outside the repository, unless there is one already.
writeKey(k) ==
    /\ keyFile = NoKey
    /\ envKey = NoKey
    /\ keyFile' = k
    /\ UNCHANGED <<oracleAllVars, run, callVars, attestations, refVars, envKey, registry>>

\* ... and then appended to .env.  A crash before this step leaves a key file
\* the script refuses to replace and an environment without a key.
appendKey ==
    /\ keyFile # envKey
    /\ envKey' = keyFile
    /\ UNCHANGED <<oracleAllVars, run, callVars, attestations, refVars, keyFile, registry>>

\* The operator publishes the public key, or revokes it.
publishKey ==
    /\ keyFile # NoKey /\ registry.key # keyFile
    /\ registry' = [key |-> keyFile, active |-> TRUE]
    /\ UNCHANGED <<oracleAllVars, run, callVars, attestations, refVars, keyFile, envKey>>

revokeKey ==
    /\ registry.active
    /\ registry' = [registry EXCEPT !.active = FALSE]
    /\ UNCHANGED <<oracleAllVars, run, callVars, attestations, refVars, keyFile, envKey>>

\* Others: the owner who moves the publisher's seat, and whoever else sits on
\* it.  They may write any hash beside any outcome, the hash of a run's own
\* attestation too.  They refer to a page; an envelope they store inline is one
\* the page might have served, and a reference that leads nowhere is a page
\* that serves nothing of use.
OtherStep ==
    /\ OracleStep
    /\ publisher = Wallet => market' = market
    /\ LET resolved == {m \in Markets : isResolved(m)' /\ ~isResolved(m)}
       IN  /\ attestationRef' = [m \in Markets |-> IF m \in resolved THEN Url
                                                   ELSE attestationRef[m]]
           /\ resolver' = [m \in Markets |-> IF m \in resolved THEN publisher
                                             ELSE resolver[m]]
    /\ UNCHANGED <<now, run, callVars, attestations, keyVars>>

PublisherNext ==
    \/ \E r \in Clients :
          \/ \E do \in Commands : start(r, do)
          \/ readLead(r) \/ Send(r) \/ goOn(r) \/ stop(r)
    \/ mine
    \/ (\E k \in Keys : writeKey(k)) \/ appendKey \/ publishKey \/ revokeKey
    \/ OtherStep
    \/ AdvanceTime /\ UNCHANGED <<oracleVars, publisherVars>>

PublisherSpec == PublisherInit /\ [][PublisherNext]_publisherAllVars

------------------------------------------------------------------------------
(* verify-cachet.mjs. *)

\* The three checks of the envelope: these are the bytes that settled, the
\* signature is good, and its key is published and active.
envelopeChecks(m, e) ==
    /\ e.hash = market[m].contentHash
    /\ e.signer = e.public_key
    /\ e.public_key = registry.key /\ registry.active

\* VERIFIED: no check failed, with the envelope obtained.
verified(m, e) ==
    /\ isResolved(m)
    /\ market[m].committedAt # 0
    /\ market[m].resolvedAt > market[m].committedAt
    /\ envelopeChecks(m, e)

\* loadEnvelope: what the reference may lead to.  A web page may serve
\* anything, but nobody signs with a generated key except the CLI.
loadEnvelope(m) ==
    CASE attestationRef[m].to = "page" ->
           {e \in Envelopes : e.signer \in Keys => e \in attestations}
      [] attestationRef[m].to = "envelope" -> {attestationRef[m].envelope}
      [] OTHER -> {}

------------------------------------------------------------------------------
(* Properties. *)

PublisherTypeOK ==
    /\ run \in [Clients -> RunStates]
    /\ wire \in [Clients -> WireStates(Calls, {0})]
    /\ mempool \in Seq(Accepted(Calls))
    /\ faults \in 0..MaxFaults
    /\ attestations \subseteq Envelopes
    /\ attestationRef \in [Markets -> References]
    /\ resolver \in [Markets -> Accounts \cup {ZeroAddress}]
    /\ keyFile \in Keys \cup {NoKey} /\ envKey \in Keys \cup {NoKey}
    /\ registry \in [key : Keys \cup {NoKey}, active : BOOLEAN]

\* A run that ends well has its own record on the chain, whatever was lost,
\* sent twice or published by others meanwhile; and a market `read` shows as
\* resolved is shown with its true lead time, though it is read in two calls.
ReportsAreTrue ==
    /\ PublisherTypeOK
    /\ \A r \in Clients :
        LET rec == market[run[r].do.m]
        IN  /\ run[r].at = "done" =>
                 /\ run[r].do.cmd \in {"commit", "demo"} =>
                      rec.preCommitHash = <<r, "market-precommit">>
                 /\ run[r].do.cmd \in {"resolve", "demo"} =>
                      /\ rec.contentHash = <<r, "market-resolution">>
                      /\ rec.outcome = run[r].do.outcome
            /\ run[r].at = "shown" /\ run[r].saw =>
                 rec.outcome # "Unresolved" /\ run[r].lead = rec.resolvedAt - rec.committedAt

\* VERIFIED is only said when the hash on the record is that of bytes a run of
\* the CLI signed under the published key, and the outcome is later than its
\* commitment.  It does not say which market those bytes are about: the
\* verifier never reads them, and whoever sits on the publisher's seat may
\* write the hash of an attestation beside another market or outcome.  Of a
\* resolution that the CLI's own wallet sent, VERIFIED says that a run was told
\* to publish this very outcome of this very market.  And such a resolution,
\* published with --embed and a generated key, in a later second than its
\* commitment, verifies for as long as a published key is active: no later key
\* takes the first one's place.
VerdictsAreRight ==
    \A m \in Markets :
        /\ \A e \in loadEnvelope(m) : verified(m, e) =>
             /\ e \in attestations /\ e.signer = registry.key
             /\ market[m].committedAt < market[m].resolvedAt
             /\ resolver[m] = Wallet =>
                  \E r \in Clients :
                     /\ e.hash = hashOf(r, "postResolution")
                     /\ run[r].do.m = m /\ run[r].do.outcome = market[m].outcome
        /\ resolver[m] = Wallet /\ attestationRef[m].to = "envelope" =>
             \A e \in loadEnvelope(m) :
                /\ e.signer \in Keys /\ registry.active
                /\ market[m].committedAt < market[m].resolvedAt
                => verified(m, e)
==============================================================================
