----------------------------- MODULE MCPublisher -----------------------------
(***************************************************************************)
(* A small instance of OraclePublisher: two runs that may overlap, one     *)
(* market, one other account that may come to hold the publisher's seat.   *)
(***************************************************************************)
EXTENDS OraclePublisher, TLC

\* Others write the hash of any run's attestation, or of one no run has signed yet.
MCHashes == Clients \X Kinds

MCCommands ==
    UNION {{[cmd |-> "commit", m |-> m], [cmd |-> "read", m |-> m],
            [cmd |-> "resolve", m |-> m, outcome |-> "No", embed |-> TRUE],
            [cmd |-> "demo", m |-> m, outcome |-> "Yes", embed |-> FALSE]} : m \in Markets}

\* A bound on the data others write: their commitments carry the hash of some
\* attestation made before an outcome, their resolutions that of one made after
\* it, and they settle as Yes or No.
OthersBound ==
    \A m \in Markets :
        /\ resolver[m] # Wallet => market[m].outcome # "Invalid"
        /\ \A r \in Clients : /\ market[m].preCommitHash # hashOf(r, "postResolution")
                              /\ market[m].contentHash # hashOf(r, "commitMarket")

PublisherSymmetry == Permutations(Clients) \cup Permutations(Keys)
==============================================================================
