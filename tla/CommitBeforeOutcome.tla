------------------------- MODULE CommitBeforeOutcome -------------------------
(***************************************************************************)
(* What a commit-before-outcome registry promises its readers, whatever    *)
(* the contract behind it looks like.  README.md calls it "one primitive,  *)
(* applied twice": PredgeOracle resolves markets with it and               *)
(* PredgeAgentValidator answers validation requests with it.               *)
(*                                                                         *)
(* The registry is two append-only sets of facts.  A seal says "content c  *)
(* was committed under key k at time t"; an opening says "verdict v was    *)
(* recorded under key k at time t".  A key is sealed at most once, opened  *)
(* at most once, and opened only after it was sealed.  Nothing else ever   *)
(* happens: no fact is edited and none is removed.                         *)
(***************************************************************************)
EXTENDS Naturals

CONSTANTS Keys,      \* the market ids or request hashes
          Contents,  \* what a seal commits to
          Verdicts   \* what an opening records

VARIABLES seals,     \* set of [key, content, at]
          openings,  \* set of [key, verdict, at]
          clock      \* chain time

regVars == <<seals, openings, clock>>

Sealed(k) == \E s \in seals : s.key = k
Opened(k) == \E o \in openings : o.key = k

RegInit ==
    /\ seals = {}
    /\ openings = {}
    /\ clock \in Nat

Seal(k, c) ==
    /\ ~Sealed(k)
    /\ seals' = seals \cup {[key |-> k, content |-> c, at |-> clock]}
    /\ UNCHANGED <<openings, clock>>

Open(k, v) ==
    /\ Sealed(k)
    /\ ~Opened(k)
    /\ openings' = openings \cup {[key |-> k, verdict |-> v, at |-> clock]}
    /\ UNCHANGED <<seals, clock>>

PassTime ==
    /\ clock' \in Nat
    /\ clock' > clock
    /\ UNCHANGED <<seals, openings>>

RegNext ==
    \/ \E k \in Keys, c \in Contents : Seal(k, c)
    \/ \E k \in Keys, v \in Verdicts : Open(k, v)
    \/ PassTime

RegSpec == RegInit /\ [][RegNext]_regVars

(***************************************************************************)
(* The two promises a consumer relies on, proved of the oracle in          *)
(* PredgeOracleProofs and of the validator's registry in                   *)
(* PredgeAgentValidatorProofs.                                             *)
(***************************************************************************)

\* Every recorded verdict has a seal under the same key that is not younger.
SealPrecedesOpening ==
    \A o \in openings : \E s \in seals : s.key = o.key /\ s.at <= o.at

\* No key carries two seals or two verdicts.
OneFactPerKey ==
    /\ \A s, t \in seals : s.key = t.key => s = t
    /\ \A o, p \in openings : o.key = p.key => o = p
==============================================================================
