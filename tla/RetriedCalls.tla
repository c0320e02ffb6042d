---------------------------- MODULE RetriedCalls ----------------------------
(***************************************************************************)
(* How the command lines talk to the chain: withRetry of lib/arc.mjs around *)
(* a send, and tx.wait() after it.                                         *)
(*                                                                         *)
(* The node runs a call before it takes it and refuses by name what would  *)
(* revert.  An answer may be lost after the call was accepted; withRetry   *)
(* takes that for a transient failure and sends again.  What was accepted  *)
(* sits in the mempool, and each wallet's calls are mined in the order of  *)
(* their nonces.  A call that is outdated when its turn comes reverts, and *)
(* wait() throws.  Only the last send, the answered one, is waited for.    *)
(*                                                                         *)
(* The client that extends this module says what its calls do.             *)
(***************************************************************************)
EXTENDS Naturals, Sequences, SequencesExt

CONSTANTS Clients,    \* processes that send calls, one at a time each
          MaxTries,   \* tries of withRetry
          MaxFaults   \* bound on lost answers and crashes

ASSUME RetryAssumption == MaxTries \in Nat \ {0} /\ MaxFaults \in Nat

VARIABLES wire,     \* the call each client is busy with
          mempool,  \* accepted calls, oldest first
          faults

callVars == <<wire, mempool, faults>>

Quiet == [at |-> "quiet"]
WireStates(calls, logs) ==
    {Quiet, [at |-> "thrown"]}
    \cup [at : {"send"}, call : calls, tries : 0 .. MaxTries - 1]
    \cup [at : {"wait"}, call : calls]
    \cup [at : {"ok"}, log : logs]
Accepted(calls) == [by : Clients, call : calls, answered : BOOLEAN]

CallInit ==
    /\ wire = [c \in Clients |-> Quiet]
    /\ mempool = <<>>
    /\ faults = 0

hear(c, state) == wire' = [wire EXCEPT ![c] = state]

\* A client turns to its next call, or to none.
issue(c, call) ==
    /\ hear(c, [at |-> "send", call |-> call, tries |-> 0])
    /\ UNCHANGED <<mempool, faults>>
hangUp(c) == hear(c, Quiet) /\ UNCHANGED <<mempool, faults>>

accept(c, answered) ==
    mempool' = Append(mempool, [by |-> c, call |-> wire[c].call, answered |-> answered])

\* Slips the properties must notice; none is part of the specification.  Nobody
\* waits for the receipt; a call that was answered may be sent again.
send_Forgets(c, acceptable) ==
    /\ wire[c].at = "send"
    /\ acceptable /\ accept(c, FALSE) /\ hear(c, [at |-> "ok", log |-> 0])
    /\ UNCHANGED faults

send_Twice(c, acceptable) ==
    /\ wire[c].at = "send"
    /\ \/ acceptable /\ accept(c, TRUE) /\ hear(c, [at |-> "wait", call |-> wire[c].call])
       \/ /\ acceptable /\ wire[c].tries + 1 < MaxTries
          /\ accept(c, FALSE) /\ hear(c, [wire[c] EXCEPT !.tries = @ + 1])
       \/ ~acceptable /\ hear(c, [at |-> "thrown"]) /\ UNCHANGED mempool
    /\ UNCHANGED faults

\* One try that is answered: taken, or refused by name.
send(c, acceptable) ==
    /\ wire[c].at = "send"
    /\ \/ acceptable /\ accept(c, TRUE) /\ hear(c, [at |-> "wait", call |-> wire[c].call])
       \/ ~acceptable /\ hear(c, [at |-> "thrown"]) /\ UNCHANGED mempool
    /\ UNCHANGED faults

fault == faults < MaxFaults /\ faults' = faults + 1

\* One try whose answer does not come; the last one gives up.
loseAnswer(c, acceptable) ==
    /\ wire[c].at = "send"
    /\ fault
    /\ (acceptable /\ accept(c, FALSE)) \/ UNCHANGED mempool
    /\ hear(c, IF wire[c].tries + 1 < MaxTries
               THEN [wire[c] EXCEPT !.tries = @ + 1] ELSE [at |-> "thrown"])

\* The process dies; what it sent stays sent.
crash(c) == fault /\ hear(c, Quiet) /\ UNCHANGED mempool

\* The i-th call is the oldest of its wallet's.
isNext(i, walletOf(_)) ==
    \A k \in 1 .. i - 1 : walletOf(mempool[k].call) # walletOf(mempool[i].call)

\* It is mined, and its sender, if it waits for this one, hears how it ended.
mined(i, outcome) ==
    LET entry == mempool[i]
    IN  /\ mempool' = RemoveAt(mempool, i)
        /\ IF entry.answered /\ wire[entry.by] = [at |-> "wait", call |-> entry.call]
           THEN hear(entry.by, outcome) ELSE UNCHANGED wire
        /\ UNCHANGED faults
==============================================================================
