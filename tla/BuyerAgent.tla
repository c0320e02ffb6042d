----------------------------- MODULE BuyerAgent -----------------------------
(***************************************************************************)
(* agent.mjs, a buyer with a wallet of its own, against the gateway: it    *)
(* asks for a route, pays the quote it is given, waits for the receipt and *)
(* redeems it, by the hash of its payment or (--watch) by request id.      *)
(*                                                                         *)
(* A buyer has one request in progress, the handler of its own name; the   *)
(* other handlers serve anybody.  A response that does not arrive makes    *)
(* fetch throw, and the buyer ends there.  The replay test at the end of a *)
(* run carries no token, is answered 401 and changes nothing: left out.    *)
(* Gateway and buyer are on the same chain.                                *)
(***************************************************************************)
EXTENDS PaymentGateway, RetriedCalls

CONSTANTS Funds,       \* balance of a buyer's wallet at the start
          MaxRedeems   \* tries of the redeem loop: 10 in the code

ASSUME BuyerAssumption ==
    /\ Clients \subseteq Handlers
    /\ Funds \in Nat /\ MaxRedeems \in Nat \ {0}
    /\ \A route \in Routes : Price[route] \in Amounts

VARIABLES agent,   \* progress of each buyer
          spent    \* what each buyer's mined payments took

agentVars == <<agent, spent>>
buyerVars == <<gatewayVars, callVars, agentVars>>

Buyers == Clients
Unstarted == [at |-> "idle"]
PayCalls == [route : Routes, amount : Amounts, memo : RequestIds, by : Buyers]

AgentStates ==
    {Unstarted, [at |-> "dead"]}
    \cup [at : {"discover"}, watch : BOOLEAN]
    \cup [at : {"pay"}, watch : BOOLEAN, route : Routes, request : RequestIds]
    \cup [at : {"redeem"}, watch : BOOLEAN, route : Routes, request : RequestIds,
          tx : TxIds, tries : 0 .. MaxRedeems - 1, failures : 0 .. MaxRedeems]
    \cup [at : {"done", "gaveUp"}, watch : BOOLEAN, request : RequestIds, tx : TxIds,
          failures : 0 .. MaxRedeems]

BuyerInit ==
    /\ GatewayInit
    /\ CallInit
    /\ agent = [b \in Buyers |-> Unstarted]
    /\ spent = [b \in Buyers |-> 0]

become(b, state) == agent' = [agent EXCEPT ![b] = state]
dies(b) == become(b, [at |-> "dead"]) /\ UNCHANGED spent

------------------------------------------------------------------------------
(* Discover and pay. *)

discover(b, route, watch) ==
    /\ agent[b] = Unstarted
    /\ askQuote(b, route)
    /\ become(b, [at |-> "discover", watch |-> watch])
    /\ UNCHANGED <<callVars, spent>>

\* What the 402 body tells the buyer to send.
payment(b, route, r) ==
    [route |-> route, amount |-> Price[route], memo |-> r, by |-> b]

\* The quote arrives; a wallet that cannot pay it ends the run.  The margin
\* for gas is left out.
quoted(b) ==
    /\ agent[b].at = "discover"
    /\ makeQuote(b)
    /\ LET r == Len(quote) + 1
           route == handler[b].route
       IN  \/ /\ Funds - spent[b] >= Price[route]
              /\ become(b, [at |-> "pay", watch |-> agent[b].watch,
                            route |-> route, request |-> r])
              /\ issue(b, payment(b, route, r))
           \/ /\ Funds - spent[b] < Price[route]
              /\ become(b, [at |-> "dead"])
              /\ UNCHANGED callVars
    /\ UNCHANGED spent

pending(b) ==
    SumFunction([i \in DOMAIN mempool |->
                   IF mempool[i].by = b THEN mempool[i].call.amount ELSE 0])

\* The node refuses what the balance does not cover beside the pending calls.
affordable(b) == Funds - spent[b] >= pending(b) + wire[b].call.amount

sendPayment(b) ==
    /\ wire[b].at = "send"
    /\ Len(txs) + Len(mempool) < MaxTxs
    /\ LET ok == affordable(b) IN send(b, ok) \/ loseAnswer(b, ok)
    /\ UNCHANGED <<gatewayVars, agentVars>>

buyerOf(call) == call.by

minePayment(i) ==
    /\ isNext(i, buyerOf)
    /\ LET c == mempool[i].call
       IN  /\ payForRoute(<<[route |-> c.route, amount |-> c.amount, memo |-> c.memo]>>)
           /\ spent' = [spent EXCEPT ![c.by] = @ + c.amount]
    /\ mined(i, [at |-> "ok", log |-> Len(txs) + 1])
    /\ UNCHANGED <<memoryVars, clock, handler, served, restarts, agent>>

\* The receipt is there.
confirmed(b) ==
    /\ agent[b].at = "pay" /\ wire[b].at = "ok"
    /\ become(b, [at |-> "redeem", watch |-> agent[b].watch, route |-> agent[b].route,
                  request |-> agent[b].request, tx |-> wire[b].log, tries |-> 0,
                  failures |-> 0])
    /\ hangUp(b)
    /\ UNCHANGED <<gatewayVars, spent>>

------------------------------------------------------------------------------
(* Redeem. *)

ends(b, at, failures) ==
    become(b, [at |-> at, watch |-> agent[b].watch, request |-> agent[b].request,
               tx |-> agent[b].tx, failures |-> failures])

\* A slip the properties must notice: there is no second try.
tryAgain_Never(b, failures) == ends(b, "gaveUp", failures)

\* A refusal costs a try; after the last one the run fails.
tryAgain(b, failures) ==
    IF agent[b].tries + 1 = MaxRedeems THEN ends(b, "gaveUp", failures)
    ELSE become(b, [agent[b] EXCEPT !.tries = @ + 1, !.failures = failures])

\* The request is refused before any lookup (401, 409), or looked up.
redeemRequest(b) ==
    /\ agent[b].at = "redeem" /\ handler[b] = Idle
    /\ LET a == agent[b]
           refused == \/ ~owns(a.route, a.request)
                      \/ a.watch /\ quote[a.request].redeemed
       IN  \/ /\ refused
              /\ tryAgain(b, a.failures)
              /\ UNCHANGED gatewayVars
           \/ /\ ~refused
              /\ IF a.watch THEN presentRequest(b, a.route, a.request)
                            ELSE presentTx(b, a.route, a.request, a.tx, Canonical)
              /\ UNCHANGED agent
    /\ UNCHANGED <<callVars, spent>>

\* The gateway's answer, heard unless the buyer is gone.
answered(b) ==
    /\ answer(b)
    /\ CASE agent[b].at = "redeem" /\ status(b) = 200 -> ends(b, "done", agent[b].failures)
         [] agent[b].at = "redeem" /\ status(b) # 200 -> tryAgain(b, agent[b].failures)
         [] OTHER -> UNCHANGED agent
    /\ UNCHANGED <<callVars, spent>>

\* A lookup that fails through every retry: 500.
failed(b) ==
    /\ fault
    /\ fail(b)
    /\ CASE agent[b].at = "redeem" -> tryAgain(b, agent[b].failures + 1)
         [] agent[b].at = "discover" -> become(b, [at |-> "dead"])
         [] OTHER -> UNCHANGED agent
    /\ UNCHANGED <<wire, mempool, spent>>

------------------------------------------------------------------------------
\* A call that is given up or refused, a response that is lost, a crash.
buyerDies(b) ==
    /\ agent[b].at \in {"discover", "pay", "redeem"}
    /\ crash(b) \/ (wire[b].at = "thrown" /\ hangUp(b))
    /\ dies(b)
    /\ UNCHANGED gatewayVars

\* A quote nobody is left to read is made all the same.
unheard(b) ==
    /\ agent[b].at = "dead"
    /\ makeQuote(b)
    /\ UNCHANGED <<callVars, agentVars>>

\* The gateway restarts: whoever waited for an answer loses its connection.
restartGateway ==
    /\ restart
    /\ agent' = [b \in Buyers |-> IF handler[b] # Idle THEN [at |-> "dead"] ELSE agent[b]]
    /\ UNCHANGED <<callVars, spent>>

BuyerStep(b) ==
    \/ \E route \in Routes, watch \in BOOLEAN : discover(b, route, watch)
    \/ quoted(b) \/ sendPayment(b) \/ confirmed(b)
    \/ redeemRequest(b) \/ answered(b) \/ failed(b)
    \/ buyerDies(b) \/ unheard(b)

\* Anybody else, as PaymentGateway has it; room is left for what is pending.
OtherStep ==
    /\ \/ \E h \in Handlers \ Buyers : HandlerStep(h)
       \/ ChainStep /\ (txs' # txs => Len(txs) + Len(mempool) < MaxTxs)
       \/ evictOldQuotes
       \/ tick
    /\ UNCHANGED <<callVars, agentVars>>

BuyerNext ==
    \/ \E b \in Buyers : BuyerStep(b)
    \/ \E i \in DOMAIN mempool : minePayment(i)
    \/ OtherStep
    \/ restartGateway

BuyerSpec == BuyerInit /\ [][BuyerNext]_buyerVars

------------------------------------------------------------------------------
BuyerTypeOK ==
    /\ wire \in [Buyers -> WireStates(PayCalls, TxIds)]
    /\ mempool \in Seq(Accepted(PayCalls))
    /\ faults \in 0 .. MaxFaults
    /\ agent \in [Buyers -> AgentStates]
    /\ spent \in [Buyers -> 0 .. Funds]

\* A buyer that waited for its receipt is served, whatever others pay with the
\* memo it made public: when it gives up, the gateway could not look the payment
\* up at any try, or no longer knows the quote, or served it to another request
\* with the same token.  With --watch, an event of somebody else's with its memo
\* that comes first and is short shuts it out as well.
ReceiptsUnlock ==
    /\ BuyerTypeOK
    /\ \A b \in Buyers : agent[b].at = "gaveUp" =>
          LET r == agent[b].request
          IN  \/ agent[b].failures = MaxRedeems
              \/ r \notin open
              \/ \E s \in Range(served) : s.request = r
              \/ /\ agent[b].watch
                 /\ scanForPayment(r).tx # agent[b].tx
                 /\ redeem(r, scanForPayment(r)) # 200

\* A buyer that was served got the response to its own quote, for its own
\* payment if it named one; it spent the price once, and once more only for
\* each answer to a send that was lost.
BuyersPayOnce ==
    \A b \in Buyers : agent[b].at = "done" =>
        LET r == agent[b].request
            price == Price[quote[r].route]
        IN  /\ \E s \in Range(served) :
                  s.request = r /\ (~agent[b].watch => s.tx = agent[b].tx)
            /\ spent[b] >= price
            /\ spent[b] + pending(b) <= (1 + faults) * price
==============================================================================
