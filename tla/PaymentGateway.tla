--------------------------- MODULE PaymentGateway ---------------------------
(***************************************************************************)
(* gateway/server.mjs and the chain it reads, contracts/PredgeSettlement:  *)
(* a route is quoted with a 402, the client pays the quote on-chain, and   *)
(* the payment unlocks one response.  All the gateway knows is in memory.  *)
(*                                                                         *)
(* A handler runs from its arrival to its next await without interruption  *)
(* and other handlers run in between, so every request is two steps: its   *)
(* arrival with the synchronous checks, and its answer after the last      *)
(* chain lookup.  The lookups themselves need no step: receipts and events *)
(* are final, so a lookup that misses a payment mined meanwhile is the     *)
(* answer given before the payment.  A redeem token is known to the client *)
(* that was quoted and to nobody else; it is modelled by the request it    *)
(* belongs to.  A transaction hash is a number that can be written in more *)
(* ways than one: the chain knows it in any, the replay guard is keyed by  *)
(* the text.  A request that presents no good token is answered 401 and    *)
(* changes nothing, as do the free routes: they are left out.              *)
(***************************************************************************)
EXTENDS Naturals, SequencesExt, FiniteSets, FiniteSetsExt

CONSTANTS Handlers,       \* requests in progress at one time (bound)
          Routes,         \* keys of CATALOG, and their route hashes
          Price,          \* amountWei of each route
          Amounts,        \* what one call may send along
          Transactions,   \* what a client may send: the calls of each (bound)
          Spellings,      \* the ways to write a transaction hash
          Canonical,      \* the one ethers gives it
          QuoteEvict,     \* QUOTE_EVICT_MS
          MaxQuotes,      \* bound on the quotes ever made
          MaxTxs,         \* bound on the transactions ever sent
          MaxTime,        \* bound on the clock
          MaxRestarts     \* bound on the restarts of the gateway

RequestIds == 1 .. MaxQuotes
TxIds == 1 .. MaxTxs
NoRequest == 0

\* Only the route, the amount and the memo of a Paid event decide anything.  A
\* payment that calls no function is on a route of its own, which nobody sells.
Direct == "direct"
Calls == [route : Routes \cup {Direct}, amount : Amounts, memo : RequestIds \cup {NoRequest}]
Payments == {p \in Calls : p.amount > 0}
ASSUME GatewayAssumption ==
    /\ Price \in [Routes -> Nat \ {0}]
    /\ Amounts \subseteq Nat
    /\ Transactions \subseteq Seq(Calls) \ {<<>>}
    /\ Canonical \in Spellings
    /\ {QuoteEvict, MaxQuotes, MaxTxs, MaxTime, MaxRestarts} \subseteq Nat

VARIABLES txs,         \* mined transactions, each the Paid events it emitted
          settled,     \* balance of PredgeSettlement
          withdrawn,   \* what its owner took out
          clock,       \* Date.now()
          quote,       \* every quote object ever made, by request id
          open,        \* the keys of the quotes map
          usedTxs,     \* the replay guard: a hash as written, and its request
          handler,     \* the requests in progress
          served,      \* history: the 200 answers, in the same form
          restarts

chainVars == <<txs, settled, withdrawn>>
memoryVars == <<quote, open, usedTxs>>
gatewayVars == <<chainVars, memoryVars, clock, handler, served, restarts>>

\* Transaction tx as it was written when it unlocked the request.
Redemptions == [tx : TxIds, as : Spellings, request : RequestIds]

Quotes == [route : Routes, createdAt : Nat, redeemed : BOOLEAN]

Idle == [at |-> "idle"]
HandlerStates ==
    {Idle}
    \cup [at : {"quoting"}, route : Routes]
    \cup [at : {"verifying"}, route : Routes, tx : TxIds, as : Spellings,
          owned : RequestIds]
    \cup [at : {"scanning"}, route : Routes, owned : RequestIds]

------------------------------------------------------------------------------
GatewayInit ==
    /\ txs = <<>>
    /\ settled = 0
    /\ withdrawn = 0
    /\ clock = 0
    /\ quote = <<>>
    /\ open = {}
    /\ usedTxs = {}
    /\ handler = [h \in Handlers |-> Idle]
    /\ served = <<>>
    /\ restarts = 0

------------------------------------------------------------------------------
(* The chain. *)

total(tx) == SumFunction([i \in DOMAIN tx |-> tx[i].amount])

\* A wallet calls payForRoute once, a contract may call it several times in one
\* transaction.  Anyone may use the memo of a quote that was made: it is public.
payForRoute(tx) ==
    /\ Len(txs) < MaxTxs
    /\ \A i \in DOMAIN tx : tx[i].amount > 0
    /\ \A i \in DOMAIN tx : tx[i].memo \in DOMAIN quote \cup {NoRequest}
    /\ txs' = Append(txs, tx)
    /\ settled' = settled + total(tx)
    /\ UNCHANGED withdrawn

receive(amount) ==
    /\ Len(txs) < MaxTxs
    /\ amount > 0
    /\ txs' = Append(txs, <<[route |-> Direct, amount |-> amount, memo |-> NoRequest]>>)
    /\ settled' = settled + amount
    /\ UNCHANGED withdrawn

withdraw ==
    /\ withdrawn' = withdrawn + settled
    /\ settled' = 0
    /\ UNCHANGED txs

------------------------------------------------------------------------------
(* The gateway: quoting. *)

\* A request with no payment evidence waits for the block number ...
askQuote(h, route) ==
    /\ handler[h] = Idle
    /\ handler' = [handler EXCEPT ![h] = [at |-> "quoting", route |-> route]]
    /\ UNCHANGED <<chainVars, memoryVars, clock, served, restarts>>

\* ... and is answered 402 with a fresh request id and its token.
makeQuote(h) ==
    /\ handler[h].at = "quoting"
    /\ Len(quote) < MaxQuotes
    /\ quote' = Append(quote, [route |-> handler[h].route,
                               createdAt |-> clock, redeemed |-> FALSE])
    /\ open' = open \cup {Len(quote) + 1}
    /\ handler' = [handler EXCEPT ![h] = Idle]
    /\ UNCHANGED <<chainVars, usedTxs, clock, served, restarts>>

\* The quote a token unlocks, if it is still in the map and for this route.
owns(route, r) == r \in open /\ quote[r].route = route

------------------------------------------------------------------------------
(* The gateway: redemption. *)

\* X-Arc-Payment: the client names a transaction, mined or not, in its own way.
presentTx(h, route, r, tx, as) ==
    /\ handler[h] = Idle
    /\ owns(route, r)
    /\ handler' = [handler EXCEPT ![h] =
                     [at |-> "verifying", route |-> route, tx |-> tx, as |-> as,
                      owned |-> r]]
    /\ UNCHANGED <<chainVars, memoryVars, clock, served, restarts>>

\* ?request_id=: the gateway looks for the payment itself.
presentRequest(h, route, r) ==
    /\ handler[h] = Idle
    /\ owns(route, r)
    /\ ~quote[r].redeemed
    /\ handler' = [handler EXCEPT ![h] =
                     [at |-> "scanning", route |-> route, owned |-> r]]
    /\ UNCHANGED <<chainVars, memoryVars, clock, served, restarts>>

NoPayment == [tx |-> 0]

\* verifyByTxHash takes the first Paid event of the transaction.
verifyByTxHash(tx, as) ==
    IF tx \in DOMAIN txs THEN [tx |-> tx, as |-> as, paid |-> txs[tx][1]] ELSE NoPayment

\* scanForPayment takes the first event, in chain order, on this route with
\* this memo.
scanForPayment(r) ==
    LET matching(tx) == {i \in DOMAIN txs[tx] : /\ txs[tx][i].memo = r
                                                /\ txs[tx][i].route = quote[r].route}
        hits == {tx \in DOMAIN txs : matching(tx) # {}}
        first == Min(hits)
    IN  IF hits = {} THEN NoPayment
        ELSE [tx |-> first, as |-> Canonical, paid |-> txs[first][Min(matching(first))]]

found(h) ==
    IF handler[h].at = "verifying" THEN verifyByTxHash(handler[h].tx, handler[h].as)
                                   ELSE scanForPayment(handler[h].owned)

sameKey(u, v) == u.tx = v.tx /\ u.as = v.as

\* usedTxs.get: the same transaction in another spelling is not seen.
usedElsewhere(f, r) == \E u \in usedTxs : sameKey(u, f) /\ u.request # r

\* The checks of redeem, in their order, as the status they answer with.  The
\* three with an underscore are slips the properties below must notice; none is
\* part of the specification.
redeem_AnyPrice(r, f) ==
    CASE f.paid.route # quote[r].route -> 409
      [] usedElsewhere(f, r) -> 409
      [] quote[r].redeemed -> 409
      [] OTHER -> 200

redeem_AnyTx(r, f) ==
    CASE f.paid.route # quote[r].route -> 409
      [] f.paid.amount < Price[quote[r].route] -> 402
      [] quote[r].redeemed -> 409
      [] OTHER -> 200

redeem_Again(r, f) ==
    CASE f.paid.route # quote[r].route -> 409
      [] f.paid.amount < Price[quote[r].route] -> 402
      [] usedElsewhere(f, r) -> 409
      [] OTHER -> 200

redeem(r, f) ==
    CASE f.paid.route # quote[r].route -> 409
      [] f.paid.amount < Price[quote[r].route] -> 402
      [] usedElsewhere(f, r) -> 409
      [] quote[r].redeemed -> 409
      [] OTHER -> 200

\* After the await: path A looks its quote up again in the map, path B keeps
\* the one it had before.
status(h) ==
    LET f == found(h)
        r == handler[h].owned
    IN  CASE f = NoPayment -> 402
          [] handler[h].at = "verifying" /\ (f.paid.memo # r \/ ~owns(handler[h].route, r)) -> 402
          [] OTHER -> redeem(r, f)

redemption(r, f) == [tx |-> f.tx, as |-> f.as, request |-> r]

writeRedemption(r, f) ==
    /\ quote' = [quote EXCEPT ![r].redeemed = TRUE]
    /\ usedTxs' = {u \in usedTxs : ~sameKey(u, f)} \cup {redemption(r, f)}

answer(h) ==
    /\ handler[h].at \in {"verifying", "scanning"}
    /\ LET r == handler[h].owned IN
       \/ /\ status(h) = 200
          /\ writeRedemption(r, found(h))
          /\ served' = Append(served, redemption(r, found(h)))
       \/ /\ status(h) # 200
          /\ UNCHANGED <<quote, usedTxs, served>>
    /\ handler' = [handler EXCEPT ![h] = Idle]
    /\ UNCHANGED <<chainVars, open, clock, restarts>>

\* The RPC stays unreachable through every retry: 500.
fail(h) ==
    /\ handler[h] # Idle
    /\ handler' = [handler EXCEPT ![h] = Idle]
    /\ UNCHANGED <<chainVars, memoryVars, clock, served, restarts>>

------------------------------------------------------------------------------
(* The gateway: time and restarts. *)

evictOldQuotes ==
    /\ open' = {r \in open : clock - quote[r].createdAt <= QuoteEvict}
    /\ open' # open
    /\ UNCHANGED <<chainVars, quote, usedTxs, clock, handler, served, restarts>>

tick ==
    /\ clock < MaxTime
    /\ clock' = clock + 1
    /\ UNCHANGED <<chainVars, memoryVars, handler, served, restarts>>

\* Quotes, replay guard and requests in progress are gone; request ids are
\* never drawn twice, so the lost quote objects stay known by their number.
restart ==
    /\ restarts < MaxRestarts
    /\ restarts' = restarts + 1
    /\ open' = {}
    /\ usedTxs' = {}
    /\ handler' = [h \in Handlers |-> Idle]
    /\ UNCHANGED <<chainVars, quote, clock, served>>

------------------------------------------------------------------------------
\* What one request in progress does.
HandlerStep(h) ==
    \/ \E route \in Routes :
          \/ askQuote(h, route)
          \/ \E r \in RequestIds : presentRequest(h, route, r)
          \/ \E r \in RequestIds, tx \in TxIds, as \in Spellings :
                presentTx(h, route, r, tx, as)
    \/ makeQuote(h)
    \/ answer(h)
    \/ fail(h)

\* A transaction on the settlement contract.
ChainStep ==
    /\ \/ \E tx \in Transactions : payForRoute(tx)
       \/ \E amount \in Amounts : receive(amount)
       \/ withdraw
    /\ UNCHANGED <<memoryVars, clock, handler, served, restarts>>

GatewayNext ==
    \/ \E h \in Handlers : HandlerStep(h)
    \/ ChainStep
    \/ evictOldQuotes
    \/ tick
    \/ restart

GatewaySpec == GatewayInit /\ [][GatewayNext]_gatewayVars

------------------------------------------------------------------------------
GatewayTypeOK ==
    /\ txs \in Seq(Seq(Payments))
    /\ settled \in Nat /\ withdrawn \in Nat /\ clock \in 0 .. MaxTime
    /\ quote \in Seq(Quotes) /\ Len(quote) <= MaxQuotes
    /\ open \subseteq DOMAIN quote
    /\ usedTxs \subseteq Redemptions
    /\ handler \in [Handlers -> HandlerStates]
    /\ served \in Seq(Redemptions)
    /\ restarts \in 0 .. MaxRestarts

\* README.md, "One payment, one unlock", as far as it goes: however requests
\* overlap, whatever is evicted and however often the gateway restarts, no
\* request id unlocks a second response, so neither does the Paid event that
\* names it.  The replay guard knows a transaction by the text it was named
\* with: one that emitted several events unlocks two responses when exactly one
\* of them was claimed in a spelling of the client's own, and never a third.
OnePaymentOneUnlock ==
    \A i, j \in DOMAIN served : i # j =>
        /\ served[i].request # served[j].request
        /\ served[i].tx = served[j].tx =>
              (served[i].as = Canonical <=> served[j].as # Canonical)

\* A response is released only on a payment of the full price, for the route
\* quoted, that names the quote.
UnlocksRestOnPayments ==
    \A i \in DOMAIN served :
        LET q == quote[served[i].request]
        IN  \E p \in Range(txs[served[i].tx]) :
               /\ p.memo = served[i].request
               /\ p.route = q.route
               /\ p.amount >= Price[q.route]

\* Every response rests on its own full payment, and the settlement contract has
\* taken in the prices of all responses ever released, withdrawn since or not.
EveryUnlockWasPaid ==
    /\ UnlocksRestOnPayments
    /\ SumFunction([i \in DOMAIN served |-> Price[quote[served[i].request].route]])
          <= settled + withdrawn

\* A quote the gateway still knows is marked redeemed exactly when it was
\* served, and then the replay guard holds its transaction.
GuardMatchesHistory ==
    \A r \in open :
        quote[r].redeemed <=>
            \E s \in Range(served) : s.request = r /\ s \in usedTxs

\* What the gateway keeps is well formed and agrees with what it has done.
GatewayInv == GatewayTypeOK /\ GuardMatchesHistory

\* how_to_redeem: with the token and the request id "the gateway will match
\* your Paid event on-chain".
FullPaymentUnlocks ==
    \A r \in open :
        /\ ~quote[r].redeemed
        /\ \E tx \in Range(txs) : \E p \in Range(tx) :
              /\ p.memo = r /\ p.route = quote[r].route
              /\ p.amount >= Price[quote[r].route]
        => redeem(r, scanForPayment(r)) = 200

------------------------------------------------------------------------------
\* What a transaction carries for the quotes its events name.
sharesOf(tx) ==
    {[quote |-> p.memo, sum |-> p.amount] :
        p \in {e \in Range(tx) : e.memo # NoRequest /\ e.route = quote[e.memo].route}}

Paid == INSTANCE PaidResponses WITH
    Prices <- Range(Price),
    Sums <- Amounts,
    asked <- [r \in DOMAIN quote |-> Price[quote[r].route]],
    paid <- [t \in DOMAIN txs |-> sharesOf(txs[t])],
    released <- {[quote |-> s.request, payment |-> s.tx] : s \in Range(served)}

\* Requests that overlap at every await, evictions and restarts that forget what
\* was redeemed leave no trace: the gateway releases its responses as one would
\* that never forgets and does one thing at a time.
ImplementsPaidResponses == Paid!PaidSpec
==============================================================================
