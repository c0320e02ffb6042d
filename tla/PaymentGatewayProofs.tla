------------------------- MODULE PaymentGatewayProofs -------------------------
(***************************************************************************)
(* PaymentGateway and BuyerAgent for every catalogue, every set of clients *)
(* and any number of requests in progress, evictions and restarts.         *)
(*                                                                         *)
(* A quote unlocks one response, and a transaction one, or two when one of *)
(* them was claimed in a spelling of the client's own.  The replay guard   *)
(* alone does not show it, for a restart empties it.  What saves the       *)
(* gateway then is that the restart forgets the quotes too: no quote still *)
(* known is a memo of a transaction that unlocked something and is no      *)
(* longer guarded.  GatewayIInv says so, and Books that money covers the   *)
(* responses: each by an event of its own.                                 *)
(*                                                                         *)
(* A buyer pays for one response, whatever becomes of its calls on the way *)
(* to the chain, and is served unless it is shut out: BuyerIInv follows    *)
(* each buyer's money and what its failed tries mean.                      *)
(***************************************************************************)
EXTENDS BuyerAgent, SumTheorems

------------------------------------------------------------------------------
(* The inductive invariant. *)

working(h) == handler[h].at \in {"verifying", "scanning"}

\* The quotes that can still be redeemed, or are being.
live == open \cup {handler[h].owned : h \in {g \in Handlers : working(g)}}

guarded(s) == s \in usedTxs

hasMemo(tx, r) == \E i \in DOMAIN txs[tx] : txs[tx][i].memo = r

Receipts == Seq(Calls) \ {<<>>}

GatewayParts ==
    /\ txs \in Seq(Receipts) /\ Len(txs) <= MaxTxs
    /\ quote \in Seq(Quotes) /\ Len(quote) <= MaxQuotes
    /\ live \subseteq DOMAIN quote
    /\ usedTxs \subseteq Redemptions
    /\ handler \in [Handlers -> HandlerStates]
    /\ served \in Seq(Redemptions)
    /\ clock \in Nat

\* A payment names a quote that was made, or none.
MemosAreOfQuotes ==
    \A tx \in DOMAIN txs : \A r : hasMemo(tx, r) => r \in DOMAIN quote \cup {NoRequest}

\* What was served was paid for and is marked, and either the guard holds it or
\* nobody can redeem its transaction any more.  A spelling of a client's own came
\* with the hash, so it is the first event that was redeemed.
ServedForGood ==
    \A i \in DOMAIN served :
        LET s == served[i] IN
        /\ s.tx \in DOMAIN txs /\ s.request \in DOMAIN quote
        /\ quote[s.request].redeemed
        /\ s.as # Canonical => txs[s.tx][1].memo = s.request
        /\ guarded(s) \/ \A r \in live : ~hasMemo(s.tx, r)

\* A quote still known and marked was served, and is guarded.
MarkedIsServed ==
    \A r \in open : quote[r].redeemed =>
        \E i \in DOMAIN served : served[i].request = r /\ guarded(served[i])

GatewayIInv ==
    /\ GatewayParts
    /\ MemosAreOfQuotes
    /\ ServedForGood
    /\ MarkedIsServed
    /\ UnlocksRestOnPayments
    /\ OnePaymentOneUnlock

------------------------------------------------------------------------------
(* Finding a payment. *)

\* A non-empty set of natural numbers has a least one.
LEMMA MinIsLeast ==
    ASSUME NEW S, S \subseteq Nat, S # {}
    PROVE  Min(S) \in S /\ \A y \in S : Min(S) <= y
<1>1. PICK x \in S : \A y \in S : <<y, x>> \notin OpToRel(<, Nat)
  BY NatLessThanWellFounded, WFMin
<1>2. ASSUME NEW y \in S PROVE x <= y
  <2>1. ~(y < x)
    BY <1>1 DEF OpToRel
  <2> QED
    BY <2>1
<1> QED
  BY <1>2 DEF Min

LEMMA ReceiptsAreThere ==
    ASSUME GatewayParts, NEW tx \in DOMAIN txs
    PROVE  /\ tx \in Nat /\ 1 \in DOMAIN txs[tx] /\ DOMAIN txs[tx] \subseteq Nat
           /\ \A i \in DOMAIN txs[tx] : txs[tx][i] \in Calls
<1>1. txs \in Seq(Receipts)
  BY DEF GatewayParts
<1>2. txs[tx] \in Receipts /\ tx \in Nat
  BY <1>1
<1>3. txs[tx] \in Seq(Calls) /\ txs[tx] # <<>>
  BY <1>2 DEF Receipts
<1> QED
  BY <1>2, <1>3

\* The event that a lookup returns.
finds(f, tx, i) == tx \in DOMAIN txs /\ i \in DOMAIN txs[tx]
                   /\ f = [tx |-> tx, as |-> f.as, paid |-> txs[tx][i]]

LEMMA VerifyFinds ==
    ASSUME GatewayParts, NEW tx, NEW as, verifyByTxHash(tx, as) # NoPayment
    PROVE  finds(verifyByTxHash(tx, as), tx, 1) /\ verifyByTxHash(tx, as).as = as
BY ReceiptsAreThere DEF verifyByTxHash, finds

\* Where the scan for a request looks, and what it finds.
matching(tx, r) == {i \in DOMAIN txs[tx] : /\ txs[tx][i].memo = r
                                           /\ txs[tx][i].route = quote[r].route}
hits(r) == {tx \in DOMAIN txs : matching(tx, r) # {}}

LEMMA ScanIs ==
    ASSUME GatewayParts, NEW r, NEW t \in hits(r)
    PROVE  LET first == Min(hits(r))
               event == Min(matching(first, r))
           IN  /\ first \in hits(r) /\ event \in matching(first, r)
               /\ \A y \in hits(r) : first <= y
               /\ scanForPayment(r) = [tx |-> first, as |-> Canonical,
                                       paid |-> txs[first][event]]
<1>1. hits(r) \subseteq Nat /\ hits(r) # {}
  BY ReceiptsAreThere DEF hits
<1>2. Min(hits(r)) \in hits(r) /\ \A y \in hits(r) : Min(hits(r)) <= y
  BY <1>1, MinIsLeast
<1>3. \A y \in hits(r) : matching(y, r) \subseteq Nat /\ matching(y, r) # {}
  BY ReceiptsAreThere DEF hits, matching
<1>4. \A y \in hits(r) : Min(matching(y, r)) \in matching(y, r)
  BY <1>3, MinIsLeast
<1>5. scanForPayment(r) =
        [tx |-> Min(hits(r)), as |-> Canonical,
         paid |-> txs[Min(hits(r))][Min(matching(Min(hits(r)), r))]]
  BY <1>1 DEF scanForPayment, hits, matching
<1> QED
  BY <1>2, <1>4, <1>5

LEMMA ScanFinds ==
    ASSUME GatewayParts, NEW r, scanForPayment(r) # NoPayment
    PROVE  /\ \E tx, i : finds(scanForPayment(r), tx, i) /\ txs[tx][i].memo = r
           /\ scanForPayment(r).as = Canonical
<1>1. hits(r) # {}
  BY DEF scanForPayment, hits, matching
<1>2. PICK tx, i : /\ tx \in hits(r) /\ i \in matching(tx, r)
                   /\ scanForPayment(r) = [tx |-> tx, as |-> Canonical, paid |-> txs[tx][i]]
  BY <1>1, ScanIs
<1> QED
  BY <1>2 DEF finds, hits, matching

LEMMA RedeemAllows ==
    ASSUME NEW r, NEW f, redeem(r, f) = 200
    PROVE  /\ f.paid.route = quote[r].route
           /\ ~(f.paid.amount < Price[quote[r].route])
           /\ ~usedElsewhere(f, r)
           /\ ~quote[r].redeemed
BY DEF redeem

LEMMA PricesAreNumbers ==
    /\ \A a \in Amounts : a \in Nat
    /\ \A route \in Routes : Price[route] \in Nat
<1>1. Amounts \subseteq Nat /\ Price \in [Routes -> Nat \ {0}]
  BY GatewayAssumption
<1> QED
  BY <1>1

\* What an answer of 200 rests on: a quote in hand and not yet redeemed, and a mined
\* payment of its price that names it and that no other request has used.
LEMMA UnlockEffect ==
    ASSUME GatewayParts, NEW h \in Handlers, working(h), status(h) = 200
    PROVE  LET r == handler[h].owned
               f == found(h)
           IN  /\ r \in live
               /\ f.tx \in DOMAIN txs /\ f.as \in Spellings
               /\ f.as # Canonical => txs[f.tx][1].memo = r
               /\ \E i \in DOMAIN txs[f.tx] :
                     /\ txs[f.tx][i].memo = r /\ txs[f.tx][i].route = quote[r].route
                     /\ txs[f.tx][i].amount >= Price[quote[r].route]
               /\ ~usedElsewhere(f, r)
               /\ ~quote[r].redeemed
<1> DEFINE r == handler[h].owned
           f == found(h)
<1>1. r \in live
  BY DEF live
<1>2. f # NoPayment /\ redeem(r, f) = 200
      /\ (handler[h].at = "verifying" => f.paid.memo = r)
  BY DEF status
<1> HIDE DEF f
<1>3. /\ f.paid.route = quote[r].route /\ ~(f.paid.amount < Price[quote[r].route])
      /\ ~usedElsewhere(f, r) /\ ~quote[r].redeemed
  BY <1>2, RedeemAllows
<1>4. PICK tx, i : /\ finds(f, tx, i) /\ txs[tx][i].memo = r
                   /\ f.as = Canonical \/ i = 1
                   /\ f.as \in Spellings
  <2>1. CASE handler[h].at = "verifying"
    <3>1. handler[h].as \in Spellings
      <4>1. handler[h] \in HandlerStates
        BY DEF GatewayParts
      <4> QED
        BY <2>1, <4>1 DEF HandlerStates, Idle
    <3> QED
      BY <1>2, <2>1, <3>1, VerifyFinds DEF f, found, finds
  <2>2. CASE handler[h].at = "scanning"
    BY <1>2, <2>2, ScanFinds, GatewayAssumption DEF f, found
  <2> QED
    BY <2>1, <2>2 DEF working
<1>5. tx \in DOMAIN txs /\ i \in DOMAIN txs[tx] /\ f.tx = tx /\ f.paid = txs[tx][i]
  BY <1>4 DEF finds
<1>6. quote[r] \in Quotes
  <2>1. quote \in Seq(Quotes) /\ r \in DOMAIN quote
    BY <1>1 DEF GatewayParts
  <2> QED
    BY <2>1
<1>7. txs[tx][i].amount \in Nat /\ Price[quote[r].route] \in Nat
  <2>1. txs[tx][i] \in Calls
    BY <1>5, ReceiptsAreThere
  <2>2. txs[tx][i].amount \in Amounts /\ quote[r].route \in Routes
    BY <1>6, <2>1 DEF Calls, Quotes
  <2> QED
    BY <2>2, PricesAreNumbers
<1> QED
  BY <1>1, <1>3, <1>4, <1>5, <1>7 DEF f

------------------------------------------------------------------------------
(* The steps. *)

\* A step that redeems, quotes and pays nothing, and puts no new quote in reach.
LEMMA QuietKeepsInv ==
    ASSUME GatewayIInv, UNCHANGED <<txs, quote, usedTxs, served>>,
           open' \subseteq open, live' \subseteq live,
           handler' \in [Handlers -> HandlerStates], clock' \in Nat
    PROVE  GatewayIInv'
<1>1. GatewayParts'
  BY DEF GatewayIInv, GatewayParts
<1>2. MemosAreOfQuotes'
  BY DEF GatewayIInv, MemosAreOfQuotes, hasMemo
<1>3. ServedForGood'
  BY DEF GatewayIInv, ServedForGood, hasMemo, guarded
<1>4. MarkedIsServed'
  BY DEF GatewayIInv, MarkedIsServed, guarded
<1>5. UnlocksRestOnPayments' /\ OnePaymentOneUnlock'
  BY DEF GatewayIInv, UnlocksRestOnPayments, OnePaymentOneUnlock
<1> QED
  BY <1>1, <1>2, <1>3, <1>4, <1>5 DEF GatewayIInv

\* One handler goes on, holding nothing or a quote in reach.
LEMMA HandlerHolds ==
    ASSUME GatewayParts, NEW h \in Handlers, NEW x \in HandlerStates,
           handler' = [handler EXCEPT ![h] = x], open' = open,
           x.at \in {"verifying", "scanning"} => x.owned \in live
    PROVE  live' \subseteq live /\ handler' \in [Handlers -> HandlerStates]
<1>1. handler \in [Handlers -> HandlerStates]
  BY DEF GatewayParts
<1>2. /\ handler' \in [Handlers -> HandlerStates]
      /\ handler'[h] = x /\ \A g \in Handlers \ {h} : handler'[g] = handler[g]
  BY <1>1
<1>3. ASSUME NEW g \in Handlers, working(g)' PROVE handler'[g].owned \in live
  BY <1>2, <1>3 DEF working, live
<1> QED
  BY <1>2, <1>3 DEF live

\* A handler that ends holds nothing.
LEMMA IdleHolds == Idle \in HandlerStates /\ Idle.at \notin {"verifying", "scanning"}
BY DEF Idle, HandlerStates

\* A quote is made: no payment can have named it.
LEMMA QuoteKeepsInv ==
    ASSUME GatewayIInv, NEW h \in Handlers, makeQuote(h)
    PROVE  GatewayIInv'
<1> DEFINE n == Len(quote) + 1
           q == [route |-> handler[h].route, createdAt |-> clock, redeemed |-> FALSE]
<1>1. GatewayParts /\ MaxQuotes \in Nat
  BY GatewayAssumption DEF GatewayIInv
<1>2. /\ quote' = Append(quote, q) /\ open' = open \cup {n} /\ Len(quote) < MaxQuotes
      /\ handler' = [handler EXCEPT ![h] = Idle] /\ handler[h].at = "quoting"
      /\ UNCHANGED <<txs, usedTxs, served, clock>>
  BY DEF makeQuote, chainVars
<1>3. q \in Quotes /\ ~q.redeemed
  <2>1. handler[h] \in HandlerStates
    BY <1>1 DEF GatewayParts
  <2>2. handler[h].route \in Routes
    BY <1>2, <2>1 DEF HandlerStates, Idle
  <2> QED
    BY <1>1, <2>2 DEF Quotes, GatewayParts
<1> HIDE DEF q
<1>4. /\ quote' \in Seq(Quotes) /\ Len(quote') <= MaxQuotes
      /\ DOMAIN quote' = DOMAIN quote \cup {n} /\ n \notin DOMAIN quote /\ n # NoRequest
      /\ quote'[n] = q /\ \A r \in DOMAIN quote : quote'[r] = quote[r]
  BY <1>1, <1>2, <1>3 DEF GatewayParts, NoRequest
<1> HIDE DEF n
<1>5. /\ live' \subseteq live \cup {n}
      /\ handler' \in [Handlers -> HandlerStates]
  <2>1. handler \in [Handlers -> HandlerStates]
    BY <1>1 DEF GatewayParts
  <2> QED
    BY <1>2, <2>1, IdleHolds DEF live, working
<1>6. GatewayParts'
  BY <1>1, <1>2, <1>4, <1>5 DEF GatewayParts
<1>7. MemosAreOfQuotes'
  BY <1>2, <1>4 DEF GatewayIInv, MemosAreOfQuotes, hasMemo
<1>8. ServedForGood'
  <2> SUFFICES ASSUME NEW i \in DOMAIN served
               PROVE  LET s == served[i] IN
                      /\ s.tx \in DOMAIN txs /\ s.request \in DOMAIN quote'
                      /\ quote'[s.request].redeemed
                      /\ s.as # Canonical => txs[s.tx][1].memo = s.request
                      /\ guarded(s) \/ \A r \in live' : ~hasMemo(s.tx, r)
    BY <1>2 DEF ServedForGood, guarded, hasMemo
  <2>1. /\ served[i].tx \in DOMAIN txs /\ served[i].request \in DOMAIN quote
        /\ quote[served[i].request].redeemed
        /\ served[i].as # Canonical => txs[served[i].tx][1].memo = served[i].request
        /\ guarded(served[i]) \/ \A r \in live : ~hasMemo(served[i].tx, r)
    BY DEF GatewayIInv, ServedForGood
  <2>2. ~hasMemo(served[i].tx, n)
    BY <1>4, <2>1 DEF GatewayIInv, MemosAreOfQuotes
  <2> QED
    BY <1>4, <1>5, <2>1, <2>2
<1>9. MarkedIsServed'
  <2>1. open \subseteq DOMAIN quote
    BY <1>1 DEF GatewayParts, live
  <2> QED
    BY <1>2, <1>3, <1>4, <2>1 DEF GatewayIInv, MarkedIsServed, guarded
<1>10. UnlocksRestOnPayments'
  <2>1. \A i \in DOMAIN served : quote'[served[i].request] = quote[served[i].request]
    BY <1>4 DEF GatewayIInv, ServedForGood
  <2> QED
    BY <1>2, <2>1 DEF GatewayIInv, UnlocksRestOnPayments
<1>11. OnePaymentOneUnlock'
  BY <1>2 DEF GatewayIInv, OnePaymentOneUnlock
<1> QED
  BY <1>6, <1>7, <1>8, <1>9, <1>10, <1>11 DEF GatewayIInv

\* A payment is mined: the transactions before it stay.
LEMMA PaymentKeepsInv ==
    ASSUME GatewayIInv, NEW tx \in Receipts, Len(txs) < MaxTxs, txs' = Append(txs, tx),
           \A i \in DOMAIN tx : tx[i].memo \in DOMAIN quote \cup {NoRequest},
           UNCHANGED <<memoryVars, handler, served, clock>>
    PROVE  GatewayIInv'
<1>1. /\ txs \in Seq(Receipts) /\ MaxTxs \in Nat
      /\ txs' = Append(txs, tx) /\ Len(txs) < MaxTxs
      /\ UNCHANGED <<quote, open, usedTxs, handler, served, clock>>
  BY GatewayAssumption DEF GatewayIInv, GatewayParts, memoryVars
<1>2. /\ txs' \in Seq(Receipts) /\ Len(txs') <= MaxTxs
      /\ DOMAIN txs' = DOMAIN txs \cup {Len(txs) + 1}
      /\ \A i \in DOMAIN txs : txs'[i] = txs[i]
      /\ txs'[Len(txs) + 1] = tx
  BY <1>1
<1>3. live' = live
  BY <1>1 DEF live, working
<1>4. GatewayParts'
  BY <1>1, <1>2, <1>3 DEF GatewayIInv, GatewayParts
<1>5. MemosAreOfQuotes'
  BY <1>1, <1>2 DEF GatewayIInv, MemosAreOfQuotes, hasMemo
<1>6. ServedForGood'
  <2>1. ASSUME NEW i \in DOMAIN served
        PROVE  /\ served[i].tx \in DOMAIN txs
               /\ txs'[served[i].tx] = txs[served[i].tx]
    BY <1>2, <2>1 DEF GatewayIInv, ServedForGood
  <2> QED
    BY <1>1, <1>2, <1>3, <2>1 DEF GatewayIInv, ServedForGood, hasMemo, guarded
<1>7. MarkedIsServed'
  BY <1>1 DEF GatewayIInv, MarkedIsServed, guarded
<1>8. UnlocksRestOnPayments'
  <2>1. ASSUME NEW i \in DOMAIN served
        PROVE  Range(txs'[served[i].tx]) = Range(txs[served[i].tx])
    BY <1>2, <2>1 DEF GatewayIInv, ServedForGood
  <2> QED
    BY <1>1, <2>1 DEF GatewayIInv, UnlocksRestOnPayments
<1>9. OnePaymentOneUnlock'
  BY <1>1 DEF GatewayIInv, OnePaymentOneUnlock
<1> QED
  BY <1>4, <1>5, <1>6, <1>7, <1>8, <1>9 DEF GatewayIInv

\* The gateway restarts: nothing is guarded and nothing can be redeemed.
LEMMA RestartKeepsInv ==
    ASSUME GatewayIInv, restart
    PROVE  GatewayIInv'
<1>1. /\ open' = {} /\ usedTxs' = {} /\ handler' = [h \in Handlers |-> Idle]
      /\ UNCHANGED <<txs, quote, served, clock>>
  BY DEF restart, chainVars
<1>2. live' = {} /\ handler' \in [Handlers -> HandlerStates]
  BY <1>1, IdleHolds DEF live, working
<1>3. GatewayParts'
  BY <1>1, <1>2 DEF GatewayIInv, GatewayParts
<1>4. MemosAreOfQuotes' /\ ServedForGood' /\ MarkedIsServed'
  BY <1>1, <1>2
     DEF GatewayIInv, MemosAreOfQuotes, ServedForGood, MarkedIsServed, hasMemo
<1>5. UnlocksRestOnPayments' /\ OnePaymentOneUnlock'
  BY <1>1 DEF GatewayIInv, UnlocksRestOnPayments, OnePaymentOneUnlock
<1> QED
  BY <1>3, <1>4, <1>5 DEF GatewayIInv

\* A response is released.  No earlier one is of the same request.  One of the same
\* transaction is guarded, for else it has no memo in reach, so its key is another: one
\* of the two was found or written as ethers writes it, and the other, written otherwise,
\* is of the first event.
LEMMA UnlockKeepsInv ==
    ASSUME GatewayIInv, NEW h \in Handlers, working(h), status(h) = 200,
           writeRedemption(handler[h].owned, found(h)),
           served' = Append(served, redemption(handler[h].owned, found(h))),
           handler' = [handler EXCEPT ![h] = Idle],
           UNCHANGED <<chainVars, open, clock>>
    PROVE  GatewayIInv'
<1> DEFINE r == handler[h].owned
           f == found(h)
           tx == f.tx
           s == redemption(r, f)
           n == Len(served) + 1
<1>1. GatewayParts
  BY DEF GatewayIInv
<1>2. /\ r \in live /\ tx \in DOMAIN txs /\ hasMemo(tx, r)
      /\ \E i \in DOMAIN txs[tx] :
            /\ txs[tx][i].memo = r /\ txs[tx][i].route = quote[r].route
            /\ txs[tx][i].amount >= Price[quote[r].route]
      /\ f.as \in Spellings /\ (f.as # Canonical => txs[tx][1].memo = r)
      /\ ~usedElsewhere(f, r) /\ ~quote[r].redeemed
  BY <1>1, UnlockEffect DEF hasMemo
<1>3. /\ quote' = [quote EXCEPT ![r].redeemed = TRUE]
      /\ usedTxs' = {u \in usedTxs : ~sameKey(u, f)} \cup {s}
      /\ served' = Append(served, s)
      /\ UNCHANGED <<txs, open, clock>>
  BY DEF writeRedemption, chainVars
<1>s. s.tx = tx /\ s.as = f.as /\ s.request = r
  BY DEF redemption
<1> HIDE DEF r, f
<1>4. /\ quote \in Seq(Quotes) /\ r \in DOMAIN quote /\ r \in RequestIds /\ tx \in TxIds
      /\ served \in Seq(Redemptions) /\ usedTxs \subseteq Redemptions
  BY <1>1, <1>2, GatewayAssumption DEF GatewayParts, RequestIds, TxIds
<1>r. s \in Redemptions /\ \A u \in Redemptions : sameKey(u, f) /\ u.request = r => u = s
  BY <1>2, <1>4 DEF Redemptions, redemption, sameKey
<1> HIDE DEF tx, s
<1>5. /\ quote' \in Seq(Quotes) /\ Len(quote') = Len(quote)
      /\ DOMAIN quote' = DOMAIN quote /\ quote'[r].redeemed
      /\ \A i \in DOMAIN quote : /\ quote'[i].route = quote[i].route
                                 /\ quote[i].redeemed => quote'[i].redeemed
                                 /\ i # r => quote'[i] = quote[i]
  <2> DEFINE q == [quote[r] EXCEPT !.redeemed = TRUE]
  <2>1. quote[r] \in Quotes
    BY <1>4
  <2>2. q \in Quotes /\ q.redeemed /\ q.route = quote[r].route
    BY <2>1 DEF Quotes
  <2>3. quote' = [quote EXCEPT ![r] = q]
    BY <1>3, <1>4, <2>1 DEF Quotes
  <2> HIDE DEF q
  <2> QED
    BY <1>4, <2>2, <2>3
<1>6. /\ served' \in Seq(Redemptions)
      /\ DOMAIN served' = DOMAIN served \cup {n} /\ n \notin DOMAIN served
      /\ served'[n] = s /\ \A i \in DOMAIN served : served'[i] = served[i]
  BY <1>3, <1>4, <1>r
\* The guard loses nothing: what it held under this key was this request.
<1>7. usedTxs' = usedTxs \cup {s}
  <2>1. ASSUME NEW u \in usedTxs, sameKey(u, f) PROVE u = s
    BY <1>2, <1>4, <1>r, <2>1 DEF usedElsewhere
  <2> QED
    BY <1>3, <2>1
<1>8. ASSUME NEW i \in DOMAIN served
      PROVE  /\ served[i].request # r
             /\ served[i].tx = tx => (served[i].as = Canonical <=> s.as # Canonical)
  <2>1. /\ quote[served[i].request].redeemed
        /\ served[i].as # Canonical => txs[served[i].tx][1].memo = served[i].request
        /\ guarded(served[i]) \/ \A q \in live : ~hasMemo(served[i].tx, q)
    BY DEF GatewayIInv, ServedForGood
  <2>2. served[i].request # r
    BY <1>2, <2>1
  <2>3. served[i].tx = tx => guarded(served[i])
    BY <1>2, <2>1
  <2>4. served[i].tx = tx => served[i].as # f.as
    BY <1>2, <2>2, <2>3 DEF guarded, usedElsewhere, sameKey, tx
  <2> QED
    BY <1>2, <1>s, <2>1, <2>2, <2>4
<1>9. /\ live' \subseteq live /\ handler' \in [Handlers -> HandlerStates]
  <2>1. Idle \in HandlerStates /\ (Idle.at \in {"verifying", "scanning"} => Idle.owned \in live)
    BY IdleHolds
  <2>2. open' = open
    BY <1>3
  <2> QED
    BY <1>1, <2>1, <2>2, HandlerHolds
<1>10. GatewayParts'
  <2>1. usedTxs' \subseteq Redemptions
    BY <1>4, <1>7, <1>r
  <2> QED
    BY <1>1, <1>3, <1>5, <1>6, <1>9, <2>1 DEF GatewayParts
<1>11. MemosAreOfQuotes'
  BY <1>3, <1>5 DEF GatewayIInv, MemosAreOfQuotes, hasMemo
<1>12. ServedForGood'
  <2>1. ASSUME NEW i \in DOMAIN served
        PROVE  /\ served[i].tx \in DOMAIN txs /\ served[i].request \in DOMAIN quote
               /\ quote'[served[i].request].redeemed
               /\ served[i].as # Canonical => txs[served[i].tx][1].memo = served[i].request
               /\ guarded(served[i])' \/ \A q \in live' : ~hasMemo(served[i].tx, q)
    BY <1>5, <1>6, <1>7, <1>9 DEF GatewayIInv, ServedForGood, guarded
  <2>2. s \in usedTxs'
    BY <1>7
  <2> QED
    BY <1>s, <1>2, <1>3, <1>4, <1>5, <1>6, <2>1, <2>2 DEF ServedForGood, guarded, hasMemo
<1>13. MarkedIsServed'
  <2>1. open \subseteq DOMAIN quote
    BY <1>1 DEF GatewayParts, live
  <2>2. s \in usedTxs'
    BY <1>7
  <2>3. ASSUME NEW q \in open, quote'[q].redeemed
        PROVE  \E i \in DOMAIN served' :
                  /\ served'[i].request = q
                  /\ served'[i] \in usedTxs'
    <3>1. CASE q = r
      BY <1>s, <1>6, <2>2, <3>1
    <3>2. CASE q # r
      <4>1. PICK i \in DOMAIN served : served[i].request = q /\ guarded(served[i])
        BY <1>5, <2>1, <2>3, <3>2 DEF GatewayIInv, MarkedIsServed
      <4> QED
        BY <1>6, <1>7, <4>1 DEF guarded
    <3> QED
      BY <3>1, <3>2
  <2>4. open' = open
    BY <1>3
  <2> QED
    BY <2>3, <2>4 DEF MarkedIsServed, guarded
<1>14. UnlocksRestOnPayments'
  <2>1. ASSUME NEW i \in DOMAIN served'
        PROVE  \E p \in Range(txs[served'[i].tx]) :
                  /\ p.memo = served'[i].request
                  /\ p.route = quote'[served'[i].request].route
                  /\ p.amount >= Price[quote'[served'[i].request].route]
    <3>1. CASE i = n
      <4>1. PICK k \in DOMAIN txs[tx] :
                   /\ txs[tx][k].memo = r /\ txs[tx][k].route = quote[r].route
                   /\ txs[tx][k].amount >= Price[quote[r].route]
        BY <1>2
      <4>2. txs[tx][k] \in Range(txs[tx])
        BY DEF Range
      <4> QED
        BY <1>s, <1>4, <1>5, <1>6, <3>1, <4>1, <4>2
    <3>2. CASE i \in DOMAIN served
      <4>1. served[i].request \in DOMAIN quote
        BY <3>2 DEF GatewayIInv, ServedForGood
      <4> QED
        BY <1>5, <1>6, <3>2, <4>1 DEF GatewayIInv, UnlocksRestOnPayments
    <3> QED
      BY <1>6, <3>1, <3>2
  <2> QED
    BY <1>3, <2>1 DEF UnlocksRestOnPayments
<1>15. OnePaymentOneUnlock'
  BY <1>s, <1>6, <1>8 DEF GatewayIInv, OnePaymentOneUnlock
<1> QED
  BY <1>10, <1>11, <1>12, <1>13, <1>14, <1>15 DEF GatewayIInv

\* A request in progress, step by step.
LEMMA HandlerKeepsInv ==
    ASSUME GatewayIInv, NEW h \in Handlers, HandlerStep(h)
    PROVE  GatewayIInv'
<1>1. GatewayParts /\ clock \in Nat
  BY DEF GatewayIInv, GatewayParts
<1>2. ASSUME NEW x \in HandlerStates, handler' = [handler EXCEPT ![h] = x],
             x.at \in {"verifying", "scanning"} => x.owned \in live,
             UNCHANGED <<txs, quote, usedTxs, served, open, clock>>
      PROVE  GatewayIInv'
  BY <1>1, <1>2, HandlerHolds, QuietKeepsInv
<1>3. ASSUME NEW route \in Routes, askQuote(h, route)
      PROVE  GatewayIInv'
  <2> DEFINE x == [at |-> "quoting", route |-> route]
  <2>1. x \in HandlerStates /\ x.at \notin {"verifying", "scanning"}
    BY DEF HandlerStates
  <2> QED
    BY <1>2, <1>3, <2>1 DEF askQuote, chainVars, memoryVars
<1>4. ASSUME NEW route \in Routes, NEW r \in RequestIds, presentRequest(h, route, r)
      PROVE  GatewayIInv'
  <2> DEFINE x == [at |-> "scanning", route |-> route, owned |-> r]
  <2>1. x \in HandlerStates /\ x.owned = r
    BY DEF HandlerStates
  <2>2. r \in live
    BY <1>4 DEF presentRequest, owns, live
  <2> QED
    BY <1>2, <1>4, <2>1, <2>2 DEF presentRequest, chainVars, memoryVars
<1>5. ASSUME NEW route \in Routes, NEW r \in RequestIds, NEW tx \in TxIds,
             NEW as \in Spellings, presentTx(h, route, r, tx, as)
      PROVE  GatewayIInv'
  <2> DEFINE x == [at |-> "verifying", route |-> route, tx |-> tx, as |-> as, owned |-> r]
  <2>1. x \in HandlerStates /\ x.owned = r
    BY DEF HandlerStates
  <2>2. r \in live
    BY <1>5 DEF presentTx, owns, live
  <2> QED
    BY <1>2, <1>5, <2>1, <2>2 DEF presentTx, chainVars, memoryVars
<1>6. CASE makeQuote(h)
  BY <1>6, QuoteKeepsInv
<1>7. CASE answer(h)
  <2>1. CASE status(h) = 200
    <3>1. working(h)
      BY <1>7 DEF answer, working
    <3> QED
      BY <1>7, <2>1, <3>1, UnlockKeepsInv DEF answer
  <2>2. CASE status(h) # 200
    BY <1>2, <1>7, <2>2, IdleHolds DEF answer, chainVars
  <2> QED
    BY <2>1, <2>2
<1>8. CASE fail(h)
  BY <1>2, <1>8, IdleHolds DEF fail, chainVars, memoryVars
<1> QED
  BY <1>3, <1>4, <1>5, <1>6, <1>7, <1>8 DEF HandlerStep

\* What the gateway and its chain do by themselves or for anybody: a transaction need
\* not be one of those a client of a bounded instance sends.
pays(tx) == payForRoute(tx) /\ UNCHANGED <<memoryVars, clock, handler, served, restarts>>

GatewayMove == GatewayNext \/ \E tx \in Receipts : pays(tx)

LEMMA MoveCases ==
    ASSUME [GatewayMove]_gatewayVars
    PROVE  \/ \E h \in Handlers : HandlerStep(h)
           \/ restart
           \/ \E tx \in Receipts :
                 /\ \A i \in DOMAIN tx : /\ tx[i].memo \in DOMAIN quote \cup {NoRequest}
                                         /\ tx[i].amount > 0
                 /\ Len(txs) < MaxTxs /\ txs' = Append(txs, tx)
                 /\ settled' = settled + total(tx) /\ withdrawn' = withdrawn
                 /\ UNCHANGED <<memoryVars, clock, handler, served, restarts>>
           \/ withdraw /\ UNCHANGED <<memoryVars, clock, handler, served, restarts>>
           \/ /\ UNCHANGED <<chainVars, quote, usedTxs, handler, served, restarts>>
              /\ open' \subseteq open /\ (clock' = clock \/ tick)
<1>1. ASSUME NEW amount \in Amounts, receive(amount)
      PROVE  \E tx \in Receipts :
                /\ \A i \in DOMAIN tx : /\ tx[i].memo \in DOMAIN quote \cup {NoRequest}
                                        /\ tx[i].amount > 0
                /\ Len(txs) < MaxTxs /\ txs' = Append(txs, tx)
                /\ settled' = settled + total(tx) /\ withdrawn' = withdrawn
  <2> DEFINE call == [route |-> Direct, amount |-> amount, memo |-> NoRequest]
             amounts == [i \in DOMAIN <<call>> |-> <<call>>[i].amount]
  <2>1. /\ call \in Calls /\ call.memo = NoRequest /\ call.amount = amount
        /\ amount > 0 /\ amount \in Nat
    BY <1>1, GatewayAssumption DEF Calls, receive
  <2>2. txs' = Append(txs, <<call>>) /\ Len(txs) < MaxTxs
        /\ settled' = settled + amount /\ withdrawn' = withdrawn
    BY <1>1 DEF receive
  <2> HIDE DEF call
  <2>3. <<call>> \in Receipts /\ DOMAIN <<call>> = {1} /\ <<call>>[1] = call
    BY <2>1 DEF Receipts
  <2>4. DOMAIN amounts = {1} /\ amounts[1] = amount
    BY <2>1, <2>3
  <2>5. total(<<call>>) = SumFunctionOnSet(amounts, {1})
    BY <2>4 DEF total, SumFunction
  <2> HIDE DEF amounts
  <2>a. \A x \in {1} : amounts[x] = amount
    BY <2>4
  <2>b. IsFiniteSet({1}) /\ Cardinality({1}) = 1
    BY FS_Singleton, Zenon
  <2>c. amount \in Int
    BY <2>1
  <2>6. SumFunctionOnSet(amounts, {1}) = Cardinality({1}) * amount
    BY <2>a, <2>b, <2>c, SumConstant
  <2>7. total(<<call>>) = amount
    BY <2>1, <2>5, <2>6, <2>b
  <2> QED
    BY <2>1, <2>2, <2>3, <2>7
<1>2. ASSUME NEW tx \in Transactions PROVE tx \in Receipts
  BY GatewayAssumption DEF Receipts
<1>3. CASE ChainStep
  BY <1>1, <1>2, <1>3 DEF ChainStep, payForRoute
<1>4. CASE evictOldQuotes \/ tick \/ UNCHANGED gatewayVars
  BY <1>4 DEF evictOldQuotes, tick, gatewayVars, memoryVars
<1>5. CASE \E tx \in Receipts : pays(tx)
  BY <1>5 DEF pays, payForRoute
<1> QED
  BY <1>3, <1>4, <1>5 DEF GatewayMove, GatewayNext

LEMMA GatewayMoveKeepsInv ==
    ASSUME GatewayIInv, [GatewayMove]_gatewayVars
    PROVE  GatewayIInv'
<1>1. clock \in Nat /\ handler \in [Handlers -> HandlerStates]
  BY DEF GatewayIInv, GatewayParts
<1>2. ASSUME UNCHANGED <<txs, quote, usedTxs, served, handler>>,
             open' \subseteq open, clock' \in Nat
      PROVE  GatewayIInv'
  <2>1. live' \subseteq live
    BY <1>2 DEF live, working
  <2> QED
    BY <1>1, <1>2, <2>1, QuietKeepsInv
<1>3. ASSUME NEW tx \in Receipts,
             \A i \in DOMAIN tx : tx[i].memo \in DOMAIN quote \cup {NoRequest},
             Len(txs) < MaxTxs, txs' = Append(txs, tx),
             UNCHANGED <<memoryVars, clock, handler, served, restarts>>
      PROVE  GatewayIInv'
  BY <1>3, PaymentKeepsInv
<1>4. CASE withdraw /\ UNCHANGED <<memoryVars, clock, handler, served, restarts>>
  BY <1>1, <1>2, <1>4 DEF withdraw, memoryVars
<1>5. CASE /\ UNCHANGED <<chainVars, quote, usedTxs, handler, served, restarts>>
           /\ open' \subseteq open /\ (clock' = clock \/ tick)
  BY <1>1, <1>2, <1>5 DEF tick, chainVars
<1> QED
  BY <1>3, <1>4, <1>5, MoveCases, HandlerKeepsInv, RestartKeepsInv

LEMMA GatewayInitInv == GatewayInit => GatewayIInv
<1> SUFFICES ASSUME GatewayInit PROVE GatewayIInv
  OBVIOUS
<1>1. /\ txs = <<>> /\ quote = <<>> /\ served = <<>> /\ open = {} /\ usedTxs = {}
      /\ clock = 0 /\ handler = [h \in Handlers |-> Idle]
  BY DEF GatewayInit
<1>2. MaxTxs \in Nat /\ MaxQuotes \in Nat
  BY GatewayAssumption
<1>3. live = {} /\ handler \in [Handlers -> HandlerStates]
  BY <1>1, IdleHolds DEF live, working
<1>4. GatewayParts
  BY <1>1, <1>2, <1>3 DEF GatewayParts
<1> QED
  BY <1>1, <1>4
     DEF GatewayIInv, MemosAreOfQuotes, ServedForGood, MarkedIsServed,
         UnlocksRestOnPayments, OnePaymentOneUnlock

LEMMA GatewayIInvHolds == GatewaySpec => []GatewayIInv
<1>1. GatewayIInv /\ [GatewayNext]_gatewayVars => GatewayIInv'
  BY GatewayMoveKeepsInv DEF GatewayMove
<1> QED
  BY <1>1, GatewayInitInv, PTL DEF GatewaySpec

------------------------------------------------------------------------------
(* The money. *)

\* What GatewayIInv leaves out of the types, and the balance: what was taken in is
\* what the transactions carried.
Books ==
    /\ settled \in Nat /\ withdrawn \in Nat
    /\ clock \in 0 .. MaxTime /\ restarts \in 0 .. MaxRestarts
    /\ \A t \in DOMAIN txs : \A i \in DOMAIN txs[t] : txs[t][i].amount > 0
    /\ settled + withdrawn = SumFunction([t \in DOMAIN txs |-> total(txs[t])])

\* A transaction carries at least what each of its calls does.
LEMMA TotalCovers ==
    ASSUME NEW tx \in Receipts
    PROVE  total(tx) \in Nat /\ \A i \in DOMAIN tx : tx[i].amount <= total(tx)
<1> DEFINE f == [i \in DOMAIN tx |-> tx[i].amount]
<1>1. tx \in Seq(Calls)
  BY DEF Receipts
<1>2. DOMAIN tx = 1 .. Len(tx) /\ Len(tx) \in Nat
  BY <1>1
<1>3. IsFiniteSet(DOMAIN tx)
  BY <1>2, FS_Interval
<1>4. ASSUME NEW i \in DOMAIN tx PROVE f[i] = tx[i].amount /\ f[i] \in Nat
  <2>1. tx[i] \in Calls
    BY <1>1
  <2> QED
    BY <2>1, PricesAreNumbers DEF Calls
<1>5. total(tx) = SumFunctionOnSet(f, DOMAIN tx)
  BY DEF total, SumFunction
<1> HIDE DEF f
<1> QED
  BY <1>3, <1>4, <1>5, SumNat

LEMMA PaymentIsBooked ==
    ASSUME GatewayParts, Books, NEW tx \in Receipts, Len(txs) < MaxTxs,
           \A i \in DOMAIN tx : tx[i].amount > 0,
           txs' = Append(txs, tx), settled' = settled + total(tx),
           UNCHANGED <<withdrawn, clock, restarts>>
    PROVE  Books'
<1> DEFINE f == [t \in DOMAIN txs |-> total(txs[t])]
           g == [t \in DOMAIN txs' |-> total(txs'[t])]
           n == Len(txs) + 1
<1>1. txs \in Seq(Receipts) /\ DOMAIN txs = 1 .. Len(txs) /\ Len(txs) \in Nat
  BY DEF GatewayParts
<1>2. /\ DOMAIN txs' = DOMAIN txs \cup {n} /\ n \notin DOMAIN txs
      /\ txs'[n] = tx /\ \A t \in DOMAIN txs : txs'[t] = txs[t]
  BY <1>1
<1>3. IsFiniteSet(DOMAIN txs)
  <2>1. IsFiniteSet(1 .. Len(txs))
    BY <1>1, FS_Interval
  <2> QED
    BY <1>1, <2>1
<1>4. \A t \in DOMAIN txs : f[t] \in Int /\ g[t] = f[t]
  BY <1>1, <1>2, TotalCovers
<1>5. g[n] = total(tx) /\ g[n] \in Nat
  BY <1>2, TotalCovers
<1>6. SumFunction([t \in DOMAIN txs |-> total(txs[t])]) = SumFunctionOnSet(f, DOMAIN txs)
  BY DEF SumFunction
<1>7. (SumFunction([t \in DOMAIN txs |-> total(txs[t])]))'
        = SumFunctionOnSet(g, DOMAIN txs')
  BY DEF SumFunction, total
<1> HIDE DEF f, g, n
<1>8. SumFunctionOnSet(g, DOMAIN txs \cup {n}) = SumFunctionOnSet(f, DOMAIN txs) + g[n]
  BY <1>2, <1>3, <1>4, <1>5, SumAdd
<1>9. settled' + withdrawn' = (SumFunction([t \in DOMAIN txs |-> total(txs[t])]))'
  <2>1. settled + withdrawn = SumFunctionOnSet(f, DOMAIN txs)
        /\ settled \in Nat /\ withdrawn \in Nat
    BY <1>6 DEF Books
  <2>2. SumFunctionOnSet(g, DOMAIN txs') = settled + withdrawn + g[n]
    BY <1>2, <1>8, <2>1
  <2>3. settled' + withdrawn' = settled + withdrawn + g[n]
    BY <1>5, <2>1
  <2> QED
    BY <1>7, <2>2, <2>3
<1>10. settled' \in Nat /\ withdrawn' \in Nat
  BY <1>5 DEF Books
<1> QED
  BY <1>2, <1>9, <1>10 DEF Books

\* The transactions stand still.
LEMMA BooksStand ==
    ASSUME Books, UNCHANGED txs, settled' \in Nat, withdrawn' \in Nat,
           settled' + withdrawn' = settled + withdrawn,
           clock' \in 0 .. MaxTime, restarts' \in 0 .. MaxRestarts
    PROVE  Books'
<1>1. (SumFunction([t \in DOMAIN txs |-> total(txs[t])]))'
        = SumFunction([t \in DOMAIN txs |-> total(txs[t])])
  BY DEF total
<1> QED
  BY <1>1 DEF Books

LEMMA MoveIsBooked ==
    ASSUME GatewayIInv, Books, [GatewayMove]_gatewayVars
    PROVE  Books'
<1>1. /\ settled \in Nat /\ withdrawn \in Nat
      /\ clock \in 0 .. MaxTime /\ restarts \in 0 .. MaxRestarts
      /\ MaxTime \in Nat /\ MaxRestarts \in Nat
  BY GatewayAssumption DEF Books
<1>2. CASE \E h \in Handlers : HandlerStep(h)
  <2>1. UNCHANGED <<chainVars, clock, restarts>>
    BY <1>2 DEF HandlerStep, askQuote, presentRequest, presentTx, makeQuote, answer, fail
  <2> QED
    BY <1>1, <2>1, BooksStand DEF chainVars
<1>3. CASE restart
  <2>1. UNCHANGED <<txs, settled, withdrawn, clock>> /\ restarts' \in 0 .. MaxRestarts
    BY <1>1, <1>3 DEF restart, chainVars
  <2> QED
    BY <1>1, <2>1, BooksStand
<1>4. ASSUME NEW tx \in Receipts, \A i \in DOMAIN tx : tx[i].amount > 0,
             Len(txs) < MaxTxs, txs' = Append(txs, tx),
             settled' = settled + total(tx), withdrawn' = withdrawn,
             UNCHANGED <<memoryVars, clock, handler, served, restarts>>
      PROVE  Books'
  BY <1>4, PaymentIsBooked DEF GatewayIInv
<1>5. CASE withdraw /\ UNCHANGED <<memoryVars, clock, handler, served, restarts>>
  <2>1. /\ settled' \in Nat /\ withdrawn' \in Nat
        /\ settled' + withdrawn' = settled + withdrawn /\ UNCHANGED txs
    BY <1>1, <1>5 DEF withdraw
  <2> QED
    BY <1>1, <1>5, <2>1, BooksStand
<1>6. CASE /\ UNCHANGED <<chainVars, quote, usedTxs, handler, served, restarts>>
           /\ open' \subseteq open /\ (clock' = clock \/ tick)
  <2>1. clock' \in 0 .. MaxTime /\ UNCHANGED <<txs, settled, withdrawn, restarts>>
    BY <1>1, <1>6 DEF tick, chainVars
  <2> QED
    BY <1>1, <2>1, BooksStand
<1> QED
  BY <1>2, <1>3, <1>4, <1>5, <1>6, MoveCases

LEMMA InitIsBooked == GatewayInit => Books
<1> SUFFICES ASSUME GatewayInit PROVE Books
  OBVIOUS
<1> DEFINE f == [t \in DOMAIN txs |-> total(txs[t])]
<1>1. DOMAIN txs = {} /\ settled = 0 /\ withdrawn = 0 /\ clock = 0 /\ restarts = 0
  BY DEF GatewayInit
<1>2. SumFunction([t \in DOMAIN txs |-> total(txs[t])]) = SumFunctionOnSet(f, DOMAIN txs)
  BY DEF SumFunction
<1> HIDE DEF f
<1>3. SumFunctionOnSet(f, {}) = 0
  BY SumEmpty
<1> QED
  BY <1>1, <1>2, <1>3, GatewayAssumption DEF Books

LEMMA BooksHold == GatewaySpec => []Books
<1>1. GatewayIInv /\ Books /\ [GatewayNext]_gatewayVars => Books'
  BY MoveIsBooked DEF GatewayMove
<1> QED
  BY <1>1, InitIsBooked, GatewayIInvHolds, PTL DEF GatewaySpec

\* The responses that rest on one transaction rest on different events of it, for each
\* names its request: together they cost no more than it carried.
LEMMA TransactionCovers ==
    ASSUME GatewayIInv, NEW t \in DOMAIN txs, NEW f, NEW S \in SUBSET DOMAIN served,
           IsFiniteSet(S), \A i \in S : served[i].tx = t,
           \A i \in S : f[i] = Price[quote[served[i].request].route] /\ f[i] \in Nat
    PROVE  SumFunctionOnSet(f, S) <= total(txs[t])
<1> DEFINE amounts == [k \in DOMAIN txs[t] |-> txs[t][k].amount]
           backs(k, i) == txs[t][k].memo = served[i].request /\ f[i] <= txs[t][k].amount
           event == [i \in S |-> CHOOSE k \in DOMAIN txs[t] : backs(k, i)]
<1>1. /\ txs[t] \in Seq(Calls) /\ DOMAIN txs[t] = 1 .. Len(txs[t]) /\ Len(txs[t]) \in Nat
  <2>1. txs \in Seq(Receipts)
    BY DEF GatewayIInv, GatewayParts
  <2>2. txs[t] \in Receipts
    BY <2>1
  <2>3. txs[t] \in Seq(Calls)
    BY <2>2 DEF Receipts
  <2> QED
    BY <2>3
<1>2. IsFiniteSet(DOMAIN txs[t])
  BY <1>1, FS_Interval
<1>3. \A k \in DOMAIN txs[t] : txs[t][k].amount \in Nat /\ amounts[k] = txs[t][k].amount
  <2> SUFFICES ASSUME NEW k \in DOMAIN txs[t] PROVE txs[t][k].amount \in Nat
    OBVIOUS
  <2>1. txs[t][k] \in Calls
    BY <1>1
  <2> QED
    BY <2>1, PricesAreNumbers DEF Calls
<1>4. ASSUME NEW i \in S PROVE \E k \in DOMAIN txs[t] : backs(k, i)
  <2>1. PICK p \in Range(txs[t]) :
           p.memo = served[i].request /\ p.amount >= Price[quote[served[i].request].route]
    BY DEF GatewayIInv, UnlocksRestOnPayments
  <2>2. PICK k \in DOMAIN txs[t] : p = txs[t][k]
    BY <2>1 DEF Range
  <2>3. f[i] = Price[quote[served[i].request].route] /\ f[i] \in Nat
    OBVIOUS
  <2> QED
    BY <1>3, <2>1, <2>2, <2>3
<1>5. \A i \in S : event[i] \in DOMAIN txs[t] /\ backs(event[i], i)
  <2> HIDE DEF backs
  <2> QED
    BY <1>4
<1>6. \A i, j \in S : event[i] = event[j] => i = j
  <2> HIDE DEF event
  <2> QED
    BY <1>5 DEF GatewayIInv, OnePaymentOneUnlock
<1>7. total(txs[t]) = SumFunctionOnSet(amounts, DOMAIN txs[t])
  BY DEF total, SumFunction
<1>8. \A i \in S : f[i] \in Int /\ event[i] \in DOMAIN txs[t] /\ f[i] <= amounts[event[i]]
  <2> HIDE DEF event, amounts
  <2> QED
    BY <1>3, <1>5
<1>9. \A k \in DOMAIN txs[t] : amounts[k] \in Nat
  BY <1>3
<1> HIDE DEF event, amounts, backs
<1> QED
  BY <1>2, <1>6, <1>7, <1>8, <1>9, SumCovered

\* Every transaction covers its own responses, and the balance is of all of them.
LEMMA UnlocksAreCovered ==
    ASSUME GatewayIInv, Books
    PROVE  EveryUnlockWasPaid
<1> DEFINE f == [i \in DOMAIN served |-> Price[quote[served[i].request].route]]
           g == [t \in DOMAIN txs |-> total(txs[t])]
           on == [i \in DOMAIN served |-> served[i].tx]
<1>1. /\ GatewayParts /\ ServedForGood /\ UnlocksRestOnPayments
  BY DEF GatewayIInv
<1>2. IsFiniteSet(DOMAIN served) /\ IsFiniteSet(DOMAIN txs)
  <2>1. DOMAIN served = 1 .. Len(served) /\ Len(served) \in Nat
        /\ DOMAIN txs = 1 .. Len(txs) /\ Len(txs) \in Nat
    BY <1>1 DEF GatewayParts
  <2> QED
    BY <2>1, FS_Interval
<1>3. \A t \in DOMAIN txs : txs[t] \in Receipts /\ g[t] = total(txs[t]) /\ g[t] \in Nat
  BY <1>1, TotalCovers DEF GatewayParts
<1>4. ASSUME NEW i \in DOMAIN served
      PROVE  f[i] \in Nat /\ on[i] \in DOMAIN txs
  <2>1. served[i].tx \in DOMAIN txs /\ served[i].request \in DOMAIN quote
    BY <1>1 DEF ServedForGood
  <2>2. quote[served[i].request] \in Quotes
    BY <1>1, <2>1 DEF GatewayParts
  <2> QED
    BY <2>1, <2>2, PricesAreNumbers DEF Quotes
<1>5. ASSUME NEW t \in DOMAIN txs
      PROVE  SumFunctionOnSet(f, {i \in DOMAIN served : on[i] = t}) <= g[t]
  <2> DEFINE S == {i \in DOMAIN served : on[i] = t}
  <2>1. S \in SUBSET DOMAIN served /\ IsFiniteSet(S)
    BY <1>2, FS_Subset
  <2>2. \A i \in S : served[i].tx = t
    OBVIOUS
  <2>3. \A i \in S : f[i] = Price[quote[served[i].request].route] /\ f[i] \in Nat
    BY <1>4
  <2>4. g[t] = total(txs[t])
    BY <1>3
  <2> HIDE DEF S, f, g
  <2>5. SumFunctionOnSet(f, S) <= g[t]
    BY <2>1, <2>2, <2>3, <2>4, TransactionCovers
  <2> QED
    BY <2>5 DEF S
<1>6. /\ SumFunction([i \in DOMAIN served |-> Price[quote[served[i].request].route]])
           = SumFunctionOnSet(f, DOMAIN served)
      /\ settled + withdrawn = SumFunctionOnSet(g, DOMAIN txs)
  BY DEF SumFunction, Books
<1>7. \A i \in DOMAIN served : f[i] \in Int
  BY <1>4
<1> HIDE DEF f, g, on
<1>8. SumFunctionOnSet(f, DOMAIN served) <= SumFunctionOnSet(g, DOMAIN txs)
  BY <1>2, <1>3, <1>4, <1>5, <1>7, SumGrouped
<1> QED
  BY <1>1, <1>6, <1>8 DEF EveryUnlockWasPaid

\* What the gateway keeps is well formed.
LEMMA GatewayIsTyped ==
    ASSUME GatewayIInv, Books
    PROVE  GatewayTypeOK
<1>1. GatewayParts
  BY DEF GatewayIInv
<1>2. txs \in Seq(Seq(Payments))
  <2>1. txs \in Seq(Receipts) /\ txs \in [1 .. Len(txs) -> Receipts] /\ Len(txs) \in Nat
    BY <1>1 DEF GatewayParts
  <2>2. ASSUME NEW t \in DOMAIN txs PROVE txs[t] \in Seq(Payments)
    <3>1. txs[t] \in Seq(Calls) /\ \A i \in DOMAIN txs[t] : txs[t][i].amount > 0
      BY <2>1 DEF Receipts, Books
    <3>2. /\ Len(txs[t]) \in Nat
          /\ \A i \in 1 .. Len(txs[t]) : txs[t][i] \in Payments
          /\ txs[t] = [i \in 1 .. Len(txs[t]) |-> txs[t][i]]
      BY <3>1 DEF Payments
    <3>3. txs[t] \in [1 .. Len(txs[t]) -> Payments]
      BY <3>2
    <3> QED
      BY <3>2, <3>3
  <2>3. txs \in [1 .. Len(txs) -> Seq(Payments)]
    BY <2>1, <2>2
  <2> QED
    BY <2>1, <2>3
<1>3. open \subseteq DOMAIN quote
  BY <1>1 DEF GatewayParts, live
<1> QED
  BY <1>1, <1>2, <1>3 DEF GatewayParts, Books, GatewayTypeOK

------------------------------------------------------------------------------
(* The theorems about the gateway. *)

\* README.md, "One payment, one unlock", as far as it goes: one request id, one response,
\* and a second response from one transaction only when exactly one of the two was claimed
\* in another spelling of its hash; however requests overlap, whatever is evicted and
\* however often the gateway restarts.
THEOREM OneUnlockPerPayment == GatewaySpec => []OnePaymentOneUnlock
<1>1. GatewayIInv => OnePaymentOneUnlock
  BY DEF GatewayIInv
<1> QED
  BY <1>1, GatewayIInvHolds, PTL

\* Every response rests on a mined payment of the full price that names its quote.
THEOREM UnlocksArePaid == GatewaySpec => []UnlocksRestOnPayments
<1>1. GatewayIInv => UnlocksRestOnPayments
  BY DEF GatewayIInv
<1> QED
  BY <1>1, GatewayIInvHolds, PTL

\* The settlement contract has taken in the prices of all responses ever released,
\* each on a payment of its own.
THEOREM UnlocksAreCoveredByMoney == GatewaySpec => []EveryUnlockWasPaid
BY UnlocksAreCovered, GatewayIInvHolds, BooksHold, PTL

\* What the gateway remembers of a quote is what it has done with it.
LEMMA GuardHolds == GatewayIInv => GuardMatchesHistory
<1> SUFFICES ASSUME GatewayIInv, NEW r \in open
             PROVE  quote[r].redeemed <=>
                      \E s \in Range(served) :
                         s.request = r /\ s \in usedTxs
  BY DEF GuardMatchesHistory
<1>1. ASSUME quote[r].redeemed
      PROVE  \E s \in Range(served) :
                s.request = r /\ s \in usedTxs
  BY <1>1 DEF GatewayIInv, MarkedIsServed, guarded, Range
<1>2. ASSUME NEW s \in Range(served), s.request = r
      PROVE  quote[r].redeemed
  BY <1>2 DEF GatewayIInv, ServedForGood, Range
<1> QED
  BY <1>1, <1>2

THEOREM GuardIsHistory == GatewaySpec => []GuardMatchesHistory
BY GuardHolds, GatewayIInvHolds, PTL

\* What the gateway keeps is well formed and agrees with what it has done.
THEOREM GatewayHonest == GatewaySpec => []GatewayInv
<1>1. GatewayIInv /\ Books => GatewayInv
  BY GuardHolds, GatewayIsTyped DEF GatewayInv
<1> QED
  BY <1>1, GatewayIInvHolds, BooksHold, PTL

------------------------------------------------------------------------------
(* What a step of the gateway leaves of its history. *)

\* Where a response is released.
unlocks(h) ==
    /\ working(h) /\ status(h) = 200
    /\ writeRedemption(handler[h].owned, found(h))
    /\ served' = Append(served, redemption(handler[h].owned, found(h)))
    /\ UNCHANGED <<txs, open>>

LEMMA MoveEffects ==
    ASSUME GatewayIInv, [GatewayMove]_gatewayVars
    PROVE  \/ \E h \in Handlers : unlocks(h)
           \/ /\ open' = {} /\ usedTxs' = {}
              /\ UNCHANGED <<txs, quote, served>>
           \/ \E h \in Handlers : makeQuote(h)
           \/ /\ UNCHANGED <<quote, usedTxs, served>>
              /\ open' \subseteq open
              /\ txs' = txs \/ \E tx \in Receipts : txs' = Append(txs, tx)
<1>1. ASSUME NEW h \in Handlers, HandlerStep(h)
      PROVE  \/ unlocks(h) \/ makeQuote(h)
             \/ UNCHANGED <<quote, usedTxs, served, open, txs>>
  BY <1>1 DEF HandlerStep, askQuote, presentRequest, presentTx, answer, fail, unlocks,
              working, chainVars, memoryVars
<1>2. CASE restart
  BY <1>2 DEF restart, chainVars
<1>3. CASE \/ \E tx \in Receipts :
                 txs' = Append(txs, tx) /\ UNCHANGED <<memoryVars, clock, handler, served, restarts>>
           \/ withdraw /\ UNCHANGED <<memoryVars, clock, handler, served, restarts>>
           \/ UNCHANGED <<chainVars, quote, usedTxs, handler, served, restarts>>
              /\ open' \subseteq open
  BY <1>3 DEF withdraw, memoryVars, chainVars
<1> QED
  BY <1>1, <1>2, <1>3, MoveCases

\* Nothing that happened is undone; a quote forgotten is not known again; what shuts a
\* request out of a transaction does so until the request is served or forgotten.
HistoryStays ==
    /\ \A r \in DOMAIN quote :
          /\ r \in DOMAIN quote' /\ quote'[r].route = quote[r].route
          /\ quote[r].redeemed => quote'[r].redeemed
          /\ r \notin open => r \notin open'
    /\ \A t \in DOMAIN txs : t \in DOMAIN txs' /\ txs'[t] = txs[t]
    /\ \A s \in Range(served) : s \in Range(served')
    /\ \A f, r : usedElsewhere(f, r) =>
          \/ r \notin open'
          \/ usedElsewhere(f, r)'
          \/ \E s \in Range(served') : s.request = r

\* A guarded transaction names the request it is guarded for.
GuardsNameMemos ==
    \A u \in usedTxs : u.tx \in DOMAIN txs /\ hasMemo(u.tx, u.request)

LEMMA MoveKeepsHistory ==
    ASSUME GatewayIInv, GuardsNameMemos, [GatewayMove]_gatewayVars
    PROVE  HistoryStays /\ GuardsNameMemos'
<1>0. /\ txs \in Seq(Receipts) /\ quote \in Seq(Quotes)
      /\ served \in Seq(Redemptions)
      /\ open \subseteq DOMAIN quote
      /\ usedTxs \subseteq Redemptions
  BY DEF GatewayIInv, GatewayParts, live
<1>1. CASE \E h \in Handlers : unlocks(h)
  <2>1. PICK h \in Handlers : unlocks(h)
    BY <1>1
  <2> DEFINE r == handler[h].owned
             f == found(h)
             tx == f.tx
             s == redemption(r, f)
  <2>s. s.tx = tx /\ s.as = f.as /\ s.request = r
    BY DEF redemption
  <2>2. tx \in DOMAIN txs /\ hasMemo(tx, r) /\ r \in DOMAIN quote
    BY <2>1, UnlockEffect DEF unlocks, hasMemo, GatewayIInv, GatewayParts
  <2>3. /\ quote' = [quote EXCEPT ![r].redeemed = TRUE]
        /\ usedTxs' = {u \in usedTxs : ~sameKey(u, f)} \cup {s}
        /\ served' = Append(served, s)
        /\ UNCHANGED <<txs, open>>
    BY <2>1 DEF unlocks, writeRedemption
  <2> HIDE DEF r, f, s
  <2>4. \A q \in DOMAIN quote :
           /\ q \in DOMAIN quote' /\ quote'[q].route = quote[q].route
           /\ quote[q].redeemed => quote'[q].redeemed
    <3> DEFINE x == [quote[r] EXCEPT !.redeemed = TRUE]
    <3>1. quote[r] \in Quotes
      BY <1>0, <2>2
    <3>2. x.redeemed /\ x.route = quote[r].route
      BY <3>1 DEF Quotes
    <3>3. quote' = [quote EXCEPT ![r] = x]
      BY <2>3
    <3> HIDE DEF x
    <3> QED
      BY <1>0, <2>2, <3>2, <3>3
  <2>5. /\ \A y \in Range(served) : y \in Range(served')
        /\ s \in Range(served')
    <3>1. /\ DOMAIN served' = DOMAIN served \cup {Len(served) + 1}
          /\ served'[Len(served) + 1] = s
          /\ \A i \in DOMAIN served : served'[i] = served[i]
      BY <1>0, <2>3
    <3> QED
      BY <3>1 DEF Range
  <2>6. ASSUME NEW g, NEW q, usedElsewhere(g, q)
        PROVE  usedElsewhere(g, q)' \/ \E y \in Range(served') : y.request = q
    <3>1. PICK u \in usedTxs : sameKey(u, g) /\ u.request # q
      BY <2>6 DEF usedElsewhere
    <3>2. CASE ~sameKey(g, f)
      BY <2>3, <3>1, <3>2 DEF usedElsewhere, sameKey
    <3>3. CASE sameKey(g, f) /\ q # r
      BY <2>s, <2>3, <3>3 DEF usedElsewhere, sameKey
    <3>4. CASE q = r
      BY <2>s, <2>5, <3>4
    <3> QED
      BY <3>2, <3>3, <3>4
  <2>7. GuardsNameMemos'
    BY <2>s, <2>2, <2>3 DEF GuardsNameMemos, hasMemo
  <2> QED
    BY <2>3, <2>4, <2>5, <2>6, <2>7 DEF HistoryStays
<1>2. CASE open' = {} /\ usedTxs' = {} /\ UNCHANGED <<txs, quote, served>>
  BY <1>2 DEF HistoryStays, GuardsNameMemos
<1>3. CASE \E h \in Handlers : makeQuote(h)
  <2>1. PICK h \in Handlers : makeQuote(h)
    BY <1>3
  <2> DEFINE q == [route |-> handler[h].route, createdAt |-> clock, redeemed |-> FALSE]
  <2>2. quote' = Append(quote, q) /\ open' = open \cup {Len(quote) + 1}
        /\ UNCHANGED <<txs, usedTxs, served>>
    BY <2>1 DEF makeQuote, chainVars
  <2> HIDE DEF q
  <2>3. /\ \A r \in DOMAIN quote : r \in DOMAIN quote' /\ quote'[r] = quote[r]
        /\ Len(quote) + 1 \notin DOMAIN quote
    BY <1>0, <2>2
  <2> QED
    BY <2>2, <2>3 DEF HistoryStays, GuardsNameMemos, hasMemo, usedElsewhere
<1>4. CASE /\ UNCHANGED <<quote, usedTxs, served>>
           /\ open' \subseteq open
           /\ txs' = txs \/ \E tx \in Receipts : txs' = Append(txs, tx)
  <2>1. ASSUME NEW t \in DOMAIN txs PROVE t \in DOMAIN txs' /\ txs'[t] = txs[t]
    <3>1. CASE \E tx \in Receipts : txs' = Append(txs, tx)
      BY <1>0, <3>1
    <3> QED
      BY <1>4, <3>1
  <2> QED
    BY <1>4, <2>1 DEF HistoryStays, GuardsNameMemos, hasMemo, usedElsewhere
<1> QED
  BY <1>1, <1>2, <1>3, <1>4, MoveEffects

------------------------------------------------------------------------------
(* A payment of one's own. *)

\* What the buyer of a quote sends is a transaction of one call, with the price.
receipt(route, r) == <<[route |-> route, amount |-> Price[route], memo |-> r]>>
paidFor(r, tx) ==
    /\ r \in DOMAIN quote /\ tx \in DOMAIN txs
    /\ txs[tx] = receipt(quote[r].route, r)

\* Later payments do not change what a scan finds.
LEMMA ScanStays ==
    ASSUME GatewayParts, GatewayParts', HistoryStays, NEW r, NEW tx, paidFor(r, tx)
    PROVE  scanForPayment(r)' = scanForPayment(r) /\ scanForPayment(r).tx \in DOMAIN txs
<1>0. /\ r \in DOMAIN quote /\ quote'[r].route = quote[r].route
      /\ \A t \in DOMAIN txs : t \in DOMAIN txs' /\ txs'[t] = txs[t]
      /\ txs \in Seq(Receipts) /\ txs' \in Seq(Receipts)
  BY DEF HistoryStays, paidFor, GatewayParts
<1>1. \A t \in DOMAIN txs : matching(t, r)' = matching(t, r)
  BY <1>0 DEF matching
<1>2. \A t \in DOMAIN txs : t \in hits(r)' <=> t \in hits(r)
  BY <1>0, <1>1 DEF hits
<1>3. tx \in hits(r)
  BY DEF hits, matching, paidFor, receipt
<1>4. PICK first \in DOMAIN txs :
            /\ first \in hits(r) /\ (\A y \in hits(r) : first <= y)
            /\ scanForPayment(r) = [tx |-> first, as |-> Canonical,
                                    paid |-> txs[first][Min(matching(first, r))]]
  BY <1>3, ScanIs DEF hits
<1>5. hits(r)' \subseteq Nat /\ hits(r)' \subseteq DOMAIN txs' /\ first \in hits(r)'
  BY <1>0, <1>2, <1>4 DEF hits
<1>6. \A y \in hits(r)' : first <= y
  <2>1. \A y \in DOMAIN txs' : y \notin DOMAIN txs => y > Len(txs)
    BY <1>0
  <2>2. first \in 1 .. Len(txs)
    BY <1>0, <1>4
  <2> QED
    BY <1>0, <1>2, <1>4, <1>5, <2>1, <2>2
<1>7. PICK S : S = hits(r)'
  OBVIOUS
<1>8. Min(S) = first
  BY <1>5, <1>6, <1>7, MinIsLeast
<1>9. scanForPayment(r)' = [tx |-> first, as |-> Canonical,
                            paid |-> txs'[first][Min(matching(first, r)')]]
  <2>1. scanForPayment(r)' =
          [tx |-> Min(S), as |-> Canonical,
           paid |-> txs'[Min(S)][Min({i \in DOMAIN txs'[Min(S)] :
                                       /\ txs'[Min(S)][i].memo = r
                                       /\ txs'[Min(S)][i].route = quote'[r].route})]]
    <3>1. S = {t \in DOMAIN txs' : {i \in DOMAIN txs'[t] :
                                      /\ txs'[t][i].memo = r
                                      /\ txs'[t][i].route = quote'[r].route} # {}}
      BY <1>7 DEF hits, matching
    <3>2. S # {}
      BY <1>5, <1>7
    <3> QED
      BY <3>1, <3>2, Zenon DEF scanForPayment
  <2> QED
    BY <1>8, <2>1 DEF matching
<1> QED
  BY <1>0, <1>1, <1>4, <1>9

\* A buyer may be shut out of its quote: it is forgotten, or served, or --watch runs
\* into somebody else's event that comes first and does not do.
shutOut(r, watch, tx) ==
    \/ r \notin open
    \/ \E s \in Range(served) : s.request = r
    \/ /\ watch
       /\ scanForPayment(r).tx # tx
       /\ redeem(r, scanForPayment(r)) # 200

LEMMA RedeemRefuses ==
    ASSUME NEW r, NEW f
    PROVE  redeem(r, f) # 200 <=>
             \/ f.paid.route # quote[r].route
             \/ f.paid.amount < Price[quote[r].route]
             \/ usedElsewhere(f, r)
             \/ quote[r].redeemed
BY DEF redeem

LEMMA ShutStays ==
    ASSUME GatewayParts, GatewayParts', HistoryStays, NEW r, NEW tx, NEW watch,
           paidFor(r, tx), shutOut(r, watch, tx)
    PROVE  shutOut(r, watch, tx)'
<1>0. r \in DOMAIN quote
  BY DEF paidFor
<1>1. CASE r \notin open
  BY <1>0, <1>1 DEF HistoryStays, shutOut
<1>2. CASE \E s \in Range(served) : s.request = r
  BY <1>2 DEF HistoryStays, shutOut
<1>3. CASE watch /\ scanForPayment(r).tx # tx /\ redeem(r, scanForPayment(r)) # 200
  <2>1. PICK f : f = scanForPayment(r)
    OBVIOUS
  <2>2. scanForPayment(r)' = f
    BY <2>1, ScanStays
  <2>3. \/ f.paid.route # quote[r].route
        \/ f.paid.amount < Price[quote[r].route]
        \/ usedElsewhere(f, r)
        \/ quote[r].redeemed
    BY <1>3, <2>1, RedeemRefuses
  <2>4. CASE usedElsewhere(f, r) => usedElsewhere(f, r)'
    <3>1. quote'[r].route = quote[r].route /\ (quote[r].redeemed => quote'[r].redeemed)
      BY <1>0 DEF HistoryStays
    <3>2. redeem(r, f)' # 200
      BY <2>3, <2>4, <3>1 DEF redeem
    <3> QED
      BY <1>3, <2>1, <2>2, <3>2 DEF shutOut
  <2>5. CASE r \notin open' \/ \E s \in Range(served') : s.request = r
    BY <2>5 DEF shutOut
  <2> QED
    BY <2>4, <2>5 DEF HistoryStays
<1> QED
  BY <1>1, <1>2, <1>3 DEF shutOut

LEMMA PaidForStays ==
    ASSUME HistoryStays, NEW r, NEW tx, paidFor(r, tx)
    PROVE  paidFor(r, tx)'
BY DEF HistoryStays, paidFor, receipt


------------------------------------------------------------------------------
(* The mempool. *)

LEMMA Removed ==
    ASSUME NEW S, NEW s \in Seq(S), NEW i \in DOMAIN s
    PROVE  /\ RemoveAt(s, i) \in Seq(S) /\ Len(RemoveAt(s, i)) = Len(s) - 1
           /\ \A k \in 1 .. Len(s) - 1 :
                 RemoveAt(s, i)[k] = s[IF k < i THEN k ELSE k + 1]
BY CutOut DEF RemoveAt, cutOut

Mempool == mempool \in Seq(Accepted(PayCalls))

dues(pool, b) == [i \in DOMAIN pool |-> IF pool[i].by = b THEN pool[i].call.amount ELSE 0]

LEMMA DuesAreNumbers ==
    ASSUME NEW pool \in Seq(Accepted(PayCalls)), NEW b
    PROVE  /\ IsFiniteSet(DOMAIN pool)
           /\ \A i \in DOMAIN pool : dues(pool, b)[i] \in Nat
           /\ SumFunction(dues(pool, b)) = SumFunctionOnSet(dues(pool, b), DOMAIN pool)
           /\ SumFunction(dues(pool, b)) \in Nat
<1>1. IsFiniteSet(DOMAIN pool)
  <2>1. DOMAIN pool = 1 .. Len(pool) /\ Len(pool) \in Nat
    OBVIOUS
  <2> QED
    BY <2>1, FS_Interval
<1>2. ASSUME NEW i \in DOMAIN pool PROVE dues(pool, b)[i] \in Nat
  <2>1. pool[i] \in Accepted(PayCalls)
    OBVIOUS
  <2>2. pool[i].call.amount \in Amounts
    BY <2>1 DEF Accepted, PayCalls
  <2> QED
    BY <2>2, PricesAreNumbers DEF dues
<1>3. SumFunction(dues(pool, b)) = SumFunctionOnSet(dues(pool, b), DOMAIN pool)
  BY DEF SumFunction, dues
<1> QED
  BY <1>1, <1>2, <1>3, SumNat

LEMMA PendingIsDue ==
    ASSUME NEW b
    PROVE  pending(b) = SumFunction(dues(mempool, b)) /\ (Mempool => pending(b) \in Nat)
<1>1. pending(b) = SumFunction(dues(mempool, b))
  BY DEF pending, dues
<1> QED
  BY <1>1, DuesAreNumbers DEF Mempool

LEMMA DuesGrow ==
    ASSUME NEW pool \in Seq(Accepted(PayCalls)), NEW e \in Accepted(PayCalls), NEW b
    PROVE  SumFunction(dues(Append(pool, e), b))
             = SumFunction(dues(pool, b)) + (IF e.by = b THEN e.call.amount ELSE 0)
<1> DEFINE longer == Append(pool, e)
           n == Len(pool) + 1
           f == dues(pool, b)
           g == dues(longer, b)
<1>1. /\ longer \in Seq(Accepted(PayCalls)) /\ DOMAIN longer = DOMAIN pool \cup {n}
      /\ n \notin DOMAIN pool /\ longer[n] = e /\ \A i \in DOMAIN pool : longer[i] = pool[i]
  OBVIOUS
<1> HIDE DEF longer, n
<1>2. /\ g[n] = IF e.by = b THEN e.call.amount ELSE 0
      /\ \A i \in DOMAIN pool : g[i] = f[i]
  BY <1>1 DEF dues
<1>3. /\ IsFiniteSet(DOMAIN pool) /\ \A i \in DOMAIN pool : f[i] \in Nat
      /\ SumFunction(f) = SumFunctionOnSet(f, DOMAIN pool)
      /\ \A i \in DOMAIN longer : g[i] \in Nat
      /\ SumFunction(g) = SumFunctionOnSet(g, DOMAIN longer)
  BY <1>1, DuesAreNumbers
<1> HIDE DEF f, g
<1>4. SumFunctionOnSet(g, DOMAIN pool \cup {n}) = SumFunctionOnSet(f, DOMAIN pool) + g[n]
  BY <1>1, <1>2, <1>3, SumAdd
<1>5. SumFunction(g) = SumFunction(f) + g[n]
  BY <1>1, <1>3, <1>4
<1> QED
  BY <1>2, <1>5 DEF f, g, longer

LEMMA DuesShrink ==
    ASSUME NEW pool \in Seq(Accepted(PayCalls)), NEW i \in DOMAIN pool, NEW b
    PROVE  SumFunction(dues(pool, b)) = SumFunction(dues(RemoveAt(pool, i), b))
                                          + (IF pool[i].by = b THEN pool[i].call.amount ELSE 0)
<1> DEFINE rest == RemoveAt(pool, i)
           f == dues(pool, b)
           g == dues(rest, b)
           h == [k \in DOMAIN rest |-> IF k < i THEN k ELSE k + 1]
           others == DOMAIN pool \ {i}
<1>1. /\ rest \in Seq(Accepted(PayCalls)) /\ DOMAIN rest = 1 .. Len(pool) - 1
      /\ \A k \in DOMAIN rest : rest[k] = pool[h[k]]
  <2>1. /\ rest \in Seq(Accepted(PayCalls)) /\ Len(rest) = Len(pool) - 1
        /\ \A k \in 1 .. Len(pool) - 1 : rest[k] = pool[IF k < i THEN k ELSE k + 1]
    BY Removed
  <2>2. DOMAIN rest = 1 .. Len(pool) - 1
    BY <2>1
  <2> QED
    BY <2>1, <2>2
<1> HIDE DEF rest
<1>2. DOMAIN pool = 1 .. Len(pool) /\ Len(pool) \in Nat /\ i \in 1 .. Len(pool)
  OBVIOUS
<1>3. /\ \A k \in DOMAIN rest : h[k] \in others
      /\ \A k, l \in DOMAIN rest : h[k] = h[l] => k = l
  BY <1>1, <1>2
<1>4. ASSUME NEW k \in others PROVE \E l \in DOMAIN rest : k = h[l]
  <2>1. CASE k < i
    BY <1>1, <1>2, <2>1
  <2>2. CASE k > i
    <3>1. k - 1 \in DOMAIN rest /\ h[k - 1] = k
      BY <1>1, <1>2, <2>2
    <3> QED
      BY <3>1
  <2> QED
    BY <1>2, <2>1, <2>2
<1>5. /\ IsFiniteSet(DOMAIN pool) /\ \A k \in DOMAIN pool : f[k] \in Nat
      /\ SumFunction(f) = SumFunctionOnSet(f, DOMAIN pool)
      /\ IsFiniteSet(DOMAIN rest) /\ \A k \in DOMAIN rest : g[k] \in Nat
      /\ SumFunction(g) = SumFunctionOnSet(g, DOMAIN rest)
  BY <1>1, DuesAreNumbers
<1>6. \A k \in DOMAIN rest : g[k] = f[h[k]]
  BY <1>1, <1>3 DEF dues
<1>7. f[i] = IF pool[i].by = b THEN pool[i].call.amount ELSE 0
  BY DEF dues
<1>8. IsFiniteSet(others)
  BY <1>5, FS_Subset
<1>9. \A k \in others : f[k] \in Int
  BY <1>5
<1> HIDE DEF f, g, h, others
<1>10. SumFunctionOnSet(g, DOMAIN rest) = SumFunctionOnSet(f, others)
  <2>1. Renames(h, DOMAIN rest, others)
    BY <1>3, <1>4 DEF Renames
  <2> QED
    BY <1>5, <1>6, <1>8, <1>9, <2>1, SumRenamed
<1>11. SumFunctionOnSet(f, DOMAIN pool) = f[i] + SumFunctionOnSet(f, others)
  BY <1>5, SumTakeOut DEF others
<1>12. SumFunctionOnSet(f, others) \in Int /\ f[i] \in Int
  BY <1>5, <1>8, <1>9, SumInt
<1>13. SumFunction(f) = SumFunction(g) + f[i]
  BY <1>5, <1>10, <1>11, <1>12
<1> QED
  BY <1>7, <1>13 DEF f, g, rest

------------------------------------------------------------------------------
(* The buyers' part of the invariant. *)

outlay(b) == spent[b] + pending(b)
cost(b) == Price[quote[agent[b].request].route]
hasQuote(b) == agent[b].at \in {"pay", "redeem", "done", "gaveUp"}
hasPaid(b) == agent[b].at \in {"redeem", "done", "gaveUp"}

BuyerParts ==
    /\ wire \in [Buyers -> WireStates(PayCalls, TxIds)]
    /\ Mempool
    /\ faults \in 0 .. MaxFaults
    /\ agent \in [Buyers -> AgentStates]
    /\ spent \in [Buyers -> Nat]

\* A wallet signs its own calls, and the node keeps it within its balance.
WalletIsSound(b) ==
    /\ wire[b].at \in {"send", "wait"} => wire[b].call.by = b
    /\ \A i \in DOMAIN mempool : mempool[i].by = b => mempool[i].call.by = b
    /\ outlay(b) <= Funds

\* The lookup a redeeming buyer waits for is its own; one that pays waits for none.
lookup(a) ==
    IF a.watch THEN [at |-> "scanning", route |-> a.route, owned |-> a.request]
    ELSE [at |-> "verifying", route |-> a.route, tx |-> a.tx, as |-> Canonical,
          owned |-> a.request]
HandlerFollows(b) ==
    /\ agent[b].at = "pay" => handler[b] = Idle
    /\ agent[b].at = "redeem" => handler[b] \in {Idle, lookup(agent[b])}

\* Only a buyer with a quote sends, and only the payment it asks for.
CallsArePayments(b) ==
    /\ wire[b] # Quiet => agent[b].at \in {"pay", "dead"}
    /\ agent[b].at \in {"idle", "discover"} => \A i \in DOMAIN mempool : mempool[i].by # b
    /\ agent[b].at = "pay" =>
          LET call == payment(b, agent[b].route, agent[b].request)
          IN  /\ wire[b].at \in {"send", "wait"} => wire[b].call = call
              /\ \A i \in DOMAIN mempool : mempool[i].by = b => mempool[i].call = call
              /\ wire[b].at = "ok" => paidFor(agent[b].request, wire[b].log)

QuoteIsKnown(b) ==
    /\ hasQuote(b) => agent[b].request \in DOMAIN quote
    /\ agent[b].at \in {"pay", "redeem"} => quote[agent[b].request].route = agent[b].route
    /\ hasPaid(b) => paidFor(agent[b].request, agent[b].tx)

\* A buyer is out of pocket for one price, and for one more for each lost answer; while
\* it is still to send, only for those.
OutlayIsBounded(b) ==
    /\ agent[b].at \in {"idle", "discover"} => outlay(b) = 0
    /\ hasQuote(b) =>
          outlay(b) <= (IF wire[b].at = "send" THEN faults ELSE 1 + faults) * cost(b)
    /\ hasPaid(b) \/ (agent[b].at = "pay" /\ wire[b].at = "ok") => spent[b] >= cost(b)

\* How far it got: a try that was no failure of the lookup means it is shut out.
ProgressIsEarned(b) ==
    LET a == agent[b]
    IN  /\ a.at = "redeem" =>
              /\ a.failures <= a.tries
              /\ a.failures < a.tries => shutOut(a.request, a.watch, a.tx)
        /\ a.at = "gaveUp" =>
              a.failures = MaxRedeems \/ shutOut(a.request, a.watch, a.tx)
        /\ a.at = "done" =>
              \E s \in Range(served) : s.request = a.request /\ (~a.watch => s.tx = a.tx)

BuyerFacts(b) ==
    /\ WalletIsSound(b)
    /\ HandlerFollows(b)
    /\ CallsArePayments(b)
    /\ QuoteIsKnown(b)
    /\ OutlayIsBounded(b)
    /\ ProgressIsEarned(b)

BuyerIInv ==
    /\ GatewayIInv /\ Books /\ GuardsNameMemos
    /\ BuyerParts
    /\ \A b \in Buyers : BuyerFacts(b)

LEMMA OutlayIsNat ==
    ASSUME BuyerParts, NEW b \in Buyers
    PROVE  spent[b] \in Nat /\ pending(b) \in Nat /\ outlay(b) \in Nat /\ faults \in Nat
<1>1. spent[b] \in Nat /\ pending(b) \in Nat
  BY PendingIsDue DEF BuyerParts
<1>2. faults \in Nat
  BY RetryAssumption DEF BuyerParts
<1> QED
  BY <1>1, <1>2 DEF outlay

LEMMA CostIsNat ==
    ASSUME GatewayParts, NEW r \in DOMAIN quote
    PROVE  quote[r] \in Quotes /\ Price[quote[r].route] \in Nat
<1>1. quote[r] \in Quotes
  BY DEF GatewayParts
<1> QED
  BY <1>1, PricesAreNumbers DEF Quotes

------------------------------------------------------------------------------
(* A buyer that takes no step. *)

\* The payment it waits for is mined.
hearsReceipt(b) ==
    /\ wire[b].at = "wait" /\ wire'[b].at = "ok"
    /\ agent[b].at = "pay" =>
          /\ wire'[b].log \in DOMAIN txs'
          /\ txs'[wire'[b].log] = receipt(agent[b].route, agent[b].request)
          /\ spent'[b] >= cost(b)

\* Its money moves from the mempool into a payment at most, while answers may be lost
\* to somebody else.
StandsStill(b) ==
    /\ agent'[b] = agent[b]
    /\ wire'[b] = wire[b] \/ hearsReceipt(b)
    /\ outlay(b)' = outlay(b) /\ spent'[b] \in Nat /\ spent'[b] >= spent[b]
    /\ faults' \in {faults, faults + 1}
    /\ \A i \in DOMAIN mempool' : mempool'[i].by = b =>
          \E k \in DOMAIN mempool : mempool[k] = mempool'[i]

LEMMA StillKeepsFacts ==
    ASSUME GatewayParts, GatewayParts', HistoryStays, BuyerParts,
           NEW b \in Buyers, BuyerFacts(b), StandsStill(b), HandlerFollows(b)'
    PROVE  BuyerFacts(b)'
<1>0. /\ outlay(b)' = outlay(b) /\ outlay(b) \in Nat /\ faults \in Nat
      /\ spent[b] \in Nat /\ spent'[b] \in Nat /\ spent'[b] >= spent[b]
  BY OutlayIsNat DEF StandsStill
<1>1. WalletIsSound(b)'
  BY <1>0 DEF BuyerFacts, WalletIsSound, StandsStill, hearsReceipt
<1>2. QuoteIsKnown(b)'
  <2>1. ASSUME hasQuote(b)
        PROVE  agent[b].request \in DOMAIN quote'
               /\ quote'[agent[b].request].route = quote[agent[b].request].route
    BY <2>1 DEF BuyerFacts, QuoteIsKnown, HistoryStays
  <2>2. ASSUME hasPaid(b) PROVE paidFor(agent[b].request, agent[b].tx)'
    <3>1. PICK r, tx : r = agent[b].request /\ tx = agent[b].tx
      OBVIOUS
    <3>2. paidFor(r, tx)'
      BY <2>2, <3>1, PaidForStays DEF BuyerFacts, QuoteIsKnown
    <3> QED
      BY <3>1, <3>2 DEF StandsStill, paidFor
  <2> QED
    BY <2>1, <2>2 DEF BuyerFacts, QuoteIsKnown, hasQuote, hasPaid, StandsStill, paidFor
<1>3. CallsArePayments(b)'
  <2>0. PICK r, tx : r = agent[b].request /\ tx = wire'[b].log
    OBVIOUS
  <2>1. ASSUME agent[b].at = "pay", wire'[b].at = "ok"
        PROVE  paidFor(r, tx)'
    <3>1. CASE hearsReceipt(b)
      <4>1. r \in DOMAIN quote' /\ quote'[r].route = agent[b].route
        BY <2>0, <2>1 DEF BuyerFacts, QuoteIsKnown, hasQuote, HistoryStays
      <4> QED
        BY <2>0, <2>1, <3>1, <4>1 DEF hearsReceipt, paidFor, receipt
    <3>2. CASE wire'[b] = wire[b]
      BY <2>0, <2>1, <3>2, PaidForStays DEF BuyerFacts, CallsArePayments
    <3> QED
      BY <3>1, <3>2 DEF StandsStill
  <2>2. /\ agent'[b] = agent[b]
        /\ wire'[b].at \in {"send", "wait"} => wire'[b] = wire[b]
        /\ wire'[b] # Quiet => wire[b] # Quiet
    BY DEF StandsStill, hearsReceipt, Quiet
  <2>3. agent'[b].at = "pay" /\ wire'[b].at = "ok" =>
           paidFor(agent[b].request, wire[b].log)'
    BY <2>0, <2>1, <2>2 DEF paidFor
  <2>4. \A i \in DOMAIN mempool' : mempool'[i].by = b =>
           \E k \in DOMAIN mempool : mempool[k] = mempool'[i]
    BY DEF StandsStill
  <2> QED
    BY <2>2, <2>3, <2>4 DEF BuyerFacts, CallsArePayments, payment
<1>4. OutlayIsBounded(b)'
  <2>1. ASSUME hasQuote(b) PROVE cost(b)' = cost(b) /\ cost(b) \in Nat
    BY <2>1, CostIsNat DEF BuyerFacts, QuoteIsKnown, HistoryStays, StandsStill, cost
  <2>2. \A c \in Nat : faults' * c >= faults * c /\ (1 + faults') * c >= (1 + faults) * c
    <3>1. \A n, c \in Nat : /\ n * c \in Nat /\ (n + 1) * c = n * c + c
                             /\ (1 + n) * c = n * c + c /\ (1 + (n + 1)) * c = n * c + c + c
      OBVIOUS
    <3>2. PICK n \in Nat : n = faults /\ (faults' = n \/ faults' = n + 1)
      BY <1>0 DEF StandsStill
    <3>3. \A c \in Nat : /\ n * c >= n * c /\ (n + 1) * c >= n * c
                          /\ (1 + (n + 1)) * c >= (1 + n) * c /\ (1 + n) * c >= (1 + n) * c
      BY <3>1
    <3> QED
      BY <3>2, <3>3
  <2>3. ASSUME hasQuote(b)
        PROVE  outlay(b)' <= (IF wire[b].at = "send" THEN faults' ELSE 1 + faults') * cost(b)'
    <3>1. PICK c \in Nat : c = cost(b) /\ cost(b)' = c
      BY <2>1, <2>3
    <3>2. PICK o \in Nat : o = outlay(b) /\ outlay(b)' = o
      BY <1>0
    <3>3. o <= (IF wire[b].at = "send" THEN faults ELSE 1 + faults) * c
      BY <2>3, <3>1, <3>2 DEF BuyerFacts, OutlayIsBounded
    <3>4. faults * c \in Nat /\ (1 + faults) * c \in Nat
          /\ faults' * c \in Nat /\ (1 + faults') * c \in Nat
      <4>1. faults' \in Nat
        BY <1>0 DEF StandsStill
      <4>2. \A n \in Nat : n * c \in Nat /\ (1 + n) * c \in Nat
        OBVIOUS
      <4> QED
        BY <1>0, <4>1, <4>2
    <3>5. o <= (IF wire[b].at = "send" THEN faults' ELSE 1 + faults') * c
      BY <2>2, <3>3, <3>4
    <3> QED
      BY <3>1, <3>2, <3>5
  <2>4. hasQuote(b)' <=> hasQuote(b)
    BY DEF hasQuote, StandsStill
  <2>5. ASSUME hasPaid(b) \/ (agent[b].at = "pay" /\ wire'[b].at = "ok")
        PROVE  spent'[b] >= cost(b)'
    <3>1. hasQuote(b)
      BY <2>5 DEF hasQuote, hasPaid
    <3>2. CASE agent[b].at = "pay" /\ hearsReceipt(b)
      BY <2>1, <3>1, <3>2 DEF hearsReceipt
    <3>3. CASE hasPaid(b) \/ wire'[b] = wire[b]
      <4>1. spent[b] >= cost(b)
        BY <2>5, <3>3 DEF BuyerFacts, OutlayIsBounded
      <4> QED
        BY <1>0, <2>1, <3>1, <4>1
    <3> QED
      BY <2>5, <3>2, <3>3 DEF StandsStill
  <2>6. /\ agent'[b] = agent[b]
        /\ wire'[b].at = "send" <=> wire[b].at = "send"
    BY DEF StandsStill, hearsReceipt
  <2> QED
    BY <1>0, <2>3, <2>4, <2>5, <2>6 DEF BuyerFacts, OutlayIsBounded, hasPaid
<1>5. ProgressIsEarned(b)'
  <2>1. PICK a : a = agent[b] /\ a = agent'[b]
    BY DEF StandsStill
  <2>2. ASSUME hasPaid(b), shutOut(a.request, a.watch, a.tx)
        PROVE  shutOut(a.request, a.watch, a.tx)'
    BY <2>1, <2>2, ShutStays DEF BuyerFacts, QuoteIsKnown
  <2>3. \A s \in Range(served) : s \in Range(served')
    BY DEF HistoryStays
  <2> QED
    BY <2>1, <2>2, <2>3 DEF BuyerFacts, ProgressIsEarned, hasPaid
<1> QED
  BY <1>1, <1>2, <1>3, <1>4, <1>5 DEF BuyerFacts

------------------------------------------------------------------------------
(* What a buyer does. *)

\* Its run is over, for good or bad; what it sent stays sent.
LEMMA DeathKeepsFacts ==
    ASSUME BuyerParts, NEW b \in Buyers, BuyerFacts(b),
           agent'[b] = [at |-> "dead"], wire'[b] \in {wire[b], Quiet},
           UNCHANGED <<mempool, spent>>
    PROVE  BuyerFacts(b)'
<1>1. outlay(b)' = outlay(b)
  BY DEF outlay, pending
<1>2. WalletIsSound(b)'
  BY <1>1 DEF BuyerFacts, WalletIsSound, Quiet
<1>3. HandlerFollows(b)' /\ CallsArePayments(b)' /\ QuoteIsKnown(b)'
      /\ OutlayIsBounded(b)' /\ ProgressIsEarned(b)'
  BY DEF HandlerFollows, CallsArePayments, QuoteIsKnown, OutlayIsBounded,
         ProgressIsEarned, hasQuote, hasPaid
<1> QED
  BY <1>2, <1>3 DEF BuyerFacts

LEMMA DiscoverKeepsFacts ==
    ASSUME BuyerParts, NEW b \in Buyers, BuyerFacts(b), agent[b] = Unstarted, NEW watch,
           agent'[b] = [at |-> "discover", watch |-> watch],
           UNCHANGED <<wire, mempool, spent>>
    PROVE  BuyerFacts(b)'
<1>1. outlay(b)' = outlay(b)
  BY DEF outlay, pending
<1>2. WalletIsSound(b)'
  BY <1>1 DEF BuyerFacts, WalletIsSound
<1>3. CallsArePayments(b)' /\ OutlayIsBounded(b)'
  BY <1>1 DEF BuyerFacts, CallsArePayments, OutlayIsBounded, hasQuote, hasPaid, Unstarted
<1>4. HandlerFollows(b)' /\ QuoteIsKnown(b)' /\ ProgressIsEarned(b)'
  BY DEF HandlerFollows, QuoteIsKnown, ProgressIsEarned, hasQuote, hasPaid
<1> QED
  BY <1>2, <1>3, <1>4 DEF BuyerFacts

\* The buyer of a quote has paid nothing yet.
LEMMA QuotedKeepsFacts ==
    ASSUME GatewayParts', BuyerParts, NEW b \in Buyers, BuyerFacts(b),
           agent[b].at = "discover", NEW watch, NEW route, NEW r,
           r \in DOMAIN quote', quote'[r].route = route,
           agent'[b] = [at |-> "pay", watch |-> watch, route |-> route, request |-> r],
           wire'[b] = [at |-> "send", call |-> payment(b, route, r), tries |-> 0],
           handler'[b] = Idle, UNCHANGED <<mempool, faults, spent>>
    PROVE  BuyerFacts(b)'
<1>1. outlay(b)' = outlay(b) /\ outlay(b) = 0 /\ faults \in Nat
  BY OutlayIsNat DEF outlay, pending, BuyerFacts, OutlayIsBounded
<1>2. payment(b, route, r).by = b
  BY DEF payment
<1>3. WalletIsSound(b)'
  BY <1>1, <1>2 DEF BuyerFacts, WalletIsSound
<1>4. CallsArePayments(b)'
  <2>1. \A i \in DOMAIN mempool : mempool[i].by # b
    BY DEF BuyerFacts, CallsArePayments
  <2> QED
    BY <2>1 DEF CallsArePayments, payment
<1>5. QuoteIsKnown(b)'
  BY DEF QuoteIsKnown, hasQuote, hasPaid
<1>6. OutlayIsBounded(b)'
  <2>1. cost(b)' = Price[route] /\ Price[route] \in Nat
    <3>1. quote' \in Seq(Quotes)
      BY DEF GatewayParts
    <3>2. quote'[r] \in Quotes
      BY <3>1
    <3>3. route \in Routes
      BY <3>2 DEF Quotes
    <3> QED
      BY <3>3, PricesAreNumbers DEF cost
  <2>2. faults * Price[route] \in Nat
    BY <1>1, <2>1
  <2>3. wire'[b].at = "send" /\ agent'[b].at = "pay"
    OBVIOUS
  <2>4. outlay(b)' <= faults' * cost(b)'
    BY <1>1, <2>1, <2>2
  <2> QED
    BY <2>3, <2>4 DEF OutlayIsBounded, hasQuote, hasPaid
<1>7. HandlerFollows(b)' /\ ProgressIsEarned(b)'
  BY DEF HandlerFollows, ProgressIsEarned
<1> QED
  BY <1>3, <1>4, <1>5, <1>6, <1>7 DEF BuyerFacts

\* What becomes of a try: it is taken or not, answered or not.
LEMMA SendCases ==
    ASSUME BuyerParts, NEW b \in Buyers, sendPayment(b)
    PROVE  LET taken(heard) == mempool' = Append(mempool,
                                    [by |-> b, call |-> wire[b].call, answered |-> heard])
               again == [wire[b] EXCEPT !.tries = @ + 1]
           IN  \/ /\ affordable(b) /\ taken(TRUE) /\ UNCHANGED faults
                  /\ wire'[b] = [at |-> "wait", call |-> wire[b].call]
               \/ /\ UNCHANGED <<mempool, faults>>
                  /\ wire'[b] = [at |-> "thrown"]
               \/ /\ UNCHANGED mempool \/ (affordable(b) /\ taken(FALSE))
                  /\ faults' = faults + 1 /\ faults < MaxFaults
                  /\ \/ wire'[b] = [at |-> "thrown"]
                     \/ wire'[b] = again /\ wire[b].tries + 1 < MaxTries
<1>1. \A x : hear(b, x) => wire'[b] = x
  BY DEF BuyerParts, hear
<1> QED
  BY <1>1 DEF sendPayment, send, loseAnswer, accept, fault

LEMMA SendKeepsFacts ==
    ASSUME GatewayParts, GatewayParts', HistoryStays, BuyerParts, BuyerParts',
           NEW b \in Buyers, BuyerFacts(b), sendPayment(b)
    PROVE  BuyerFacts(b)'
<1>0. /\ wire[b].at = "send" /\ agent' = agent /\ spent' = spent /\ UNCHANGED gatewayVars
      /\ wire[b].call.by = b /\ wire[b] \in WireStates(PayCalls, TxIds)
  BY DEF sendPayment, agentVars, BuyerFacts, WalletIsSound, BuyerParts
<1>1. PICK call \in PayCalls, tries \in Nat :
            wire[b] = [at |-> "send", call |-> call, tries |-> tries]
  BY <1>0, RetryAssumption DEF WireStates, Quiet
<1>a. call = wire[b].call /\ tries = wire[b].tries
      /\ [wire[b] EXCEPT !.tries = @ + 1] = [at |-> "send", call |-> call, tries |-> tries + 1]
  BY <1>1
<1>b. wire'[b] \in {[at |-> "wait", call |-> call], [at |-> "thrown"],
                   [at |-> "send", call |-> call, tries |-> tries + 1]}
  BY <1>a, SendCases
<1>2. call.amount \in Nat /\ call.by = b
  BY <1>0, <1>1, PricesAreNumbers DEF PayCalls
<1> DEFINE entry(heard) == [by |-> b, call |-> call, answered |-> heard]
<1>3. \/ /\ mempool' = mempool
         /\ wire'[b].at \in {"send", "thrown"}
         /\ (faults' = faults /\ wire'[b].at # "send") \/ faults' = faults + 1
      \/ /\ affordable(b) /\ \E heard \in BOOLEAN : mempool' = Append(mempool, entry(heard))
         /\ \/ wire'[b].at = "wait" /\ faults' = faults
            \/ wire'[b].at \in {"send", "thrown"} /\ faults' = faults + 1
  <2> DEFINE again == [at |-> "send", call |-> call, tries |-> tries + 1]
             waits == [at |-> "wait", call |-> call]
             thrown == [at |-> "thrown"]
  <2>1. again.at = "send" /\ waits.at = "wait" /\ thrown.at = "thrown"
    OBVIOUS
  <2>2. \/ /\ affordable(b) /\ mempool' = Append(mempool, entry(TRUE)) /\ faults' = faults
           /\ wire'[b] = waits
        \/ mempool' = mempool /\ faults' = faults /\ wire'[b] = thrown
        \/ /\ \/ mempool' = mempool
              \/ affordable(b) /\ mempool' = Append(mempool, entry(FALSE))
           /\ faults' = faults + 1 /\ (wire'[b] = thrown \/ wire'[b] = again)
    BY <1>a, SendCases
  <2> HIDE DEF again, waits, thrown, entry
  <2> QED
    BY <2>1, <2>2
<1>4. wire'[b].at \in {"send", "wait"} => wire'[b].call = call
  BY <1>b
<1>5. spent[b] \in Nat /\ pending(b) \in Nat /\ outlay(b) \in Nat /\ faults \in Nat
      /\ Funds \in Nat
  BY OutlayIsNat, BuyerAssumption
<1>6. ASSUME mempool' # mempool
      PROVE  pending(b)' = pending(b) + call.amount
  <2>1. PICK heard \in BOOLEAN : mempool' = Append(mempool, entry(heard))
    BY <1>3, <1>6
  <2>2. entry(heard) \in Accepted(PayCalls) /\ entry(heard).by = b
        /\ entry(heard).call = call
    BY DEF Accepted, Buyers
  <2>3. pending(b)' = SumFunction(dues(mempool', b)) /\ pending(b) = SumFunction(dues(mempool, b))
    BY PendingIsDue DEF pending, dues
  <2> HIDE DEF entry
  <2>4. SumFunction(dues(Append(mempool, entry(heard)), b))
          = SumFunction(dues(mempool, b)) + call.amount
    BY <2>2, DuesGrow DEF BuyerParts, Mempool
  <2> QED
    BY <2>1, <2>3, <2>4
<1>7. \/ outlay(b)' = outlay(b) /\ mempool' = mempool
      \/ outlay(b)' = outlay(b) + call.amount /\ affordable(b) /\ mempool' # mempool
  <2>1. CASE mempool' = mempool
    BY <1>0, <2>1 DEF outlay, pending
  <2>2. CASE mempool' # mempool
    BY <1>0, <1>2, <1>3, <1>5, <1>6, <2>2 DEF outlay
  <2> QED
    BY <2>1, <2>2
<1>8. \A i \in DOMAIN mempool' : mempool'[i].by = b =>
         mempool'[i].call = call \/ \E k \in DOMAIN mempool : mempool[k] = mempool'[i]
  <2>1. CASE mempool' = mempool
    BY <2>1
  <2>2. ASSUME NEW heard \in BOOLEAN, mempool' = Append(mempool, entry(heard))
        PROVE  \A i \in DOMAIN mempool' : mempool'[i].by = b =>
                 mempool'[i].call = call \/ \E k \in DOMAIN mempool : mempool[k] = mempool'[i]
    <3>1. /\ DOMAIN mempool' = DOMAIN mempool \cup {Len(mempool) + 1}
          /\ mempool'[Len(mempool) + 1] = entry(heard)
          /\ \A i \in DOMAIN mempool : mempool'[i] = mempool[i]
      BY <2>2 DEF BuyerParts, Mempool
    <3> QED
      BY <3>1
  <2> QED
    BY <1>3, <2>1, <2>2
<1> HIDE DEF entry
<1>9. WalletIsSound(b)'
  <2>1. affordable(b) => outlay(b) + call.amount <= Funds
    BY <1>1, <1>2, <1>5 DEF affordable, outlay
  <2>2. outlay(b)' <= Funds
    BY <1>7, <2>1 DEF BuyerFacts, WalletIsSound
  <2> QED
    BY <1>2, <1>4, <1>8, <2>2 DEF BuyerFacts, WalletIsSound
<1>10. agent[b].at \in {"pay", "dead"}
  BY <1>0 DEF BuyerFacts, CallsArePayments, Quiet
<1>11. ASSUME agent[b].at = "pay"
       PROVE  CallsArePayments(b)' /\ QuoteIsKnown(b)' /\ OutlayIsBounded(b)'
  <2>1. call = payment(b, agent[b].route, agent[b].request)
        /\ agent[b].request \in DOMAIN quote /\ quote[agent[b].request].route = agent[b].route
    BY <1>0, <1>1, <1>11 DEF BuyerFacts, CallsArePayments, QuoteIsKnown, hasQuote
  <2>2. CallsArePayments(b)'
    BY <1>0, <1>3, <1>4, <1>8, <1>11, <2>1 DEF BuyerFacts, CallsArePayments, payment
  <2>3. quote' = quote
    BY <1>0 DEF gatewayVars, memoryVars
  <2>4. QuoteIsKnown(b)'
    BY <1>0, <1>11, <2>1, <2>3 DEF QuoteIsKnown, hasPaid
  <2>5. cost(b)' = cost(b) /\ cost(b) = call.amount
    BY <1>0, <2>1, <2>3 DEF cost, payment
  <2>6. PICK c \in Nat, o \in Nat, n \in Nat :
           c = call.amount /\ o = outlay(b) /\ n = faults /\ o <= n * c
    BY <1>0, <1>2, <1>5, <1>11, <2>5 DEF BuyerFacts, OutlayIsBounded, hasQuote
  <2>7. n * c \in Nat /\ (n + 1) * c = n * c + c /\ (1 + n) * c = n * c + c
        /\ (1 + (n + 1)) * c = n * c + c + c
    OBVIOUS
  <2>8. outlay(b)' <= (IF wire'[b].at = "send" THEN faults' ELSE 1 + faults') * cost(b)'
    <3>1. PICK p, f : p = outlay(b)' /\ f = faults'
      OBVIOUS
    <3>2. p \in {o, o + c} /\ f \in {n, n + 1}
      BY <1>3, <1>7, <2>6, <3>1
    <3>3. f = n => wire'[b].at # "send"
      BY <1>3, <2>6, <3>1
    <3>4. n * c + c >= o /\ n * c + c + c >= o + c /\ n * c + c >= o + c
          /\ n * c + c + c >= o
      BY <2>6, <2>7
    <3>5. p <= (1 + f) * c
      BY <2>7, <3>2, <3>4
    <3>6. f = n + 1 => p <= f * c
      BY <2>7, <3>2, <3>4
    <3> QED
      BY <2>5, <2>6, <3>1, <3>2, <3>3, <3>5, <3>6
  <2>9. wire'[b].at # "ok"
    BY <1>3
  <2> QED
    BY <1>0, <1>11, <2>2, <2>4, <2>8, <2>9 DEF OutlayIsBounded, hasPaid
<1>12. ASSUME agent[b].at = "dead"
       PROVE  CallsArePayments(b)' /\ QuoteIsKnown(b)' /\ OutlayIsBounded(b)'
  BY <1>0, <1>12 DEF CallsArePayments, QuoteIsKnown, OutlayIsBounded, hasQuote, hasPaid
<1>13. HandlerFollows(b)' /\ ProgressIsEarned(b)'
  BY <1>0, <1>10 DEF BuyerFacts, HandlerFollows, ProgressIsEarned, gatewayVars
<1> QED
  BY <1>9, <1>10, <1>11, <1>12, <1>13 DEF BuyerFacts

\* A payment is mined: its sender's money has left, everybody else stands still.
LEMMA MineStandsStill ==
    ASSUME GatewayParts, BuyerParts, \A b \in Buyers : BuyerFacts(b),
           NEW i \in DOMAIN mempool, minePayment(i), NEW b \in Buyers
    PROVE  StandsStill(b)
<1> DEFINE e == mempool[i]
           rest == RemoveAt(mempool, i)
<1>1. e \in Accepted(PayCalls) /\ mempool \in Seq(Accepted(PayCalls))
  BY DEF BuyerParts, Mempool
<1>2. PICK s \in Buyers, call \in PayCalls :
            s = e.by /\ call = e.call /\ call.by = s /\ call.amount \in Nat
  <2>1. e.by \in Buyers /\ e.call \in PayCalls
    BY <1>1 DEF Accepted, Buyers
  <2>2. e.call.by = e.by
    BY <2>1 DEF BuyerFacts, WalletIsSound
  <2> QED
    BY <2>1, <2>2, PricesAreNumbers DEF PayCalls
<1>3. /\ mempool' = rest /\ agent' = agent /\ faults' = faults
      /\ spent' = [spent EXCEPT ![s] = @ + call.amount]
      /\ txs' = Append(txs, <<[route |-> call.route, amount |-> call.amount,
                               memo |-> call.memo]>>)
  BY <1>2 DEF minePayment, mined, payForRoute
<1>4. /\ spent[b] \in Nat /\ spent'[b] = spent[b] + (IF s = b THEN call.amount ELSE 0)
      /\ pending(b) = pending(b)' + (IF s = b THEN call.amount ELSE 0)
      /\ pending(b)' \in Nat
  <2>1. spent'[b] = spent[b] + (IF s = b THEN call.amount ELSE 0) /\ spent[b] \in Nat
    BY <1>2, <1>3 DEF BuyerParts
  <2>2. rest \in Seq(Accepted(PayCalls))
    BY <1>1, Removed
  <2>3. pending(b) = SumFunction(dues(mempool, b)) /\ pending(b)' = SumFunction(dues(rest, b))
    BY <1>3, PendingIsDue DEF pending, dues
  <2>4. SumFunction(dues(rest, b)) \in Nat
    BY <2>2, DuesAreNumbers
  <2>5. SumFunction(dues(mempool, b))
          = SumFunction(dues(rest, b)) + (IF s = b THEN call.amount ELSE 0)
    BY <1>1, <1>2, DuesShrink
  <2> QED
    BY <2>1, <2>3, <2>4, <2>5
<1>5. /\ outlay(b)' = outlay(b) /\ spent'[b] \in Nat /\ spent'[b] >= spent[b]
      /\ s = b => spent'[b] >= call.amount
  <2> PICK n, d : n = (IF s = b THEN call.amount ELSE 0) /\ d = pending(b)'
    OBVIOUS
  <2>1. n \in Nat /\ d \in Nat /\ spent'[b] = spent[b] + n /\ pending(b) = d + n
    BY <1>2, <1>4
  <2> QED
    BY <1>4, <2>1 DEF outlay
<1>6. ASSUME NEW k \in DOMAIN mempool'
      PROVE  \E l \in DOMAIN mempool : mempool[l] = mempool'[k]
  <2>1. /\ Len(rest) = Len(mempool) - 1
        /\ \A l \in 1 .. Len(mempool) - 1 : rest[l] = mempool[IF l < i THEN l ELSE l + 1]
    BY <1>1, Removed
  <2>2. k \in 1 .. Len(mempool) - 1
    <3>1. rest \in Seq(Accepted(PayCalls))
      BY <1>1, Removed
    <3> HIDE DEF rest
    <3> QED
      BY <1>1, <1>3, <1>6, <2>1, <3>1
  <2>3. mempool'[k] = mempool[IF k < i THEN k ELSE k + 1]
    BY <1>3, <2>1, <2>2
  <2> QED
    BY <1>1, <2>2, <2>3
<1>7. wire'[b] = wire[b] \/ hearsReceipt(b)
  <2>1. \/ wire' = wire
        \/ /\ wire[s] = [at |-> "wait", call |-> call]
           /\ wire' = [wire EXCEPT ![s] = [at |-> "ok", log |-> Len(txs) + 1]]
    BY <1>2 DEF minePayment, mined, hear
  <2>2. ASSUME wire[s] = [at |-> "wait", call |-> call], s = b,
               wire'[b] = [at |-> "ok", log |-> Len(txs) + 1]
        PROVE  hearsReceipt(b)
    <3>1. wire[b].at = "wait" /\ wire[b].call = call
          /\ wire'[b].at = "ok" /\ wire'[b].log = Len(txs) + 1
      BY <2>2
    <3>2. ASSUME agent[b].at = "pay"
          PROVE  /\ Len(txs) + 1 \in DOMAIN txs'
                 /\ txs'[Len(txs) + 1] = receipt(agent[b].route, agent[b].request)
                 /\ spent'[b] >= cost(b)
      <4>1. call = payment(b, agent[b].route, agent[b].request)
            /\ quote[agent[b].request].route = agent[b].route
        BY <3>1, <3>2 DEF BuyerFacts, CallsArePayments, QuoteIsKnown
      <4>2. txs'[Len(txs) + 1] = <<[route |-> call.route, amount |-> call.amount,
                                    memo |-> call.memo]>>
            /\ Len(txs) + 1 \in DOMAIN txs'
        BY <1>3 DEF GatewayParts
      <4> QED
        BY <1>5, <2>2, <4>1, <4>2 DEF payment, receipt, cost
    <3> QED
      BY <3>1, <3>2 DEF hearsReceipt
  <2> QED
    BY <2>1, <2>2 DEF BuyerParts
<1> QED
  BY <1>3, <1>5, <1>6, <1>7 DEF StandsStill

------------------------------------------------------------------------------
(* Redeeming. *)

\* The receipt is there: the gateway can be asked.
LEMMA ConfirmedKeepsFacts ==
    ASSUME GatewayParts, BuyerParts, NEW b \in Buyers, BuyerFacts(b), confirmed(b)
    PROVE  BuyerFacts(b)'
<1> DEFINE a == [at |-> "redeem", watch |-> agent[b].watch, route |-> agent[b].route,
                 request |-> agent[b].request, tx |-> wire[b].log, tries |-> 0,
                 failures |-> 0]
<1>1. /\ agent[b].at = "pay" /\ wire[b].at = "ok"
      /\ agent'[b] = a /\ wire'[b] = Quiet
      /\ UNCHANGED <<gatewayVars, mempool, faults, spent>>
  BY DEF confirmed, become, hangUp, hear, BuyerParts
<1>2. outlay(b)' = outlay(b) /\ quote' = quote /\ txs' = txs /\ handler' = handler
      /\ open' = open /\ served' = served
  BY <1>1 DEF outlay, pending, gatewayVars, memoryVars, chainVars
<1>3. /\ agent[b].request \in DOMAIN quote
      /\ quote[agent[b].request].route = agent[b].route
      /\ paidFor(agent[b].request, wire[b].log)
      /\ handler[b] = Idle /\ spent[b] >= cost(b)
      /\ outlay(b) <= (1 + faults) * cost(b)
  BY <1>1 DEF BuyerFacts, QuoteIsKnown, CallsArePayments, HandlerFollows, OutlayIsBounded,
              hasQuote
<1>4. WalletIsSound(b)'
  BY <1>1, <1>2 DEF BuyerFacts, WalletIsSound, Quiet
<1>5. HandlerFollows(b)' /\ CallsArePayments(b)'
  BY <1>1, <1>2, <1>3 DEF HandlerFollows, CallsArePayments
<1>6. QuoteIsKnown(b)'
  BY <1>1, <1>2, <1>3 DEF QuoteIsKnown, hasQuote, hasPaid, paidFor
<1>7. OutlayIsBounded(b)'
  <2>1. cost(b)' = cost(b) /\ wire'[b].at # "send"
    BY <1>1, <1>2 DEF cost, Quiet
  <2> QED
    BY <1>1, <1>2, <1>3, <2>1 DEF OutlayIsBounded
<1>8. ProgressIsEarned(b)'
  BY <1>1 DEF ProgressIsEarned
<1> QED
  BY <1>4, <1>5, <1>6, <1>7, <1>8 DEF BuyerFacts

\* A buyer that redeems stays one that has paid, and sends nothing.
LEMMA RedeemerKeepsFacts ==
    ASSUME GatewayParts, HistoryStays, BuyerParts, NEW b \in Buyers, BuyerFacts(b),
           agent[b].at = "redeem", agent'[b].at \in {"redeem", "done", "gaveUp"},
           agent'[b].request = agent[b].request, agent'[b].tx = agent[b].tx,
           agent'[b].at = "redeem" => agent'[b].route = agent[b].route,
           wire'[b] = wire[b], UNCHANGED <<mempool, spent>>, faults' \in {faults, faults + 1},
           HandlerFollows(b)', ProgressIsEarned(b)'
    PROVE  BuyerFacts(b)'
<1>0. wire[b] = Quiet /\ outlay(b)' = outlay(b)
      /\ outlay(b) \in Nat /\ faults \in Nat
  BY OutlayIsNat DEF BuyerFacts, CallsArePayments, outlay, pending
<1>1. WalletIsSound(b)' /\ CallsArePayments(b)'
  BY <1>0 DEF BuyerFacts, WalletIsSound, CallsArePayments, Quiet
<1>2. PICK r, tx : /\ r = agent[b].request /\ tx = agent[b].tx
                   /\ r \in DOMAIN quote /\ quote[r].route = agent[b].route /\ paidFor(r, tx)
  BY DEF BuyerFacts, QuoteIsKnown, hasQuote, hasPaid
<1>3. r \in DOMAIN quote' /\ quote'[r].route = quote[r].route /\ paidFor(r, tx)'
  BY <1>2, PaidForStays DEF HistoryStays
<1>4. QuoteIsKnown(b)'
  BY <1>2, <1>3 DEF QuoteIsKnown, paidFor
<1>5. OutlayIsBounded(b)'
  <2>1. cost(b)' = cost(b) /\ cost(b) \in Nat
    BY <1>2, <1>3, CostIsNat DEF cost
  <2>2. PICK c \in Nat, n \in Nat, o \in Nat :
           c = cost(b) /\ n = faults /\ o = outlay(b)
    BY <1>0, <2>1
  <2>3. o <= (1 + n) * c /\ spent[b] >= c
    BY <1>0, <2>2 DEF BuyerFacts, OutlayIsBounded, hasQuote, hasPaid, Quiet
  <2>4. n * c \in Nat /\ (1 + n) * c = n * c + c /\ (1 + (n + 1)) * c = n * c + c + c
    OBVIOUS
  <2>5. o <= (1 + faults') * c
    BY <2>2, <2>3, <2>4
  <2> QED
    BY <1>0, <2>1, <2>2, <2>3, <2>5 DEF OutlayIsBounded, Quiet
<1> QED
  BY <1>1, <1>4, <1>5 DEF BuyerFacts

\* A refused try: if it was no failed lookup, the buyer is shut out.
LEMMA TryAgainKeepsFacts ==
    ASSUME GatewayParts, GatewayParts', HistoryStays, BuyerParts,
           NEW b \in Buyers, BuyerFacts(b),
           agent[b].at = "redeem",
           NEW failures \in {agent[b].failures, agent[b].failures + 1}, tryAgain(b, failures),
           \/ failures = agent[b].failures + 1
           \/ shutOut(agent[b].request, agent[b].watch, agent[b].tx),
           handler'[b] = Idle, wire'[b] = wire[b], UNCHANGED <<mempool, spent>>,
           faults' \in {faults, faults + 1}
    PROVE  BuyerFacts(b)'
<1> DEFINE a == agent[b]
<1>1. /\ a.tries \in Nat /\ a.failures \in Nat /\ MaxRedeems \in Nat
      /\ a \in [at : {"redeem"}, watch : BOOLEAN, route : Routes, request : RequestIds,
                tx : TxIds, tries : 0 .. MaxRedeems - 1, failures : 0 .. MaxRedeems]
  BY BuyerAssumption DEF BuyerParts, AgentStates, Unstarted
<1>2. \/ /\ a.tries + 1 = MaxRedeems
         /\ agent'[b] = [at |-> "gaveUp", watch |-> a.watch, request |-> a.request,
                         tx |-> a.tx, failures |-> failures]
      \/ /\ a.tries + 1 # MaxRedeems
         /\ agent'[b] = [a EXCEPT !.tries = @ + 1, !.failures = failures]
  BY DEF tryAgain, ends, become, BuyerParts
<1>3. /\ agent'[b].watch = a.watch /\ agent'[b].request = a.request /\ agent'[b].tx = a.tx
      /\ agent'[b].failures = failures
      /\ \/ agent'[b].at = "gaveUp" /\ a.tries + 1 = MaxRedeems
         \/ /\ agent'[b].at = "redeem" /\ agent'[b].tries = a.tries + 1
            /\ agent'[b].route = a.route
  <2>1. CASE a.tries + 1 = MaxRedeems
    BY <1>2, <2>1
  <2>2. CASE a.tries + 1 # MaxRedeems
    BY <1>1, <1>2, <2>2
  <2> QED
    BY <1>2, <2>1, <2>2
<1>4. ProgressIsEarned(b)'
  <2>1. PICK r, watch, tx : r = a.request /\ watch = a.watch /\ tx = a.tx
    OBVIOUS
  <2>2. a.failures <= a.tries /\ (a.failures < a.tries => shutOut(r, watch, tx))
        /\ paidFor(r, tx)
    BY <2>1 DEF BuyerFacts, ProgressIsEarned, QuoteIsKnown, hasPaid
  <2>3. failures = a.tries + 1 \/ (failures <= a.tries /\ shutOut(r, watch, tx)')
    BY <1>1, <2>1, <2>2, ShutStays
  <2> QED
    BY <1>1, <1>3, <2>1, <2>3 DEF ProgressIsEarned
<1>5. HandlerFollows(b)'
  BY <1>3 DEF HandlerFollows
<1> QED
  BY <1>3, <1>4, <1>5, RedeemerKeepsFacts

\* A buyer's own payment does for its quote, unless that is forgotten or served.
LEMMA OwnPaymentDoes ==
    ASSUME GatewayIInv, GuardsNameMemos, NEW r, NEW tx, paidFor(r, tx),
           NEW f, f.tx = tx, f.paid = txs[tx][1], redeem(r, f) # 200
    PROVE  r \notin open \/ \E s \in Range(served) : s.request = r
<1>1. /\ r \in DOMAIN quote /\ tx \in DOMAIN txs /\ txs[tx] = receipt(quote[r].route, r)
  BY DEF paidFor
<1>2. /\ f.paid = [route |-> quote[r].route, amount |-> Price[quote[r].route], memo |-> r]
      /\ \A q : hasMemo(tx, q) => q = r
  BY <1>1 DEF receipt, hasMemo
<1>3. Price[quote[r].route] \in Nat
  BY <1>1, CostIsNat DEF GatewayIInv
<1>4. ~usedElsewhere(f, r)
  BY <1>2 DEF usedElsewhere, sameKey, GuardsNameMemos
<1>5. f.paid.route = quote[r].route /\ ~(f.paid.amount < Price[quote[r].route])
  BY <1>2, <1>3
<1>6. quote[r].redeemed
  BY <1>4, <1>5, RedeemRefuses
<1> QED
  BY <1>6 DEF GatewayIInv, MarkedIsServed, Range

\* What a redeeming buyer's lookup finds.
LEMMA LookupFinds ==
    ASSUME GatewayIInv, NEW b \in Buyers, BuyerFacts(b),
           agent[b].at = "redeem", handler[b] = lookup(agent[b])
    PROVE  LET a == agent[b]
           IN  /\ found(b) # NoPayment
               /\ handler[b].owned = a.request
               /\ IF a.watch THEN /\ handler[b].at = "scanning"
                                  /\ found(b) = scanForPayment(a.request)
                                  /\ found(b).tx = a.tx => found(b).paid = txs[a.tx][1]
                  ELSE /\ handler[b].at = "verifying" /\ handler[b].route = a.route
                       /\ found(b) = [tx |-> a.tx, as |-> Canonical, paid |-> txs[a.tx][1]]
                       /\ found(b).paid.memo = a.request
<1> DEFINE a == agent[b]
<1>1. PICK r, tx : r = a.request /\ tx = a.tx
  OBVIOUS
<1>2. /\ paidFor(r, tx) /\ r \in DOMAIN quote /\ tx \in DOMAIN txs
      /\ txs[tx] = receipt(quote[r].route, r) /\ GatewayParts
  BY <1>1 DEF BuyerFacts, QuoteIsKnown, hasPaid, paidFor, GatewayIInv
<1>3. \A t \in DOMAIN txs : t # 0
  BY <1>2 DEF GatewayParts
<1>4. CASE ~a.watch
  <2>1. handler[b] = [at |-> "verifying", route |-> a.route, tx |-> tx,
                      as |-> Canonical, owned |-> r]
    BY <1>1, <1>4 DEF lookup
  <2>2. found(b) = [tx |-> tx, as |-> Canonical, paid |-> txs[tx][1]]
    BY <1>2, <2>1 DEF found, verifyByTxHash
  <2>3. found(b) # NoPayment
    BY <1>2, <1>3, <2>2 DEF NoPayment
  <2>4. txs[tx][1].memo = r
    BY <1>2 DEF receipt
  <2> QED
    BY <1>1, <1>4, <2>1, <2>2, <2>3, <2>4
<1>5. CASE a.watch
  <2>1. handler[b] = [at |-> "scanning", route |-> a.route, owned |-> r]
    BY <1>1, <1>5 DEF lookup
  <2>2. found(b) = scanForPayment(r)
    BY <2>1 DEF found
  <2>3. tx \in hits(r)
    BY <1>2 DEF hits, matching, receipt
  <2>4. PICK t, e : /\ t \in hits(r) /\ e \in matching(t, r)
                    /\ scanForPayment(r) = [tx |-> t, as |-> Canonical, paid |-> txs[t][e]]
    BY <1>2, <2>3, ScanIs
  <2>5. scanForPayment(r) # NoPayment
    BY <1>3, <2>4 DEF hits, NoPayment
  <2>6. t = tx => e = 1
    BY <1>2, <2>4 DEF matching, receipt
  <2> QED
    BY <1>1, <1>5, <2>1, <2>2, <2>4, <2>5, <2>6
<1> QED
  BY <1>4, <1>5

\* An answer other than 200 means that its buyer is shut out.
LEMMA RefusalIsForGood ==
    ASSUME GatewayIInv, GuardsNameMemos, NEW b \in Buyers, BuyerFacts(b),
           agent[b].at = "redeem", handler[b] = lookup(agent[b]), status(b) # 200
    PROVE  shutOut(agent[b].request, agent[b].watch, agent[b].tx)
<1> DEFINE a == agent[b]
<1>1. PICK r, tx, watch, f : r = a.request /\ tx = a.tx /\ watch = a.watch /\ f = found(b)
  OBVIOUS
<1>2. paidFor(r, tx) /\ quote[r].route = a.route
  BY <1>1 DEF BuyerFacts, QuoteIsKnown, hasPaid
<1>3. CASE ~watch
  <2>1. /\ f = [tx |-> tx, as |-> Canonical, paid |-> txs[tx][1]] /\ f # NoPayment
        /\ f.paid.memo = r /\ handler[b].owned = r /\ handler[b].route = a.route
    BY <1>1, <1>3, LookupFinds
  <2>2. ~owns(a.route, r) \/ redeem(r, f) # 200
    BY <1>1, <2>1 DEF status
  <2>3. CASE ~owns(a.route, r)
    BY <1>1, <1>2, <2>3 DEF owns, shutOut
  <2>4. CASE redeem(r, f) # 200
    <3>1. f.tx = tx /\ f.paid = txs[tx][1]
      BY <2>1
    <3> QED
      BY <1>1, <1>2, <2>4, <3>1, OwnPaymentDoes DEF shutOut
  <2> QED
    BY <2>2, <2>3, <2>4
<1>4. CASE watch
  <2>1. /\ f = scanForPayment(r) /\ f # NoPayment
        /\ handler[b].owned = r /\ handler[b].at = "scanning"
        /\ f.tx = tx => f.paid = txs[tx][1]
    BY <1>1, <1>4, LookupFinds
  <2>2. redeem(r, f) # 200
    BY <1>1, <2>1 DEF status
  <2>3. CASE f.tx = tx
    BY <1>1, <1>2, <2>1, <2>2, <2>3, OwnPaymentDoes DEF shutOut
  <2>4. CASE f.tx # tx
    BY <1>1, <1>4, <2>1, <2>2, <2>4 DEF shutOut
  <2> QED
    BY <2>3, <2>4
<1> QED
  BY <1>3, <1>4

------------------------------------------------------------------------------
(* The steps of buyers among those of the gateway. *)

LEMMA StepIsMove ==
    ASSUME BuyerIInv, [BuyerNext]_buyerVars
    PROVE  [GatewayMove]_gatewayVars
<1>1. ASSUME NEW b \in Buyers, BuyerStep(b)
      PROVE  HandlerStep(b) \/ UNCHANGED gatewayVars
  <2>1. ASSUME redeemRequest(b)
        PROVE  HandlerStep(b) \/ UNCHANGED gatewayVars
    <3>1. agent[b].at = "redeem" /\ agent[b] \in AgentStates
      BY <2>1 DEF redeemRequest, BuyerIInv, BuyerParts
    <3>2. /\ agent[b].route \in Routes /\ agent[b].request \in RequestIds
          /\ agent[b].tx \in TxIds /\ Canonical \in Spellings
      BY <3>1, GatewayAssumption DEF AgentStates, Unstarted
    <3>3. CASE agent[b].watch
      BY <2>1, <3>2, <3>3 DEF redeemRequest, HandlerStep
    <3>4. CASE ~agent[b].watch
      BY <2>1, <3>2, <3>4 DEF redeemRequest, HandlerStep
    <3> QED
      BY <3>3, <3>4
  <2>2. ASSUME NEW route \in Routes, NEW watch, discover(b, route, watch)
        PROVE  HandlerStep(b)
    BY <2>2 DEF discover, HandlerStep
  <2>3. CASE sendPayment(b) \/ confirmed(b) \/ buyerDies(b)
    BY <2>3 DEF sendPayment, confirmed, buyerDies
  <2>4. CASE quoted(b) \/ answered(b) \/ failed(b) \/ unheard(b)
    BY <2>4 DEF quoted, answered, failed, unheard, HandlerStep
  <2> QED
    BY <1>1, <2>1, <2>2, <2>3, <2>4 DEF BuyerStep
<1>2. ASSUME NEW i \in DOMAIN mempool, minePayment(i)
      PROVE  \E tx \in Receipts : pays(tx)
  <2>1. mempool[i] \in Accepted(PayCalls)
    BY DEF BuyerIInv, BuyerParts, Mempool
  <2> DEFINE c == mempool[i].call
             call == [route |-> c.route, amount |-> c.amount, memo |-> c.memo]
  <2>2. call \in Calls
    BY <2>1 DEF Accepted, PayCalls, Calls
  <2>3. payForRoute(<<call>>) /\ UNCHANGED <<memoryVars, clock, handler, served, restarts>>
    BY <1>2 DEF minePayment
  <2> HIDE DEF call
  <2>4. <<call>> \in Receipts
    BY <2>2 DEF Receipts
  <2> QED
    BY <2>3, <2>4 DEF pays
<1>3. CASE OtherStep
  BY <1>3 DEF OtherStep, GatewayMove, GatewayNext
<1>4. CASE restartGateway
  BY <1>4 DEF restartGateway, GatewayMove, GatewayNext
<1>5. CASE UNCHANGED buyerVars
  BY <1>5 DEF buyerVars
<1>6. \A b \in Buyers : b \in Handlers
  BY BuyerAssumption DEF Buyers
<1> QED
  BY <1>1, <1>2, <1>3, <1>4, <1>5, <1>6 DEF BuyerNext, GatewayMove, GatewayNext

\* What a buyer's step leaves alone.
LEMMA StepIsLocal ==
    ASSUME GatewayParts, BuyerParts, NEW b \in Buyers, BuyerStep(b)
    PROVE  /\ \A c \in Buyers \ {b} : /\ agent'[c] = agent[c] /\ wire'[c] = wire[c]
                                      /\ handler'[c] = handler[c]
           /\ agent' \in [Buyers -> {agent'[b]} \cup AgentStates]
           /\ wire' \in [Buyers -> {wire'[b]} \cup WireStates(PayCalls, TxIds)]
           /\ spent' = spent
           /\ faults' \in 0 .. MaxFaults /\ faults' \in {faults, faults + 1}
           /\ \/ mempool' = mempool
              \/ /\ wire[b].at = "send"
                 /\ \E heard \in BOOLEAN : mempool' = Append(mempool,
                       [by |-> b, call |-> wire[b].call, answered |-> heard])
<1>1. \/ agent' = agent
      \/ \E state : agent' = [agent EXCEPT ![b] = state]
  BY DEF BuyerStep, discover, quoted, sendPayment, confirmed, redeemRequest, answered, failed,
         buyerDies, unheard, dies, become, tryAgain, ends, agentVars
<1>2. \/ wire' = wire
      \/ \E state : wire' = [wire EXCEPT ![b] = state]
  BY DEF BuyerStep, discover, quoted, sendPayment, confirmed, redeemRequest, answered, failed,
         buyerDies, unheard, callVars, issue, hangUp, hear, send, loseAnswer, crash
<1>3. \/ handler' = handler
      \/ \E state : handler' = [handler EXCEPT ![b] = state]
  BY DEF BuyerStep, discover, quoted, sendPayment, confirmed, redeemRequest, answered, failed,
         buyerDies, unheard, gatewayVars, askQuote, makeQuote, presentTx, presentRequest,
         answer, fail
<1>4. spent' = spent
  BY DEF BuyerStep, discover, quoted, sendPayment, confirmed, redeemRequest, answered, failed,
         buyerDies, unheard, agentVars, dies
<1>5. /\ faults' = faults \/ fault
      /\ \/ mempool' = mempool
         \/ /\ wire[b].at = "send"
            /\ \E heard \in BOOLEAN : mempool' = Append(mempool,
                  [by |-> b, call |-> wire[b].call, answered |-> heard])
  BY DEF BuyerStep, discover, quoted, sendPayment, confirmed, redeemRequest, answered, failed,
         buyerDies, unheard, callVars, issue, hangUp, send, loseAnswer, crash, accept
<1>6. faults' \in 0 .. MaxFaults /\ faults' \in {faults, faults + 1}
  BY <1>5, RetryAssumption DEF fault, BuyerParts
<1>7. handler \in [Handlers -> HandlerStates] /\ Buyers \subseteq Handlers
  BY BuyerAssumption DEF GatewayParts, Buyers
<1>8. /\ agent \in [Buyers -> AgentStates] /\ wire \in [Buyers -> WireStates(PayCalls, TxIds)]
  BY DEF BuyerParts
<1>9. /\ \A c \in Buyers \ {b} : agent'[c] = agent[c]
      /\ agent' \in [Buyers -> {agent'[b]} \cup AgentStates]
  BY <1>1, <1>8
<1>10. /\ \A c \in Buyers \ {b} : wire'[c] = wire[c]
       /\ wire' \in [Buyers -> {wire'[b]} \cup WireStates(PayCalls, TxIds)]
  BY <1>2, <1>8
<1>11. \A c \in Buyers \ {b} : handler'[c] = handler[c]
  BY <1>3, <1>7
<1> QED
  BY <1>4, <1>5, <1>6, <1>9, <1>10, <1>11

\* Everybody else stands still meanwhile.
LEMMA BystandersStand ==
    ASSUME GatewayParts, BuyerParts, NEW b \in Buyers, BuyerStep(b), NEW c \in Buyers \ {b},
           BuyerFacts(b), BuyerFacts(c)
    PROVE  StandsStill(c) /\ HandlerFollows(c)'
<1>1. /\ agent'[c] = agent[c] /\ wire'[c] = wire[c] /\ handler'[c] = handler[c]
      /\ spent' = spent /\ faults' \in {faults, faults + 1}
      /\ \/ mempool' = mempool
         \/ /\ wire[b].at = "send"
            /\ \E heard \in BOOLEAN : mempool' = Append(mempool,
                  [by |-> b, call |-> wire[b].call, answered |-> heard])
  BY StepIsLocal
<1>2. /\ pending(c)' = pending(c)
      /\ \A i \in DOMAIN mempool' : mempool'[i].by = c =>
            \E k \in DOMAIN mempool : mempool[k] = mempool'[i]
  <2>1. CASE mempool' = mempool
    BY <2>1 DEF pending
  <2>2. ASSUME wire[b].at = "send", NEW heard \in BOOLEAN,
               mempool' = Append(mempool, [by |-> b, call |-> wire[b].call,
                                           answered |-> heard])
        PROVE  <1>2!1 /\ <1>2!2
    <3> DEFINE e == [by |-> b, call |-> wire[b].call, answered |-> heard]
    <3>1. e \in Accepted(PayCalls) /\ e.by # c
      <4>1. wire[b] \in WireStates(PayCalls, TxIds)
        BY DEF BuyerParts
      <4>2. wire[b].call \in PayCalls
        BY <2>2, <4>1 DEF WireStates, Quiet
      <4> QED
        BY <4>2 DEF Accepted, Buyers
    <3> HIDE DEF e
    <3>2. mempool' = Append(mempool, e) /\ mempool \in Seq(Accepted(PayCalls))
      BY <2>2 DEF e, BuyerParts, Mempool
    <3>3. /\ pending(c)' = SumFunction(dues(mempool', c))
          /\ pending(c) = SumFunction(dues(mempool, c)) /\ pending(c) \in Nat
      BY PendingIsDue DEF pending, dues, BuyerParts
    <3>4. SumFunction(dues(mempool', c)) = SumFunction(dues(mempool, c)) + 0
      BY <3>1, <3>2, DuesGrow
    <3>5. /\ DOMAIN mempool' = DOMAIN mempool \cup {Len(mempool) + 1}
          /\ mempool'[Len(mempool) + 1] = e
          /\ \A i \in DOMAIN mempool : mempool'[i] = mempool[i]
      BY <3>2
    <3> QED
      BY <3>1, <3>3, <3>4, <3>5
  <2> QED
    BY <1>1, <2>1, <2>2
<1>3. spent[c] \in Nat /\ outlay(c)' = outlay(c)
  BY <1>1, <1>2 DEF outlay, BuyerParts
<1> QED
  BY <1>1, <1>2, <1>3 DEF StandsStill, HandlerFollows, BuyerFacts, lookup

LEMMA StepIsTyped ==
    ASSUME BuyerIInv, NEW b \in Buyers, BuyerStep(b)
    PROVE  BuyerParts'
<1>0. /\ GatewayParts /\ BuyerParts /\ BuyerFacts(b)
      /\ agent[b] \in AgentStates /\ wire[b] \in WireStates(PayCalls, TxIds)
      /\ MaxTries \in Nat \ {0} /\ MaxRedeems \in Nat \ {0}
  BY BuyerAssumption, RetryAssumption DEF BuyerIInv, GatewayIInv, BuyerParts
<1>1. Mempool'
  <2>1. CASE mempool' = mempool
    BY <1>0, <2>1 DEF BuyerParts, Mempool
  <2>2. ASSUME wire[b].at = "send", NEW heard \in BOOLEAN,
               mempool' = Append(mempool, [by |-> b, call |-> wire[b].call,
                                           answered |-> heard])
        PROVE  Mempool'
    <3>1. wire[b].call \in PayCalls
      BY <1>0, <2>2 DEF WireStates, Quiet
    <3>2. [by |-> b, call |-> wire[b].call, answered |-> heard] \in Accepted(PayCalls)
      BY <3>1 DEF Accepted, Buyers
    <3> QED
      BY <1>0, <2>2, <3>2 DEF BuyerParts, Mempool
  <2> QED
    BY <1>0, <2>1, <2>2, StepIsLocal
<1>2. ASSUME agent[b].at = "redeem",
             NEW failures \in {agent[b].failures, agent[b].failures + 1},
             tryAgain(b, failures) \/ (failures = agent[b].failures /\ ends(b, "done", failures))
      PROVE  agent'[b] \in AgentStates
  <2> DEFINE a == agent[b]
  <2>1. a \in [at : {"redeem"}, watch : BOOLEAN, route : Routes, request : RequestIds,
              tx : TxIds, tries : 0 .. MaxRedeems - 1, failures : 0 .. MaxRedeems]
    BY <1>0, <1>2 DEF AgentStates, Unstarted
  <2>2. a.failures <= a.tries
    BY <1>0, <1>2 DEF BuyerFacts, ProgressIsEarned
  <2>3. failures \in 0 .. MaxRedeems
    BY <1>0, <2>1, <2>2
  <2>4. CASE \E at \in {"done", "gaveUp"} : ends(b, at, failures)
    BY <1>0, <2>1, <2>3, <2>4 DEF ends, become, AgentStates, BuyerParts
  <2>5. CASE /\ a.tries + 1 # MaxRedeems
             /\ agent' = [agent EXCEPT ![b] = [a EXCEPT !.tries = @ + 1, !.failures = failures]]
    <3>1. a.tries + 1 \in 0 .. MaxRedeems - 1
      BY <1>0, <2>1, <2>5
    <3>2. [a EXCEPT !.tries = @ + 1, !.failures = failures]
            \in [at : {"redeem"}, watch : BOOLEAN, route : Routes, request : RequestIds,
                tx : TxIds, tries : 0 .. MaxRedeems - 1, failures : 0 .. MaxRedeems]
      BY <2>1, <2>3, <3>1
    <3>3. [a EXCEPT !.tries = @ + 1, !.failures = failures] \in AgentStates
      BY <3>2 DEF AgentStates
    <3> QED
      BY <1>0, <2>5, <3>3 DEF BuyerParts
  <2> QED
    BY <1>2, <2>4, <2>5 DEF tryAgain, become
<1>3. [at |-> "dead"] \in AgentStates /\ Quiet \in WireStates(PayCalls, TxIds)
      /\ \A watch \in BOOLEAN : [at |-> "discover", watch |-> watch] \in AgentStates
  BY DEF AgentStates, WireStates
<1>4. agent'[b] \in AgentStates /\ wire'[b] \in WireStates(PayCalls, TxIds)
  <2>1. ASSUME NEW route \in Routes, NEW watch \in BOOLEAN, discover(b, route, watch)
        PROVE  <1>4!1 /\ <1>4!2
    BY <1>0, <1>3, <2>1 DEF discover, become, callVars, BuyerParts
  <2>2. CASE quoted(b)
    <3> DEFINE r == Len(quote) + 1
               route == handler[b].route
               a == [at |-> "pay", watch |-> agent[b].watch, route |-> route, request |-> r]
               w == [at |-> "send", call |-> payment(b, route, r), tries |-> 0]
    <3>1. \/ agent' = [agent EXCEPT ![b] = a] /\ wire' = [wire EXCEPT ![b] = w]
          \/ agent' = [agent EXCEPT ![b] = [at |-> "dead"]] /\ wire' = wire
      BY <2>2 DEF quoted, become, issue, hear, callVars
    <3>2. /\ agent[b].at = "discover" /\ handler[b].at = "quoting"
          /\ Len(quote) < MaxQuotes /\ handler[b] \in HandlerStates
      BY <1>0, <2>2, BuyerAssumption DEF quoted, makeQuote, GatewayParts, Buyers
    <3>3. agent[b].watch \in BOOLEAN /\ route \in Routes
      BY <1>0, <3>2 DEF AgentStates, Unstarted, HandlerStates, Idle
    <3>4. r \in RequestIds
      BY <1>0, <3>2, GatewayAssumption DEF GatewayParts, RequestIds
    <3>5. payment(b, route, r) \in PayCalls
      BY <3>3, <3>4, BuyerAssumption DEF payment, PayCalls
    <3>6. a \in AgentStates
      BY <3>3, <3>4 DEF AgentStates
    <3>7. w \in WireStates(PayCalls, TxIds)
      BY <1>0, <3>5 DEF WireStates
    <3> HIDE DEF a, w
    <3> QED
      BY <1>0, <1>3, <3>1, <3>6, <3>7 DEF BuyerParts
  <2>3. CASE sendPayment(b)
    <3>1. PICK call \in PayCalls, tries \in 0 .. MaxTries - 1 :
                wire[b] = [at |-> "send", call |-> call, tries |-> tries]
      BY <1>0, <2>3 DEF sendPayment, WireStates, Quiet
    <3>2. call = wire[b].call /\ tries = wire[b].tries
          /\ [wire[b] EXCEPT !.tries = @ + 1] = [at |-> "send", call |-> call, tries |-> tries + 1]
      BY <3>1
    <3>3. \/ wire'[b] = [at |-> "wait", call |-> call]
          \/ wire'[b] = [at |-> "thrown"]
          \/ /\ wire'[b] = [at |-> "send", call |-> call, tries |-> tries + 1]
             /\ tries + 1 < MaxTries
      BY <1>0, <2>3, <3>2, SendCases
    <3>4. wire'[b] \in WireStates(PayCalls, TxIds)
      BY <1>0, <3>1, <3>3 DEF WireStates
    <3> QED
      BY <1>0, <2>3, <3>4 DEF sendPayment, agentVars
  <2>4. CASE confirmed(b)
    <3> DEFINE a == [at |-> "redeem", watch |-> agent[b].watch, route |-> agent[b].route,
                     request |-> agent[b].request, tx |-> wire[b].log, tries |-> 0,
                     failures |-> 0]
    <3>1. agent'[b] = a /\ wire'[b] = Quiet
      BY <1>0, <2>4 DEF confirmed, become, hangUp, hear, BuyerParts
    <3>2. /\ agent[b].watch \in BOOLEAN /\ agent[b].route \in Routes
          /\ agent[b].request \in RequestIds /\ wire[b].log \in TxIds
      BY <1>0, <2>4 DEF confirmed, AgentStates, Unstarted, WireStates, Quiet
    <3>3. a \in AgentStates
      BY <1>0, <3>2 DEF AgentStates
    <3> QED
      BY <1>3, <3>1, <3>3
  <2>5. CASE redeemRequest(b)
    BY <1>0, <1>2, <2>5 DEF redeemRequest, callVars
  <2>6. CASE answered(b)
    <3>1. \/ UNCHANGED agent
          \/ /\ agent[b].at = "redeem"
             /\ \/ ends(b, "done", agent[b].failures)
                \/ tryAgain(b, agent[b].failures)
      BY <2>6 DEF answered
    <3>2. agent'[b] \in AgentStates
      BY <1>0, <1>2, <3>1
    <3> QED
      BY <1>0, <2>6, <3>2 DEF answered, callVars
  <2>7. CASE failed(b)
    BY <1>0, <1>2, <1>3, <2>7 DEF failed, become, BuyerParts
  <2>8. CASE buyerDies(b)
    BY <1>0, <1>3, <2>8 DEF buyerDies, dies, become, crash, hangUp, hear, BuyerParts
  <2>9. CASE unheard(b)
    BY <1>0, <2>9 DEF unheard, callVars, agentVars
  <2> QED
    BY <2>1, <2>2, <2>3, <2>4, <2>5, <2>6, <2>7, <2>8, <2>9 DEF BuyerStep
<1>5. /\ agent' \in [Buyers -> {agent'[b]} \cup AgentStates]
      /\ wire' \in [Buyers -> {wire'[b]} \cup WireStates(PayCalls, TxIds)]
      /\ spent' = spent /\ faults' \in 0 .. MaxFaults
  BY <1>0, StepIsLocal
<1> QED
  BY <1>0, <1>1, <1>4, <1>5 DEF BuyerParts

LEMMA ActorKeepsFacts ==
    ASSUME BuyerIInv, GatewayParts', HistoryStays, NEW b \in Buyers, BuyerStep(b)
    PROVE  BuyerFacts(b)'
<1>0. /\ GatewayIInv /\ GuardsNameMemos /\ GatewayParts /\ BuyerParts /\ BuyerParts'
      /\ BuyerFacts(b) /\ b \in Handlers
      /\ handler \in [Handlers -> HandlerStates] /\ agent \in [Buyers -> AgentStates]
      /\ wire \in [Buyers -> WireStates(PayCalls, TxIds)]
  BY StepIsTyped, BuyerAssumption DEF BuyerIInv, GatewayIInv, GatewayParts, BuyerParts, Buyers
<1>1. ASSUME agent'[b] = agent[b], UNCHANGED <<wire, mempool, spent>>,
             faults' \in {faults, faults + 1}, HandlerFollows(b)'
      PROVE  BuyerFacts(b)'
  <2>1. spent[b] \in Nat /\ outlay(b)' = outlay(b)
    BY <1>0, <1>1 DEF outlay, pending, BuyerParts
  <2>2. StandsStill(b)
    BY <1>1, <2>1 DEF StandsStill
  <2> QED
    BY <1>0, <1>1, <2>2, StillKeepsFacts
<1>2. ASSUME NEW route \in Routes, NEW watch \in BOOLEAN, discover(b, route, watch)
      PROVE  BuyerFacts(b)'
  <2>1. agent'[b] = [at |-> "discover", watch |-> watch] /\ agent[b] = Unstarted
        /\ UNCHANGED <<wire, mempool, spent>>
    BY <1>0, <1>2 DEF discover, become, callVars
  <2> QED
    BY <1>0, <2>1, DiscoverKeepsFacts
<1>3. CASE quoted(b)
  <2> DEFINE r == Len(quote) + 1
             route == handler[b].route
             q == [route |-> route, createdAt |-> clock, redeemed |-> FALSE]
  <2>1. /\ agent[b].at = "discover" /\ UNCHANGED spent
        /\ quote' = Append(quote, q) /\ handler' = [handler EXCEPT ![b] = Idle]
        /\ \/ /\ agent' = [agent EXCEPT ![b] = [at |-> "pay", watch |-> agent[b].watch,
                                               route |-> route, request |-> r]]
              /\ issue(b, payment(b, route, r))
           \/ agent' = [agent EXCEPT ![b] = [at |-> "dead"]] /\ UNCHANGED callVars
    BY <1>3 DEF quoted, become, makeQuote
  <2>2. CASE issue(b, payment(b, route, r))
             /\ agent' = [agent EXCEPT ![b] = [at |-> "pay", watch |-> agent[b].watch,
                                               route |-> route, request |-> r]]
    <3>1. r \in DOMAIN quote' /\ quote'[r] = q /\ quote'[r].route = route
      BY <1>0, <2>1 DEF GatewayParts
    <3>2. /\ wire'[b] = [at |-> "send", call |-> payment(b, route, r), tries |-> 0]
          /\ UNCHANGED <<mempool, faults>>
      BY <1>0, <2>2 DEF issue, hear
    <3>3. agent'[b] = [at |-> "pay", watch |-> agent[b].watch, route |-> route, request |-> r]
          /\ handler'[b] = Idle
      BY <1>0, <2>1, <2>2
    <3> HIDE DEF r, route
    <3> QED
      BY <1>0, <2>1, <3>1, <3>2, <3>3, QuotedKeepsFacts
  <2>3. CASE agent' = [agent EXCEPT ![b] = [at |-> "dead"]] /\ UNCHANGED callVars
    BY <1>0, <2>1, <2>3, DeathKeepsFacts DEF callVars
  <2> QED
    BY <2>1, <2>2, <2>3
<1>4. CASE sendPayment(b)
  BY <1>0, <1>4, SendKeepsFacts
<1>5. CASE confirmed(b)
  BY <1>0, <1>5, ConfirmedKeepsFacts
<1>6. CASE redeemRequest(b)
  <2> DEFINE a == agent[b]
  <2>1. PICK r, watch, tx, route :
           /\ r = a.request /\ watch = a.watch /\ tx = a.tx /\ route = a.route
           /\ quote[r].route = route
    BY <1>0, <1>6 DEF redeemRequest, BuyerFacts, QuoteIsKnown
  <2>2. a.at = "redeem" /\ handler[b] = Idle /\ UNCHANGED <<wire, mempool, faults, spent>>
    BY <1>6 DEF redeemRequest, callVars
  <2>3. CASE /\ ~owns(route, r) \/ (watch /\ quote[r].redeemed)
             /\ tryAgain(b, a.failures) /\ UNCHANGED gatewayVars
    <3>1. shutOut(r, watch, tx)
      <4>1. CASE ~owns(route, r)
        BY <2>1, <4>1 DEF owns, shutOut
      <4>2. CASE owns(route, r) /\ quote[r].redeemed
        BY <1>0, <4>2 DEF owns, shutOut, GatewayIInv, MarkedIsServed, Range
      <4> QED
        BY <2>3, <4>1, <4>2
    <3>2. handler'[b] = Idle
      BY <2>2, <2>3 DEF gatewayVars
    <3> QED
      BY <1>0, <2>1, <2>2, <2>3, <3>1, <3>2, TryAgainKeepsFacts
  <2>4. CASE /\ IF watch THEN presentRequest(b, route, r) ELSE presentTx(b, route, r, tx, Canonical)
             /\ UNCHANGED agent
    <3>1. handler'[b] = lookup(a)
      BY <1>0, <2>1, <2>4 DEF presentRequest, presentTx, lookup
    <3>2. HandlerFollows(b)'
      BY <2>2, <2>4, <3>1 DEF HandlerFollows, lookup
    <3> QED
      BY <1>1, <2>2, <2>4, <3>2
  <2> QED
    BY <1>6, <2>1, <2>3, <2>4 DEF redeemRequest
<1>7. CASE answered(b)
  <2> DEFINE a == agent[b]
  <2>1. /\ UNCHANGED <<wire, mempool, faults, spent>> /\ answer(b)
        /\ handler'[b] = Idle /\ handler[b].at \in {"verifying", "scanning"}
    BY <1>0, <1>7 DEF answered, answer, callVars
  <2>2. CASE a.at # "redeem"
    <3>1. agent' = agent
      BY <1>7, <2>2 DEF answered
    <3>2. HandlerFollows(b)'
      BY <2>1, <2>2, <3>1 DEF HandlerFollows
    <3> QED
      BY <1>1, <2>1, <3>1, <3>2
  <2>3. a.at = "redeem" => handler[b] = lookup(a)
    BY <1>0, <2>1 DEF BuyerFacts, HandlerFollows, Idle
  <2>4. CASE a.at = "redeem" /\ status(b) = 200
    <3>1. agent' = [agent EXCEPT ![b] = [at |-> "done", watch |-> a.watch,
                      request |-> a.request, tx |-> a.tx, failures |-> a.failures]]
      BY <1>7, <2>4 DEF answered, ends, become
    <3>2. agent'[b] = [at |-> "done", watch |-> a.watch,
                      request |-> a.request, tx |-> a.tx, failures |-> a.failures]
      BY <1>0, <3>1
    <3>3. PICK s : /\ s.request = handler[b].owned /\ s.tx = found(b).tx
                   /\ served' = Append(served, s)
      BY <2>1, <2>4 DEF answer, redemption
    <3>4. s.request = a.request /\ (~a.watch => s.tx = a.tx)
      BY <1>0, <2>3, <2>4, <3>3, LookupFinds
    <3>5. s \in Range(served')
      <4>1. served \in Seq(Redemptions)
        BY <1>0 DEF GatewayParts
      <4>2. Len(served) + 1 \in DOMAIN served' /\ served'[Len(served) + 1] = s
        BY <3>3, <4>1
      <4> QED
        BY <4>2 DEF Range
    <3>6. ProgressIsEarned(b)' /\ HandlerFollows(b)'
      BY <3>2, <3>4, <3>5 DEF ProgressIsEarned, HandlerFollows
    <3> QED
      BY <1>0, <2>1, <2>4, <3>2, <3>6, RedeemerKeepsFacts
  <2>5. CASE a.at = "redeem" /\ status(b) # 200
    <3>1. tryAgain(b, a.failures)
      BY <1>7, <2>5 DEF answered
    <3>2. shutOut(a.request, a.watch, a.tx)
      BY <1>0, <2>3, <2>5, RefusalIsForGood
    <3> QED
      BY <1>0, <2>1, <2>5, <3>1, <3>2, TryAgainKeepsFacts
  <2> QED
    BY <2>2, <2>4, <2>5
<1>8. CASE failed(b)
  <2>1. /\ UNCHANGED <<wire, mempool, spent>> /\ faults' = faults + 1 /\ handler'[b] = Idle
    BY <1>0, <1>8 DEF failed, fail, fault
  <2>2. CASE agent[b].at = "redeem"
    <3>1. tryAgain(b, agent[b].failures + 1)
      BY <1>8, <2>2 DEF failed
    <3> QED
      BY <1>0, <2>1, <2>2, <3>1, TryAgainKeepsFacts
  <2>3. CASE agent[b].at = "discover"
    <3>1. agent'[b] = [at |-> "dead"]
      BY <1>0, <1>8, <2>3 DEF failed, become
    <3> QED
      BY <1>0, <2>1, <3>1, DeathKeepsFacts
  <2>4. CASE agent[b].at \notin {"redeem", "discover"}
    <3>1. agent' = agent
      BY <1>8, <2>4 DEF failed
    <3>2. HandlerFollows(b)'
      BY <2>1, <2>4, <3>1 DEF HandlerFollows
    <3> QED
      BY <1>1, <2>1, <3>1, <3>2
  <2> QED
    BY <2>2, <2>3, <2>4
<1>9. CASE buyerDies(b)
  <2>1. agent'[b] = [at |-> "dead"] /\ wire'[b] \in {wire[b], Quiet}
        /\ UNCHANGED <<mempool, spent>>
    BY <1>0, <1>9 DEF buyerDies, dies, become, crash, hangUp, hear
  <2> QED
    BY <1>0, <2>1, DeathKeepsFacts
<1>10. CASE unheard(b)
  <2>1. agent[b].at = "dead" /\ UNCHANGED <<wire, mempool, faults, agent, spent>>
    BY <1>10 DEF unheard, callVars, agentVars
  <2>2. HandlerFollows(b)'
    BY <2>1 DEF HandlerFollows
  <2> QED
    BY <1>1, <2>1, <2>2
<1> QED
  BY <1>2, <1>3, <1>4, <1>5, <1>6, <1>7, <1>8, <1>9, <1>10 DEF BuyerStep

------------------------------------------------------------------------------
(* The invariant of buyers and gateway. *)

LEMMA BuyerInitInv == BuyerInit => BuyerIInv
<1> SUFFICES ASSUME BuyerInit PROVE BuyerIInv
  OBVIOUS
<1>1. GatewayInit /\ CallInit /\ agent = [b \in Buyers |-> Unstarted]
      /\ spent = [b \in Buyers |-> 0]
  BY DEF BuyerInit
<1>2. GatewayIInv /\ Books
  BY <1>1, GatewayInitInv, InitIsBooked
<1>3. GuardsNameMemos
  BY <1>1 DEF GuardsNameMemos, GatewayInit
<1>4. wire = [b \in Buyers |-> Quiet] /\ mempool = <<>> /\ faults = 0
  BY <1>1 DEF CallInit, Buyers
<1>5. BuyerParts
  BY <1>1, <1>4, RetryAssumption DEF BuyerParts, Mempool, WireStates, AgentStates
<1>6. ASSUME NEW b \in Buyers PROVE BuyerFacts(b)
  <2>1. agent[b] = Unstarted /\ wire[b] = Quiet /\ spent[b] = 0 /\ DOMAIN mempool = {}
    BY <1>1, <1>4
  <2>2. pending(b) = 0
    <3>1. SumFunction(dues(mempool, b)) = SumFunctionOnSet(dues(mempool, b), {})
      BY <1>5, <2>1, DuesAreNumbers DEF BuyerParts, Mempool
    <3> QED
      BY <3>1, PendingIsDue, SumEmpty
  <2>3. outlay(b) = 0 /\ outlay(b) <= Funds
    BY <2>1, <2>2, BuyerAssumption DEF outlay
  <2>4. agent[b].at = "idle" /\ wire[b].at = "quiet"
    BY <2>1 DEF Unstarted, Quiet
  <2> QED
    BY <2>1, <2>3, <2>4 DEF BuyerFacts, WalletIsSound, HandlerFollows, CallsArePayments,
       QuoteIsKnown, OutlayIsBounded, ProgressIsEarned, hasQuote, hasPaid
<1> QED
  BY <1>2, <1>3, <1>5, <1>6 DEF BuyerIInv

\* Steps that leave every buyer's own state alone.
LEMMA IdleStepKeepsInv ==
    ASSUME BuyerIInv, GatewayParts', HistoryStays, UNCHANGED <<callVars, agentVars>>,
           NEW b \in Buyers, HandlerFollows(b)'
    PROVE  BuyerFacts(b)'
<1>1. BuyerParts /\ GatewayParts /\ BuyerFacts(b)
  BY DEF BuyerIInv, GatewayIInv
<1>2. StandsStill(b)
  BY <1>1 DEF StandsStill, callVars, agentVars, outlay, pending, BuyerParts
<1> QED
  BY <1>1, <1>2, StillKeepsFacts

LEMMA BuyerStepKeepsInv == BuyerIInv /\ [BuyerNext]_buyerVars => BuyerIInv'
<1> SUFFICES ASSUME BuyerIInv, [BuyerNext]_buyerVars PROVE BuyerIInv'
  OBVIOUS
<1>1. /\ GatewayIInv /\ Books /\ GuardsNameMemos /\ BuyerParts /\ GatewayParts
      /\ \A b \in Buyers : BuyerFacts(b)
  BY DEF BuyerIInv, GatewayIInv
<1>2. [GatewayMove]_gatewayVars
  BY StepIsMove
<1>3. GatewayIInv' /\ Books' /\ GuardsNameMemos' /\ HistoryStays /\ GatewayParts'
  <2>1. GatewayIInv' /\ Books' /\ GuardsNameMemos' /\ HistoryStays
    BY <1>1, <1>2, GatewayMoveKeepsInv, MoveIsBooked, MoveKeepsHistory
  <2> QED
    BY <2>1 DEF GatewayIInv
<1>4. Buyers \subseteq Handlers /\ handler \in [Handlers -> HandlerStates]
  BY <1>1, BuyerAssumption DEF Buyers, GatewayParts
<1>5. ASSUME NEW b \in Buyers, BuyerStep(b)
      PROVE  BuyerParts' /\ \A c \in Buyers : BuyerFacts(c)'
  <2>1. BuyerFacts(b)'
    BY <1>3, <1>5, ActorKeepsFacts
  <2>2. ASSUME NEW c \in Buyers \ {b} PROVE BuyerFacts(c)'
    <3>1. StandsStill(c) /\ HandlerFollows(c)'
      BY <1>1, <1>5, BystandersStand
    <3> QED
      BY <1>1, <1>3, <3>1, StillKeepsFacts
  <2> QED
    BY <1>5, <2>1, <2>2, StepIsTyped
<1>6. ASSUME NEW i \in DOMAIN mempool, minePayment(i)
      PROVE  BuyerParts' /\ \A c \in Buyers : BuyerFacts(c)'
  <2>1. handler' = handler /\ agent' = agent /\ faults' = faults
        /\ mempool' = RemoveAt(mempool, i)
    BY <1>6 DEF minePayment, mined
  <2>2. ASSUME NEW c \in Buyers PROVE BuyerFacts(c)'
    <3>1. StandsStill(c)
      BY <1>1, <1>6, MineStandsStill
    <3>2. HandlerFollows(c)'
      BY <1>1, <2>1 DEF BuyerFacts, HandlerFollows, lookup
    <3> QED
      BY <1>1, <1>3, <3>1, <3>2, StillKeepsFacts
  <2>3. Mempool'
    BY <1>1, <2>1, Removed DEF BuyerParts, Mempool
  <2>4. mempool[i] \in Accepted(PayCalls)
    BY <1>1 DEF BuyerParts, Mempool
  <2>5. /\ mempool[i].call.amount \in Nat /\ mempool[i].call.by \in Buyers
        /\ mempool[i].by \in Buyers
    BY <2>4, PricesAreNumbers DEF Accepted, PayCalls, Buyers
  <2>6. spent' \in [Buyers -> Nat]
    <3>1. PICK a \in Nat, s \in Buyers : spent' = [spent EXCEPT ![s] = @ + a]
      BY <1>6, <2>5 DEF minePayment
    <3> QED
      BY <1>1, <3>1 DEF BuyerParts
  <2>7. wire' \in [Buyers -> WireStates(PayCalls, TxIds)]
    <3>1. Len(txs) + 1 \in TxIds
      BY <1>1, <1>6, GatewayAssumption DEF minePayment, payForRoute, GatewayParts, TxIds
    <3>2. [at |-> "ok", log |-> Len(txs) + 1] \in WireStates(PayCalls, TxIds)
      BY <3>1 DEF WireStates
    <3> QED
      BY <1>1, <1>6, <2>5, <3>2 DEF minePayment, mined, hear, BuyerParts
  <2> QED
    BY <1>1, <2>1, <2>2, <2>3, <2>6, <2>7 DEF BuyerParts
<1>7. ASSUME UNCHANGED <<callVars, agentVars>>,
             \A c \in Buyers : handler'[c] = handler[c]
      PROVE  BuyerParts' /\ \A c \in Buyers : BuyerFacts(c)'
  <2>1. ASSUME NEW c \in Buyers PROVE BuyerFacts(c)'
    <3>1. HandlerFollows(c)'
      BY <1>1, <1>7 DEF BuyerFacts, HandlerFollows, lookup, agentVars
    <3> QED
      BY <1>3, <1>7, <3>1, IdleStepKeepsInv
  <2>2. BuyerParts'
    BY <1>1, <1>7 DEF BuyerParts, Mempool, callVars, agentVars
  <2> QED
    BY <2>1, <2>2
<1>8. ASSUME OtherStep
      PROVE  BuyerParts' /\ \A c \in Buyers : BuyerFacts(c)'
  <2>1. ASSUME NEW h \in Handlers \ Buyers, HandlerStep(h)
        PROVE  \A c \in Buyers : handler'[c] = handler[c]
    <3>1. \E state : handler' = [handler EXCEPT ![h] = state]
      BY <2>1 DEF HandlerStep, askQuote, presentRequest, presentTx, makeQuote, answer, fail
    <3> QED
      BY <1>4, <3>1
  <2>2. ChainStep \/ evictOldQuotes \/ tick => handler' = handler
    BY DEF ChainStep, evictOldQuotes, tick
  <2> QED
    BY <1>7, <1>8, <2>1, <2>2 DEF OtherStep
<1>9. ASSUME restartGateway
      PROVE  BuyerParts' /\ \A c \in Buyers : BuyerFacts(c)'
  <2>1. /\ handler' = [h \in Handlers |-> Idle] /\ UNCHANGED <<callVars, spent>>
        /\ agent' = [b \in Buyers |-> IF handler[b] # Idle THEN [at |-> "dead"] ELSE agent[b]]
    BY <1>9 DEF restartGateway, restart
  <2>2. ASSUME NEW c \in Buyers PROVE BuyerFacts(c)'
    <3>1. CASE handler[c] # Idle
      <4>1. agent'[c] = [at |-> "dead"] /\ wire' = wire /\ UNCHANGED <<mempool, spent>>
        BY <2>1, <3>1 DEF callVars
      <4> QED
        BY <1>1, <4>1, DeathKeepsFacts
    <3>2. CASE handler[c] = Idle
      <4>1. agent'[c] = agent[c] /\ handler'[c] = Idle
        BY <1>4, <2>1, <3>2
      <4>2. HandlerFollows(c)'
        BY <4>1 DEF HandlerFollows
      <4>3. StandsStill(c)
        BY <1>1, <2>1, <4>1 DEF StandsStill, callVars, outlay, pending, BuyerParts
      <4> QED
        BY <1>1, <1>3, <4>2, <4>3, StillKeepsFacts
    <3> QED
      BY <3>1, <3>2
  <2>3. [at |-> "dead"] \in AgentStates
    BY DEF AgentStates
  <2>4. BuyerParts'
    BY <1>1, <2>1, <2>3 DEF BuyerParts, Mempool, callVars
  <2> QED
    BY <2>2, <2>4
<1>10. ASSUME UNCHANGED buyerVars
       PROVE  BuyerParts' /\ \A c \in Buyers : BuyerFacts(c)'
  BY <1>7, <1>10 DEF buyerVars, gatewayVars
<1>11. BuyerParts' /\ \A c \in Buyers : BuyerFacts(c)'
  BY <1>5, <1>6, <1>8, <1>9, <1>10 DEF BuyerNext
<1> QED
  BY <1>3, <1>11 DEF BuyerIInv

LEMMA BuyerIInvHolds == BuyerSpec => []BuyerIInv
BY BuyerInitInv, BuyerStepKeepsInv, PTL DEF BuyerSpec

------------------------------------------------------------------------------
(* The theorems about buyers. *)

LEMMA BuyersAreTyped == BuyerIInv => BuyerTypeOK
<1> SUFFICES ASSUME BuyerIInv PROVE BuyerTypeOK
  OBVIOUS
<1>1. BuyerParts
  BY DEF BuyerIInv
<1>2. ASSUME NEW b \in Buyers PROVE spent[b] \in 0 .. Funds
  <2>1. outlay(b) <= Funds
    BY DEF BuyerIInv, BuyerFacts, WalletIsSound
  <2>2. spent[b] \in Nat /\ pending(b) \in Nat
    BY <1>1, OutlayIsNat
  <2> QED
    BY <2>1, <2>2, BuyerAssumption DEF outlay
<1>3. spent \in [Buyers -> 0 .. Funds]
  BY <1>1, <1>2 DEF BuyerParts
<1> QED
  BY <1>1, <1>3 DEF BuyerParts, Mempool, BuyerTypeOK

\* A buyer that waited for its receipt is served, unless no lookup came through, the quote
\* is forgotten or served already, or --watch is misled by somebody else's event.
THEOREM BuyersAreServed == BuyerSpec => []ReceiptsUnlock
<1>1. BuyerIInv => ReceiptsUnlock
  BY BuyersAreTyped DEF BuyerIInv, BuyerFacts, ProgressIsEarned, shutOut, ReceiptsUnlock
<1> QED
  BY <1>1, BuyerIInvHolds, PTL

\* A buyer that is served got its own response, and has paid for it once, and once more
\* only for each answer to a send that was lost.
THEOREM BuyersPayForOne == BuyerSpec => []BuyersPayOnce
<1>1. ASSUME BuyerIInv, NEW b \in Buyers, agent[b].at = "done"
      PROVE  /\ \E s \in Range(served) : /\ s.request = agent[b].request
                                         /\ ~agent[b].watch => s.tx = agent[b].tx
             /\ spent[b] >= cost(b) /\ spent[b] + pending(b) <= (1 + faults) * cost(b)
  <2>1. wire[b] = Quiet
    BY <1>1 DEF BuyerIInv, BuyerFacts, CallsArePayments
  <2> QED
    BY <1>1, <2>1 DEF BuyerIInv, BuyerFacts, ProgressIsEarned, OutlayIsBounded, hasQuote,
       hasPaid, outlay, Quiet
<1>2. BuyerIInv => BuyersPayOnce
  BY <1>1 DEF BuyersPayOnce, cost
<1> QED
  BY <1>2, BuyerIInvHolds, PTL

\* The gateway's promises hold beside such buyers too, whose calls wait in a mempool.
THEOREM PromisesHoldForBuyers ==
    BuyerSpec => [](OnePaymentOneUnlock /\ EveryUnlockWasPaid /\ GatewayInv)
<1>1. BuyerIInv => OnePaymentOneUnlock /\ EveryUnlockWasPaid /\ GatewayInv
  BY UnlocksAreCovered, GuardHolds, GatewayIsTyped DEF BuyerIInv, GatewayIInv, GatewayInv
<1> QED
  BY <1>1, BuyerIInvHolds, PTL
------------------------------------------------------------------------------
(* Each response paid for, with nothing between: PaidResponses. *)

\* A function that agrees with a sequence and has one element more.
LEMMA OneMore ==
    ASSUME NEW S, NEW n \in Nat, NEW s \in [1 .. n -> S], NEW e \in S,
           NEW t \in [1 .. n + 1 -> S], \A i \in 1 .. n : t[i] = s[i], t[n + 1] = e
    PROVE  t = Append(s, e)
<1>1. Append(s, e) = [i \in 1 .. n + 1 |-> IF i = n + 1 THEN e ELSE s[i]]
  <2>1. s = [i \in 1 .. n |-> s[i]] /\ \A i \in 1 .. n : s[i] \in S
    OBVIOUS
  <2>2. Append([i \in 1 .. n |-> s[i]], e)
          = [i \in 1 .. n + 1 |-> IF i = n + 1 THEN e ELSE s[i]]
    BY <2>1
  <2> QED
    BY <2>1, <2>2
<1>2. \A i \in 1 .. n + 1 : t[i] = IF i = n + 1 THEN e ELSE s[i]
  OBVIOUS
<1>3. t = [i \in 1 .. n + 1 |-> t[i]]
  OBVIOUS
<1>4. t = [i \in 1 .. n + 1 |-> IF i = n + 1 THEN e ELSE s[i]]
  BY <1>2, <1>3
<1> QED
  BY <1>1, <1>4

\* A quote made later changes nothing of what was paid for the others, nor does a
\* redemption.
LEMMA SharesStay ==
    ASSUME GatewayParts, MemosAreOfQuotes, NEW t \in DOMAIN txs, txs'[t] = txs[t],
           \A r \in DOMAIN quote : quote'[r].route = quote[r].route
    PROVE  sharesOf(txs[t])' = sharesOf(txs[t])
<1>1. \A e \in Range(txs[t]) : e.memo \in DOMAIN quote \cup {NoRequest}
  BY DEF MemosAreOfQuotes, hasMemo, Range
<1> QED
  BY <1>1 DEF sharesOf, Range

\* Every step of the gateway is one step of PaidResponses or none.
LEMMA StepIsPaidStep ==
    ASSUME GatewayIInv, GatewayIInv', [GatewayMove]_gatewayVars
    PROVE  [Paid!PaidNext]_(Paid!paidVars)
<1> DEFINE asked == [r \in DOMAIN quote |-> Price[quote[r].route]]
           paid == [t \in DOMAIN txs |-> sharesOf(txs[t])]
           released == {[quote |-> s.request, payment |-> s.tx] : s \in Range(served)}
<1>1. /\ GatewayParts /\ MemosAreOfQuotes
      /\ txs \in Seq(Receipts) /\ quote \in Seq(Quotes)
      /\ served \in Seq(Redemptions)
  BY DEF GatewayIInv, GatewayParts
<1>2. ASSUME UNCHANGED <<txs, quote, served>> PROVE UNCHANGED Paid!paidVars
  BY <1>2 DEF Paid!paidVars, sharesOf
<1>3. DOMAIN quote = 1 .. Len(quote) /\ DOMAIN txs = 1 .. Len(txs)
      /\ Len(quote) \in Nat /\ Len(txs) \in Nat
  BY <1>1
<1>4. /\ \A t \in DOMAIN txs : sharesOf(txs[t]) \in SUBSET [quote : DOMAIN quote, sum : Amounts]
      /\ \A r \in DOMAIN quote : Price[quote[r].route] \in Range(Price)
  <2>1. ASSUME NEW t \in DOMAIN txs, NEW e \in Range(txs[t])
        PROVE  e.memo \in DOMAIN quote \cup {NoRequest} /\ e.amount \in Amounts
    BY <1>1, <2>1, ReceiptsAreThere DEF MemosAreOfQuotes, hasMemo, Range, Calls
  <2>2. ASSUME NEW r \in DOMAIN quote PROVE Price[quote[r].route] \in Range(Price)
    <3>1. quote[r] \in Quotes
      BY <1>1
    <3>2. quote[r].route \in Routes /\ DOMAIN Price = Routes
      BY <3>1, GatewayAssumption DEF Quotes
    <3> QED
      BY <3>2 DEF Range
  <2> QED
    BY <2>1, <2>2 DEF sharesOf
<1>5. \A t \in DOMAIN txs' : \A r : hasMemo(t, r)' => r \in DOMAIN quote' \cup {NoRequest}
  BY DEF GatewayIInv, MemosAreOfQuotes
<1>6. ASSUME NEW h \in Handlers, unlocks(h) PROVE Paid!PaidNext
  <2> DEFINE r == handler[h].owned
             tx == found(h).tx
             s == redemption(r, found(h))
  <2>1. /\ quote' = [quote EXCEPT ![r].redeemed = TRUE]
        /\ served' = Append(served, s) /\ txs' = txs
    BY <1>6 DEF unlocks, writeRedemption
  <2>s. s.request = r /\ s.tx = tx
    BY DEF redemption
  <2>2. /\ r \in DOMAIN quote /\ tx \in DOMAIN txs
        /\ \E i \in DOMAIN txs[tx] :
              /\ txs[tx][i].memo = r /\ txs[tx][i].route = quote[r].route
              /\ txs[tx][i].amount >= Price[quote[r].route]
    BY <1>1, <1>6, UnlockEffect DEF unlocks, GatewayParts
  <2> HIDE DEF r, tx, s
  <2>3. DOMAIN quote' = DOMAIN quote /\ \A q \in DOMAIN quote : quote'[q].route = quote[q].route
    <3> DEFINE x == [quote[r] EXCEPT !.redeemed = TRUE]
    <3>1. quote[r] \in Quotes
      BY <1>1, <2>2
    <3>2. x.route = quote[r].route
      BY <3>1 DEF Quotes
    <3>3. quote' = [quote EXCEPT ![r] = x]
      BY <2>1
    <3> HIDE DEF x
    <3> QED
      BY <1>1, <2>2, <3>2, <3>3
  <2>4. \A t \in DOMAIN txs : sharesOf(txs[t])' = sharesOf(txs[t])
    BY <1>1, <2>1, <2>3, SharesStay
  <2>5. UNCHANGED <<asked, paid>>
    BY <2>1, <2>3, <2>4
  <2>6. /\ DOMAIN served' = DOMAIN served \cup {Len(served) + 1}
        /\ served'[Len(served) + 1] = s
        /\ \A i \in DOMAIN served : served'[i] = served[i]
    BY <1>1, <2>1
  <2>7. released' = released \cup {[quote |-> r, payment |-> tx]}
    <3>1. Range(served') = Range(served) \cup {s}
      BY <2>6 DEF Range
    <3> DEFINE f(y) == [quote |-> y.request, payment |-> y.tx]
               responses == Range(served)
    <3>2. f(s) = [quote |-> r, payment |-> tx]
      BY <2>s
    <3>3. released' = {f(y) : y \in responses \cup {s}} /\ released = {f(y) : y \in responses}
      BY <3>1
    <3> HIDE DEF f, responses, released
    <3> QED
      BY <3>2, <3>3
  <2>8. \A x \in released : x.quote # r
    <3>1. ASSUME NEW i \in DOMAIN served PROVE served[i].request # r
      <4>1. /\ i \in DOMAIN served' /\ Len(served) + 1 \in DOMAIN served'
            /\ i # Len(served) + 1 /\ served'[i] = served[i]
            /\ served'[Len(served) + 1] = s
        BY <1>1, <2>6
      <4>2. served'[i].request # s.request
        BY <4>1 DEF GatewayIInv, OnePaymentOneUnlock
      <4> QED
        BY <2>s, <4>1, <4>2
    <3> QED
      BY <3>1 DEF Range
  <2>9. \E share \in paid[tx] : share.quote = r /\ share.sum >= asked[r]
    <3>1. PICK i \in DOMAIN txs[tx] :
             /\ txs[tx][i].memo = r /\ txs[tx][i].route = quote[r].route
             /\ txs[tx][i].amount >= Price[quote[r].route]
      BY <2>2
    <3> DEFINE e == txs[tx][i]
    <3>2. e \in Range(txs[tx]) /\ e.memo # NoRequest
      BY <1>3, <2>2, <3>1 DEF Range, NoRequest
    <3>3. [quote |-> e.memo, sum |-> e.amount] \in sharesOf(txs[tx])
      BY <3>1, <3>2 DEF sharesOf
    <3> QED
      BY <2>2, <3>1, <3>3
  <2>10. r \in DOMAIN asked /\ tx \in DOMAIN paid
    BY <2>2
  <2> HIDE DEF asked, paid, released
  <2> QED
    BY <2>5, <2>7, <2>8, <2>9, <2>10 DEF asked, paid, released, Paid!PaidNext, Paid!Release, Paid!Covers
<1>7. ASSUME NEW h \in Handlers, makeQuote(h) PROVE Paid!PaidNext
  <2> DEFINE q == [route |-> handler[h].route, createdAt |-> clock, redeemed |-> FALSE]
             n == Len(quote)
  <2>1. quote' = Append(quote, q) /\ UNCHANGED <<txs, served>>
    BY <1>7 DEF makeQuote, chainVars
  <2>2. quote' \in Seq(Quotes) /\ DOMAIN quote' = 1 .. n + 1
    BY <1>1, <2>1 DEF GatewayIInv, GatewayParts
  <2>3. \A r \in DOMAIN quote : quote'[r] = quote[r]
    BY <1>1, <2>1
  <2>4. \A t \in DOMAIN txs : sharesOf(txs[t])' = sharesOf(txs[t])
    BY <1>1, <2>1, <2>3, SharesStay
  <2>5. UNCHANGED <<paid, released>>
    BY <2>1, <2>4
  <2>6. \A r \in DOMAIN quote' : Price[quote'[r].route] \in Range(Price)
    <3> SUFFICES ASSUME NEW r \in DOMAIN quote' PROVE Price[quote'[r].route] \in Range(Price)
      OBVIOUS
    <3>1. quote'[r] \in Quotes
      BY <2>2
    <3>2. quote'[r].route \in Routes /\ DOMAIN Price = Routes
      BY <3>1, GatewayAssumption DEF Quotes
    <3> QED
      BY <3>2 DEF Range
  <2>7. /\ asked \in [1 .. n -> Range(Price)] /\ asked' \in [1 .. n + 1 -> Range(Price)]
        /\ \A r \in 1 .. n : asked'[r] = asked[r]
    BY <1>3, <1>4, <2>2, <2>3, <2>6
  <2> HIDE DEF asked, paid, released
  <2>8. asked' = Append(asked, asked'[n + 1]) /\ asked'[n + 1] \in Range(Price)
    BY <1>3, <2>7, OneMore
  <2> QED
    BY <2>5, <2>8 DEF asked, paid, released, Paid!PaidNext, Paid!Ask
<1>8. ASSUME NEW tx \in Receipts, txs' = Append(txs, tx), UNCHANGED <<quote, served>>
      PROVE  Paid!PaidNext
  <2>1. PICK n \in Nat : n = Len(txs)
    BY <1>3, Zenon
  <2>2. /\ DOMAIN txs' = 1 .. n + 1 /\ txs'[n + 1] = tx
        /\ DOMAIN txs = 1 .. n /\ \A t \in 1 .. n : txs'[t] = txs[t]
    BY <1>1, <1>8, <1>3, <2>1
  <2>3. \A t \in DOMAIN txs : sharesOf(txs[t])' = sharesOf(txs[t])
    BY <1>1, <1>8, <2>2, SharesStay
  <2>4. UNCHANGED <<asked, released>>
    BY <1>8
  <2>5. sharesOf(tx) \in SUBSET [quote : DOMAIN quote, sum : Amounts]
    <3>1. ASSUME NEW e \in Range(tx)
          PROVE  e.memo \in DOMAIN quote \cup {NoRequest} /\ e.amount \in Amounts
      <4>1. PICK i \in DOMAIN tx : e = tx[i]
        BY DEF Range
      <4>2. tx[i] \in Calls
        BY DEF Receipts
      <4>3. hasMemo(n + 1, e.memo)'
        BY <2>2, <4>1 DEF hasMemo
      <4>4. e.memo \in DOMAIN quote' \cup {NoRequest}
        BY <1>3, <1>5, <2>1, <2>2, <4>3 DEF hasMemo
      <4> QED
        BY <1>8, <4>1, <4>2, <4>4 DEF Calls
    <3> QED
      BY <3>1 DEF sharesOf
  <2>6. sharesOf(txs[n + 1])' = sharesOf(tx)
    BY <1>8, <2>2 DEF sharesOf
  <2> DEFINE S == SUBSET [quote : DOMAIN quote, sum : Amounts]
  <2>7. /\ paid \in [1 .. n -> S] /\ paid' \in [1 .. n + 1 -> S]
        /\ \A t \in 1 .. n : paid'[t] = paid[t]
        /\ DOMAIN asked = DOMAIN quote
    <3>1. paid'[n + 1] \in S
      BY <2>2, <2>5, <2>6
    <3>2. \A t \in 1 .. n : paid[t] \in S /\ paid'[t] = paid[t]
      <4> SUFFICES ASSUME NEW t \in 1 .. n PROVE paid[t] \in S /\ paid'[t] = paid[t]
        OBVIOUS
      <4>1. t \in DOMAIN txs /\ t \in DOMAIN txs'
        BY <2>2
      <4> QED
        BY <1>4, <2>3, <4>1
    <3>3. DOMAIN paid = 1 .. n /\ DOMAIN paid' = 1 .. n + 1
      BY <2>2
    <3>4. \A t \in 1 .. n + 1 : t = n + 1 \/ t \in 1 .. n
      OBVIOUS
    <3>5. paid = [t \in 1 .. n |-> paid[t]] /\ paid' = [t \in 1 .. n + 1 |-> paid'[t]]
      BY <2>2
    <3> HIDE DEF paid, S
    <3>6. \A t \in 1 .. n + 1 : paid'[t] \in S
      BY <3>1, <3>2, <3>4
    <3> QED
      BY <3>2, <3>5, <3>6
  <2>8. \A share \in paid'[n + 1] : share.quote \in DOMAIN asked /\ share.sum \in Amounts
    BY <1>8, <2>1, <2>7
  <2> HIDE DEF asked, paid, released, S
  <2>9. Len(paid) = n /\ Len(paid') = n + 1 /\ DOMAIN paid = 1 .. n
    <3>1. n \in Nat /\ n + 1 \in Nat /\ paid \in Seq(S) /\ paid' \in Seq(S)
      BY <2>1, <2>7
    <3> QED
      BY <2>7, <3>1
  <2> QED
    BY <2>4, <2>7, <2>8, <2>9 DEF asked, paid, released, Paid!PaidNext, Paid!Pay
<1> QED
  BY <1>2, <1>6, <1>7, <1>8, MoveEffects

\* At the start nothing is quoted, paid or released.
LEMMA PaidStarts == GatewayInit => Paid!PaidInit
BY DEF GatewayInit, Paid!PaidInit, Range

\* However its requests overlap, whatever it forgets and however hashes are written, the
\* gateway releases what a gateway would that does one thing at a time and forgets nothing:
\* one response for each quote, against a payment that carries the quote's price for it.
THEOREM GatewayReleasesPaid == GatewaySpec => ImplementsPaidResponses
BY PaidStarts, StepIsPaidStep, GatewayIInvHolds, PTL
   DEF GatewaySpec, ImplementsPaidResponses, Paid!PaidSpec, GatewayMove

\* Beside buyers that pay and redeem by themselves, too.
THEOREM BuyersGetPaidResponses == BuyerSpec => ImplementsPaidResponses
<1>1. BuyerInit => Paid!PaidInit
  BY PaidStarts DEF BuyerInit
<1>2. BuyerIInv /\ BuyerIInv' /\ [BuyerNext]_buyerVars => [Paid!PaidNext]_(Paid!paidVars)
  BY StepIsMove, StepIsPaidStep DEF BuyerIInv
<1> QED
  BY <1>1, <1>2, BuyerIInvHolds, PTL DEF BuyerSpec, ImplementsPaidResponses, Paid!PaidSpec
==============================================================================
