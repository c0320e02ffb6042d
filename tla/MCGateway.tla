------------------------------ MODULE MCGateway ------------------------------
(***************************************************************************)
(* Small instances of PaymentGateway and the transactions its clients send. *)
(***************************************************************************)
EXTENDS PaymentGateway, TLC

CONSTANTS cheap, dear

\* catalog.mjs sells one route at twice the price of the other.
CatalogPrice == [r \in {cheap, dear} |-> IF r = cheap THEN 1 ELSE 2]

pays(route, amount, memo) == [route |-> route, amount |-> amount, memo |-> memo]

\* One payment: none, full or short, for either route and quote.  Several in one
\* transaction: two quotes paid together, a short payment topped up.
ClientTransactions ==
    {<<pays(cheap, 0, 1)>>}
    \cup {<<pays(route, CatalogPrice[route], r)>> : route \in Routes, r \in RequestIds}
    \cup {<<pays(dear, 1, r)>> : r \in RequestIds}
    \cup {<<pays(cheap, 1, r), pays(cheap, 1, s)>> : r, s \in RequestIds}
    \cup {<<pays(dear, 1, 1), pays(dear, 2, 1)>>}

\* Beside a buyer that pays for itself: full and short payments for either
\* quote, and one transaction that pays both.
OtherTransactions ==
    {<<pays(cheap, 1, 1)>>, <<pays(dear, 1, 1)>>, <<pays(cheap, 1, 1), pays(cheap, 1, 2)>>}

\* What decides nothing is tried once.  A payment that calls no function is of 1;
\* the balance, which no step but a withdrawal reads, is withdrawn after one payment.
\* A gateway that restarts forgets every quote, and time for eviction passes in one
\* that does not.
\* A transaction that is not mined unlocks nothing; mined while the lookup waits,
\* it is as one presented later, for the quote is looked up again.  One of one
\* event unlocks only the quote it names, however its hash is written: another
\* spelling is tried on those of several events.
TrialBound ==
    /\ \A tx \in DOMAIN txs : txs[tx][1].route = Direct => txs[tx][1].amount = 1
    /\ withdrawn > 0 => withdrawn = total(txs[1])
    /\ restarts = 0 \/ clock = 0
    /\ \A h \in Handlers : handler[h].at = "verifying" =>
          /\ handler[h].tx \in DOMAIN txs
          /\ handler[h].as = Canonical \/ Len(txs[handler[h].tx]) > 1
==============================================================================
