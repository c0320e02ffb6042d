---------------------------- MODULE PaidResponses ----------------------------
(***************************************************************************)
(* What is left of README.md's "one payment, one unlock" whatever text a   *)
(* transaction is named with, with no requests in progress, no memory to   *)
(* lose and no chain to look things up in.  Quotes are made and payments   *)
(* come in, for good.  A response is released for a quote against one      *)
(* payment that carries its price, in one step, and the quote releases no  *)
(* other, ever.  A payment that carries the prices of several quotes may   *)
(* release a response for each.                                            *)
(***************************************************************************)
EXTENDS Naturals, Sequences

CONSTANTS Prices,   \* what a quote may ask
          Sums      \* what a payment may carry for one quote

VARIABLES asked,    \* the price of each quote, in the order they are made
          paid,     \* per payment, in order, what it carries and for which quote
          released  \* the responses: which quote, on which payment

paidVars == <<asked, paid, released>>

PaidInit ==
    /\ asked = <<>>
    /\ paid = <<>>
    /\ released = {}

Ask(price) ==
    /\ asked' = Append(asked, price)
    /\ UNCHANGED <<paid, released>>

\* The payment that comes in is the last of paid'.
Pay ==
    /\ Len(paid') = Len(paid) + 1
    /\ \A p \in DOMAIN paid : paid'[p] = paid[p]
    /\ \A share \in paid'[Len(paid) + 1] : share.quote \in DOMAIN asked /\ share.sum \in Sums
    /\ UNCHANGED <<asked, released>>

Covers(p, q) == \E share \in paid[p] : share.quote = q /\ share.sum >= asked[q]

Release(q, p) ==
    /\ \A r \in released : r.quote # q
    /\ Covers(p, q)
    /\ released' = released \cup {[quote |-> q, payment |-> p]}
    /\ UNCHANGED <<asked, paid>>

PaidNext ==
    \/ \E price \in Prices : Ask(price)
    \/ Pay
    \/ \E q \in DOMAIN asked, p \in DOMAIN paid : Release(q, p)

PaidSpec == PaidInit /\ [][PaidNext]_paidVars
==============================================================================
