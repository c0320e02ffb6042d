------------------------------ MODULE MCKeeper ------------------------------
(***************************************************************************)
(* A small instance of VaultKeeper, and the consensus it may be served: a  *)
(* long signal on the threshold, one that is split from it by one wallet,  *)
(* a short one that is tampered with, and a short one whose count of       *)
(* wallets is not a number.                                                *)
(***************************************************************************)
EXTENDS VaultKeeper

signal(h, valid, wallets, direction, net) ==
    [hash |-> h, valid |-> valid, pinned |-> TRUE, insufficient_data |-> FALSE,
     present |-> TRUE, counted |-> wallets # 0, smart_wallets |-> wallets,
     direction |-> direction, net_flow_usd |-> net]

Feed == {signal(1, TRUE, 3, "yes", 5), signal(2, TRUE, 2, "yes", 5),
         signal(3, FALSE, 3, "no", -5), signal(4, TRUE, 0, "no", -5)}

\* Who the owner is makes no difference to a step, nor who deposits: the owner
\* is not the agent, and the agent deposits nothing.
TrialBound == vaultOwner # Bot /\ balanceOf[Bot] = 0
==============================================================================
