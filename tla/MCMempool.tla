----------------------------- MODULE MCMempool -----------------------------
(***************************************************************************)
(* Instances of Mempool: two senders, one of whom can replace, outbid and  *)
(* let expire his own transactions.                                        *)
(***************************************************************************)
EXTENDS Mempool

CONSTANTS Alice, Bob

Tx(id, sender, n, fee, until) ==
    [id |-> id, sender |-> sender, nonce |-> n, fee |-> fee, until |-> until]

\* Replacement, a nonce that pays more than the one before it, a nonce two
\* ahead, a transaction that expires, and equal fees of different senders.
TwoSenders ==
    {Tx(1, Alice, 0, 1, {}), Tx(2, Alice, 0, 2, {}), Tx(3, Alice, 1, 3, {}),
     Tx(4, Alice, 2, 1, {1}), Tx(5, Bob, 0, 2, {}), Tx(6, Bob, 1, 1, {2}),
     Tx(7, Bob, 1, 4, {})}

=============================================================================
