------------------------------- MODULE Purse -------------------------------
(***************************************************************************)
(* The balances that paid subscriptions (module Subscriptions) and NFTs    *)
(* (module Nft) share.                                                     *)
(***************************************************************************)
EXTENDS Integers, FiniteSets, FiniteSetsExt, Functions, Sequences, SequencesExt

CONSTANTS
    Account,        \* the accounts
    MaxOps,         \* bound: operations
    MaxTime         \* bound: number of the last block

VARIABLES
    bal,        \* the balances: by account and purse
    now,        \* head_block_time()
    ops         \* operations so far

Symbol == {"GOLOS", "GBG"}
Main(symbol) == <<symbol, FALSE>>               \* balance and sbd_balance
Tip(symbol) == <<symbol, TRUE>>                 \* tip_balance
Purses == {Main("GOLOS"), Main("GBG"), Tip("GOLOS")}

SumOf(f(_), S) == MapThenSumSet(f, S)

\* adjust_balance, and the same for a tip balance
Adjust(b, a, purse, n) == [b EXCEPT ![a][purse] = @ + n]

\* f with x mapped to v, and without the x of S
Put(f, x, v) == [y \in DOMAIN f \cup {x} |-> IF y = x THEN v ELSE f[y]]
Without(f, S) == Restrict(f, DOMAIN f \ S)

\* An operation that throws changes nothing.  It sees the time of the last
\* block.
Operation == ops < MaxOps /\ ops' = ops + 1 /\ now' = now
=============================================================================
