------------------------------ MODULE MCLedger ------------------------------
(***************************************************************************)
(* Accounts, prices and operations for Ledger.                             *)
(***************************************************************************)
EXTENDS Ledger

Accounts == {"alice", "bob", "carol"}
Start == [a \in Accounts |-> [s \in {"STEEM", "SBD", "GLD"} |->
            CASE a = "alice" -> IF s = "SBD" THEN 2 ELSE 7
              [] a = "bob" -> IF s = "SBD" THEN 7 ELSE 3
              [] OTHER -> IF s = "STEEM" THEN 30 ELSE 0]]

\* An issued asset with a fee of 10 %, of which at least 1 is taken.
Fees == [s \in {"GLD"} |-> 1000]
Issuer == [s \in {"GLD"} |-> "carol"]

\* At two SBD for one STEEM the SBD debt is below the threshold, at one for
\* one it is above.
Prices == {[sbd |-> 2, steem |-> 1], [sbd |-> 1, steem |-> 1]}

Order(a, id, sym, want, amount, base, quote, kill) ==
    [seller |-> a, orderid |-> id, sym |-> sym, want |-> want, amount |-> amount,
     base |-> base, quote |-> quote, exp |-> 2, fillOrKill |-> kill]

\* Orders whose prices do not divide, so that they leave remainders on both
\* sides, in two markets.
Orders == {
    Order("alice", 1, "STEEM", "SBD", 5, 3, 2, FALSE),
    Order("alice", 2, "STEEM", "SBD", 2, 1, 1, FALSE),
    Order("bob", 1, "SBD", "STEEM", 4, 2, 3, FALSE),
    Order("alice", 3, "GLD", "STEEM", 7, 3, 2, FALSE),
    Order("bob", 2, "STEEM", "GLD", 3, 2, 3, TRUE)}

Conversions == {
    [owner |-> "alice", id |-> 1, sym |-> "STEEM", amount |-> 3],
    [owner |-> "bob", id |-> 1, sym |-> "SBD", amount |-> 3]}
Savings == {[from |-> "bob", to |-> "alice", sym |-> "SBD", amount |-> 2]}
Withdrawals == {
    [from |-> "alice", to |-> "bob", id |-> 1, sym |-> "SBD", amount |-> 2]}
Escrows == {
    [from |-> "bob", to |-> "alice", agent |-> "carol", id |-> 1, steem |-> 0, sbd |-> 3,
     fee |-> 4, feesym |-> "SBD", deadline |-> 3, expires |-> 4]}
=============================================================================
