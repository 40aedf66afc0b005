------------------------------ MODULE MCSales ------------------------------
(***************************************************************************)
(* Three accounts and the workers, a collection with two tokens and        *)
(* another one to create, and subscriptions to alice for Sales.            *)
(***************************************************************************)
EXTENDS Sales, TLC

MCAccounts == {"alice", "bob", "carol", Workers}

Rich(a, golos, gbg, tip) ==
    [p \in Purses |-> IF a = Workers THEN 0
                      ELSE IF p = Main("GOLOS") THEN golos ELSE IF p = Main("GBG") THEN gbg ELSE tip]
MCBal == [a \in MCAccounts |-> Rich(a, 3, 2, 2)]
MCColl == "A" :> [NewCollection("alice", 3) EXCEPT !.tokens = 2]
MCTokens == <<NewToken("A", "alice"), NewToken("A", "alice")>>

Plan(cost, symbol, tip, prepaid, executions) ==
    [author |-> "alice", oid |-> "x", cost |-> cost, symbol |-> symbol, tip |-> tip,
     prepaid |-> prepaid, interval |-> 1, executions |-> executions]
MCPlanOps == {Plan(1, "GOLOS", TRUE, TRUE, 2), Plan(2, "GOLOS", FALSE, TRUE, 1), Plan(1, "GBG", FALSE, TRUE, 1),
              Plan(2, "GOLOS", FALSE, FALSE, 2), Plan(1, "GBG", FALSE, FALSE, 2), Plan(1, "GOLOS", FALSE, FALSE, 0)}
Payment(from, amount, symbol, tip) ==
    [from |-> from, to |-> "alice", oid |-> "x", amount |-> amount, symbol |-> symbol, tip |-> tip]
MCPayOps == {Payment("bob", 2, "GOLOS", TRUE), Payment("bob", 2, "GOLOS", FALSE), Payment("bob", 1, "GBG", FALSE),
             Payment("carol", 1, "GOLOS", TRUE), Payment("carol", 2, "GOLOS", FALSE)}

Sell(a, token, buyer, order, price) ==
    [seller |-> a, token |-> token, buyer |-> buyer, order |-> order, price |-> price]
Buy(a, name, token, order, price) ==
    [buyer |-> a, name |-> name, token |-> token, order |-> order, price |-> price]
Auction(a, token, min, life) == [owner |-> a, token |-> token, min |-> min, life |-> life]

MCCollectionOps == {[creator |-> "bob", name |-> "B", max |-> 1]}
MCIssueOps == {[creator |-> "bob", name |-> "B", to |-> "carol"]}
MCTransferOps == {[from |-> "alice", to |-> "carol", token |-> 1], [from |-> "alice", to |-> Null, token |-> 2]}
MCSellOps == {Sell("alice", 1, "", 1, 1), Sell("alice", 1, "bob", 2, 0), Sell("alice", 2, "carol", 3, 1),
              Sell("bob", 1, "", 1, 2), Sell("alice", 2, "", 5, 1)}
MCBuyOps == {Buy("bob", "", 1, 1, 0), Buy("bob", "A", 1, 2, 2), Buy("carol", "A", 0, 3, 2), Buy("carol", "A", 1, 4, 1),
             Buy("carol", "", 2, 1, 0), Buy("bob", "", 1, 0, 1), Buy("carol", "", 1, 0, 2), Buy("carol", "", 1, 0, 0)}
MCAuctionOps == {Auction("alice", 1, 1, 1), Auction("alice", 1, 0, 0)}

\* Two auctions, and a bet on the second
TwoBuyOps == {Buy("bob", "", 2, 0, 1)}
TwoAuctionOps == {Auction("alice", 1, 1, 1), Auction("alice", 2, 1, 2)}
=============================================================================
