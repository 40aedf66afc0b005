-------------------------------- MODULE Nft --------------------------------
(***************************************************************************)
(* NFTs: collections, tokens, orders and auctions (nft_evaluators.cpp and  *)
(* database_nft_objects.cpp).                                              *)
(*                                                                         *)
(* Tokens are numbered from 1; a token of 0 in an order is any token of    *)
(* the collection, an expiration of 0 no auction, an empty name or buyer   *)
(* none.  All prices are in GOLOS.  The fee for a token does not depend on *)
(* its metadata.  Statistics of the market (depth, asks, volume, last      *)
(* prices) are left out.                                                   *)
(***************************************************************************)
EXTENDS Purse

CONSTANTS
    CollectionOps,  \* nft_collection operations
    IssueOps,       \* nft_issue operations
    TransferOps,    \* nft_transfer operations
    SellOps,        \* nft_sell operations
    BuyOps,         \* nft_buy operations
    AuctionOps,     \* nft_auction operations
    MaxCollections, \* collections of one account
    MaxEmpty,       \* those without a token
    IssueCost,      \* nft_issue_cost, in GBG
    Late,           \* a bet so close to the end of an auction ...
    Extension       \* ... makes it longer

Workers == "workers"    \* STEEMIT_WORKER_POOL_ACCOUNT
Null == "null"          \* STEEMIT_NULL_ACCOUNT

ASSUME NftAssumption == Workers \in Account /\ Null \notin Account

VARIABLES
    nft,        \* a record of coll (nft_collection_objects by name), token
                \* (nft_objects), order (nft_order_objects by <<owner,
                \* order_id>>), bet (prices of nft_bet_objects by <<token,
                \* owner>>) and hold (nft_hold_balance)
    supply      \* current_supply and current_sbd_supply

nftVars == <<nft, supply>>

\* What orders, bets and auctions change.
World == [bal |-> bal, nft |-> nft]
Becomes(w) == bal' = w.bal /\ nft' = w.nft
Pay(w, a, n) == [w EXCEPT !.bal = Adjust(@, a, Main("GOLOS"), n)]
Funds(a) == bal[a][Main("GOLOS")]
Hold(w, a, n) == [w EXCEPT !.nft.hold[a] = @ + n]

\* Some collections and tokens, none of them offered.
NftInit(collections, tokens) ==
    /\ nft = [coll |-> collections, token |-> tokens, order |-> << >>, bet |-> << >>,
              hold |-> [a \in Account |-> 0]]
    /\ supply = [s \in Symbol |-> SumOf(LAMBDA p : SumOf(LAMBDA a : bal[a][p], Account),
                                        {p \in Purses : p[1] = s})]

NewCollection(creator, max) ==
    [creator |-> creator, max |-> max, tokens |-> 0, sells |-> 0, buys |-> 0, auctions |-> 0]
NewToken(name, owner) ==
    [name |-> name, owner |-> owner, burnt |-> FALSE, selling |-> FALSE, until |-> 0, min |-> 0]

-----------------------------------------------------------------------------
(* Collections and tokens                                                  *)

NftCollection(o) ==
    LET mine == {n \in DOMAIN nft.coll : nft.coll[n].creator = o.creator}
    IN  /\ Operation
        /\ o.name \notin DOMAIN nft.coll
        /\ Cardinality(mine) < MaxCollections
        /\ Cardinality({n \in mine : nft.coll[n].tokens = 0}) < MaxEmpty
        /\ nft' = [nft EXCEPT !.coll = Put(@, o.name, NewCollection(o.creator, o.max))]
        /\ UNCHANGED <<bal, supply>>

\* nft_collection_delete: of anyone's collection.
NftCollectionDelete(name) ==
    /\ Operation
    /\ nft.coll[name].tokens = 0
    /\ nft' = [nft EXCEPT !.coll = Without(@, {name})]
    /\ UNCHANGED <<bal, supply>>

\* nft_issue: in anyone's collection.
NftIssue(o) ==
    /\ Operation
    /\ o.name \in DOMAIN nft.coll
    /\ bal[o.creator][Main("GBG")] >= IssueCost
    /\ nft.coll[o.name].tokens < nft.coll[o.name].max
    /\ bal' = Adjust(Adjust(bal, o.creator, Main("GBG"), -IssueCost), Workers, Main("GBG"), IssueCost)
    /\ nft' = [nft EXCEPT !.coll[o.name].tokens = @ + 1,
                          !.token = Append(@, NewToken(o.name, o.to))]
    /\ UNCHANGED supply

\* A mutated form of ClearNftOrders: what is held for an order that was sold
\* to stays held.
ClearOrdersHeld(w, id, proceed, others, onlyBuying, name) ==
    LET order == w.nft.order
        K == {k \in DOMAIN order : order[k].token = id /\ ~(onlyBuying /\ order[k].selling)}
        gone == K \cup others
        back(x, k) == Pay(Hold(x, k[1], -order[k].price), k[1], order[k].price)
        w1 == FoldSet(LAMBDA k, x : back(x, k), w, {k \in K \ proceed : order[k].holds})
    IN  [w1 EXCEPT !.nft.order = Without(@, gone),
                   !.nft.coll[name].sells = @ - Cardinality({k \in gone : order[k].selling}),
                   !.nft.coll[name].buys = @ - Cardinality({k \in gone : ~order[k].selling})]

\* clear_nft_orders and what every caller does with its counts: the orders
\* for a token are removed, and what they hold goes back, but for the order
\* that is served (proceed); others is an order for any token.  The counts
\* are those of the collection named.
ClearNftOrders(w, id, proceed, others, onlyBuying, name) ==
    LET order == w.nft.order
        K == {k \in DOMAIN order : order[k].token = id /\ ~(onlyBuying /\ order[k].selling)}
        gone == K \cup others
        back(x, k) == Hold(IF k \in proceed THEN x ELSE Pay(x, k[1], order[k].price),
                           k[1], -order[k].price)
        w1 == FoldSet(LAMBDA k, x : back(x, k), w, {k \in K : order[k].holds})
    IN  [w1 EXCEPT !.nft.order = Without(@, gone),
                   !.nft.coll[name].sells = @ - Cardinality({k \in gone : order[k].selling}),
                   !.nft.coll[name].buys = @ - Cardinality({k \in gone : ~order[k].selling})]

\* nft_transfer, to another account or to null, which burns the token: half
\* of its cost goes back, from the workers or from new supply.
NftTransfer(o) ==
    LET t == nft.token[o.token]
        half == IF IssueCost > 1 THEN IssueCost \div 2 ELSE 0
        covered == bal[Workers][Main("GBG")] >= half
        paid == Adjust(bal, o.from, Main("GBG"), half)
        returned == IF covered THEN Adjust(paid, Workers, Main("GBG"), -half) ELSE paid
        cleared == ClearNftOrders([World EXCEPT !.bal = returned], o.token, {}, {}, FALSE, t.name)
    IN  /\ Operation
        /\ o.token \in DOMAIN nft.token
        /\ t.owner = o.from /\ ~t.burnt /\ ~t.selling /\ t.until = 0
        /\ IF o.to = Null
           THEN /\ t.name \in DOMAIN nft.coll
                /\ Becomes([cleared EXCEPT !.nft.coll[t.name].tokens = @ - 1,
                                           !.nft.token[o.token].burnt = TRUE])
                /\ supply' = [supply EXCEPT !["GBG"] = IF covered THEN @ ELSE @ + half]
           ELSE /\ nft' = [nft EXCEPT !.token[o.token].owner = o.to]
                /\ UNCHANGED <<bal, supply>>

-----------------------------------------------------------------------------
(* Orders                                                                  *)

\* A mutated form of GoesTo: the token is still marked as selling.
GoesToMarked(w, id, a) == [w EXCEPT !.nft.token[id].owner = a]

\* The token goes to a, for a price that has been paid.
GoesTo(w, id, a) == [w EXCEPT !.nft.token[id] = [@ EXCEPT !.owner = a, !.selling = FALSE]]

CanSell(o) ==
    /\ o.token \in DOMAIN nft.token
    /\ nft.token[o.token].owner = o.seller /\ ~nft.token[o.token].burnt
    /\ nft.token[o.token].name \in DOMAIN nft.coll

\* nft_sell without a buyer: a new order.
NftSell(o) ==
    LET t == nft.token[o.token]
        k == <<o.seller, o.order>>
    IN  /\ Operation
        /\ o.buyer = "" /\ CanSell(o) /\ o.price > 0
        /\ ~t.selling /\ k \notin DOMAIN nft.order
        /\ nft' = [nft EXCEPT !.token[o.token].selling = TRUE,
                              !.order = Put(@, k, [token |-> o.token, name |-> t.name, price |-> o.price,
                                                   selling |-> TRUE, holds |-> FALSE]),
                              !.coll[t.name].sells = @ + 1]
        /\ UNCHANGED <<bal, supply>>

\* nft_sell to an order: one for any token is paid now, one for this token
\* holds its price.
NftSellTo(o) ==
    LET t == nft.token[o.token]
        k == <<o.buyer, o.order>>
        b == nft.order[k]
        price == IF o.price = 0 THEN b.price ELSE o.price
        paid == Pay(IF b.token = 0 THEN Pay(World, o.buyer, -price) ELSE World, o.seller, price)
    IN  /\ Operation
        /\ o.buyer # "" /\ CanSell(o)
        /\ k \in DOMAIN nft.order /\ ~b.selling /\ b.name = t.name
        /\ IF b.token = 0 THEN price <= b.price /\ Funds(o.buyer) >= price
           ELSE b.token = o.token /\ price = b.price
        /\ Becomes(ClearNftOrders(GoesTo(paid, o.token, o.buyer), o.token, {k}, {k}, FALSE, t.name))
        /\ UNCHANGED supply

\* nft_buy by an order of the token's owner: the order that is found is
\* served, the orders that are cleared are those of the token named.
NftBuy(o) ==
    LET t == nft.token[o.token]
        k == <<t.owner, o.order>>
        s == nft.order[k]
        price == IF o.price = 0 THEN s.price ELSE o.price
        name == nft.token[s.token].name
        paid == Pay(Pay(World, k[1], price), o.buyer, -price)
    IN  /\ Operation
        /\ o.order # 0 /\ o.token \in DOMAIN nft.token
        /\ k \in DOMAIN nft.order /\ o.name = ""
        /\ <<o.buyer, o.order>> \notin DOMAIN nft.order
        /\ s.selling /\ price >= s.price /\ Funds(o.buyer) >= price
        /\ name \in DOMAIN nft.coll
        /\ Becomes(ClearNftOrders(GoesTo(paid, s.token, o.buyer), o.token, {k}, {}, FALSE, name))
        /\ UNCHANGED supply

\* nft_buy of a token that is not offered: the price is held.
NftOffer(o) ==
    LET t == nft.token[o.token]
        k == <<o.buyer, o.order>>
        same == \E x \in DOMAIN nft.order :
                   nft.order[x].token = o.token /\ ~nft.order[x].selling /\ nft.order[x].price = o.price
    IN  /\ Operation
        /\ o.order # 0 /\ o.token \in DOMAIN nft.token
        /\ <<t.owner, o.order>> \notin DOMAIN nft.order /\ k \notin DOMAIN nft.order
        /\ t.owner # o.buyer /\ t.name = o.name /\ t.until = 0
        /\ o.name \in DOMAIN nft.coll
        /\ Funds(o.buyer) >= o.price /\ ~same
        /\ Becomes([Hold(Pay(World, o.buyer, -o.price), o.buyer, o.price) EXCEPT
             !.nft.order = Put(@, k, [token |-> o.token, name |-> o.name, price |-> o.price,
                                      selling |-> FALSE, holds |-> TRUE]),
             !.nft.coll[o.name].buys = @ + 1])
        /\ UNCHANGED supply

\* nft_buy of any token of a collection.
NftOfferAny(o) ==
    LET k == <<o.buyer, o.order>>
    IN  /\ Operation
        /\ o.order # 0 /\ o.token = 0
        /\ k \notin DOMAIN nft.order /\ o.name \in DOMAIN nft.coll
        /\ nft' = [nft EXCEPT !.order = Put(@, k, [token |-> 0, name |-> o.name, price |-> o.price,
                                                   selling |-> FALSE, holds |-> FALSE]),
                              !.coll[o.name].buys = @ + 1]
        /\ UNCHANGED <<bal, supply>>

NftCancelOrder(k) ==
    LET r == nft.order[k]
        back == IF r.holds THEN Hold(Pay(World, k[1], r.price), k[1], -r.price) ELSE World
        w == [back EXCEPT !.nft.order = Without(@, {k})]
    IN  /\ Operation
        /\ r.name \in DOMAIN nft.coll
        /\ Becomes(IF r.selling
                   THEN [w EXCEPT !.nft.token[r.token].selling = FALSE, !.nft.coll[r.name].sells = @ - 1]
                   ELSE [w EXCEPT !.nft.coll[r.name].buys = @ - 1])
        /\ UNCHANGED supply

-----------------------------------------------------------------------------
(* Auctions                                                                *)

BetsOn(w, id) == {k \in DOMAIN w.nft.bet : k[1] = id}

\* clear_nft_bets: all get their tokens back, but for the one that has won.
ClearNftBets(w, id, won) ==
    LET bet == w.nft.bet
        back(x, k) == Hold(IF k \in won THEN x ELSE Pay(x, k[2], bet[k]), k[2], -bet[k])
    IN  [FoldSet(LAMBDA k, x : back(x, k), w, BetsOn(w, id)) EXCEPT
           !.nft.bet = Without(@, BetsOn(w, id))]

\* nft_auction: orders to buy the token go, an order to sell it stays.
NftAuction(o) ==
    LET t == nft.token[o.token]
        started == ClearNftOrders(World, o.token, {}, {}, TRUE, t.name)
    IN  /\ Operation
        /\ o.token \in DOMAIN nft.token /\ t.owner = o.owner /\ t.name \in DOMAIN nft.coll
        /\ t.until = 0 /\ o.min > 0
        /\ Becomes([started EXCEPT !.nft.coll[t.name].auctions = @ + 1,
             !.nft.token[o.token] = [@ EXCEPT !.until = now + o.life, !.min = o.min]])
        /\ UNCHANGED supply

\* Mutated forms of NftAuctionEnd: it is not taken off the count of auctions;
\* the bets stay.
AuctionEndCounted(o) ==
    LET t == nft.token[o.token]
    IN  /\ Operation
        /\ o.token \in DOMAIN nft.token /\ t.owner = o.owner /\ t.name \in DOMAIN nft.coll
        /\ t.until # 0 /\ o.min = 0
        /\ Becomes([ClearNftBets(World, o.token, {}) EXCEPT
             !.nft.token[o.token] = [@ EXCEPT !.until = 0, !.min = 0]])
        /\ UNCHANGED supply
AuctionEndLeaves(o) ==
    LET t == nft.token[o.token]
    IN  /\ Operation
        /\ o.token \in DOMAIN nft.token /\ t.owner = o.owner /\ t.name \in DOMAIN nft.coll
        /\ t.until # 0 /\ o.min = 0
        /\ Becomes([World EXCEPT !.nft.coll[t.name].auctions = @ - 1,
             !.nft.token[o.token] = [@ EXCEPT !.until = 0, !.min = 0]])
        /\ UNCHANGED supply

\* nft_auction without a price or a time ends the auction.
NftAuctionEnd(o) ==
    LET t == nft.token[o.token]
    IN  /\ Operation
        /\ o.token \in DOMAIN nft.token /\ t.owner = o.owner /\ t.name \in DOMAIN nft.coll
        /\ t.until # 0 /\ o.min = 0
        /\ Becomes([ClearNftBets(World, o.token, {}) EXCEPT !.nft.coll[t.name].auctions = @ - 1,
             !.nft.token[o.token] = [@ EXCEPT !.until = 0, !.min = 0]])
        /\ UNCHANGED supply

\* nft_buy with an order id of 0: a bet.
NftBet(o) ==
    LET t == nft.token[o.token]
    IN  /\ Operation
        /\ o.order = 0 /\ o.price > 0 /\ o.token \in DOMAIN nft.token
        /\ t.until # 0 /\ o.price >= t.min /\ Funds(o.buyer) >= o.price
        /\ \A k \in BetsOn(World, o.token) : k[2] # o.buyer /\ nft.bet[k] # o.price
        /\ Becomes([Hold(Pay(World, o.buyer, -o.price), o.buyer, o.price) EXCEPT
             !.nft.bet = Put(@, <<o.token, o.buyer>>, o.price),
             !.nft.token[o.token].until = IF @ - now <= Late THEN @ + Extension ELSE @])
        /\ UNCHANGED supply

NftBetCancel(o) ==
    LET k == <<o.token, o.buyer>>
    IN  /\ Operation
        /\ o.order = 0 /\ o.price = 0 /\ o.token \in DOMAIN nft.token
        /\ nft.token[o.token].until # 0 /\ k \in DOMAIN nft.bet
        /\ Becomes([Hold(Pay(World, o.buyer, nft.bet[k]), o.buyer, -nft.bet[k]) EXCEPT
             !.nft.bet = Without(@, {k})])
        /\ UNCHANGED supply

\* A mutated form of Winner: the first bet in the order of the prices.
WinnerLowest(w, id) ==
    {k \in BetsOn(w, id) : \A x \in BetsOn(w, id) : w.nft.bet[k] <= w.nft.bet[x]}

\* The bet that process_nft_bets takes: the first in the order of token and
\* descending price that is not before the token.
Winner(w, id) ==
    LET before(k, x) == k[1] < x[1] \/ (k[1] = x[1] /\ w.nft.bet[k] >= w.nft.bet[x])
        later == {k \in DOMAIN w.nft.bet : k[1] >= id}
    IN  {k \in later : \A x \in later : before(k, x)}

\* process_nft_bets for an auction that is over.
EndAuction(w, id) ==
    LET t == w.nft.token[id]
        closed == [w EXCEPT !.nft.token[id] = [t EXCEPT !.until = 0, !.min = 0],
                            !.nft.coll[t.name].auctions = @ - 1]
        k == CHOOSE k \in Winner(w, id) : TRUE
        sold == GoesTo(Pay(closed, t.owner, w.nft.bet[k]), id, k[2])
    IN  IF Winner(w, id) = {} THEN closed
        ELSE ClearNftOrders(ClearNftBets(sold, id, {k}), id, {}, {}, FALSE, t.name)

\* The auctions that are over at time t, in their order.
Over(t) == {id \in DOMAIN nft.token : nft.token[id].until # 0 /\ nft.token[id].until < t}
ProcessNftBets(w, t) ==
    FoldLeft(EndAuction, w,
             SetToSortSeq(Over(t), LAMBDA x, y : \/ nft.token[x].until < nft.token[y].until
                                                 \/ nft.token[x].until = nft.token[y].until /\ x < y))

NftNext ==
    \/ \E o \in CollectionOps : NftCollection(o)
    \/ \E name \in DOMAIN nft.coll : NftCollectionDelete(name)
    \/ \E o \in IssueOps : NftIssue(o)
    \/ \E o \in TransferOps : NftTransfer(o)
    \/ \E o \in SellOps : NftSell(o) \/ NftSellTo(o)
    \/ \E o \in BuyOps : NftBuy(o) \/ NftOffer(o) \/ NftOfferAny(o) \/ NftBet(o) \/ NftBetCancel(o)
    \/ \E k \in DOMAIN nft.order : NftCancelOrder(k)
    \/ \E o \in AuctionOps : NftAuction(o) \/ NftAuctionEnd(o)
=============================================================================
