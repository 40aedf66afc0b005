------------------------------- MODULE Market -------------------------------
(***************************************************************************)
(* The internal market (libraries/chain/database.cpp, limit orders in      *)
(* steem_evaluator.cpp): the book of limit orders, matching and cancelling *)
(* as operators on the state d of the ledger, of which they use            *)
(*   d.bal     what an account holds of every symbol,                      *)
(*   d.mkt     market_balance: what its open orders hold,                  *)
(*   d.orders  the open limit orders,                                      *)
(*   d.depth   market_pair_object: <<base_depth, quote_depth>> of a pair;  *)
(*             a pair without an object is <<0, 0>>.                       *)
(* An order is [id, seller, orderid, sym, want, left, base, quote, exp]:   *)
(* it sells left of sym at the price base/quote, for want.  Of the object  *)
(* id only the order of creation matters.  Hardforks up to 0.29 are        *)
(* applied: there are no liquidity rewards, and the issuer of an asset     *)
(* takes a fee of at least 1 from every trade in it.                       *)
(***************************************************************************)
EXTENDS Integers, FiniteSets, Sequences, FiniteSetsExt, SequencesExt

CONSTANTS
    Account,
    Asset,          \* the user issued assets
    FeePercent,     \* [Asset -> 0..10000]: asset_object::fee_percent
    Creator,        \* [Asset -> Account]: asset_object::creator
    MaxCanceled     \* 100, which limit_order_cancel_ex passes by one

Core == {"STEEM", "SBD"}
Symbol == Core \cup Asset

\* amount_to_receive() of an order and its value after it sold some.
AmountToReceive(o) == (o.left * o.quote) \div o.base

\* adjust_balance() and adjust_market_balance().
Adjust(d, a, s, n) == [d EXCEPT !.bal[a][s] = @ + n]
AdjustMarket(d, a, s, n) == [d EXCEPT !.mkt[a][s] = @ + n]

\* update_pair_depth().
UpdateDepth(d, o, b, q) ==
    [d EXCEPT !.depth[<<o.sym, o.want>>] = <<@[1] + b, @[2] + q>>]

\* A mutated form of CancelOrder: the depth of the pair stays.
CancelKeepsDepth(d, o) ==
    [AdjustMarket(Adjust(d, o.seller, o.sym, o.left), o.seller, o.sym, -o.left)
        EXCEPT !.orders = @ \ {o}]

\* cancel_order().
CancelOrder(d, o) ==
    [UpdateDepth(
        AdjustMarket(Adjust(d, o.seller, o.sym, o.left), o.seller, o.sym, -o.left),
        o, -o.left, -AmountToReceive(o))
        EXCEPT !.orders = @ \ {o}]

\* The loops that cancel orders; their order makes no difference.
CancelOrders(d, S) == FoldSet(LAMBDA o, e : CancelOrder(e, o), d, S)

\* fill_order(): the order is gone when it paid all it had, or when what it
\* has left would sell for nothing; then the rest goes back to the seller.
FillOrder(d, o, pays, receives) ==
    LET rest == [o EXCEPT !.left = @ - pays]
        paid == AdjustMarket(Adjust(d, o.seller, o.want, receives), o.seller, o.sym, -pays)
        less == UpdateDepth(paid, o, -pays, AmountToReceive(rest) - AmountToReceive(o))
    IN IF pays = o.left
       THEN [less EXCEPT !.orders = @ \ {o}]
       ELSE LET modified == [less EXCEPT !.orders = (@ \ {o}) \cup {rest}]
            IN IF AmountToReceive(rest) = 0 THEN CancelOrder(modified, rest) ELSE modified

\* The fee of subtract_fee in match().
TradeFee(s, n) ==
    IF s \in Core \/ n = 0 THEN 0
    ELSE IF FeePercent[s] = 0 THEN 0
    ELSE Max({1, (n * FeePercent[s]) \div 10000})
PayFee(d, s, n) ==
    IF s \in Core THEN d ELSE Adjust(d, Creator[s], s, TradeFee(s, n))

\* A mutated form of Match: the amount the book pays is rounded up.
MatchRoundsUp(d, o, p) ==
    LET all == o.left <= (p.left * p.quote) \div p.base
        oPays == IF all THEN o.left ELSE (p.left * p.quote) \div p.base
        pPays == IF all THEN (o.left * p.base) \div p.quote + 1 ELSE p.left
        fees == PayFee(PayFee(d, o.want, pPays), p.want, oPays)
        filled == FillOrder(fees, o, oPays, pPays - TradeFee(o.want, pPays))
    IN FillOrder(filled, p, pPays, oPays - TradeFee(p.want, oPays))

\* match(): the new order o trades with the order p of the book at p's
\* price; the one that is worth less is used up.
Match(d, o, p) ==
    LET all == o.left <= (p.left * p.quote) \div p.base
        oPays == IF all THEN o.left ELSE (p.left * p.quote) \div p.base
        pPays == IF all THEN (o.left * p.base) \div p.quote ELSE p.left
        fees == PayFee(PayFee(d, o.want, pPays), p.want, oPays)
        filled == FillOrder(fees, o, oPays, pPays - TradeFee(o.want, pPays))
    IN FillOrder(filled, p, pPays, oPays - TradeFee(p.want, oPays))

\* p offers at least what o asks: the range of by_price that apply_order()
\* goes through, and its order, best price first.
Crosses(o, p) == o.sym = p.want /\ o.want = p.sym /\ p.base * o.base >= p.quote * o.quote
Better(p, q) ==
    \/ p.base * q.quote > q.base * p.quote
    \/ p.base * q.quote = q.base * p.quote /\ p.id < q.id

\* The orders of S, best price first.
BestFirst(S) == {q \in SetToSeqs(S) : \A i, j \in DOMAIN q : i < j => Better(q[i], q[j])}

\* A mutated form of Against: an order at the limit price is passed over.
AgainstBelowLimit(d, o) ==
    BestFirst({p \in d.orders : Crosses(o, p) /\ p.base * o.base > p.quote * o.quote})

\* The orders of the book that o can trade with, in the order in which
\* apply_order() meets them.
Against(d, o) == BestFirst({p \in d.orders : Crosses(o, p)})

\* apply_order(): matches until the new order is gone or nothing crosses it.
MatchNext(o, d, p) ==
    LET new == {x \in d.orders : x.id = o.id}
    IN IF new = {} THEN d ELSE Match(d, CHOOSE x \in new : TRUE, p)
ApplyOrder(d, o, found) == FoldLeft(LAMBDA e, p : MatchNext(o, e, p), d, found)

\* A mutated form of CanCreate: the balance of the seller is not checked.
CanCreateUnfunded(d, x, now) ==
    /\ (x.amount * x.quote) \div x.base > 0
    /\ x.exp > now
    /\ ~ \E o \in d.orders : o.seller = x.seller /\ o.orderid = x.orderid

\* limit_order_create and limit_order_create2: x is the operation, now the
\* time of the head block, found the orders that it meets.  CanCreate holds
\* the checks before the order is applied, Created the state afterwards;
\* fill_or_kill fails the operation when the order is still there.
CanCreate(d, x, now) ==
    /\ (x.amount * x.quote) \div x.base > 0
    /\ x.exp > now
    /\ d.bal[x.seller][x.sym] >= x.amount
    /\ ~ \E o \in d.orders : o.seller = x.seller /\ o.orderid = x.orderid
NewOrder(d, x) ==
    [id |-> 1 + Max({0} \cup {o.id : o \in d.orders}), seller |-> x.seller,
     orderid |-> x.orderid, sym |-> x.sym, want |-> x.want, left |-> x.amount,
     base |-> x.base, quote |-> x.quote, exp |-> x.exp]
Created(d, x, found) ==
    LET o == NewOrder(d, x)
        moved == AdjustMarket(Adjust(d, x.seller, x.sym, -x.amount), x.seller, x.sym, x.amount)
    IN UpdateDepth(ApplyOrder([moved EXCEPT !.orders = @ \cup {o}], o, found),
                   o, x.amount, AmountToReceive(o))
Filled(d, x, found) == NewOrder(d, x).id \notin {o.id : o \in Created(d, x, found).orders}

\* The orders that limit_order_cancel_ex with a pair_to_cancel cancels: an
\* empty name stands for every symbol, and the loop in the order of the ids
\* ends when it has cancelled more than MaxCanceled.
AnySymbol == ""
OfPair(d, a, base, quote, reverse) ==
    LET all == {o \in d.orders :
                  /\ o.seller = a
                  /\ base \in {AnySymbol, o.sym} \/ (reverse /\ base = o.want)
                  /\ quote \in {AnySymbol, o.want} \/ (reverse /\ quote = o.sym)}
    IN  {o \in all : Cardinality({x \in all : x.orderid < o.orderid}) <= MaxCanceled}

\* The orders that clear_expired_orders() cancels.
ExpiredOrders(d, now) == {o \in d.orders : o.exp < now}
=============================================================================
