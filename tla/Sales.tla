------------------------------- MODULE Sales -------------------------------
(***************************************************************************)
(* Paid subscriptions and NFTs in one chain: they take tokens out of the   *)
(* same balances, and every block pays the subscriptions that are due and  *)
(* then ends the auctions that are over.                                   *)
(*                                                                         *)
(* Time is the number of the block: no slot is missed.                     *)
(***************************************************************************)
EXTENDS Subscriptions, Nft

CONSTANTS
    StartBal,       \* the balances,
    StartColl,      \* the collections and
    StartTokens     \* the tokens of the first state

VARIABLE
    mixed           \* not of the code, but a history of it: the tokens that an
                    \* nft_buy was about that sold one and named another

vars == <<bal, now, ops, plan, sub, sponsors, nft, supply, mixed>>

Init ==
    /\ bal = StartBal /\ now = 1 /\ ops = 0
    /\ SubInit
    /\ NftInit(StartColl, StartTokens)
    /\ mixed = {}

\* The part of _apply_block that is about them.  Without the collection of a
\* token whose auction is over, process_nft_bets throws and the block is not
\* applied.
Block ==
    LET t == now + 1
        paid == ProcessPaidSubscribers(t)
        ended == ProcessNftBets([bal |-> paid.bal, nft |-> nft], t)
    IN  /\ now < MaxTime
        /\ \A id \in Over(t) : nft.token[id].name \in DOMAIN nft.coll
        /\ now' = t
        /\ bal' = ended.bal /\ nft' = ended.nft
        /\ sub' = paid.sub /\ plan' = paid.plan
        /\ UNCHANGED <<ops, sponsors, supply, mixed>>

\* The token an nft_buy names and that of the order it serves.
Named(o) == {o.token, nft.order[<<nft.token[o.token].owner, o.order>>].token}

Next ==
    \/ SubNext /\ UNCHANGED <<nftVars, mixed>>
    \/ /\ NftNext /\ UNCHANGED subVars
       /\ mixed' = mixed \cup UNION {Named(o) : o \in {x \in BuyOps : NftBuy(x) /\ Cardinality(Named(x)) > 1}}
    \/ Block

Spec == Init /\ [][Next]_vars

-----------------------------------------------------------------------------
(* Properties                                                              *)

Amount == 0..SumOf(LAMBDA s : supply[s], Symbol)

\* The types of the state: no balance, counter or price is ever below zero,
\* which no operation and no payment checks for a counter.
TypeOK ==
    /\ bal \in [Account -> [Purses -> Amount]]
    /\ now \in 1..MaxTime /\ ops \in 0..MaxOps
    /\ \A p \in DOMAIN plan : plan[p].cost \in Amount \ {0} /\ {plan[p].subscribers, plan[p].active} \subseteq Nat
    /\ \A k \in DOMAIN sub : /\ PlanOf(k) \in DOMAIN plan /\ k[3] \in Account
                             /\ sub[k].prepaid \in Amount /\ sub[k].left \in 0..sub[k].executions
    /\ sponsors \in [Account -> Nat]
    /\ \A n \in DOMAIN nft.coll : LET c == nft.coll[n] IN {c.tokens, c.sells, c.buys, c.auctions} \subseteq Nat
    /\ \A id \in DOMAIN nft.token : nft.token[id].owner \in Account
    /\ \A k \in DOMAIN nft.order : nft.order[k].token \in 0..Len(nft.token)
    /\ nft.hold \in [Account -> Amount]
    /\ mixed \subseteq DOMAIN nft.token

Holding == {k \in DOMAIN nft.order : nft.order[k].holds}
HeldBy(a) == SumOf(LAMBDA k : nft.order[k].price, {k \in Holding : k[1] = a})
             + SumOf(LAMBDA k : nft.bet[k], {k \in DOMAIN nft.bet : k[2] = a})
InPurses(s) == SumOf(LAMBDA p : SumOf(LAMBDA a : bal[a][p], Account), {p \in Purses : p[1] = s})
Prepaid(s) == SumOf(LAMBDA k : sub[k].prepaid, {k \in DOMAIN sub : sub[k].symbol = s})

\* validate_invariants: whatever is offered, bet, prepaid, paid or given
\* back, the balances with what subscribers have prepaid and what orders and
\* bets hold are the supply.
Conserved ==
    \A s \in Symbol :
        supply[s] = InPurses(s) + Prepaid(s) + (IF s = "GOLOS" THEN SumOf(HeldBy, Account) ELSE 0)

\* nft_hold_balance, which is kept apart from the orders and bets by eight
\* pieces of code, is what the account's own orders and bets hold.
HoldsMatch == \A a \in Account : nft.hold[a] = HeldBy(a)

Count(f, P(_)) == Cardinality({x \in DOMAIN f : P(f[x])})

\* The counters of subscriptions, authors and collections agree with the
\* objects they count, although orders, bets and subscribers are removed by
\* the operations of others and by blocks.
CountsMatch ==
    /\ \A p \in DOMAIN plan : /\ plan[p].subscribers = Cardinality(SubsOf(p))
                              /\ plan[p].active = Cardinality({k \in SubsOf(p) : sub[k].active})
    /\ \A a \in Account : sponsors[a] = Cardinality({k \in DOMAIN sub : k[1] = a})
    /\ \A n \in DOMAIN nft.coll :
          LET c == nft.coll[n]
          IN  /\ c.tokens = Count(nft.token, LAMBDA t : t.name = n /\ ~t.burnt)
              /\ c.auctions = Count(nft.token, LAMBDA t : t.name = n /\ t.until # 0)
              /\ c.sells = Count(nft.order, LAMBDA r : r.name = n /\ r.selling)
              /\ c.buys = Count(nft.order, LAMBDA r : r.name = n /\ ~r.selling)

\* An order to sell is its owner's to serve: whoever made it owns the token
\* still, however tokens have changed hands since, and a token is marked as
\* selling exactly while it has one order to sell it.  The exception is an
\* nft_buy that finds the order of one token by the owner of another: it sells
\* the first and clears the orders of the second (nft_evaluators.cpp:437), so
\* that the order it served stays, and the second stays marked without one.
SellersOwn ==
    /\ \A k \in DOMAIN nft.order :
          nft.order[k].selling /\ nft.order[k].token \notin mixed
              => nft.token[nft.order[k].token].owner = k[1]
    /\ \A id \in DOMAIN nft.token \ mixed :
          Count(nft.order, LAMBDA r : r.selling /\ r.token = id) = IF nft.token[id].selling THEN 1 ELSE 0

\* Bets are on tokens whose auction goes on: an auction that ends, by a
\* block or by its owner, leaves none behind, and every block ends those
\* that are over.
BetsAreOpen ==
    /\ \A k \in DOMAIN nft.bet : nft.token[k[1]].until # 0
    /\ \A id \in DOMAIN nft.token : nft.token[id].until # 0 => nft.token[id].until >= now

\* Every counter and every held balance agrees with the objects.
CountersMatch == TypeOK /\ HoldsMatch /\ CountsMatch

\* A subscription that repeats and is active has its next payment ahead of
\* it, and one that has ended, for lack of tokens, of executions or by an
\* update, is not charged again.
PaymentsScheduled ==
    \A k \in DOMAIN sub :
        IF sub[k].active /\ sub[k].executions > 0 THEN sub[k].next > now ELSE sub[k].next = 0

\* Nothing that waits is stale: orders to sell can be served by their makers
\* (with the exception of SellersOwn), bets by an auction, payments by a block
\* to come.
NothingStale == SellersOwn /\ BetsAreOpen /\ PaymentsScheduled

\* An auction that a block ends goes to the highest of its own bets, and
\* stays with the owner if it has none.
AuctionGoesToBest ==
    [][now' # now =>
         \A id \in Over(now') :
            LET own == BetsOn(World, id)
                best == {k \in own : \A x \in own : nft.bet[x] <= nft.bet[k]}
            IN  IF own = {} THEN nft'.token[id].owner = nft.token[id].owner
                ELSE \E k \in best : nft'.token[id].owner = k[2]]_vars
=============================================================================
