------------------------------- MODULE Ledger -------------------------------
(***************************************************************************)
(* What the accounts of the chain own, and where it is kept while it is on *)
(* its way: limit orders (module Market), conversions, savings and escrows *)
(* (steem_evaluator.cpp), and the steps of _apply_block that finish them:  *)
(* expired orders, due conversions, the forced conversion of SBD debt, due *)
(* withdrawals and escrows that were not ratified (database.cpp).          *)
(*                                                                         *)
(* Abstractions.  One block is one unit of time, and its number is its     *)
(* time.  The price feed is an input; the issue of new tokens, interest on *)
(* savings, vesting and rewards are left out.  virtual_supply is           *)
(* recomputed from the supplies by every block (update_virtual_supply) and *)
(* read by nothing that is modelled.  An operation that throws changes     *)
(* nothing, because its transaction is undone.                             *)
(***************************************************************************)
EXTENDS Market

CONSTANTS
    Balance,            \* [Account -> [Symbol -> Nat]]: at the start
    Feeds,              \* the prices [sbd, steem] the witnesses may publish
    OrderOps,           \* the limit_order_create operations that are sent
    ConvertOps,         \* the convert operations
    SavingsOps,         \* the transfer_to_savings operations
    WithdrawOps,        \* the transfer_from_savings operations
    EscrowOps,          \* the escrow_transfer operations
    ConversionDelay,    \* STEEMIT_CONVERSION_DELAY
    ConvertFee,         \* median_props.convert_fee_percent
    WithdrawTime,       \* STEEMIT_SAVINGS_WITHDRAW_TIME
    RequestLimit,       \* STEEMIT_SAVINGS_WITHDRAW_REQUEST_LIMIT
    DebtInterval,       \* STEEMIT_SBD_DEBT_CONVERT_INTERVAL
    DebtThreshold,      \* STEEMIT_SBD_DEBT_CONVERT_THRESHOLD
    DebtRate,           \* median_props.sbd_debt_convert_rate
    BlockOps,           \* bound: operations in a block
    MaxTime             \* bound: number of the last block

\* At the rate 10000 the forced conversion reads withdrawals that it has
\* removed; that case is excluded.
ASSUME RateAssumption == DebtRate \in 0..9999 /\ DebtInterval \in Nat \ {0} /\ ConvertFee \in 0..10000
ASSUME BalanceAssumption == Balance \in [Account -> [Symbol -> Nat]]
ASSUME AccountAssumption == IsFiniteSet(Account)
ASSUME AssetAssumption == FeePercent \in [Asset -> 0..10000] /\ Creator \in [Asset -> Account]
ASSUME LimitAssumption == RequestLimit \in Nat
ASSUME TimeAssumption == {ConversionDelay, WithdrawTime} \subseteq Nat \ {0}

\* What validate() of the operations and of the feeds lets through.
Positive == Nat \ {0}
ASSUME InputAssumption ==
    /\ Feeds \subseteq [sbd : Positive, steem : Positive]
    /\ OrderOps \subseteq [seller : Account, orderid : Nat, sym : Symbol, want : Symbol, amount : Positive,
                           base : Positive, quote : Positive, exp : Nat, fillOrKill : BOOLEAN]
    /\ \A x \in OrderOps : x.sym # x.want
    /\ ConvertOps \subseteq [owner : Account, id : Nat, sym : Core, amount : Positive]
    /\ SavingsOps \subseteq [from : Account, to : Account, sym : Core, amount : Positive]
    /\ WithdrawOps \subseteq [from : Account, to : Account, id : Nat, sym : Core, amount : Positive]
    /\ EscrowOps \subseteq [from : Account, to : Account, agent : Account, id : Nat, steem : Nat, sbd : Nat,
                            fee : Nat, feesym : Core, deadline : Nat, expires : Nat]

VARIABLES
    db,     \* [bal, mkt, orders, depth, sav, reqs, conv, wd, esc, supply]
    feed,   \* feed_history: [median, current]
    now,    \* head_block_time(), head_block_num()
    ops     \* operations since the head block

vars == <<db, feed, now, ops>>

\* What every operation leaves alone; a block has room for BlockOps of them.
Operation ==
    /\ ops < BlockOps
    /\ ops' = ops + 1
    /\ UNCHANGED <<feed, now>>

Other(s) == IF s = "SBD" THEN "STEEM" ELSE "SBD"
Percent(n, p) == (n * p) \div 10000

\* asset * price for the price sbd/steem.
Worth(n, s, price) ==
    IF s = "SBD" THEN (n * price.steem) \div price.sbd ELSE (n * price.sbd) \div price.steem

\* An amount n of sym, as an amount of s.
Of(s, sym, n) == IF sym = s THEN n ELSE 0

\* update_median_feed(): the median of the witnesses, but at least the price
\* at which the SBD are worth a tenth of the STEEM.
MedianFeed(d, p) ==
    LET least == [sbd |-> 10 * d.supply["SBD"], steem |-> d.supply["STEEM"]]
    IN [median |-> p,
        current |-> IF least.sbd * p.steem > p.sbd * least.steem THEN least ELSE p]

Init ==
    /\ db = [bal |-> Balance,
             mkt |-> [a \in Account |-> [s \in Symbol |-> 0]],
             orders |-> {},
             depth |-> [m \in Symbol \X Symbol |-> <<0, 0>>],
             sav |-> [a \in Account |-> [s \in Core |-> 0]],
             reqs |-> [a \in Account |-> 0],
             conv |-> {}, wd |-> {}, esc |-> {},
             supply |-> [s \in Core |-> SumFunction([a \in Account |-> Balance[a][s]])]]
    /\ feed \in {MedianFeed(db, p) : p \in Feeds}
    /\ now = 1
    /\ ops = 0

-----------------------------------------------------------------------------
(* Operations.                                                             *)

LimitOrderCreate(x) ==
    /\ CanCreate(db, x, now)
    /\ \E found \in Against(db, NewOrder(db, x)) :
          /\ x.fillOrKill => Filled(db, x, found)
          /\ db' = Created(db, x, found)
    /\ Operation

LimitOrderCancel(o) ==
    /\ db' = CancelOrder(db, o)
    /\ Operation

LimitOrderCancelEx(a, base, quote, reverse) ==
    /\ OfPair(db, a, base, quote, reverse) # {}     \* otherwise nothing changes
    /\ db' = CancelOrders(db, OfPair(db, a, base, quote, reverse))
    /\ Operation

\* convert_evaluator: a conversion of STEEM pays a fee.
Convert(x) ==
    LET fee == IF x.sym = "STEEM" THEN Percent(x.amount, ConvertFee) ELSE 0
    IN /\ x.sym = "STEEM" => fee > 0
       /\ db.bal[x.owner][x.sym] >= x.amount
       /\ ~ \E c \in db.conv : c.owner = x.owner /\ c.id = x.id
       /\ db' = [Adjust(db, x.owner, x.sym, -x.amount) EXCEPT
                   !.conv = @ \cup {[owner |-> x.owner, id |-> x.id, sym |-> x.sym,
                       amount |-> x.amount, fee |-> fee, date |-> now + ConversionDelay]}]
       /\ Operation

TransferToSavings(x) ==
    /\ db.bal[x.from][x.sym] >= x.amount
    /\ db' = [Adjust(db, x.from, x.sym, -x.amount) EXCEPT !.sav[x.to][x.sym] = @ + x.amount]
    /\ Operation

TransferFromSavings(x) ==
    /\ db.reqs[x.from] < RequestLimit
    /\ db.sav[x.from][x.sym] >= x.amount
    /\ ~ \E w \in db.wd : w.from = x.from /\ w.id = x.id
    /\ db' = [db EXCEPT
                !.sav[x.from][x.sym] = @ - x.amount,
                !.wd = @ \cup {[from |-> x.from, to |-> x.to, id |-> x.id, sym |-> x.sym,
                                amount |-> x.amount, complete |-> now + WithdrawTime]},
                !.reqs[x.from] = @ + 1]
    /\ Operation

\* A mutated form of CancelTransferFromSavings: the counter of requests stays.
CancelKeepsRequest(w) ==
    /\ db' = [db EXCEPT !.sav[w.from][w.sym] = @ + w.amount, !.wd = @ \ {w}]
    /\ Operation

CancelTransferFromSavings(w) ==
    /\ db' = [db EXCEPT !.sav[w.from][w.sym] = @ + w.amount,
                        !.wd = @ \ {w},
                        !.reqs[w.from] = @ - 1]
    /\ Operation

\* What an escrow holds goes back to from.
Refund(d, e) ==
    [Adjust(Adjust(Adjust(d, e.from, "STEEM", e.steem), e.from, "SBD", e.sbd),
            e.from, e.feesym, e.fee)
        EXCEPT !.esc = @ \ {e}]
Approved(e) == e.toOk /\ e.agentOk

EscrowTransfer(x) ==
    LET steem == x.steem + Of("STEEM", x.feesym, x.fee)
        sbd == x.sbd + Of("SBD", x.feesym, x.fee)
    IN /\ x.deadline > now /\ x.expires > now
       /\ db.bal[x.from]["STEEM"] >= steem /\ db.bal[x.from]["SBD"] >= sbd
       /\ ~ \E e \in db.esc : e.from = x.from /\ e.id = x.id
       /\ db' = [Adjust(Adjust(db, x.from, "STEEM", -steem), x.from, "SBD", -sbd)
                   EXCEPT !.esc = @ \cup {[from |-> x.from, to |-> x.to, agent |-> x.agent,
                       id |-> x.id, steem |-> x.steem, sbd |-> x.sbd, fee |-> x.fee, feesym |-> x.feesym,
                       deadline |-> x.deadline, expires |-> x.expires,
                       toOk |-> FALSE, agentOk |-> FALSE, disputed |-> FALSE]}]
       /\ Operation

\* A mutated form of Approve: the fee is paid but stays in the escrow.
ApproveKeepsFee(e, who) ==
    LET ok == [e EXCEPT !.toOk = @ \/ who = e.to, !.agentOk = @ \/ who = e.agent]
    IN [(IF Approved(ok) THEN Adjust(db, e.agent, e.feesym, e.fee) ELSE db)
           EXCEPT !.esc = (@ \ {e}) \cup {ok}]

\* The approval of to or of the agent; the last one pays the agent.
Approve(e, who) ==
    LET ok == [e EXCEPT !.toOk = @ \/ who = e.to, !.agentOk = @ \/ who = e.agent]
    IN IF Approved(ok)
       THEN [Adjust(db, e.agent, e.feesym, e.fee)
               EXCEPT !.esc = (@ \ {e}) \cup {[ok EXCEPT !.fee = 0]}]
       ELSE [db EXCEPT !.esc = (@ \ {e}) \cup {ok}]

\* escrow_approve_evaluator, for both answers.
EscrowApprove(e, who, approve) ==
    /\ e.deadline >= now
    /\ who = e.to => ~e.toOk
    /\ who = e.agent => ~e.agentOk
    /\ db' = IF approve THEN Approve(e, who) ELSE Refund(db, e)
    /\ Operation

EscrowDispute(e) ==
    /\ now < e.expires /\ Approved(e) /\ ~e.disputed
    /\ db' = [db EXCEPT !.esc = (@ \ {e}) \cup {[e EXCEPT !.disputed = TRUE]}]
    /\ Operation

\* Who may release to whom.
MayRelease(e, who, receiver) ==
    IF e.disputed THEN who = e.agent
    ELSE /\ who \in {e.from, e.to}
         /\ e.expires > now =>
               /\ who = e.from => receiver = e.to
               /\ who = e.to /\ who # e.from => receiver = e.from

EscrowRelease(e, who, receiver, steem, sbd) ==
    /\ Approved(e)
    /\ MayRelease(e, who, receiver)
    /\ LET rest == [e EXCEPT !.steem = @ - steem, !.sbd = @ - sbd]
       IN db' = [Adjust(Adjust(db, receiver, "STEEM", steem), receiver, "SBD", sbd)
                   EXCEPT !.esc = (@ \ {e}) \cup
                            (IF rest.steem = 0 /\ rest.sbd = 0 THEN {} ELSE {rest})]
    /\ Operation

-----------------------------------------------------------------------------
(* The steps of _apply_block, each from a state of the ledger to the next; *)
(* t is the time of the block.                                             *)

ClearExpiredOrders(d, t) == CancelOrders(d, ExpiredOrders(d, t))

\* process_conversions(): a due request is worth its amount without the fee
\* at the current price.  The whole amount leaves the supply of its symbol.
ProcessConversions(d, f, t) ==
    LET due == {c \in d.conv : c.date <= t}
        issue(c) == Worth(c.amount - c.fee, c.sym, f.current)
    IN [d EXCEPT
          !.bal = [a \in Account |-> [s \in Symbol |-> @[a][s] +
                     SumFunction([c \in {c \in due : c.owner = a} |-> Of(s, Other(c.sym), issue(c))])]],
          !.conv = @ \ due,
          !.supply = [s \in Core |-> @[s]
                        + SumFunction([c \in due |-> Of(s, Other(c.sym), issue(c))])
                        - SumFunction([c \in due |-> Of(s, c.sym, c.amount)])]]

\* sbd_debt_percent, a uint16_t (update_virtual_supply).
DebtPercent(d, f) ==
    ((Worth(d.supply["SBD"], "SBD", f.median) * 10000) \div d.supply["STEEM"]) % 65536

\* The part of n SBD that is converted, and what it becomes.
Part(n) == Percent(n, DebtRate)
InSteem(f, n) == Worth(Part(n), "SBD", f.current)

\* What becomes of an escrow, of its pending fee, and of a withdrawal.
FeeInSbd(e) == Of("SBD", e.feesym, e.fee)
EscrowAfter(f, e) ==
    [e EXCEPT !.sbd = @ - Part(@), !.steem = @ + InSteem(f, e.sbd), !.fee = @ - Part(FeeInSbd(e))]
WithdrawalAfter(w) == IF w.sym = "SBD" THEN [w EXCEPT !.amount = @ - Part(@)] ELSE w

\* The STEEM that a gets besides its own: as the agent of pending fees and
\* as the receiver of withdrawals.
ToAgent(d, f, a) == SumFunction([e \in {e \in d.esc : e.agent = a} |-> InSteem(f, FeeInSbd(e))])
ToReceiver(d, f, a) == SumFunction([w \in {w \in d.wd : w.to = a} |-> Of("SBD", w.sym, InSteem(f, w.amount))])

\* A part of all SBD that accounts hold, save, withdraw or have in escrow
\* becomes STEEM, and the supplies follow.
Converted(d, f) ==
    LET taken == SumFunction([a \in Account |-> Part(d.bal[a]["SBD"]) + Part(d.sav[a]["SBD"])])
               + SumFunction([e \in d.esc |-> Part(e.sbd) + Part(FeeInSbd(e))])
               + SumFunction([w \in d.wd |-> Of("SBD", w.sym, Part(w.amount))])
        given == SumFunction([a \in Account |-> InSteem(f, d.bal[a]["SBD"]) + InSteem(f, d.sav[a]["SBD"])
                                                  + ToAgent(d, f, a) + ToReceiver(d, f, a)])
               + SumFunction([e \in d.esc |-> InSteem(f, e.sbd)])
    IN [d EXCEPT
          !.bal = [a \in Account |-> [d.bal[a] EXCEPT
                     !["SBD"] = @ - Part(@),
                     !["STEEM"] = @ + InSteem(f, d.bal[a]["SBD"]) + ToAgent(d, f, a) + ToReceiver(d, f, a)]],
          !.sav = [a \in Account |-> [s \in Core |->
                     IF s = "SBD" THEN d.sav[a][s] - Part(d.sav[a][s])
                     ELSE d.sav[a][s] + InSteem(f, d.sav[a]["SBD"])]],
          !.esc = {EscrowAfter(f, e) : e \in @},
          !.wd = {WithdrawalAfter(w) : w \in @},
          !.supply = [s \in Core |-> IF s = "SBD" THEN @[s] - taken ELSE @[s] + given]]

\* process_sbd_debt_conversions(), after the orders that sell SBD are cancelled.
ConvertDebt(d, f) == Converted(CancelOrders(d, {o \in d.orders : o.sym = "SBD"}), f)

DebtDue(d, f, t) ==
    t % DebtInterval = 0 /\ DebtRate > 0 /\ DebtPercent(d, f) >= DebtThreshold

ProcessDebt(d, g, f, t) == IF DebtDue(g, f, t) THEN ConvertDebt(d, f) ELSE d

\* A mutated form of ProcessSavingsWithdraws: a withdrawal that is due now is left.
ProcessWithdrawsLate(d, t) ==
    LET due == {w \in d.wd : w.complete < t}
    IN [d EXCEPT
          !.bal = [a \in Account |-> [s \in Symbol |-> @[a][s] +
                     SumFunction([w \in {w \in due : w.to = a} |-> Of(s, w.sym, w.amount)])]],
          !.reqs = [a \in Account |-> @[a] - Cardinality({w \in due : w.from = a})],
          !.wd = @ \ due]

\* process_savings_withdraws().
ProcessSavingsWithdraws(d, t) ==
    LET due == {w \in d.wd : w.complete <= t}
    IN [d EXCEPT
          !.bal = [a \in Account |-> [s \in Symbol |-> @[a][s] +
                     SumFunction([w \in {w \in due : w.to = a} |-> Of(s, w.sym, w.amount)])]],
          !.reqs = [a \in Account |-> @[a] - Cardinality({w \in due : w.from = a})],
          !.wd = @ \ due]

ExpireEscrowRatification(d, t) ==
    FoldSet(LAMBDA e, x : Refund(x, e), d, {e \in d.esc : ~Approved(e) /\ e.deadline <= t})

\* The maintenance of a block in the order of _apply_block.  The debt percent
\* is the one of update_virtual_supply(), before the conversions.
Maintained(f, t) ==
    LET d1 == ClearExpiredOrders(db, t)
        d2 == ProcessConversions(d1, f, t)
        d3 == ProcessDebt(d2, d1, f, t)
    IN ExpireEscrowRatification(ProcessSavingsWithdraws(d3, t), t)

\* Without STEEM, update_virtual_supply() divides by zero: no block is applied.
ApplyBlock(p) ==
    /\ now < MaxTime
    /\ db.supply["STEEM"] > 0
    /\ now' = now + 1
    /\ ops' = 0
    /\ feed' = MedianFeed(db, p)
    /\ db' = Maintained(feed', now')

-----------------------------------------------------------------------------
Next ==
    \/ \E x \in OrderOps : LimitOrderCreate(x)
    \/ \E o \in db.orders : LimitOrderCancel(o)
    \/ \E a \in Account, r \in BOOLEAN : LimitOrderCancelEx(a, "SBD", AnySymbol, r)
    \/ \E x \in ConvertOps : Convert(x)
    \/ \E x \in SavingsOps : TransferToSavings(x)
    \/ \E x \in WithdrawOps : TransferFromSavings(x)
    \/ \E w \in db.wd : CancelTransferFromSavings(w)
    \/ \E x \in EscrowOps : EscrowTransfer(x)
    \/ \E e \in db.esc : \E who \in {e.to, e.agent}, yes \in BOOLEAN : EscrowApprove(e, who, yes)
    \/ \E e \in db.esc : EscrowDispute(e)
    \/ \E e \in db.esc : \E who \in {e.from, e.to, e.agent}, receiver \in {e.from, e.to},
            steem \in 0..e.steem, sbd \in 0..e.sbd :
          steem + sbd > 0 /\ EscrowRelease(e, who, receiver, steem, sbd)
    \/ \E p \in Feeds : ApplyBlock(p)

Spec == Init /\ [][Next]_vars

-----------------------------------------------------------------------------
(* Properties                                                              *)

\* No balance, saving, depth or counter is ever negative, and every order,
\* request and escrow is identified by its owner and its id.
TypeOK ==
    /\ \A a \in Account : /\ \A s \in Symbol : db.bal[a][s] \in Nat /\ db.mkt[a][s] \in Nat
                          /\ \A s \in Core : db.sav[a][s] \in Nat
                          /\ db.reqs[a] \in 0..RequestLimit
    /\ \A m \in Symbol \X Symbol : db.depth[m] \in Nat \X Nat
    /\ \A s \in Core : db.supply[s] \in Nat
    /\ \A o, p \in db.orders : o.seller = p.seller /\ o.orderid = p.orderid => o = p
    /\ \A c, x \in db.conv : c.owner = x.owner /\ c.id = x.id => c = x
    /\ \A w, x \in db.wd : w.from = x.from /\ w.id = x.id => w = x
    /\ \A e, x \in db.esc : e.from = x.from /\ e.id = x.id => e = x
    /\ \A o \in db.orders : o.left > 0
    /\ \A e \in db.esc : e.steem \in Nat /\ e.sbd \in Nat /\ e.fee \in Nat
    /\ \A w \in db.wd : w.amount > 0

\* All there is of a symbol: in accounts and savings, in orders, conversions,
\* escrows with their fees, and withdrawals.
InAccounts(d, s) == SumFunction([a \in Account |-> d.bal[a][s] + d.sav[a][s]])
InOrders(d, s) == SumFunction([o \in d.orders |-> Of(s, o.sym, o.left)])
InConversions(d, s) == SumFunction([c \in d.conv |-> Of(s, c.sym, c.amount)])
InWithdrawals(d, s) == SumFunction([w \in d.wd |-> Of(s, w.sym, w.amount)])
InEscrows(d, s) == SumFunction([e \in d.esc |-> (IF s = "SBD" THEN e.sbd ELSE e.steem) + Of(s, e.feesym, e.fee)])
Total(d, s) ==
    InAccounts(d, s) + InOrders(d, s) + InConversions(d, s) + InWithdrawals(d, s) + InEscrows(d, s)

\* The assertions of database::validate_invariants() on the supplies, which
\* the node itself never evaluates: whatever is ordered, matched, converted,
\* saved, put in escrow, released, refunded or expires, the supply of STEEM
\* and of SBD is what all the places that hold them add up to.
ValidateInvariants == \A s \in Core : db.supply[s] = Total(db, s)

\* The market balance of an account is what its open orders hold, and the
\* depth of a pair is the sum over its orders, through partial fills, dust
\* that is refunded and orders that are matched before their own depth is
\* added (fill_order, cancel_order, update_pair_depth).
MarketIsForSale ==
    /\ \A a \in Account, s \in Symbol : db.mkt[a][s] =
          SumFunction([o \in {o \in db.orders : o.seller = a} |-> Of(s, o.sym, o.left)])
    /\ \A m \in Symbol \X Symbol :
          LET on == {o \in db.orders : <<o.sym, o.want>> = m}
          IN db.depth[m] = <<SumFunction([o \in on |-> o.left]),
                             SumFunction([o \in on |-> AmountToReceive(o)])>>

\* No two orders in the book could trade, and none is too small to sell for
\* anything: apply_order() goes on until nothing crosses the new order.
BookNotCrossed ==
    /\ ~ \E o, p \in db.orders : Crosses(o, p)
    /\ \A o \in db.orders : AmountToReceive(o) > 0

\* A seller whose order waits in the book of STEEM and SBD gets its price
\* when others trade with it, up to the rounding of one unit.
MakerGetsPrice ==
    [][\A o \in db.orders :
          /\ now' = now /\ o \notin db'.orders /\ o.want \in Core
          /\ \E x \in OrderOps : x.seller # o.seller /\ LimitOrderCreate(x)
          /\ {p \in db.orders : p.seller = o.seller} = {o}
          => LET received == db'.bal[o.seller][o.want] - db.bal[o.seller][o.want]
                 paid == (db.bal[o.seller][o.sym] + db.mkt[o.seller][o.sym])
                         - (db'.bal[o.seller][o.sym] + db'.mkt[o.seller][o.sym])
             IN (received + 1) * o.base > paid * o.quote]_vars

\* The counter that limits the withdrawals of an account is the number of its
\* withdrawals, however they end (savings_withdraw_requests).
RequestsCounted ==
    \A a \in Account : db.reqs[a] = Cardinality({w \in db.wd : w.from = a})

\* A block leaves nothing behind whose time has come: expired orders are
\* "automatically deleted on the first block after expiration", due
\* conversions and withdrawals are paid, escrows that were not ratified are
\* refunded.
NothingOverdue ==
    /\ \A o \in db.orders : o.exp >= now
    /\ \A c \in db.conv : c.date > now
    /\ \A w \in db.wd : w.complete > now
    /\ \A e \in db.esc : ~Approved(e) => e.deadline > now

\* The book is right: nothing in it is negative or doubled, it agrees with
\* market balances and depths, and no two of its orders could trade.
BookSound == TypeOK /\ MarketIsForSale /\ BookNotCrossed

\* Every request is counted while it waits and is served when its time comes.
RequestsServed == RequestsCounted /\ NothingOverdue
=============================================================================
