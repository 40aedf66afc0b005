-------------------------------- MODULE Stake --------------------------------
(***************************************************************************)
(* The stake (Golos Power, vesting shares) of the accounts: powering up    *)
(* and down with its routes, delegations, proxies, votes for witnesses and *)
(* the waiver of voting rights (steem_evaluator.cpp), and the steps of     *)
(* _apply_block that finish them (database.cpp).                           *)
(*                                                                         *)
(* All hardforks are in force.  One block is one unit of time.  Amounts    *)
(* that the code converts with the share price at the moment of a check    *)
(* (the minima of delegations and of a power down) are constants here.     *)
(* The limit of a delegation by the voting power is that of a full one.    *)
(* The accounts that are due in one block are taken in one fixed order.    *)
(* Rewards, new accounts and frozen accounts are left out.                 *)
(***************************************************************************)
EXTENDS WitnessVotes, Sequences

CONSTANTS
    Start,              \* [Account -> [vs, balance]]
    VestOps,            \* the transfer_to_vesting operations that are sent
    WithdrawOps,        \* the withdraw_vesting operations
    RouteOps,           \* the set_withdraw_vesting_route operations
    ProxyOps,           \* the account_witness_proxy operations
    VoteOps,            \* the account_witness_vote operations
    DeclineOps,         \* the decline_voting_rights operations
    DelegateOps,        \* the delegate_vesting_shares[_with_interest] ones
    RejectOps,          \* the reject_vesting_shares_delegation operations
    SharePrice,         \* total_vesting_fund_steem per share at the start
    MaxVotes,           \* STEEMIT_MAX_ACCOUNT_WITNESS_VOTES
    MaxRoutes,          \* STEEMIT_MAX_WITHDRAW_ROUTES
    Full,               \* STEEMIT_100_PERCENT
    Intervals,          \* STEEMIT_VESTING_WITHDRAW_INTERVALS
    Interval,           \* STEEMIT_VESTING_WITHDRAW_INTERVAL_SECONDS
    CashoutWindow,      \* STEEMIT_CASHOUT_WINDOW_SECONDS
    DeclineDelay,       \* STEEMIT_OWNER_AUTH_RECOVERY_PERIOD
    MinDelegation,      \* min_delegation in shares
    MinUpdate,          \* create_account_min_golos_fee in shares
    MinPowerdown,       \* ten times account_creation_fee in shares
    IdleMin, IdleKeep,  \* the two limits of check_account_idleness
    Dormant,            \* the accounts that may be idle for too long
    Silent,             \* the witnesses that may be
    MaxOps,             \* bound: operations
    MaxTime             \* bound: number of the last block

ASSUME StakeAssumption ==
    /\ Self \notin Account
    /\ {MaxVotes, MaxRoutes, Full, Intervals, Interval, SharePrice} \subseteq Nat \ {0}

VARIABLES
    books,      \* accounts, votes and totals: see WitnessVotes
    deleg,      \* vesting_delegation_objects: [vs, emission, compound] by <<from, to>>
    expiring,   \* vesting_delegation_expiration_objects, in their order
    route,      \* withdraw_vesting_route_objects: [percent, auto] by <<from, to>>
    decline,    \* decline_voting_rights_request_objects: effective_date by account
    now,        \* head_block_time()
    ops,        \* operations so far
    halted      \* a block cannot be applied

vars == <<books, deleg, expiring, route, decline, now, ops, halted>>

acct == books.acct
Never == MaxTime + Interval + 1     \* time_point_sec::maximum()

\* What every operation leaves alone.  An operation that throws changes
\* nothing: its transaction is undone.
Operation == ~halted /\ ops < MaxOps /\ ops' = ops + 1 /\ UNCHANGED <<now, halted>>

\* account_object::available_vesting_shares
Having(r) == r.vs - r.del - r.edel
Available(r) == Having(r) - (r.to - r.done)

\* account_object::delegate_vs and receive_vs
DelegateVs(r, n, emission) == IF emission THEN [r EXCEPT !.edel = @ + n] ELSE [r EXCEPT !.del = @ + n]
ReceiveVs(r, n, emission) == IF emission THEN [r EXCEPT !.erec = @ + n] ELSE [r EXCEPT !.rec = @ + n]

\* asset * get_vesting_share_price(), in both directions
ToShares(b, n) == IF b.fund = 0 \/ b.shares = 0 THEN n * 1000 ELSE (n * b.shares) \div b.fund
ToTokens(b, n) == IF b.fund = 0 \/ b.shares = 0 THEN n \div 1000 ELSE (n * b.fund) \div b.shares

\* create_vesting
CreateVesting(b, a, n) ==
    LET new == ToShares(b, n)
    IN  AdjustStake([b EXCEPT !.acct[a].vs = @ + new, !.fund = @ + n, !.shares = @ + new], a, new)

-----------------------------------------------------------------------------
(* The operations                                                          *)

Init ==
    /\ books = [acct |-> [a \in Account |->
                   [vs |-> Start[a].vs, balance |-> Start[a].balance, proxy |-> Self,
                    proxied |-> [i \in Levels |-> 0], voted |-> 0, canVote |-> TRUE,
                    del |-> 0, edel |-> 0, rec |-> 0, erec |-> 0,
                    rate |-> 0, next |-> Never, to |-> 0, done |-> 0, routes |-> 0]],
                vote |-> << >>, wit |-> [w \in Witness |-> 0],
                shares |-> SumOf(LAMBDA a : Start[a].vs, Account),
                fund |-> SharePrice * SumOf(LAMBDA a : Start[a].vs, Account),
                over |-> FALSE]
    /\ deleg = << >> /\ expiring = << >> /\ route = << >> /\ decline = << >>
    /\ now = 0 /\ ops = 0 /\ halted = FALSE

TransferToVesting(o) ==
    /\ Operation
    /\ acct[o.from].balance >= o.amount
    /\ books' = CreateVesting([books EXCEPT !.acct[o.from].balance = @ - o.amount], o.to, o.amount)
    /\ ~books'.over
    /\ UNCHANGED <<deleg, expiring, route, decline>>

\* A mutated form of WithdrawVesting: what is delegated may be withdrawn.
WithdrawDelegated(o) ==
    LET r == acct[o.account]
        rate == Max({o.amount \div Intervals, 1})
    IN  /\ Operation
        /\ r.vs >= 0 /\ r.vs >= o.amount /\ o.amount > 0 /\ r.rate # rate
        /\ books' = [books EXCEPT !.acct[o.account] =
             [r EXCEPT !.rate = rate, !.next = now + Interval, !.to = o.amount, !.done = 0]]
        /\ UNCHANGED <<deleg, expiring, route, decline>>

\* withdraw_vesting: a rate of 0 stops the power down.
WithdrawVesting(o) ==
    LET r == acct[o.account]
        rate == IF o.amount = 0 THEN 0 ELSE Max({o.amount \div Intervals, 1})
    IN  /\ Operation
        /\ r.vs >= 0 /\ Having(r) >= o.amount
        /\ r.vs > MinPowerdown \/ o.amount = 0
        /\ r.rate # rate
        /\ books' = [books EXCEPT !.acct[o.account] =
             [r EXCEPT !.rate = rate, !.next = IF rate = 0 THEN Never ELSE now + Interval,
                       !.to = o.amount, !.done = 0]]
        /\ UNCHANGED <<deleg, expiring, route, decline>>

RoutesOf(rt, a) == {p \in DOMAIN rt : p[1] = a}

SetWithdrawVestingRoute(o) ==
    LET p == <<o.from, o.to>>
        exists == p \in DOMAIN route
        set == [q \in DOMAIN route \cup {p} |->
                  IF q = p THEN [percent |-> o.percent, auto |-> o.auto] ELSE route[q]]
    IN  /\ Operation
        /\ ~exists => o.percent # 0 /\ acct[o.from].routes < MaxRoutes
        /\ route' = IF o.percent = 0 THEN Restrict(route, DOMAIN route \ {p}) ELSE set
        /\ SumOf(LAMBDA q : route'[q].percent, RoutesOf(route', o.from)) <= Full
        /\ books' = [books EXCEPT !.acct[o.from].routes =
                       @ + (IF ~exists THEN 1 ELSE IF o.percent = 0 THEN -1 ELSE 0)]
        /\ UNCHANGED <<deleg, expiring, decline>>

\* The proxies of a new proxy, without a loop and not too many.
ChainAllowed(a, p) ==
    LET up == ProxyUp(acct, p)
        more == {up[k] : k \in 1..(ProxyDepth + 1)} \ {Self}
    IN  more = {} \/ (a \notin more /\ 2 + Cardinality(more) <= ProxyDepth)

\* account_witness_proxy
Unproxied(b, a) == AdjustProxied(b, a, AllOf(b.acct[a], -1))
Proxied(b, a, p) ==
    LET set == [ClearWitnessVotes(b, a) EXCEPT !.acct[a].proxy = p]
    IN  AdjustProxied(set, a, AllOf(b.acct[a], 1))
AccountWitnessProxy(o) ==
    LET a == o.account
    IN  /\ Operation
        /\ acct[a].proxy # o.proxy /\ acct[a].canVote
        /\ o.proxy # Self => ChainAllowed(a, o.proxy)
        /\ books' = IF o.proxy = Self THEN [Unproxied(books, a) EXCEPT !.acct[a].proxy = Self]
                    ELSE Proxied(Unproxied(books, a), a, o.proxy)
        /\ ~books'.over
        /\ UNCHANGED <<deleg, expiring, route, decline>>

\* account_witness_vote: the weight is divided among the votes of an account.
Approved(a, w) ==
    LET r == acct[a]
        old == VoteWeight(r) \div Share(r.voted)
        new == VoteWeight(r) \div (r.voted + 1)
        lowered == AdjustWitnessVotes(books, a, new - old, VotedBy(books, a))
        added == [lowered EXCEPT !.vote = [v \in DOMAIN @ \cup {<<a, w>>} |->
                                             IF v = <<a, w>> THEN 0 ELSE @[v]],
                                 !.acct[a].voted = @ + 1]
    IN  AdjustWitnessVotes(added, a, new, {w})
Rejected(b, a, w) ==
    LET r == b.acct[a]
        old == VoteWeight(r) \div r.voted
        new == VoteWeight(r) \div Share(r.voted - 1)
        raised == AdjustWitnessVotes(b, a, new - old, VotedBy(b, a))
        taken == AdjustWitnessVotes(raised, a, -new, {w})
    IN  [taken EXCEPT !.vote = Restrict(@, DOMAIN @ \ {<<a, w>>}), !.acct[a].voted = @ - 1]

AccountWitnessVote(o) ==
    LET a == o.account
    IN  /\ Operation
        /\ acct[a].proxy = Self
        /\ o.approve => acct[a].canVote /\ acct[a].voted < MaxVotes
        /\ o.approve <=> <<a, o.witness>> \notin DOMAIN books.vote
        /\ books' = IF o.approve THEN Approved(a, o.witness) ELSE Rejected(books, a, o.witness)
        /\ ~books'.over
        /\ UNCHANGED <<deleg, expiring, route, decline>>

DeclineVotingRights(o) ==
    /\ Operation
    /\ o.decline <=> o.account \notin DOMAIN decline
    /\ decline' = IF o.decline
                  THEN [a \in DOMAIN decline \cup {o.account} |->
                          IF a = o.account THEN now + DeclineDelay ELSE decline[a]]
                  ELSE Restrict(decline, DOMAIN decline \ {o.account})
    /\ UNCHANGED <<books, deleg, expiring, route>>

\* delegate_vesting_shares, of both operations: o.plain is the one without
\* interest, which keeps the terms of a delegation that exists.  An amount of
\* zero without a delegation makes the code read min_delegation_time through a
\* null pointer, which ends the process: no state follows it here.
DelegateVestingShares(o) ==
    LET p == <<o.from, o.to>>
        exists == p \in DOMAIN deleg
        terms == IF exists THEN deleg[p] ELSE [vs |-> 0, emission |-> o.emission, compound |-> o.compound]
        delta == o.amount - terms.vs
        em == terms.emission
        r == acct[o.from]
        set == [q \in DOMAIN deleg \cup {p} |->
                  IF q = p THEN [terms EXCEPT !.vs = o.amount] ELSE deleg[q]]
    IN  /\ Operation
        /\ o.from # o.to
        /\ exists /\ ~o.plain => em = o.emission /\ terms.compound = o.compound
        /\ o.amount # 0 => Max({delta, -delta}) >= MinUpdate
        /\ IF delta > 0
           THEN /\ Available(r) >= delta /\ r.del + r.edel + delta <= r.vs
                /\ exists \/ o.amount >= MinDelegation
                /\ books' = [books EXCEPT !.acct[o.from] = DelegateVs(@, delta, em),
                                          !.acct[o.to] = ReceiveVs(@, delta, em)]
                /\ expiring' = expiring
           ELSE /\ exists /\ (o.amount = 0 \/ o.amount >= MinDelegation)
                /\ books' = [books EXCEPT !.acct[o.to] = ReceiveVs(@, delta, em)]
                /\ expiring' = Append(expiring,
                     [by |-> o.from, vs |-> -delta, emission |-> em, at |-> now + CashoutWindow])
        /\ deleg' = IF o.amount = 0 THEN Restrict(deleg, DOMAIN deleg \ {p}) ELSE set
        /\ UNCHANGED <<route, decline>>

\* reject_vesting_shares_delegation: the flag that receive_vs gets is the
\* payout strategy of the delegation.
RejectDelegation(o) ==
    LET p == <<o.from, o.to>>
        d == deleg[p]
    IN  /\ Operation
        /\ p \in DOMAIN deleg
        /\ books' = [books EXCEPT !.acct[o.to] = ReceiveVs(@, -d.vs, d.compound)]
        /\ expiring' = Append(expiring,
             [by |-> o.from, vs |-> d.vs, emission |-> d.emission, at |-> now + CashoutWindow])
        /\ deleg' = Restrict(deleg, DOMAIN deleg \ {p})
        /\ UNCHANGED <<route, decline>>
-----------------------------------------------------------------------------
(* The steps of a block                                                    *)

\* clear_expired_delegations
IsDue(e) == e.at < now + 1
ClearExpired(b) ==
    LET back(a, em) == SumOf(LAMBDA i : expiring[i].vs, {i \in 1..Len(expiring) :
                          /\ IsDue(expiring[i]) /\ expiring[i].by = a /\ expiring[i].emission = em})
    IN  [b EXCEPT !.acct = [a \in Account |->
           DelegateVs(DelegateVs(@[a], -back(a, FALSE), FALSE), -back(a, TRUE), TRUE)]]

\* check_account_idleness for an account that was idle for too long: it gets
\* its delegations back, and a power down starts.
Effective(r) == r.vs - r.del - r.edel + r.rec + r.erec
Spared(r) == r.vs = 0 \/ r.to # 0 \/ Effective(r) < IdleMin

\* A mutated form of Recalled: all delegations are taken for plain ones.
RecalledPlain(b, a) ==
    LET back == SumOf(LAMBDA q : deleg[q].vs, {q \in DOMAIN deleg : q[1] = a})
    IN  [b EXCEPT !.acct = [x \in Account |->
           CASE x = a -> DelegateVs(@[x], -back, FALSE)
             [] x # a /\ <<a, x>> \in DOMAIN deleg -> ReceiveVs(@[x], -deleg[<<a, x>>].vs, FALSE)
             [] OTHER -> @[x]]]

Recalled(b, a) ==
    LET back(em) == SumOf(LAMBDA q : deleg[q].vs,
                          {q \in DOMAIN deleg : q[1] = a /\ deleg[q].emission = em})
        given(x) == <<a, x>> \in DOMAIN deleg
    IN  [b EXCEPT !.acct = [x \in Account |->
           CASE x = a -> DelegateVs(DelegateVs(@[x], -back(FALSE), FALSE), -back(TRUE), TRUE)
             [] x # a /\ given(x) -> ReceiveVs(@[x], -deleg[<<a, x>>].vs, deleg[<<a, x>>].emission)
             [] OTHER -> @[x]]]
\* A mutated form of CheckIdleness: the accounts do not notice the recall.
IdlenessKeeps(b, a) ==
    LET r == b.acct[a]
        to == Min({Effective(r) - IdleKeep, r.vs})
    IN  IF Spared(r) \/ to <= 0 THEN b
        ELSE [b EXCEPT !.acct[a] = [@ EXCEPT !.rate = Max({to \div Intervals, 1}),
                !.next = now + 1 + Interval, !.to = to, !.done = 0]]

CheckIdleness(b, a) ==
    LET r == b.acct[a]
        to == Min({Effective(r) - IdleKeep, r.vs})
        recalled == Recalled(b, a)
    IN  IF Spared(r) THEN b
        ELSE IF to <= 0 THEN recalled
        ELSE [recalled EXCEPT !.acct[a] = [@ EXCEPT !.rate = Max({to \div Intervals, 1}),
                !.next = now + 1 + Interval, !.to = to, !.done = 0]]

\* check_witness_idleness: the votes for w are taken back, as by their voters.
CheckWitnessIdleness(b, w) ==
    FoldSet(LAMBDA a, x : Rejected(x, a, w), b, {a \in Account : <<a, w>> \in DOMAIN b.vote})

\* A mutated form of ToWithdraw: the remainder every time.
ToWithdrawRemainder(r) == Min({r.vs, r.to % r.rate})

\* process_vesting_withdrawals: what an account withdraws this time; the last
\* time takes the remainder.
ToWithdraw(r) ==
    LET n == Min({r.vs, IF r.to - r.done < r.rate THEN r.to % r.rate ELSE r.rate})
        rest == r.to - (r.done + n)
    IN  IF n < 0 THEN 0 ELSE IF rest > 0 /\ rest < r.rate THEN n + rest ELSE n

\* The routes that deposit shares, and those that deposit tokens.
RouteShares(b, x, n) == AdjustStake([b EXCEPT !.acct[x].vs = @ + n], x, n)
RouteTokens(b, x, n) ==
    [b EXCEPT !.acct[x].balance = @ + ToTokens(b, n), !.fund = @ - ToTokens(b, n), !.shares = @ - n]

\* A mutated form of WithdrawOnce: the shares that routes deposit are also
\* converted for the account itself.
WithdrawTwice(b, a) ==
    LET n == ToWithdraw(b.acct[a])
        part(q) == (n * route[q].percent) \div Full
        autos == {q \in RoutesOf(route, a) : route[q].auto /\ part(q) > 0}
        b1 == FoldSet(LAMBDA q, x : RouteShares(x, q[2], part(q)), b, autos)
        tokens == ToTokens(b1, n)
        b2 == [b1 EXCEPT !.acct[a] = [@ EXCEPT !.vs = @ - n, !.balance = @ + tokens, !.rate = 0,
                 !.next = Never, !.done = 0, !.to = 0], !.fund = @ - tokens, !.shares = @ - n]
    IN  IF n > 0 THEN AdjustStake(b2, a, -n) ELSE b2

WithdrawOnce(b, a) ==
    LET n == ToWithdraw(b.acct[a])
        part(q) == (n * route[q].percent) \div Full
        autos == {q \in RoutesOf(route, a) : route[q].auto /\ part(q) > 0}
        others == {q \in RoutesOf(route, a) : ~route[q].auto /\ part(q) > 0}
        b1 == FoldSet(LAMBDA q, x : RouteShares(x, q[2], part(q)), b, autos)
        b2 == FoldSet(LAMBDA q, x : RouteTokens(x, q[2], part(q)), b1, others)
        rest == Max({n - SumOf(part, autos \cup others), 0})
        tokens == ToTokens(b2, rest)
        taken == [b2.acct[a] EXCEPT !.vs = @ - n, !.balance = @ + tokens, !.done = @ + n]
        ended == taken.done >= taken.to \/ taken.vs = 0
        b3 == [b2 EXCEPT !.fund = @ - tokens, !.shares = @ - rest, !.acct[a] =
                 IF ended THEN [taken EXCEPT !.rate = 0, !.next = Never, !.done = 0, !.to = 0]
                 ELSE [taken EXCEPT !.next = @ + Interval]]
    IN  IF n > 0 THEN AdjustStake(b3, a, -n) ELSE b3

ProcessWithdrawals(b) ==
    FoldSet(LAMBDA a, x : WithdrawOnce(x, a), b, {a \in Account : b.acct[a].next <= now + 1})

\* process_decline_voting_rights
ProcessDeclined(b) ==
    FoldSet(LAMBDA a, x : [ClearWitnessVotes(Unproxied(x, a), a)
                             EXCEPT !.acct[a].canVote = FALSE, !.acct[a].proxy = Self],
            b, {a \in DOMAIN decline : decline[a] <= now + 1})

\* The accounts of idle have not been active for account_idleness_time, the
\* witnesses of silent have not produced a block for witness_idleness_time.  A
\* failed assertion makes the block invalid, and every block after it.
Block(idle, silent) ==
    LET cleared == FoldSet(LAMBDA w, x : CheckWitnessIdleness(x, w), ClearExpired(books), silent)
        recalled == FoldSet(LAMBDA a, x : CheckIdleness(x, a), cleared, idle)
        b == ProcessDeclined(ProcessWithdrawals(recalled))
        recalls == {a \in idle : ~Spared(cleared.acct[a])}
    IN  /\ ~halted /\ now < MaxTime
        /\ halted' = b.over
        /\ IF b.over THEN UNCHANGED <<books, deleg, expiring, decline, now>>
           ELSE /\ books' = b
                /\ deleg' = Restrict(deleg, {q \in DOMAIN deleg : q[1] \notin recalls})
                /\ expiring' = SelectSeq(expiring, LAMBDA e : ~IsDue(e))
                /\ decline' = Restrict(decline, {a \in DOMAIN decline : decline[a] > now + 1})
                /\ now' = now + 1
        /\ UNCHANGED <<route, ops>>

Next ==
    \/ \E o \in VestOps : TransferToVesting(o)
    \/ \E o \in WithdrawOps : WithdrawVesting(o)
    \/ \E o \in RouteOps : SetWithdrawVestingRoute(o)
    \/ \E o \in ProxyOps : AccountWitnessProxy(o)
    \/ \E o \in VoteOps : AccountWitnessVote(o)
    \/ \E o \in DeclineOps : DeclineVotingRights(o)
    \/ \E o \in DelegateOps : DelegateVestingShares(o)
    \/ \E o \in RejectOps : RejectDelegation(o)
    \/ \E idle \in SUBSET Dormant, silent \in SUBSET Silent : Block(idle, silent)

Spec == Init /\ [][Next]_vars

-----------------------------------------------------------------------------
(* Properties                                                              *)

\* The type invariant.
TypeOK ==
    /\ \A a \in Account : LET r == acct[a] IN
          /\ {r.vs, r.balance, r.del, r.edel, r.voted, r.rate, r.to, r.done, r.routes} \subseteq Nat
          /\ \A i \in Levels : r.proxied[i] \in Nat
          /\ r.proxy \in (Account \cup {Self}) \ {a}
    /\ DOMAIN books.vote \subseteq Account \X Witness
    /\ \A w \in Witness : books.wit[w] \in Nat
    /\ \A q \in DOMAIN deleg : deleg[q].vs > 0

\* What validate_invariants asserts of the shares and the tokens: none is
\* lost or made by powering up, by a power down or by its routes.
Tokens == books.fund + SumOf(LAMBDA a : acct[a].balance, Account)
StakeConserved ==
    /\ books.shares = SumOf(LAMBDA a : acct[a].vs, Account)
    /\ Tokens = SumOf(LAMBDA a : Start[a].balance + SharePrice * Start[a].vs, Account)

\* proxied_vsf_votes, which is only ever changed by differences, is the stake
\* of the accounts whose proxies lead here in as many steps.
ProxiedVotesMatch ==
    \A a \in Account, i \in Levels :
        acct[a].proxied[i] =
            SumOf(LAMBDA x : acct[x].vs, {x \in Account : ProxyUp(acct, x)[i + 1] = a})

\* The votes of a witness are the shares that its voters cast, and the record
\* of a vote agrees; also a running sum.  Where the weights divide evenly.
WitnessVotesMatch ==
    LET cast(a) == VoteWeight(acct[a]) \div Share(acct[a].voted)
    IN  /\ \A w \in Witness :
              books.wit[w] = SumOf(cast, {a \in Account : <<a, w>> \in DOMAIN books.vote})
        /\ \A v \in DOMAIN books.vote : books.vote[v] = cast(v[1]) /\ acct[v[1]].proxy = Self
        /\ \A a \in Account : acct[a].voted = Cardinality(VotedBy(books, a))

\* What an account has delegated and received is the sum of its delegations,
\* and of those that have ended but are not yet returned.
Out(a) == SumOf(LAMBDA q : deleg[q].vs, {q \in DOMAIN deleg : q[1] = a})
In(a) == SumOf(LAMBDA q : deleg[q].vs, {q \in DOMAIN deleg : q[2] = a})
Returning(a) ==
    SumOf(LAMBDA i : expiring[i].vs, {i \in 1..Len(expiring) : expiring[i].by = a})
DelegationsMatch ==
    \A a \in Account : /\ acct[a].del + acct[a].edel = Out(a) + Returning(a)
                       /\ acct[a].rec + acct[a].erec = In(a)

\* The shares that others hold and those that a power down will take are not
\* the same: the stake covers both.
WithdrawalCovered == \A a \in Account : Out(a) + (acct[a].to - acct[a].done) <= acct[a].vs

\* All running sums of the stake at once: votes that proxies carry, votes of
\* witnesses and delegations are what their parts add up to, no sum is
\* negative, and no share is promised twice.
SumsMatch ==
    TypeOK /\ ProxiedVotesMatch /\ WitnessVotesMatch /\ DelegationsMatch /\ WithdrawalCovered

\* Every power down ends: each time that one is due takes shares or ends it.
WithdrawalProgresses ==
    [][\A a \in Account :
         now' > now /\ acct[a].next <= now'
           => \/ acct'[a].next = Never
              \/ acct'[a].done > acct[a].done /\ acct'[a].next > now']_vars
=============================================================================
