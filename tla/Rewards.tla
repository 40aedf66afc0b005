------------------------------- MODULE Rewards -------------------------------
(***************************************************************************)
(* What a block pays: new tokens (process_funds), the shares of the vesting *)
(* emission (process_accumulative_distributions, claim) and the payout of  *)
(* posts to authors, beneficiaries, curators and their delegators          *)
(* (process_comment_cashout), of database.cpp and curation_info.cpp.       *)
(*                                                                         *)
(* money: acct, of every account vs, delegated, received, golos, gbg, tip, *)
(* accum and its referrer; deleg, by delegator and delegatee vs, interest  *)
(* and compound; fund, shares2, pending (accumulative_balance), remainder, *)
(* golos and gbg (the supplies).                                           *)
(*                                                                         *)
(* A share is worth one GOLOS and a GBG one GOLOS, so both conversions are *)
(* exact; the vesting fund is the sum of the shares.  Delegations change   *)
(* by what they earn only.                                                 *)
(***************************************************************************)
EXTENDS Posts

CONSTANTS
    Workers,        \* STEEMIT_WORKER_POOL_ACCOUNT
    Producer,       \* the owner of the producing witness
    Emission,       \* what a block makes: content, vesting, worker, witness
    PrintRate,      \* sbd_print_rate
    MinPayout,      \* STEEMIT_MIN_PAYOUT_SBD
    MinEmission,    \* min_golos_power_to_emission
    Disreputed,     \* accounts with a reputation below zero
    Curves,         \* curation_reward_curve, as witnesses may set it
    Width,          \* bits of a vote weight
    ContentS,       \* get_content_constant_s()
    AccumInterval,  \* GOLOS_ACCUM_DISTRIBUTION_INTERVAL
    ClaimOps        \* claim operations: [from, to, amount, vest]

ASSUME RewardsAssumption ==
    /\ {Workers, Producer} \subseteq Account
    /\ {Width, ContentS, AccumInterval} \subseteq Nat \ {0}
    /\ Curves \subseteq {"linear", "square_root", "bounded"}

\* create_vesting(), tokens back to the reward fund
Vest(m, a, n) == [m EXCEPT !.acct[a].vs = @ + n]
ToFund(m, n) == [m EXCEPT !.fund = @ + n]

\* create_sbd()
CreateSbd(m, a, n) ==
    LET gbg == (PrintRate * n) \div Full
    IN  [m EXCEPT !.acct[a].golos = @ + n - gbg, !.acct[a].gbg = @ + gbg,
                  !.golos = @ - gbg, !.gbg = @ + gbg]

-----------------------------------------------------------------------------
(* The weights of votes                                                    *)

\* The greatest n with 2^n at most x, and approx_sqrt(): the root of the power
\* of two, and half of what x has beyond it.
Msb(x) == CHOOSE n \in 0..x : 2^n <= x /\ x < 2^(n + 1)
ApproxSqrt(x) ==
    LET mx == Msb(x)
        mz == mx \div 2
    IN  IF x = 0 THEN 0
        ELSE 2^mz + ((IF mx % 2 = 1 THEN 2^mz ELSE 0) + (x - 2^mx) \div 2^(mx - mz)) \div 2

\* The curve at the sum of the votes so far; the linear one has no sum.
CurveAt(curve, sum) ==
    CASE curve = "square_root" -> ApproxSqrt(sum)
      [] curve = "bounded" -> (sum * (2^Width - 1)) \div (2 * ContentS + sum)
      [] OTHER -> 0

\* A mutated form of Standing: a changed vote keeps its weight.
StandingAlways(v, own) == own

\* A vote that was changed has no weight of its own.
Standing(v, own) == IF v.changes \in {0, -1} THEN own ELSE 0

\* Weights and their sums are unsigned.
Wrap(n) == n % 2^Width

\* calculate_weight(): what vote v adds to the weights c.  Of an early vote
\* the auction takes a part, also if the vote was changed.
Weigh(curve, b, c, v) ==
    LET sum == c.sum + v.orig
        at == CurveAt(curve, sum)
        w == Wrap(IF curve = "linear" THEN v.rshares ELSE at - c.old)
        early == w > 0 /\ v.auction # b.window
        own == IF early THEN (w * v.auction) \div b.window ELSE w
        stands == Standing(v, own)
    IN  [c EXCEPT !.sum = sum, !.old = at,
                  !.auction = Wrap(@ + w - own),
                  !.total = Wrap(@ + w - own + stands),
                  !.early = IF early THEN Wrap(@ + stands) ELSE @,
                  !.list = IF stands > 0 THEN Append(@, [vote |-> v, weight |-> stands]) ELSE @]

Heavier(x, y) ==
    \/ x.weight > y.weight
    \/ x.weight = y.weight /\ x.vote.voter < y.vote.voter

\* comment_curation_info
Curation(curve, b, votes) ==
    LET add(c, v) == IF v.orig > 0 THEN Weigh(curve, b, c, v) ELSE c
        none == [sum |-> 0, old |-> 0, total |-> 0, auction |-> 0, early |-> 0, list |-> << >>]
        c == FoldLeft(add, none, votes)
    IN  [c EXCEPT !.list = SortSeq(@, Heavier)]

-----------------------------------------------------------------------------
(* Curators                                                                *)

\* pay_delegators(): a delegator may add its part to the delegation.
PayDelegator(m, voter, a, n) ==
    LET d == <<a, voter>>
        vested == Vest(m, a, n)
    IN  IF ~m.deleg[d].compound THEN vested
        ELSE [vested EXCEPT !.acct[a].delegated = @ + n, !.acct[voter].received = @ + n, !.deleg[d].vs = @ + n]

\* pay_curator()
PayCurator(m, b, v, claim) ==
    LET part(a) == (claim * v.rates[a]) \div Full
        pay(a, n) == PayDelegator(n, v.voter, a, part(a))
    IN  IF Effective(m.acct[v.voter]) < b.minPower THEN ToFund(m, claim)
        ELSE Vest(FoldSet(pay, m, DOMAIN v.rates), v.voter, claim - SumOf(part, DOMAIN v.rates))

\* The claims are paid from the heaviest vote down until one is nothing.  When
\* the auction goes to curators, the heaviest vote after the window waits and
\* gets what the others have left.
PayClaim(b, c, max, p, x) ==
    LET auctioned == (max * c.auction) \div c.total
        after == Wrap(c.total - c.early - c.auction)
        late == b.dest = "curators" /\ x.vote.auction = b.window
        claim == (max * x.weight) \div c.total
                 + IF late /\ after # 0 THEN (auctioned * x.weight) \div after ELSE 0
    IN  IF p.over THEN p
        ELSE IF late /\ p.heaviest = << >> THEN [p EXCEPT !.heaviest = <<x.vote>>]
        ELSE IF claim = 0 THEN [p EXCEPT !.over = TRUE]
        ELSE [p EXCEPT !.money = PayCurator(@, b, x.vote, claim), !.rest = @ - claim]

\* A mutated form of Unclaimed: nothing goes back to the fund.
UnclaimedLost(m, b, n) == [money |-> m, rest |-> IF b.dest = "author" THEN n ELSE 0]

\* What nobody claims goes back to the fund, or to the author.
Unclaimed(m, b, n) ==
    IF ~b.curation \/ b.dest # "author" THEN [money |-> ToFund(m, n), rest |-> 0] ELSE [money |-> m, rest |-> n]

\* pay_curators()
PayCurators(m, b, c, max) ==
    LET claims == FoldLeft(LAMBDA p, x : PayClaim(b, c, max, p, x),
                           [money |-> m, rest |-> max, heaviest |-> << >>, over |-> FALSE], c.list)
    IN  IF c.total = 0 \/ ~b.curation THEN Unclaimed(m, b, max)
        ELSE IF claims.heaviest = << >> THEN Unclaimed(claims.money, b, claims.rest)
        ELSE Unclaimed(PayCurator(claims.money, b, claims.heaviest[1], claims.rest), b, 0)

-----------------------------------------------------------------------------
(* Payouts                                                                 *)

\* claim_rshare_reward()
ClaimReward(m, p, b) ==
    LET share == (p.net * p.weight) \div Full
        payout == (m.fund * share) \div m.shares2
    IN  IF payout < MinPayout THEN 0 ELSE Min({payout, b.max})

\* The beneficiaries, then the author, one half of whose part at most goes
\* to the workers instead.
PayAuthor(m, b, author, tokens) ==
    LET part(a) == (tokens * b.routes[a]) \div Full
        own == tokens - SumOf(part, DOMAIN b.routes)
        toWorkers == (own * b.gbg) \div (2 * Full)
        shared == FoldSet(LAMBDA a, n : Vest(n, a, part(a)), m, DOMAIN b.routes)
    IN  CreateSbd(Vest(shared, author, own - toWorkers), Workers, toWorkers)

\* What post id is paid, if it is worth anything
Payout(m, p, b, votes, curve) ==
    LET tokens == ClaimReward(m, p, b)
        claimed == [m EXCEPT !.fund = @ - tokens]
        curation == (tokens * b.percent) \div Full
        curated == PayCurators(claimed, b, Curation(curve, b, votes), curation)
    IN  IF tokens = 0 \/ p.key[1] \in Disreputed THEN m
        ELSE PayAuthor(curated.money, b, p.key[1], tokens - curation + curated.rest)

\* A mutated form of Settled: the shares stay in the total.
SettledNot(m, p) == m

Settled(m, p) == [m EXCEPT !.shares2 = @ - p.net]

\* cashout_comment_helper(): the post is archived, whatever it was paid.
Cashout(w, id, curve) ==
    LET p == w.post[id]
    IN  [post |-> [w.post EXCEPT ![id].net = Min({@, 0}), ![id].abs = 0, ![id].cashout = Never],
         bill |-> Without(w.bill, {id}),
         vote |-> [w.vote EXCEPT ![id] = [i \in DOMAIN @ |-> [@[i] EXCEPT !.changes = -1 - @]]],
         money |-> IF p.net > 0 THEN Settled(Payout(w.money, p, w.bill[id], w.vote[id], curve), p) ELSE w.money]

\* A mutated form of Due: a block late.
DueLate(t) == {id \in Unpaid : post[id].cashout < t}

Due(t) == {id \in Unpaid : post[id].cashout <= t}
Before(x, y) ==
    \/ post[x].cashout < post[y].cashout
    \/ post[x].cashout = post[y].cashout /\ x < y

\* process_comment_cashout(), with the curve of the day
ProcessCommentCashout(w, t, curve) ==
    FoldLeft(LAMBDA x, id : Cashout(x, id, curve), w, SetToSortSeq(Due(t), Before))

-----------------------------------------------------------------------------
(* The emission                                                            *)

ProcessFunds(m) ==
    LET e == Emission
        made == [m EXCEPT !.acct[Workers].golos = @ + e.worker, !.pending = @ + e.vesting, !.fund = @ + e.content,
                          !.golos = @ + e.content + e.vesting + e.worker + e.witness]
    IN  Vest(made, Producer, e.witness)

\* Everyone's part of the vesting emission; small accounts have to claim it.
ProcessAccumulative(m, t) ==
    LET total == SumOf(LAMBDA a : m.acct[a].vs, Account)
        stake(r) == (m.pending * r.vs) \div total
        paid(r) == IF r.vs >= MinEmission THEN [r EXCEPT !.tip = @ + stake(r)] ELSE [r EXCEPT !.accum = @ + stake(r)]
    IN  IF t % AccumInterval # 0 THEN m
        ELSE [m EXCEPT !.acct = [a \in Account |-> paid(@[a])], !.pending = 0,
                       !.remainder = @ + m.pending - SumOf(LAMBDA a : stake(m.acct[a]), Account)]

Claim(o) ==
    LET r == money.acct[o.from]
        taken == [money EXCEPT !.acct[o.from].accum = @ - o.amount]
    IN  /\ Operation("work")
        /\ r.vs >= MinEmission
        /\ o.amount <= r.accum
        /\ money' = IF o.vest THEN Vest(taken, o.to, o.amount)
                    ELSE [taken EXCEPT !.acct[o.to].tip = @ + o.amount]
        /\ UNCHANGED <<postVars, request>>
=============================================================================
