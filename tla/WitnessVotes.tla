---------------------------- MODULE WitnessVotes ----------------------------
(***************************************************************************)
(* The votes of the stake: how a change of the stake of an account reaches *)
(* its proxies and the witnesses they vote for (adjust_proxied_witness_votes *)
(* and adjust_witness_votes of database.cpp).                              *)
(*                                                                         *)
(* The operators work on books, a record of                                *)
(*   acct    the account_object of every account,                          *)
(*   vote    the rshares of every witness_vote_object, by <<account,       *)
(*           witness>>,                                                    *)
(*   wit     the votes of every witness_object,                            *)
(*   shares, fund   total_vesting_shares and total_vesting_fund_steem,     *)
(*   over    an assertion of adjust_witness_vote has failed.               *)
(* The virtual time of the witnesses belongs to module WitnessSchedule.    *)
(***************************************************************************)
EXTENDS Integers, FiniteSets, FiniteSetsExt, Functions

CONSTANTS
    Account,        \* the accounts
    Witness,        \* the witnesses
    ProxyDepth      \* STEEMIT_MAX_PROXY_RECURSION_DEPTH

ASSUME ProxyDepthAssumption == ProxyDepth \in Nat \ {0}

Self == ""          \* STEEMIT_PROXY_TO_SELF_ACCOUNT
Levels == 0..(ProxyDepth - 1)

\* The sum of f(x) for the x of S.
SumOf(f(_), S) == MapThenSumSet(f, S)

\* Integer division as in C++, towards zero.
Quotient(x, n) == IF x >= 0 THEN x \div n ELSE -((-x) \div n)

\* The divisor of the weight of an account with n votes.
Share(n) == Max({n, 1})

\* account_object::witness_vote_weight
VoteWeight(r) == r.vs + SumOf(LAMBDA i : r.proxied[i], Levels)

VotedBy(b, a) == {w \in Witness : <<a, w>> \in DOMAIN b.vote}

\* A mutated form of AdjustWitnessVotes: the totals of the witnesses change,
\* the records of the votes do not.
AdjustWitnessTotals(b, a, delta, W) ==
    [b EXCEPT !.wit = [w \in Witness |-> IF w \in W THEN Max({@[w] + delta, 0}) ELSE @[w]]]

\* adjust_witness_vote for the witnesses W, with its assertion.
AdjustWitnessVotes(b, a, delta, W) ==
    LET wit == [w \in Witness |-> IF w \in W THEN Max({b.wit[w] + delta, 0}) ELSE b.wit[w]]
        vote == [v \in DOMAIN b.vote |->
                    IF v[1] = a /\ v[2] \in W THEN Max({b.vote[v] + delta, 0}) ELSE b.vote[v]]
    IN  [b EXCEPT !.wit = wit, !.vote = vote,
                  !.over = @ \/ \E w \in W : wit[w] > b.shares]

\* The account k steps up the proxies of a; Self beyond the last.
ProxyUp(acct, a) ==
    LET up[k \in 0..(ProxyDepth + 1)] ==
          IF k = 0 THEN a ELSE IF up[k - 1] = Self THEN Self ELSE acct[up[k - 1]].proxy
    IN  up

\* A mutated form of AdjustProxied: the level does not rise with the depth.
AdjustProxiedFlat(b, a, delta) ==
    LET up == ProxyUp(b.acct, a)
        acct == [x \in Account |->
                   IF \E k \in 1..ProxyDepth : up[k] = x
                   THEN [b.acct[x] EXCEPT !.proxied = [i \in Levels |-> @[i] + delta[i]]]
                   ELSE b.acct[x]]
        last == {k \in 0..ProxyDepth : up[k] # Self /\ up[k + 1] = Self}
        top == up[Min(last)]
        total == SumOf(LAMBDA i : delta[i], 0..(ProxyDepth - Min(last)))
    IN  IF last = {} THEN [b EXCEPT !.acct = acct]
        ELSE AdjustWitnessVotes([b EXCEPT !.acct = acct], top,
                                Quotient(total, Share(b.acct[top].voted)), VotedBy(b, top))

\* adjust_proxied_witness_votes: delta[0] is the change of the stake of a,
\* delta[i + 1] that of what it holds for others on level i.  The proxy k
\* steps up gets delta[i] on level i + k - 1, and an account without a proxy
\* at most ProxyDepth steps up casts what has reached it.
AdjustProxied(b, a, delta) ==
    LET up == ProxyUp(b.acct, a)
        held(k) == [i \in Levels |-> IF i >= k - 1 THEN delta[i + 1 - k] ELSE 0]
        acct == [x \in Account |->
                   IF \E k \in 1..ProxyDepth : up[k] = x
                   THEN LET k == CHOOSE k \in 1..ProxyDepth : up[k] = x
                        IN  [b.acct[x] EXCEPT !.proxied = [i \in Levels |-> @[i] + held(k)[i]]]
                   ELSE b.acct[x]]
        last == {k \in 0..ProxyDepth : up[k] # Self /\ up[k + 1] = Self}
        top == up[Min(last)]
        total == SumOf(LAMBDA i : delta[i], 0..(ProxyDepth - Min(last)))
    IN  IF last = {} THEN [b EXCEPT !.acct = acct]
        ELSE AdjustWitnessVotes([b EXCEPT !.acct = acct], top,
                                Quotient(total, Share(b.acct[top].voted)), VotedBy(b, top))

\* The overload for a change of the stake alone.
AdjustStake(b, a, n) ==
    AdjustProxied(b, a, [i \in 0..ProxyDepth |-> IF i = 0 THEN n ELSE 0])

\* What an account casts itself or through its proxies, times sign.
AllOf(r, sign) == [i \in 0..ProxyDepth |-> sign * (IF i = 0 THEN r.vs ELSE r.proxied[i - 1])]

\* clear_witness_votes
ClearWitnessVotes(b, a) ==
    [b EXCEPT !.vote = Restrict(@, {v \in DOMAIN @ : v[1] # a}), !.acct[a].voted = 0]
=============================================================================
