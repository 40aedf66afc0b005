------------------------------ MODULE MCStake ------------------------------
(***************************************************************************)
(* Accounts, stakes and operations for Stake.                              *)
(***************************************************************************)
EXTENDS Stake

Accounts == {"a", "b", "c", "d"}
Stakes == [x \in Accounts |-> [vs |-> IF x = "d" THEN 24 ELSE 8,
                               balance |-> IF x = "b" THEN 16 ELSE 0]]

\* One account has all of the stake.
OneHolder == [x \in Accounts |-> [vs |-> IF x = "a" THEN 8 ELSE 0, balance |-> 0]]

Vests == {[from |-> "b", to |-> "a", amount |-> 16]}
Withdraws == {[account |-> "a", amount |-> 8], [account |-> "a", amount |-> 0],
              [account |-> "b", amount |-> 4]}
Route(x, y, n, auto) == [from |-> x, to |-> y, percent |-> n, auto |-> auto]
Routes == {Route("a", "b", 1, TRUE), Route("a", "b", 0, TRUE), Route("a", "c", 1, FALSE)}
Proxies == {[account |-> p[1], proxy |-> p[2]] :
              p \in {<<"a", "b">>, <<"b", "c">>, <<"c", "d">>, <<"a", Self>>}}
Votes == {[account |-> p[1], witness |-> p[2], approve |-> v] :
            p \in {<<"a", "v">>, <<"a", "w">>, <<"b", "w">>}, v \in BOOLEAN}
Declines == {[account |-> x, decline |-> v] : x \in {"b"}, v \in BOOLEAN}
Delegation(x, y, n, plain, emission, compound) ==
    [from |-> x, to |-> y, amount |-> n, plain |-> plain, emission |-> emission,
     compound |-> compound]
Delegations ==
    {Delegation("a", "b", n, TRUE, FALSE, FALSE) : n \in {0, 4, 8}}
    \cup {Delegation("b", "a", 4, FALSE, TRUE, FALSE), Delegation("b", "a", 0, TRUE, FALSE, FALSE),
          Delegation("b", "c", 8, FALSE, FALSE, TRUE)}
Rejects == {[from |-> "a", to |-> "b"], [from |-> "b", to |-> "c"]}
=============================================================================
