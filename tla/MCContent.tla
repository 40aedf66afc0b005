------------------------------ MODULE MCContent ------------------------------
(***************************************************************************)
(* An author, two voters, the workers and a witness whose reputation is    *)
(* bad.  The second voter delegates to the first.                          *)
(***************************************************************************)
EXTENDS Content

MCAccounts == 1..5
Alice == 1
Bob == 2
Carol == 3
Pool == 4
Witness == 5

A == <<Alice, "a">>
B == <<Alice, "b">>
C == <<Witness, "c">>

Account0(vs, gbg, delegated, received, referrer) ==
    [vs |-> vs, golos |-> 0, gbg |-> gbg, tip |-> 0, accum |-> 0, delegated |-> delegated, received |-> received,
     referrer |-> [to |-> referrer, rate |-> 2, until |-> 2]]
MCMoney ==
    [acct |-> <<Account0(3, 1, 0, 0, Carol), Account0(6, 0, 0, 4, Nobody), Account0(8, 0, 4, 0, Nobody),
                Account0(0, 0, 0, 0, Nobody), Account0(1, 0, 0, 0, Nobody)>>,
     deleg |-> [d \in {<<Carol, Bob>>} |-> [vs |-> 4, interest |-> 5, compound |-> TRUE]],
     fund |-> 23, shares2 |-> 0, pending |-> 5, remainder |-> 0, golos |-> 46, gbg |-> 1]
MCPosts == <<[key |-> A, parent |-> 0], [key |-> C, parent |-> 1]>>

MCProps == [distribute |-> TRUE, return |-> TRUE, window |-> 2, minCuration |-> 2, maxCuration |-> 9, minPower |-> 4]
MCBill == [max |-> 50, gbg |-> 10, curation |-> TRUE, minPower |-> 0, percent |-> 5, dest |-> "author",
           window |-> 1, routes |-> << >>]
MCEmission == [content |-> 7, vesting |-> 3, worker |-> 2, witness |-> 1]

MCCommentOps == {[key |-> B, parent |-> NoKey], [key |-> <<Bob, "d">>, parent |-> C], [key |-> C, parent |-> A]}
Options(key, max, gbg, curation, dest, percent, routes) ==
    [key |-> key, max |-> max, gbg |-> gbg, curation |-> curation, votable |-> TRUE, dest |-> dest,
     percent |-> percent, routes |-> routes]
MCOptionsOps ==
    {Options(A, 6, 10, TRUE, "fund", -1, << >>), Options(A, 50, 5, TRUE, "author", 9, << >>),
     Options(A, 50, 10, FALSE, "", -1, << >>), Options(A, 50, 10, TRUE, "", -1, [a \in {Carol} |-> 3])}
MCDeleteOps == {C, <<Bob, "d">>}
Vote(a, key, rshares) == [voter |-> a, key |-> key, rshares |-> rshares]
MCVoteOps ==
    {Vote(Bob, A, 5), Vote(Bob, A, 2), Vote(Carol, A, 7), Vote(Carol, A, 0), Vote(Alice, A, 3), Vote(Witness, A, -4),
     Vote(Bob, C, 4), Vote(Carol, C, -3)}

Request(worker, min, max, gbg, vest, duration) ==
    [key |-> A, worker |-> worker, min |-> min, max |-> max, gbg |-> gbg, vest |-> vest, duration |-> duration]
MCRequestOps == {Request(Alice, 1, 3, FALSE, TRUE, 2), Request(Bob, 2, 3, TRUE, FALSE, 1)}
MCBallotOps == {[voter |-> a, key |-> A, percent |-> n] : a \in {Bob, Carol}, n \in {10, -5, 0}}
MCClaimOps == {[from |-> Alice, to |-> Bob, amount |-> 1, vest |-> v] : v \in BOOLEAN}

MCBudgets == {[content |-> 3, work |-> 0], [content |-> 2, work |-> 2], [content |-> 1, work |-> 3]}
MCCurves == {"linear", "square_root", "bounded"}
=============================================================================
