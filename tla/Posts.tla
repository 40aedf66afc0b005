-------------------------------- MODULE Posts --------------------------------
(***************************************************************************)
(* Posts and comments, the options of their payout and the votes on them:  *)
(* comment, comment_options, delete_comment and vote of                    *)
(* steem_evaluator.cpp.                                                    *)
(*                                                                         *)
(* Accounts are numbers, their ids.  A comment_object has a number, its    *)
(* id, and a key, its author and permlink; a key can be used again after   *)
(* the post was deleted.  The weight of a vote is identified with its      *)
(* rshares: the voting power is not used up, and one weight always gives   *)
(* the same rshares.  Limits on how often one may post and vote, the depth *)
(* of replies and blocked authors are left out, and so are edits of the    *)
(* text and votes for the reputation alone, which leave this state alone.  *)
(***************************************************************************)
EXTENDS Integers, FiniteSets, FiniteSetsExt, Functions, Sequences, SequencesExt

CONSTANTS
    Account,        \* the accounts
    CommentOps,     \* comment operations: [key, parent]
    OptionsOps,     \* comment_options operations
    DeleteOps,      \* the keys of delete_comment operations
    VoteOps,        \* vote operations: [voter, key, rshares]
    Props,          \* median_props: distribute, return, window, minCuration,
                    \* maxCuration, minPower
    BlankBill,      \* a comment_bill before it is set
    PostWeights,    \* the reward weights of posts
    Full,           \* STEEMIT_100_PERCENT
    CashoutWindow,  \* STEEMIT_CASHOUT_WINDOW_SECONDS
    Lockout,        \* STEEMIT_UPVOTE_LOCKOUT
    MaxChanges,     \* STEEMIT_MAX_VOTE_CHANGES
    Never,          \* time_point_sec::maximum()
    MaxTime         \* bound: the time of the last block

Nobody == 0         \* an empty account name
NoKey == <<Nobody, "">>     \* the parent of a post that is no reply

ASSUME PostsAssumption ==
    /\ Account \subseteq Nat \ {Nobody}
    /\ {Full, CashoutWindow, MaxChanges, Never} \subseteq Nat \ {0}

VARIABLES
    post,       \* comment_objects by id
    bill,       \* comment_bill_objects by the id of the post
    vote,       \* comment_vote_objects in their order, by the id of the post
    serial,     \* the id of the next post
    money,      \* accounts, delegations, funds and supplies: see module Rewards
    request,    \* worker_request_objects by the id of the post: see Workers
    now,        \* head_block_time()
    left        \* bound: operations that are still to come, by kind

postVars == <<post, bill, vote, serial>>

SumOf(f(_), S) == MapThenSumSet(f, S)

\* f with x mapped to v, and without the x of S
Put(f, x, v) == [y \in DOMAIN f \cup {x} |-> IF y = x THEN v ELSE f[y]]
Without(f, S) == Restrict(f, DOMAIN f \ S)

\* An operation that throws changes nothing.  It sees the time of the last
\* block.
Operation(kind) ==
    left[kind] > 0 /\ left' = [left EXCEPT ![kind] = @ - 1] /\ now' = now

Exists(key) == \E id \in DOMAIN post : post[id].key = key
IdOf(key) == CHOOSE id \in DOMAIN post : post[id].key = key
Author(id) == post[id].key[1]
Unpaid == {id \in DOMAIN post : post[id].cashout # Never}

Abs(n) == IF n < 0 THEN -n ELSE n

\* effective_vesting_shares()
Effective(r) == r.vs - r.delegated + r.received

-----------------------------------------------------------------------------
(* Posts                                                                   *)

\* A post and those it replies to, up to the root; 0 is none.
Line(id) ==
    LET line[i \in 0..id] == IF i = 0 THEN {} ELSE {i} \cup line[post[i].parent]
    IN  line[id]

\* The replies of a whole line of posts become more or fewer.
Count(ids, n) ==
    [id \in DOMAIN post |-> IF id \in ids THEN [post[id] EXCEPT !.children = @ + n] ELSE post[id]]

NewPost(key, parent, weight) ==
    [key |-> key, parent |-> parent, weight |-> weight, children |-> 0, net |-> 0, abs |-> 0,
     created |-> now, cashout |-> now + CashoutWindow, votable |-> TRUE]

NewBill ==
    [BlankBill EXCEPT
        !.dest = IF Props.distribute THEN "curators" ELSE "fund",
        !.window = Props.window,
        !.percent = Max({Props.minCuration, Min({@, Props.maxCuration})}),
        !.minPower = Props.minPower]

\* A new post; its author's referrer, while there is one, gets a part.
Comment(o) ==
    LET reply == o.parent # NoKey
        parent == IF reply THEN IdOf(o.parent) ELSE 0
        ref == money.acct[o.key[1]].referrer
        referred == ref.to # Nobody /\ now < ref.until
        routes == IF referred THEN [a \in {ref.to} |-> ref.rate] ELSE << >>
    IN  /\ Operation("content")
        /\ ~Exists(o.key)
        /\ reply => Exists(o.parent)
        /\ \E weight \in IF reply THEN {Full} ELSE PostWeights :
              post' = Put(Count(Line(parent), 1), serial, NewPost(o.key, parent, weight))
        /\ bill' = Put(bill, serial, [NewBill EXCEPT !.routes = routes])
        /\ vote' = Put(vote, serial, << >>)
        /\ serial' = serial + 1
        /\ money' = IF referred THEN money
                    ELSE [money EXCEPT !.acct[o.key[1]].referrer.to = Nobody]
        /\ UNCHANGED request

BillOf(id) == IF id \in DOMAIN bill THEN bill[id] ELSE BlankBill

\* The beneficiaries of a post are set once, next to a referrer at most.
MayShare(id, routes) ==
    LET old == BillOf(id).routes
        total == SumOf(LAMBDA a : old[a], DOMAIN old) + SumOf(LAMBDA a : routes[a], DOMAIN routes)
    IN  /\ post[id].abs = 0
        /\ \/ old = << >>
           \/ DOMAIN old = {money.acct[Author(id)].referrer.to} \ DOMAIN routes
        /\ total <= Full

\* comment_options: what was given up cannot be taken back, and with votes on
\* the post nobody's part is made smaller.
CommentOptions(o) ==
    LET id == IdOf(o.key)
        b == BillOf(id)
        routes == [a \in DOMAIN b.routes \cup DOMAIN o.routes |->
                     IF a \in DOMAIN o.routes THEN o.routes[a] ELSE b.routes[a]]
    IN  /\ Operation("content")
        /\ Exists(o.key)
        /\ (~o.curation \/ ~o.votable \/ o.max < b.max) => post[id].abs = 0
        /\ (o.curation => b.curation) /\ (o.votable => post[id].votable)
        /\ o.max <= b.max /\ o.gbg <= b.gbg
        /\ o.routes # << >> => MayShare(id, o.routes)
        /\ o.dest # "" =>
              /\ post[id].abs = 0
              /\ o.dest = "fund" => Props.return
              /\ o.dest = "curators" => Props.distribute
        /\ post' = [post EXCEPT ![id].votable = o.votable]
        /\ o.percent # -1 => post[id].abs = 0 /\ o.percent \in Props.minCuration..Props.maxCuration
        /\ bill' = Put(bill, id, [b EXCEPT !.max = o.max, !.gbg = o.gbg, !.curation = o.curation, !.routes = routes,
                                          !.dest = IF o.dest = "" THEN @ ELSE o.dest,
                                          !.percent = IF o.percent = -1 THEN @ ELSE o.percent])
        /\ UNCHANGED <<vote, serial, money, request>>
\* A mutated form of CountedOut: the posts it replied to keep counting it.
CountedOutNot(id) == post

\* The posts a deleted one replied to count one reply less.
CountedOut(id) == Count(Line(post[id].parent), -1)

\* delete_comment: the bill of the post stays behind.
DeleteComment(key) ==
    LET id == IdOf(key)
    IN  /\ Operation("content")
        /\ Exists(key)
        /\ post[id].parent = 0 => id \notin DOMAIN request
        /\ post[id].children = 0 /\ post[id].net <= 0
        /\ post' = Without(CountedOut(id), {id})
        /\ vote' = Without(vote, {id})
        /\ UNCHANGED <<bill, serial, money, request>>

-----------------------------------------------------------------------------
(* Votes                                                                   *)

\* What a post with these net_rshares adds to total_reward_shares2
Shares(net) == Max({net, 0})

\* The part of a delegator in what the voter will get as a curator
Rates(voter) ==
    LET rate(d) == (money.deleg[d].vs * money.deleg[d].interest) \div Effective(money.acct[voter])
    IN  [a \in {d[1] : d \in {x \in DOMAIN money.deleg : x[2] = voter /\ rate(x) > 0}} |-> rate(<<a, voter>>)]

\* A mutated form of Net: the old vote still counts.
NetTwice(p, old, new) == p.net + new

\* A vote of these rshares replaces one of the old ones.
Net(p, old, new) == p.net - old + new

Reweighed(id, old, new) ==
    LET net == Net(post[id], old, new)
    IN  /\ post' = [post EXCEPT ![id].net = net, ![id].abs = @ + Abs(new)]
        /\ money' = [money EXCEPT !.shares2 = @ - Shares(post[id].net) + Shares(net)]

VotesBy(id, voter) == {i \in DOMAIN vote[id] : vote[id][i].voter = voter}
InTime(id) == now < post[id].cashout - Lockout

\* What curation will need to know of an upvote
NewVote(id, o) ==
    LET b == BillOf(id)
        curates == o.rshares > 0 /\ b.curation
        age == IF o.voter = Author(id) THEN b.window ELSE Min({now - post[id].created, b.window})
    IN  [voter |-> o.voter, rshares |-> o.rshares, changes |-> 0,
         orig |-> IF curates THEN o.rshares ELSE 0,
         auction |-> IF curates THEN age ELSE 0,
         rates |-> IF curates THEN Rates(o.voter) ELSE << >>]

VoteFirst(o) ==
    LET id == IdOf(o.key)
    IN  /\ Operation("content")
        /\ Exists(o.key) /\ post[id].cashout # Never
        /\ VotesBy(id, o.voter) = {}
        /\ o.rshares # 0
        /\ o.rshares > 0 => post[id].votable /\ InTime(id)
        /\ Reweighed(id, 0, o.rshares)
        /\ vote' = [vote EXCEPT ![id] = Append(@, NewVote(id, o))]
        /\ UNCHANGED <<bill, serial, request>>

\* Changing a vote gives up the curation but not its place.
VoteAgain(o) ==
    LET id == IdOf(o.key)
    IN  /\ Operation("content")
        /\ Exists(o.key) /\ post[id].cashout # Never
        /\ o.rshares > 0 => post[id].votable
        /\ \E i \in VotesBy(id, o.voter) :
              LET old == vote[id][i]
              IN  /\ old.changes < MaxChanges
                  /\ old.rshares # o.rshares
                  /\ old.rshares < o.rshares => InTime(id)
                  /\ Reweighed(id, old.rshares, o.rshares)
                  /\ vote' = [vote EXCEPT ![id][i] =
                                [@ EXCEPT !.rshares = o.rshares, !.changes = @ + 1, !.rates = << >>]]
        /\ UNCHANGED <<bill, serial, request>>

\* After the payout a vote is only shown; its rshares stay what they were.
VoteAfterPayout(o) ==
    LET id == IdOf(o.key)
        shown == [voter |-> o.voter, rshares |-> 0, changes |-> -2, orig |-> 0, auction |-> 0, rates |-> << >>]
    IN  /\ Operation("content")
        /\ Exists(o.key) /\ post[id].cashout = Never
        /\ o.rshares > 0 => post[id].votable
        /\ VotesBy(id, o.voter) = {}
        /\ vote' = [vote EXCEPT ![id] = Append(@, shown)]
        /\ UNCHANGED <<post, bill, serial, money, request>>

PostNext ==
    \/ \E o \in CommentOps : Comment(o)
    \/ \E o \in OptionsOps : CommentOptions(o)
    \/ \E key \in DeleteOps : DeleteComment(key)
    \/ \E o \in VoteOps : VoteFirst(o) \/ VoteAgain(o) \/ VoteAfterPayout(o)
=============================================================================
