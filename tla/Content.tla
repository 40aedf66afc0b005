------------------------------- MODULE Content -------------------------------
(***************************************************************************)
(* Posts, votes, requests of workers and the blocks that pay for them: the *)
(* order in which _apply_block of database.cpp calls what modules Rewards  *)
(* and Workers define.                                                     *)
(*                                                                         *)
(* Time is the number of the block: no slot is missed.                     *)
(***************************************************************************)
EXTENDS Workers

CONSTANTS
    StartMoney,     \* the accounts and funds of the first state
    StartPosts,     \* its posts: [key, parent], the parent by its id
    Budgets         \* bound: how many operations of each kind there may be

vars == <<post, bill, vote, serial, money, request, ballot, now, left>>

Init ==
    /\ now = 0 /\ left \in Budgets
    /\ money = StartMoney
    /\ serial = Len(StartPosts) + 1
    /\ post = [id \in DOMAIN StartPosts |->
                 LET o == StartPosts[id]
                 IN  [NewPost(o.key, o.parent, Full) EXCEPT
                        !.children = Cardinality({i \in DOMAIN StartPosts : StartPosts[i].parent = id})]]
    /\ bill = [id \in DOMAIN StartPosts |-> NewBill]
    /\ vote = [id \in DOMAIN StartPosts |-> << >>]
    /\ request = << >> /\ ballot = << >>

\* The part of _apply_block that is about them
Block ==
    /\ now < MaxTime
    /\ now' = now + 1
    /\ \E curve \in Curves :
       \E made \in {ProcessAccumulative(ProcessFunds(money), now + 1)} :
       \E w \in {ProcessCommentCashout([post |-> post, bill |-> bill, vote |-> vote, money |-> made], now + 1, curve)} :
       \E x \in {ProcessWorkerCashout(w.money, ProcessWorkerVotes(w.money, now + 1), now + 1)} :
          /\ post' = w.post /\ bill' = w.bill /\ vote' = w.vote
          /\ money' = x.money /\ request' = x.request
    /\ UNCHANGED <<serial, ballot, left>>

Next ==
    \/ PostNext /\ UNCHANGED ballot
    \/ \E o \in ClaimOps : Claim(o) /\ UNCHANGED ballot
    \/ WorkerNext
    \/ Block

Spec == Init /\ [][Next]_vars

-----------------------------------------------------------------------------
(* Properties                                                              *)

\* The types of the state: no balance, fund or counter is ever below zero,
\* though what a block pays is taken from five of them.
TypeOK ==
    /\ \A a \in Account : LET r == money.acct[a]
                          IN  {r.vs, r.golos, r.gbg, r.tip, r.accum, r.delegated, r.received} \subseteq Nat
    /\ {money.fund, money.shares2, money.pending, money.remainder} \subseteq Nat
    /\ \A id \in DOMAIN post : post[id].children \in Nat /\ post[id].abs \in Nat
    /\ DOMAIN vote = DOMAIN post /\ DOMAIN post \subseteq 1..serial - 1
    /\ \A id \in DOMAIN request : request[id].worker \in Account
    /\ now \in 0..MaxTime

\* validate_invariants: the supplies are what the accounts and the funds of
\* the chain add up to, and every delegation is counted on both sides.
SuppliesMatch ==
    LET held(r) == r.vs + r.golos + r.tip + r.accum
    IN  /\ money.golos = SumOf(LAMBDA a : held(money.acct[a]), Account) + money.fund + money.pending + money.remainder
        /\ money.gbg = SumOf(LAMBDA a : money.acct[a].gbg, Account)
        /\ \A a \in Account :
              /\ money.acct[a].delegated = SumOf(LAMBDA d : money.deleg[d].vs, {d \in DOMAIN money.deleg : d[1] = a})
              /\ money.acct[a].received = SumOf(LAMBDA d : money.deleg[d].vs, {d \in DOMAIN money.deleg : d[2] = a})

\* The reward of a post is its share of total_reward_shares2, so whatever
\* votes are made, changed, deleted or paid, that sum is what the posts that
\* wait for their payout are worth, and a post is worth its votes.
SharesMatch ==
    /\ money.shares2 = SumOf(LAMBDA id : Shares(post[id].net), Unpaid)
    /\ \A id \in Unpaid : post[id].net = SumOf(LAMBDA i : vote[id][i].rshares, DOMAIN vote[id])

\* What a payout and delete_comment find by a reference is there: the parents
\* of every post, the bill of every post not yet paid, the post of every
\* request; and a post counts the replies to it at any depth.
ReferencesHold ==
    /\ \A id \in DOMAIN post : post[id].parent \in DOMAIN post \cup {0}
    /\ \A id \in DOMAIN post : post[id].children = Cardinality({x \in DOMAIN post : id \in Line(x) \ {x}})
    /\ Unpaid \subseteq DOMAIN bill
    /\ DOMAIN request \subseteq DOMAIN post

\* The sums of a request are its ballots while they can change, and a request
\* that is paid has no more to get than was asked for.
RequestsMatch ==
    \A id \in DOMAIN request :
        LET r == request[id]
        IN  /\ r.state = "created" =>
                  /\ r.rshares = SumOf(LAMBDA k : ballot[k].rshares, BallotsOn(id))
                  /\ r.total = SumOf(LAMBDA k : ballot[k].stake, BallotsOn(id))
            /\ r.state = "payment" => r.left \in 1..r.max
            /\ r.state = "payment_complete" => r.left = 0

\* Every block pays the posts whose time has come.
NothingOverdue == \A id \in Unpaid : post[id].cashout > now

ContentSound == TypeOK /\ SuppliesMatch /\ SharesMatch /\ ReferencesHold /\ RequestsMatch /\ NothingOverdue

\* An upvote that was never changed, on a post with curation
Curates(id, a) == \E i \in VotesBy(id, a) : vote[id][i].orig > 0 /\ vote[id][i].changes = 0

\* The posts a block pays: those that are due and worth something, but for
\* authors with a bad reputation
Rewarded(t) == {id \in DOMAIN post : post[id].cashout <= t /\ post[id].net > 0 /\ Author(id) \notin Disreputed}

\* Those a block may give more vesting than they had: its producer, workers,
\* authors and beneficiaries of the posts it pays, the voters whose upvotes
\* stand and those who delegated to these.
Earners(t) ==
    LET curators == {a \in Account : \E id \in Rewarded(t) : Curates(id, a)}
    IN  {Producer}
        \cup {request[id].worker : id \in DOMAIN request}
        \cup {Author(id) : id \in Rewarded(t)}
        \cup UNION {DOMAIN bill[id].routes : id \in Rewarded(t)}
        \cup curators
        \cup {d[1] : d \in {x \in DOMAIN money.deleg : x[2] \in curators}}

\* A block pays the posts that are due and no others, each once, and counts
\* the votes on every request whose time is over, one that an edit ended in
\* the past too; nobody but those above gains by it, whatever votes were
\* changed and however the rest is shared; and no account loses vesting.
PayoutsFair ==
    [][now' # now =>
         /\ \A id \in Unpaid : post'[id].cashout = Never <=> post[id].cashout <= now'
         /\ \A id \in DOMAIN request : request'[id].state = "created" => request[id].end > now'
         /\ \A a \in Account : /\ money'.acct[a].vs >= money.acct[a].vs
                               /\ money'.acct[a].vs > money.acct[a].vs => a \in Earners(now')]_vars
=============================================================================
