------------------------------- MODULE Workers -------------------------------
(***************************************************************************)
(* Requests of workers to be paid for what a post describes: the           *)
(* operations of worker_evaluators.cpp, and process_worker_votes and       *)
(* process_worker_cashout of database_worker_objects.cpp.                  *)
(*                                                                         *)
(* Old ballots are kept: clear-old-worker-votes is off.                    *)
(***************************************************************************)
EXTENDS Rewards

CONSTANTS
    RequestOps,     \* worker_request: [key, worker, min, max, gbg, vest, duration]
    BallotOps,      \* worker_request_vote: [voter, key, percent]
    RequestFee,     \* worker_request_creation_fee, GBG
    ApproveMin,     \* worker_request_approve_min_percent
    WorkerInterval  \* GOLOS_WORKER_CASHOUT_INTERVAL

\* Without a least share a request that nobody voted on would be divided by
\* zero.
ASSUME WorkersAssumption == {ApproveMin, WorkerInterval} \subseteq Nat \ {0}

VARIABLE
    ballot      \* worker_request_vote_objects by <<post, voter>>

workerVars == <<request, ballot>>

\* Integer division that rounds to zero
Quotient(n, d) == IF n < 0 THEN -(-n \div d) ELSE n \div d

BallotsOn(id) == {k \in DOMAIN ballot : k[1] = id}

RequestCreate(o) ==
    LET id == IdOf(o.key)
        a == Author(id)
    IN  /\ Operation("work")
        /\ Exists(o.key) /\ id \notin DOMAIN request
        /\ post[id].parent = 0 /\ post[id].cashout # Never
        /\ money.acct[a].gbg >= RequestFee
        /\ money' = [money EXCEPT !.acct[a].gbg = @ - RequestFee, !.acct[Workers].gbg = @ + RequestFee]
        /\ request' = Put(request, id,
             [worker |-> o.worker, state |-> "created", min |-> o.min, max |-> o.max, gbg |-> o.gbg,
              vest |-> o.vest, created |-> now, end |-> now + o.duration, rshares |-> 0, total |-> 0, left |-> 0])
        /\ UNCHANGED <<postVars, ballot>>

\* Only before the first vote
RequestEdit(o) ==
    LET id == IdOf(o.key)
    IN  /\ Operation("work")
        /\ Exists(o.key) /\ id \in DOMAIN request
        /\ request[id].state = "created"
        /\ BallotsOn(id) = {}
        /\ request' = [request EXCEPT ![id] =
             [@ EXCEPT !.worker = o.worker, !.min = o.min, !.max = o.max, !.gbg = o.gbg, !.vest = o.vest,
                       !.end = request[id].created + o.duration]]
        /\ UNCHANGED <<postVars, money, ballot>>

Closed(r, state) == [r EXCEPT !.state = state, !.end = Never]

\* close_worker_request(): without votes no trace of the request is left.
RequestDelete(key) ==
    LET id == IdOf(key)
    IN  /\ Operation("work")
        /\ Exists(key) /\ id \in DOMAIN request
        /\ request[id].state = "created"
        /\ request' = IF BallotsOn(id) = {} THEN Without(request, {id})
                      ELSE [request EXCEPT ![id] = Closed(@, "closed_by_author")]
        /\ UNCHANGED <<postVars, money, ballot>>

\* A mutated form of Recount: a vote taken back stays in the total.
RecountKept(r, old, new) == [r EXCEPT !.rshares = @ - old.rshares + new.rshares, !.total = @ + new.stake]

Recount(r, old, new) ==
    [r EXCEPT !.rshares = @ - old.rshares + new.rshares, !.total = @ - old.stake + new.stake]

\* The vote replaces an older one, or takes it back, with the stake as it is
\* now.
RequestVote(o) ==
    LET id == IdOf(o.key)
        k == <<id, o.voter>>
        none == [percent |-> 0, rshares |-> 0, stake |-> 0]
        old == IF k \in DOMAIN ballot THEN ballot[k] ELSE none
        vs == money.acct[o.voter].vs
        new == IF o.percent = 0 THEN none
               ELSE [percent |-> o.percent, rshares |-> Quotient(vs * o.percent, Full), stake |-> vs]
    IN  /\ Operation("work")
        /\ Effective(money.acct[o.voter]) >= 1
        /\ Exists(o.key) /\ id \in DOMAIN request
        /\ request[id].state = "created"
        /\ old.percent # o.percent
        /\ ballot' = IF o.percent = 0 THEN Without(ballot, {k}) ELSE Put(ballot, k, new)
        /\ request' = [request EXCEPT ![id] = Recount(@, old, new)]
        /\ UNCHANGED <<postVars, money>>

-----------------------------------------------------------------------------
(* Blocks                                                                  *)

\* The time to vote on a request is over.
Counted(r, shares) ==
    LET payment == Quotient(r.max * r.rshares, r.total)
    IN  IF r.total < (shares * ApproveMin) \div Full THEN Closed(r, "closed_by_expiration")
        ELSE IF payment < r.min THEN Closed([r EXCEPT !.left = payment], "closed_by_voters")
        ELSE [r EXCEPT !.left = payment, !.end = Never, !.state = "payment"]

ProcessWorkerVotes(m, t) ==
    LET shares == SumOf(LAMBDA a : m.acct[a].vs, Account)
    IN  [id \in DOMAIN request |-> IF request[id].end <= t THEN Counted(request[id], shares) ELSE request[id]]

Paying(rs, gbg) == {id \in DOMAIN rs : rs[id].state = "payment" /\ rs[id].gbg = gbg}

\* One payment of n for request id
PayOut(w, id, n) ==
    LET r == w.request[id]
        m == IF r.gbg THEN [w.money EXCEPT !.acct[Workers].gbg = @ - n, !.acct[r.worker].gbg = @ + n]
             ELSE LET taken == [w.money EXCEPT !.acct[Workers].golos = @ - n]
                  IN  IF r.vest THEN Vest(taken, r.worker, n) ELSE [taken EXCEPT !.acct[r.worker].golos = @ + n]
    IN  IF n = 0 THEN w
        ELSE [money |-> m,
              request |-> [w.request EXCEPT ![id].left = @ - n,
                                            ![id].state = IF r.left = n THEN "payment_complete" ELSE @]]

\* The pool is shared by the requests that are being paid, each symbol by
\* those who asked for it.
ProcessWorkerCashout(m, rs, t) ==
    LET pool(gbg) == IF gbg THEN m.acct[Workers].gbg ELSE m.acct[Workers].golos
        share(gbg) == IF Paying(rs, gbg) = {} THEN 0 ELSE pool(gbg) \div Cardinality(Paying(rs, gbg))
        pay(id, w) == PayOut(w, id, Min({rs[id].left, share(rs[id].gbg)}))
    IN  IF t % WorkerInterval # 0 THEN [money |-> m, request |-> rs]
        ELSE FoldSet(pay, [money |-> m, request |-> rs], Paying(rs, TRUE) \cup Paying(rs, FALSE))

WorkerNext ==
    \/ \E o \in RequestOps : RequestCreate(o) \/ RequestEdit(o) \/ RequestDelete(o.key)
    \/ \E o \in BallotOps : RequestVote(o)
=============================================================================
