--------------------------- MODULE Subscriptions ---------------------------
(***************************************************************************)
(* Paid subscriptions: paid_subscription_evaluators.cpp and                *)
(* process_paid_subscribers of database_paid_subscription_objects.cpp.     *)
(*                                                                         *)
(* An interval is a number of blocks, at least one; a next payment of 0 is *)
(* none.  Subscriptions that are due at the same time are taken in one     *)
(* fixed order.  Assets with a tip balance of their own are left out.      *)
(***************************************************************************)
EXTENDS Purse

CONSTANTS
    PlanOps,        \* paid_subscription_create and _update operations
    PayOps          \* paid_subscription_transfer operations

VARIABLES
    plan,       \* paid_subscription_objects by <<author, oid>>
    sub,        \* paid_subscriber_objects by <<author, oid, subscriber>>
    sponsors    \* sponsor_count of every account

subVars == <<plan, sub, sponsors>>

PlanOf(k) == <<k[1], k[2]>>
SubsOf(p) == {k \in DOMAIN sub : PlanOf(k) = p}

SubInit == plan = << >> /\ sub = << >> /\ sponsors = [a \in Account |-> 0]

PlanKey(o) == <<o.author, o.oid>>

PlanCreate(o) ==
    /\ Operation
    /\ PlanKey(o) \notin DOMAIN plan
    /\ o.prepaid => o.executions # 0
    /\ plan' = Put(plan, PlanKey(o),
         [cost |-> o.cost, symbol |-> o.symbol, tip |-> o.tip, prepaid |-> o.prepaid,
          interval |-> o.interval, executions |-> o.executions, subscribers |-> 0, active |-> 0])
    /\ UNCHANGED <<bal, sub, sponsors>>

\* A mutated form of Inactivated: the payment stays scheduled.
InactivatedDue(s) == [s EXCEPT !.active = FALSE]

\* A subscription that ends, for one of three reasons.
Inactivated(s) == [s EXCEPT !.active = FALSE, !.next = 0]

\* paid_subscription_update: without prepayment the subscribers have to pay
\* again, at the new cost.
PlanUpdate(o) ==
    LET p == PlanKey(o)
        old == plan[p]
        repriced(s) == [s EXCEPT !.prepaid = IF o.symbol = s.symbol THEN @ ELSE 0,
                                 !.symbol = o.symbol, !.cost = o.cost]
        stopped(s) == IF s.active THEN Inactivated(repriced(s)) ELSE repriced(s)
        inactivated == {k \in SubsOf(p) : sub[k].active}
    IN  /\ Operation
        /\ p \in DOMAIN plan
        /\ old.executions = 0 <=> o.executions = 0
        /\ ~old.prepaid => <<o.tip, o.interval, o.executions>> = <<old.tip, old.interval, old.executions>>
        /\ sub' = IF old.prepaid THEN sub
                  ELSE [k \in DOMAIN sub |-> IF PlanOf(k) = p THEN stopped(sub[k]) ELSE sub[k]]
        /\ plan' = [plan EXCEPT ![p] =
             [@ EXCEPT !.cost = o.cost, !.symbol = o.symbol, !.tip = o.tip, !.interval = o.interval,
                       !.executions = o.executions,
                       !.active = IF old.prepaid THEN @ ELSE @ - Cardinality(inactivated)]]
        /\ UNCHANGED <<bal, sponsors>>

\* The prepaid tokens of the subscribers K go back to them.
GiveBack(b, K) ==
    FoldSet(LAMBDA k, x : Adjust(x, k[3], <<sub[k].symbol, sub[k].tip>>, sub[k].prepaid), b, K)

PlanDelete(p) ==
    /\ Operation
    /\ bal' = GiveBack(bal, SubsOf(p))
    /\ sub' = Without(sub, SubsOf(p))
    /\ plan' = Without(plan, {p})
    /\ sponsors' = [sponsors EXCEPT ![p[1]] = @ - Cardinality(SubsOf(p))]

\* claim_for_subscription and the conditions of paid_subscription_transfer
MayPay(o, p) ==
    /\ o.tip = p.tip /\ o.symbol = p.symbol
    /\ bal[o.from][<<o.symbol, o.tip>>] >= o.amount
    /\ o.amount >= p.cost
    /\ p.executions # 0 /\ ~p.prepaid => o.amount = p.cost

\* paid_subscription_transfer of a new subscriber: the first payment is made
\* at once, what is left is prepaid.
Subscribe(o) ==
    LET key == <<o.to, o.oid>>
        p == plan[key]
        pay == IF p.executions = 0 THEN o.amount ELSE p.cost
        purse == <<o.symbol, o.tip>>
    IN  /\ Operation
        /\ key \in DOMAIN plan /\ MayPay(o, p)
        /\ Append(key, o.from) \notin DOMAIN sub
        /\ bal' = Adjust(Adjust(bal, o.from, purse, -o.amount), o.to, purse, pay)
        /\ sub' = Put(sub, Append(key, o.from),
             [cost |-> p.cost, symbol |-> p.symbol, tip |-> p.tip, interval |-> p.interval,
              executions |-> p.executions, left |-> p.executions, prepaid |-> o.amount - pay,
              active |-> TRUE, next |-> IF p.executions > 0 THEN now + p.interval ELSE 0])
        /\ plan' = [plan EXCEPT ![key] = [@ EXCEPT !.subscribers = @ + 1, !.active = @ + 1]]
        /\ sponsors' = [sponsors EXCEPT ![o.to] = @ + 1]

\* The same of one who subscribed before: the author is paid where there is
\* no prepayment; what was prepaid in another token goes back.
Renewed(s, p, n) ==
    LET again == [s EXCEPT !.active = TRUE, !.interval = p.interval, !.executions = p.executions,
                           !.next = IF p.executions > 0 THEN now + p.interval ELSE @]
        awake == IF s.active THEN s ELSE again
        paid == [awake EXCEPT !.cost = p.cost, !.symbol = p.symbol, !.tip = p.tip,
                              !.interval = p.interval, !.executions = p.executions,
                              !.prepaid = (IF s.symbol = p.symbol THEN @ ELSE 0) + n]
        chosen == IF p.prepaid THEN paid ELSE awake
    IN  [chosen EXCEPT !.left = chosen.executions]

Prolong(o) ==
    LET key == <<o.to, o.oid>>
        k == Append(key, o.from)
        p == plan[key]
        s == sub[k]
        claimed == Adjust(bal, o.from, <<o.symbol, o.tip>>, -o.amount)
        paid == IF p.prepaid THEN claimed ELSE Adjust(claimed, o.to, <<o.symbol, o.tip>>, o.amount)
    IN  /\ Operation
        /\ key \in DOMAIN plan /\ k \in DOMAIN sub /\ MayPay(o, p)
        /\ s.active => p.executions # 0 /\ p.prepaid
        /\ bal' = IF s.symbol # p.symbol THEN GiveBack(paid, {k}) ELSE paid
        /\ sub' = [sub EXCEPT ![k] = Renewed(s, p, o.amount)]
        /\ plan' = [plan EXCEPT ![key].active = IF s.active THEN @ ELSE @ + 1]
        /\ UNCHANGED sponsors

\* A mutated form of SubCancel: it takes one off the active subscribers
\* although the subscription may have ended.
SubCancelActive(k) ==
    /\ Operation
    /\ bal' = GiveBack(bal, {k})
    /\ sub' = Without(sub, {k})
    /\ plan' = [plan EXCEPT ![PlanOf(k)] = [@ EXCEPT !.subscribers = @ - 1, !.active = @ - 1]]
    /\ sponsors' = [sponsors EXCEPT ![k[1]] = @ - 1]

SubCancel(k) ==
    /\ Operation
    /\ bal' = GiveBack(bal, {k})
    /\ sub' = Without(sub, {k})
    /\ plan' = [plan EXCEPT ![PlanOf(k)] =
         [@ EXCEPT !.subscribers = @ - 1, !.active = IF sub[k].active THEN @ - 1 ELSE @]]
    /\ sponsors' = [sponsors EXCEPT ![k[1]] = @ - 1]

\* A mutated form of PayOnce: the rest of the prepaid tokens is paid, but
\* only the cost is taken off.
PayOnceMore(w, k) ==
    LET s == w.sub[k]
        prepaid == Min({s.cost, s.prepaid})
        amount == s.cost - prepaid
        rest == IF s.left = 1 THEN s.prepaid - prepaid ELSE 0
        purse == <<s.symbol, s.tip>>
        ended == [w EXCEPT !.sub[k] = Inactivated(s), !.plan[PlanOf(k)].active = @ - 1]
    IN  IF s.left = 0 \/ w.bal[k[3]][purse] < amount THEN ended
        ELSE [w EXCEPT !.bal = Adjust(Adjust(@, k[3], purse, -amount), k[1], purse, s.cost + rest),
                       !.sub[k] = [s EXCEPT !.prepaid = @ - prepaid, !.left = @ - 1, !.next = @ + s.interval]]

\* process_paid_subscribers for one that is due: the cost from what is
\* prepaid and the rest from the balance; the last payment takes all that is
\* prepaid.  w has bal, sub and plan.
PayOnce(w, k) ==
    LET s == w.sub[k]
        prepaid == Min({s.cost, s.prepaid})
        amount == s.cost - prepaid
        rest == IF s.left = 1 THEN s.prepaid - prepaid ELSE 0
        purse == <<s.symbol, s.tip>>
        ended == [w EXCEPT !.sub[k] = Inactivated(s), !.plan[PlanOf(k)].active = @ - 1]
    IN  IF s.left = 0 \/ w.bal[k[3]][purse] < amount THEN ended
        ELSE [w EXCEPT !.bal = Adjust(Adjust(@, k[3], purse, -amount), k[1], purse, s.cost + rest),
                       !.sub[k] = [s EXCEPT !.prepaid = @ - (prepaid + rest), !.left = @ - 1,
                                            !.next = @ + s.interval]]

ProcessPaidSubscribers(t) ==
    LET due == {k \in DOMAIN sub : sub[k].next # 0 /\ sub[k].next <= t}
    IN  FoldSet(LAMBDA k, w : PayOnce(w, k), [bal |-> bal, sub |-> sub, plan |-> plan], due)

SubNext ==
    \/ \E o \in PlanOps : PlanCreate(o) \/ PlanUpdate(o)
    \/ \E p \in DOMAIN plan : PlanDelete(p)
    \/ \E o \in PayOps : Subscribe(o) \/ Prolong(o)
    \/ \E k \in DOMAIN sub : SubCancel(k)
=============================================================================
