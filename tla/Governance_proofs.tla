------------------------- MODULE Governance_proofs -------------------------
(***************************************************************************)
(* Proofs about Governance, for all accounts, authorities, operations and  *)
(* proposals: a change of the recovery account can be answered as long as  *)
(* it waits, and nothing that is over is left behind.                      *)
(***************************************************************************)
EXTENDS Governance, TLAPS, FiniteSetTheorems

-----------------------------------------------------------------------------
(* The loops over operations and proposals are folds                       *)

NeedStep(c, n, o) ==
    [active |-> n.active \cup NeedOf(o).active, owner |-> n.owner \cup NeedOf(o).owner,
     posting |-> n.posting \cup NeedOf(o).posting, other |-> n.other \o NeedOf(o).other]
OpStep(t, r, o) ==
    IF r.ok /\ Applies(r.db, o, t) THEN [ok |-> TRUE, db |-> Applied(r.db, o, t)]
    ELSE [r EXCEPT !.ok = FALSE]
ClearStep(t, acc, p) ==
    IF Authorized(acc.db, p) /\ ApplyAll(acc.db, p.ops, t).ok
    THEN [db |-> ApplyAll(acc.db, p.ops, t).db,
          ran |-> Append(acc.ran, [ops |-> p.ops, by |-> p.by, auth |-> acc.db.auth])]
    ELSE acc

N == INSTANCE FoldFacts WITH op <- NeedStep
O == INSTANCE FoldFacts WITH op <- OpStep
L == INSTANCE FoldFacts WITH op <- ClearStep

\* Each of them is a FoldLeft in the model.
LEMMA NeedOfAllIsFold ==
  ASSUME NEW seq
  PROVE  NeedOfAll(seq) = N!Fold(0, Nobody, seq)
BY DEF NeedOfAll, N!Fold, NeedStep, FoldLeft, MapThenFoldSet, Max, N!FoldLeft,
       N!MapThenFoldSet, N!Max

\* The operations of a proposal are applied one after the other.
LEMMA ApplyAllIsFold ==
  ASSUME NEW d, NEW seq, NEW t
  PROVE  ApplyAll(d, seq, t) = O!Fold(t, [ok |-> TRUE, db |-> d], seq)
BY DEF ApplyAll, O!Fold, OpStep, FoldLeft, MapThenFoldSet, Max, O!FoldLeft,
       O!MapThenFoldSet, O!Max

\* clear_expired_proposals walks over the proposals.
LEMMA ClearExpiredIsFold ==
  ASSUME NEW order, NEW t
  PROVE  ClearExpired(order, t) = L!Fold(t, [db |-> db, ran |-> << >>], order)
BY DEF ClearExpired, L!Fold, ClearStep, FoldLeft, MapThenFoldSet, Max, L!FoldLeft,
       L!MapThenFoldSet, L!Max

-----------------------------------------------------------------------------
(* The operations on the accounts                                          *)

\* What the operations keep at time t.
Kept(d, t) == IsDatabase(d) /\ Outlives(d, t)
KeptIn(d, e, t) == Kept(e, t) /\ (Current(d, t) => Current(e, t))

\* A table with one more row, or a changed one.
LEMMA PutFacts ==
  ASSUME NEW f, NEW V, IsByAccount(f, V), NEW a \in Account, NEW v \in V
  PROVE  /\ IsByAccount(Put(f, a, v), V)
         /\ \A b \in DOMAIN Put(f, a, v) :
              (b = a /\ Put(f, a, v)[b] = v) \/ (b \in DOMAIN f /\ Put(f, a, v)[b] = f[b])
  BY DEF Put, IsByAccount

\* The rows of some accounts.
LEMMA RestrictFacts ==
  ASSUME NEW f, NEW V, IsByAccount(f, V), NEW S, S \subseteq DOMAIN f
  PROVE  /\ IsByAccount(Restrict(f, S), V)
         /\ DOMAIN Restrict(f, S) = S
         /\ \A b \in DOMAIN Restrict(f, S) : b \in DOMAIN f /\ Restrict(f, S)[b] = f[b]
  BY DEF Restrict, IsByAccount

\* A table without a row.
LEMMA WithoutFacts ==
  ASSUME NEW f, NEW V, IsByAccount(f, V), NEW a
  PROVE  /\ IsByAccount(Without(f, a), V)
         /\ \A b \in DOMAIN Without(f, a) : b \in DOMAIN f /\ Without(f, a)[b] = f[b]
<1>1. DOMAIN f \ {a} \subseteq DOMAIN f
  OBVIOUS
<1> QED BY <1>1, RestrictFacts DEF Without

\* The recovery period is a number.
LEMMA PeriodFacts ==
  RecoveryPeriod \in Nat \ {0} /\ RequestPeriod \in Nat \ {0} /\ UpdateLimit \in Nat \ {0}
  BY PeriodAssumption

\* update_owner_authority.
LEMMA UpdateOwnerKeeps ==
  ASSUME NEW d, NEW t \in Nat, Kept(d, t), NEW a \in Account, NEW x \in Authority
  PROVE  KeptIn(d, UpdateOwner(d, a, x, t), t)
<1> DEFINE h0 == [account |-> a, auth |-> d.auth[a].owner, until |-> t]
           q == UpdateOwner(d, a, x, t)
<1>1. IsDatabase(d) /\ Outlives(d, t)
  BY DEF Kept
<1>2. d.auth \in [Account -> Auths] /\ d.auth[a].owner \in Authority /\ h0 \in Past
  BY <1>1 DEF IsDatabase, Auths, Past
<1>3. /\ q.auth = [d.auth EXCEPT ![a].owner = x] /\ q.ownerAt = [d.ownerAt EXCEPT ![a] = t]
      /\ q.history = d.history \cup {h0} /\ q.change = d.change /\ q.request = d.request
  BY <1>1 DEF UpdateOwner, IsDatabase
<1>4. q.auth \in [Account -> Auths] /\ q.ownerAt \in [Account -> Int] /\ q.history \in SUBSET Past
  <2>1. [d.auth EXCEPT ![a].owner = x] \in [Account -> Auths]
    BY <1>2 DEF Auths
  <2>2. [d.ownerAt EXCEPT ![a] = t] \in [Account -> Int] /\ d.history \cup {h0} \in SUBSET Past
    BY <1>1, <1>2 DEF IsDatabase
  <2> QED BY <1>3, <2>1, <2>2
<1>5. IsDatabase(q)
  BY <1>1, <1>3, <1>4 DEF IsDatabase, UpdateOwner
<1>6. /\ q.auth[a].owner = x
      /\ \A b \in Account : b # a => q.auth[b] = d.auth[b]
  BY <1>2, <1>3 DEF Auths
<1> HIDE DEF q
<1>7. Outlives(q, t)
  <2> SUFFICES ASSUME NEW b \in DOMAIN d.change
               PROVE  /\ d.change[b].at <= t + RecoveryPeriod
                      /\ \/ q.auth[b].owner = d.change[b].by
                         \/ \E h \in q.history : /\ h.account = b /\ h.auth = d.change[b].by
                                                 /\ h.until + RecoveryPeriod >= d.change[b].at
    BY <1>3 DEF Outlives
  <2>1. /\ d.change[b].at <= t + RecoveryPeriod /\ b \in Account /\ d.change[b].at \in Int
        /\ \/ d.auth[b].owner = d.change[b].by
           \/ \E h \in d.history : /\ h.account = b /\ h.auth = d.change[b].by
                                   /\ h.until + RecoveryPeriod >= d.change[b].at
    BY <1>1 DEF Outlives, IsDatabase, IsByAccount, Change
  <2>2. CASE \E h \in d.history : /\ h.account = b /\ h.auth = d.change[b].by
                                  /\ h.until + RecoveryPeriod >= d.change[b].at
    BY <1>3, <2>1, <2>2
  <2>3. CASE d.auth[b].owner = d.change[b].by /\ b # a
    BY <1>6, <2>1, <2>3
  <2>4. CASE d.auth[b].owner = d.change[b].by /\ b = a
    <3>1. /\ h0 \in q.history /\ h0.account = b /\ h0.auth = d.change[b].by
          /\ h0.until + RecoveryPeriod >= d.change[b].at
      BY <1>3, <2>1, <2>4, PeriodFacts
    <3> QED BY <2>1, <3>1
  <2> QED BY <2>1, <2>2, <2>3, <2>4
<1>8. ASSUME Current(d, t) PROVE Current(q, t)
  <2>1. h0.until + RecoveryPeriod >= t
    BY PeriodFacts
  <2> HIDE DEF h0
  <2> QED BY <1>3, <1>8, <2>1 DEF Current
<1> QED BY <1>5, <1>7, <1>8 DEF KeptIn, Kept, q

\* account_update of another authority than the owner.
LEMMA UpdateOtherKeeps ==
  ASSUME NEW d, NEW t \in Nat, Kept(d, t), NEW o, o.account \in Account, o.auth \in Authority,
         o.role \in {"active", "posting"}
  PROVE  KeptIn(d, AccountUpdate(d, o, t), t)
<1> DEFINE a == o.account
           x == o.auth
           role == o.role
           q == AccountUpdate(d, o, t)
           new == [d.auth EXCEPT ![a] = [@ EXCEPT ![role] = x]]
<1>1. IsDatabase(d) /\ Outlives(d, t) /\ d.auth \in [Account -> Auths]
  BY DEF Kept, IsDatabase
<1>2. [d.auth[a] EXCEPT ![role] = x] \in Auths /\ [d.auth[a] EXCEPT ![role] = x].owner = d.auth[a].owner
  BY <1>1 DEF Auths
<1>3. new \in [Account -> Auths] /\ \A b \in Account : new[b].owner = d.auth[b].owner
  BY <1>1, <1>2
<1>4. /\ q.auth = new /\ q.history = d.history /\ q.change = d.change /\ q.request = d.request
      /\ q = [d EXCEPT !.auth = new]
  BY <1>1 DEF IsDatabase, AccountUpdate
<1> HIDE DEF q, new
<1>5. IsDatabase(q)
  BY <1>1, <1>3, <1>4 DEF IsDatabase
<1>6. DOMAIN d.change \subseteq Account
  BY <1>1 DEF IsDatabase, IsByAccount
<1>7. Outlives(q, t)
  BY <1>1, <1>3, <1>4, <1>6 DEF Outlives
<1>8. Current(d, t) => Current(q, t)
  BY <1>4 DEF Current
<1> QED BY <1>5, <1>7, <1>8 DEF KeptIn, Kept, q

\* The requests of an account have no part in Outlives.
LEMMA NewRequestsKeep ==
  ASSUME NEW d, NEW t \in Nat, Kept(d, t), NEW f, IsByAccount(f, Request)
  PROVE  /\ Kept([d EXCEPT !.request = f], t)
         /\ Current(d, t) /\ (\A a \in DOMAIN f : f[a].expires > t)
              => Current([d EXCEPT !.request = f], t)
<1> DEFINE q == [d EXCEPT !.request = f]
<1>1. /\ IsDatabase(d) /\ Outlives(d, t)
      /\ q.request = f /\ q.auth = d.auth /\ q.history = d.history /\ q.change = d.change
  BY DEF Kept, IsDatabase
<1>2. IsDatabase(q)
  BY <1>1 DEF IsDatabase
<1> HIDE DEF q
<1>3. Outlives(q, t)
  BY <1>1 DEF Outlives
<1>4. Current(d, t) /\ (\A a \in DOMAIN f : f[a].expires > t) => Current(q, t)
  BY <1>1 DEF Current
<1> QED BY <1>2, <1>3, <1>4 DEF Kept, q

\* request_account_recovery_evaluator.
LEMMA RequestRecoveryKeeps ==
  ASSUME NEW d, NEW t \in Nat, Kept(d, t), NEW o \in RecoveryOp, o.op = "request"
  PROVE  KeptIn(d, RequestRecovery(d, o, t), t)
<1> DEFINE v == [auth |-> o.auth, expires |-> t + RequestPeriod]
           f == IF o.cancel THEN Without(d.request, o.account) ELSE Put(d.request, o.account, v)
<1>1. o.account \in Account /\ v \in Request /\ v.expires > t
  BY PeriodFacts DEF RecoveryOp, Request
<1>2. IsByAccount(d.request, Request)
  BY DEF Kept, IsDatabase
<1>3. IsByAccount(f, Request) /\ \A a \in DOMAIN f : f[a] = v \/ (a \in DOMAIN d.request /\ f[a] = d.request[a])
  <2> HIDE DEF v
  <2>1. CASE o.cancel
    <3>1. f = Without(d.request, o.account)
      BY <2>1
    <3> HIDE DEF f
    <3> QED BY <1>2, <3>1, WithoutFacts
  <2>2. CASE ~o.cancel
    <3>1. f = Put(d.request, o.account, v)
      BY <2>2
    <3> HIDE DEF f
    <3> QED BY <1>1, <1>2, <3>1, PutFacts
  <2> QED BY <2>1, <2>2
<1>4. RequestRecovery(d, o, t) = [d EXCEPT !.request = f]
  BY DEF RequestRecovery
<1> HIDE DEF f
<1>5. Current(d, t) => \A a \in DOMAIN f : f[a].expires > t
  <2> HIDE DEF v
  <2> QED BY <1>1, <1>3 DEF Current
<1> QED BY <1>3, <1>4, <1>5, NewRequestsKeep DEF KeptIn

\* recover_account_evaluator.
LEMMA RecoverAccountKeeps ==
  ASSUME NEW d, NEW t \in Nat, Kept(d, t), NEW o \in RecoveryOp, o.op = "recover"
  PROVE  KeptIn(d, RecoverAccount(d, o, t), t)
<1> DEFINE a == o.account
           f == Without(d.request, a)
           e == [d EXCEPT !.request = f]
           u == UpdateOwner(e, a, o.auth, t)
           q == RecoverAccount(d, o, t)
<1>1. a \in Account /\ o.auth \in Authority
  BY DEF RecoveryOp
<1>2. IsByAccount(f, Request) /\ \A b \in DOMAIN f : b \in DOMAIN d.request /\ f[b] = d.request[b]
  <2>1. IsByAccount(d.request, Request)
    BY DEF Kept, IsDatabase
  <2> QED BY <2>1, WithoutFacts
<1> HIDE DEF f
<1>3. Kept(e, t) /\ (Current(d, t) => Current(e, t))
  <2>1. Current(d, t) => \A b \in DOMAIN f : f[b].expires > t
    BY <1>2 DEF Current
  <2> QED BY <1>2, <2>1, NewRequestsKeep
<1> HIDE DEF e
<1>4. KeptIn(e, u, t)
  BY <1>1, <1>3, UpdateOwnerKeeps
<1>5. q = [u EXCEPT !.recoveredAt[a] = t, !.power[a] = ResetVestingWithdraw(@)]
  BY DEF RecoverAccount, e, f
<1> HIDE DEF u
<1>6. IsDatabase(u) /\ Outlives(u, t)
  BY <1>4 DEF KeptIn, Kept
<1> DEFINE x == [u.recoveredAt EXCEPT ![a] = t]
           y == [u.power EXCEPT ![a] = ResetVestingWithdraw(@)]
<1>7. x \in [Account -> Int] /\ y \in [Account -> [on : BOOLEAN, routes : SUBSET Account]]
  <2>1. u.power \in [Account -> [on : BOOLEAN, routes : SUBSET Account]] /\ u.recoveredAt \in [Account -> Int]
    BY <1>6 DEF IsDatabase
  <2>2. ResetVestingWithdraw(u.power[a]) \in [on : BOOLEAN, routes : SUBSET Account]
    <3>1. u.power[a] \in [on : BOOLEAN, routes : SUBSET Account]
      BY <1>1, <2>1
    <3> HIDE DEF a
    <3> QED BY <3>1 DEF ResetVestingWithdraw
  <2> HIDE DEF a
  <2>3. x \in [Account -> Int]
    <3>1. t \in Int
      OBVIOUS
    <3> QED BY <2>1, <3>1
  <2>4. y \in [Account -> [on : BOOLEAN, routes : SUBSET Account]]
    BY <2>1, <2>2
  <2> QED BY <2>3, <2>4
<1>8. /\ q = [u EXCEPT !.recoveredAt = x, !.power = y]
      /\ q.auth = u.auth /\ q.history = u.history /\ q.change = u.change /\ q.request = u.request
  BY <1>5, <1>6 DEF IsDatabase
<1> HIDE DEF x, y, q
<1>9. IsDatabase(q)
  BY <1>6, <1>7, <1>8 DEF IsDatabase
<1>10. Outlives(q, t) /\ (Current(u, t) => Current(q, t))
  BY <1>6, <1>8 DEF Outlives, Current
<1> QED BY <1>3, <1>4, <1>9, <1>10 DEF KeptIn, Kept, q

\* change_recovery_account_evaluator.
LEMMA ChangeRecoveryAccountKeeps ==
  ASSUME NEW d, NEW t \in Nat, Kept(d, t), NEW o \in RecoveryOp, o.op = "change"
  PROVE  KeptIn(d, ChangeRecoveryAccount(d, o, t), t)
<1> DEFINE a == o.account
           asked == [to |-> o.partner, at |-> t + RecoveryPeriod, by |-> d.auth[a].owner]
           f == IF a \in DOMAIN d.change /\ d.partner[a] = o.partner
                THEN Without(d.change, a) ELSE Put(d.change, a, asked)
           q == ChangeRecoveryAccount(d, o, t)
<1>1. a \in Account /\ o.partner \in Account
  BY DEF RecoveryOp
<1>2. IsDatabase(d) /\ Outlives(d, t) /\ IsByAccount(d.change, Change) /\ d.auth[a].owner \in Authority
  BY <1>1 DEF Kept, IsDatabase, Auths
<1>3. asked \in Change /\ asked.at = t + RecoveryPeriod /\ asked.by = d.auth[a].owner
  BY <1>1, <1>2, PeriodFacts DEF Change
<1> HIDE DEF asked
<1>4. /\ IsByAccount(f, Change)
      /\ \A b \in DOMAIN f : (b = a /\ f[b] = asked) \/ (b \in DOMAIN d.change /\ f[b] = d.change[b])
  <2>1. CASE a \in DOMAIN d.change /\ d.partner[a] = o.partner
    <3>1. f = Without(d.change, a)
      BY <2>1
    <3> HIDE DEF f
    <3> QED BY <1>2, <3>1, WithoutFacts
  <2>2. CASE ~(a \in DOMAIN d.change /\ d.partner[a] = o.partner)
    <3>1. f = Put(d.change, a, asked)
      BY <2>2
    <3> HIDE DEF f
    <3> QED BY <1>1, <1>2, <1>3, <3>1, PutFacts
  <2> QED BY <2>1, <2>2
<1>5. /\ q = [d EXCEPT !.change = f]
      /\ q.change = f /\ q.auth = d.auth /\ q.history = d.history /\ q.request = d.request
  BY <1>2 DEF ChangeRecoveryAccount, IsDatabase, asked
<1> HIDE DEF f, q
<1>6. IsDatabase(q)
  BY <1>2, <1>4, <1>5 DEF IsDatabase
<1>7. Outlives(q, t)
  <2> SUFFICES ASSUME NEW b \in DOMAIN f
               PROVE  /\ f[b].at <= t + RecoveryPeriod
                      /\ \/ d.auth[b].owner = f[b].by
                         \/ \E h \in d.history : /\ h.account = b /\ h.auth = f[b].by
                                                 /\ h.until + RecoveryPeriod >= f[b].at
    BY <1>5 DEF Outlives
  <2>1. CASE b = a /\ f[b] = asked
    BY <1>3, <2>1, PeriodFacts
  <2>2. CASE b \in DOMAIN d.change /\ f[b] = d.change[b]
    BY <1>2, <2>2 DEF Outlives
  <2> QED BY <1>4, <2>1, <2>2
<1>8. ASSUME Current(d, t) PROVE Current(q, t)
  <2>1. asked.at > t
    BY <1>3, PeriodFacts
  <2> QED BY <1>4, <1>5, <1>8, <2>1 DEF Current
<1> QED BY <1>6, <1>7, <1>8 DEF KeptIn, Kept, q

\* Every operation keeps what is said of the accounts.
LEMMA AppliedKeeps ==
  ASSUME NEW d, NEW t \in Nat, Kept(d, t), NEW o \in OpSet
  PROVE  KeptIn(d, Applied(d, o, t), t)
<1>1. CASE o.op = "update"
  <2>1. o.account \in Account /\ o.auth \in Authority /\ o.role \in {"owner", "active", "posting"}
    BY <1>1 DEF OpSet, RecoveryOp
  <2>2. Applied(d, o, t) = AccountUpdate(d, o, t)
    BY <1>1 DEF Applied
  <2>3. CASE o.role = "owner"
    BY <2>1, <2>2, <2>3, UpdateOwnerKeeps DEF AccountUpdate
  <2>4. CASE o.role # "owner"
    <3>1. o.role \in {"active", "posting"}
      BY <2>1, <2>4
    <3> QED BY <2>1, <2>2, <3>1, UpdateOtherKeeps
  <2> QED BY <2>3, <2>4
<1>2. CASE o.op = "request"
  BY <1>2, RequestRecoveryKeeps DEF Applied, OpSet
<1>3. CASE o.op = "recover"
  BY <1>3, RecoverAccountKeeps DEF Applied, OpSet
<1>4. CASE o.op = "change"
  BY <1>4, ChangeRecoveryAccountKeeps DEF Applied, OpSet
<1>5. CASE o.op = "metadata"
  <2>1. Applied(d, o, t) = d
    BY <1>5 DEF Applied
  <2> QED BY <2>1 DEF KeptIn
<1>6. o.op \in {"update", "request", "recover", "change", "metadata"}
  BY DEF OpSet, RecoveryOp
<1> QED BY <1>1, <1>2, <1>3, <1>4, <1>5, <1>6

\* So do all operations of a transaction, whether they all apply or not.
LEMMA ApplyAllKeeps ==
  ASSUME NEW d, NEW t \in Nat, Kept(d, t), NEW seq \in Seq(OpSet), ApplyAll(d, seq, t).ok
  PROVE  KeptIn(d, ApplyAll(d, seq, t).db, t)
<1> DEFINE base == [ok |-> TRUE, db |-> d]
<1>0. PICK row : /\ row[0] = base
                 /\ \A k \in 1..Len(seq) : row[k] = OpStep(t, row[k - 1], seq[k])
                 /\ row[Len(seq)] = O!Fold(t, base, seq)
  <2> HIDE DEF base
  <2> QED BY O!FoldRow
<1>1. /\ row[0] = [ok |-> TRUE, db |-> d]
      /\ \A k \in 1..Len(seq) : row[k] = OpStep(t, row[k - 1], seq[k])
      /\ row[Len(seq)] = O!Fold(t, [ok |-> TRUE, db |-> d], seq)
  BY <1>0
<1> HIDE DEF base
<1> DEFINE Good == {k \in 0..Len(seq) : row[k] \in [ok : BOOLEAN, db : {row[k].db}] /\ KeptIn(d, row[k].db, t)}
<1>2. Len(seq) \in Nat /\ 0 \in Good
  <2>1. row[0].db = d /\ row[0] \in [ok : BOOLEAN, db : {row[0].db}]
    BY <1>1
  <2> QED BY <2>1 DEF KeptIn
<1>3. ASSUME NEW k \in 1..Len(seq), k - 1 \in Good PROVE k \in Good
  <2> DEFINE r == row[k - 1]
             q == row[k]
  <2>1. /\ r \in [ok : BOOLEAN, db : {r.db}] /\ KeptIn(d, r.db, t)
        /\ seq[k] \in OpSet /\ k \in 0..Len(seq) /\ q = OpStep(t, r, seq[k])
    BY <1>1, <1>2, <1>3
  <2> SUFFICES q \in [ok : BOOLEAN, db : {q.db}] /\ KeptIn(d, q.db, t)
    BY <2>1
  <2> HIDE DEF r, q
  <2>2. CASE r.ok /\ Applies(r.db, seq[k], t)
    <3>1. q = [ok |-> TRUE, db |-> Applied(r.db, seq[k], t)]
      BY <2>1, <2>2 DEF OpStep
    <3>2. KeptIn(r.db, Applied(r.db, seq[k], t), t)
      BY <2>1, AppliedKeeps DEF KeptIn
    <3> QED BY <2>1, <3>1, <3>2 DEF KeptIn
  <2>3. CASE ~(r.ok /\ Applies(r.db, seq[k], t))
    <3>1. q = [r EXCEPT !.ok = FALSE]
      BY <2>1, <2>3 DEF OpStep
    <3>2. q.db = r.db /\ q \in [ok : BOOLEAN, db : {q.db}]
      BY <2>1, <3>1
    <3> QED BY <2>1, <3>2
  <2> QED BY <2>2, <2>3
<1>4. \A k \in 0..Len(seq) : k \in Good
  <2> HIDE DEF Good
  <2> QED BY <1>2, <1>3, N!UpTo
<1> QED BY <1>1, <1>2, <1>4, ApplyAllIsFold

\* clear_expired_proposals keeps the accounts in order.
LEMMA ClearExpiredKeeps ==
  ASSUME NEW t \in Nat, Kept(db, t), NEW S, \A p \in S : p.ops \in Seq(OpSet), NEW order \in Seq(S)
  PROVE  Kept(ClearExpired(order, t).db, t)
<1> DEFINE base == [db |-> db, ran |-> << >>]
<1>0. PICK row : /\ row[0] = base
                 /\ \A k \in 1..Len(order) : row[k] = ClearStep(t, row[k - 1], order[k])
                 /\ row[Len(order)] = L!Fold(t, base, order)
  <2>1. order \in Seq(S)
    OBVIOUS
  <2> HIDE DEF base
  <2> QED BY ONLY <2>1, L!FoldRow
<1>1. /\ row[0] = [db |-> db, ran |-> << >>]
      /\ \A k \in 1..Len(order) : row[k] = ClearStep(t, row[k - 1], order[k])
      /\ row[Len(order)] = L!Fold(t, [db |-> db, ran |-> << >>], order)
  BY <1>0
<1> HIDE DEF base
<1> DEFINE Good == {k \in 0..Len(order) : Kept(row[k].db, t)}
<1>2. Len(order) \in Nat /\ 0 \in Good
  <2>1. row[0].db = db
    BY <1>1
  <2> QED BY <2>1
<1>3. ASSUME NEW k \in 1..Len(order), k - 1 \in Good PROVE k \in Good
  <2> DEFINE r == row[k - 1]
             p == order[k]
  <2>1. Kept(r.db, t) /\ p.ops \in Seq(OpSet) /\ k \in 0..Len(order) /\ row[k] = ClearStep(t, r, p)
    BY <1>1, <1>2, <1>3
  <2> HIDE DEF r, p
  <2>2. CASE Authorized(r.db, p) /\ ApplyAll(r.db, p.ops, t).ok
    <3>1. row[k].db = ApplyAll(r.db, p.ops, t).db
      BY <2>1, <2>2 DEF ClearStep
    <3> QED BY <2>1, <2>2, <3>1, ApplyAllKeeps DEF KeptIn
  <2>3. CASE ~(Authorized(r.db, p) /\ ApplyAll(r.db, p.ops, t).ok)
    BY <2>1, <2>3 DEF ClearStep
  <2> QED BY <2>2, <2>3
<1>4. \A k \in 0..Len(order) : k \in Good
  <2> HIDE DEF Good
  <2> QED BY <1>2, <1>3, N!UpTo
<1> QED BY <1>1, <1>2, <1>4, ClearExpiredIsFold

\* account_recovery_processing removes exactly what is over, and no entry of
\* the history that a waiting change may need.
LEMMA RecoveryProcessingKeeps ==
  ASSUME NEW d, NEW t \in Nat, Kept(d, t)
  PROVE  Kept(RecoveryProcessing(d, t), t) /\ Current(RecoveryProcessing(d, t), t)
<1> DEFINE due == {a \in DOMAIN d.change : d.change[a].at <= t}
           live == {a \in DOMAIN d.request : d.request[a].expires > t}
           f == Restrict(d.request, live)
           g == Restrict(d.change, DOMAIN d.change \ due)
           hs == {h \in d.history : h.until + RecoveryPeriod >= t}
           ps == [a \in Account |-> IF a \in due THEN d.change[a].to ELSE d.partner[a]]
           q == RecoveryProcessing(d, t)
<1>1. /\ IsDatabase(d) /\ Outlives(d, t)
      /\ IsByAccount(d.request, Request) /\ IsByAccount(d.change, Change)
  BY DEF Kept, IsDatabase
<1>2. /\ q = [d EXCEPT !.request = f, !.history = hs, !.partner = ps, !.change = g]
      /\ q.request = f /\ q.history = hs /\ q.change = g /\ q.auth = d.auth
  BY <1>1 DEF RecoveryProcessing, IsDatabase
<1>3. /\ IsByAccount(f, Request) /\ DOMAIN f = live /\ \A a \in live : f[a] = d.request[a]
      /\ IsByAccount(g, Change) /\ DOMAIN g = DOMAIN d.change \ due
      /\ \A a \in DOMAIN g : g[a] = d.change[a]
  <2>1. live \subseteq DOMAIN d.request /\ DOMAIN d.change \ due \subseteq DOMAIN d.change
    OBVIOUS
  <2> HIDE DEF live, due
  <2> QED BY <1>1, <2>1, RestrictFacts
<1>4. ps \in [Account -> Account] /\ hs \in SUBSET Past
  <2>1. d.partner \in [Account -> Account] /\ d.history \in SUBSET Past
    BY <1>1 DEF IsDatabase
  <2>2. \A a \in due : d.change[a].to \in Account
    BY <1>1 DEF IsByAccount, Change
  <2> HIDE DEF due
  <2> QED BY <2>1, <2>2
<1> HIDE DEF f, g, ps, q
<1>5. IsDatabase(q)
  <2> HIDE DEF hs
  <2> QED BY <1>1, <1>2, <1>3, <1>4 DEF IsDatabase
<1>6. Outlives(q, t)
  <2> SUFFICES ASSUME NEW a \in DOMAIN g
               PROVE  /\ g[a].at <= t + RecoveryPeriod
                      /\ \/ d.auth[a].owner = g[a].by
                         \/ \E h \in hs : /\ h.account = a /\ h.auth = g[a].by
                                          /\ h.until + RecoveryPeriod >= g[a].at
    BY <1>2 DEF Outlives
  <2>1. a \in DOMAIN d.change /\ g[a] = d.change[a] /\ ~(d.change[a].at <= t) /\ d.change[a].at \in Int
    BY <1>1, <1>3 DEF IsByAccount, Change
  <2>2. /\ d.change[a].at <= t + RecoveryPeriod
        /\ \/ d.auth[a].owner = d.change[a].by
           \/ \E h \in d.history : /\ h.account = a /\ h.auth = d.change[a].by
                                   /\ h.until + RecoveryPeriod >= d.change[a].at
    BY <1>1, <2>1 DEF Outlives
  <2>3. \A h \in d.history : h.until + RecoveryPeriod >= d.change[a].at => h \in hs
    <3> SUFFICES ASSUME NEW h \in d.history, h.until + RecoveryPeriod >= d.change[a].at
                 PROVE  h.until + RecoveryPeriod >= t
      OBVIOUS
    <3>1. h.until \in Int
      BY <1>1 DEF IsDatabase, Past
    <3> QED BY <2>1, <3>1, PeriodFacts
  <2> HIDE DEF hs
  <2> QED BY <2>1, <2>2, <2>3
<1>7. Current(q, t)
  <2>1. \A a \in DOMAIN g : g[a].at > t
    <3> SUFFICES ASSUME NEW a \in DOMAIN g PROVE g[a].at > t
      OBVIOUS
    <3>1. g[a] = d.change[a] /\ ~(d.change[a].at <= t) /\ d.change[a].at \in Int
      BY <1>1, <1>3 DEF IsByAccount, Change
    <3> QED BY <3>1
  <2>2. \A a \in DOMAIN f : f[a].expires > t
    BY <1>3
  <2> QED BY <1>2, <2>1, <2>2 DEF Current
<1> QED BY <1>5, <1>6, <1>7 DEF Kept, q
-----------------------------------------------------------------------------
(* The proposals                                                           *)

\* What operations ask for, and all operations of a transaction together.
LEMMA NeedOfType ==
  ASSUME NEW o \in OpSet
  PROVE  NeedOf(o) \in Need
<1>1. << >> \in Seq(Authority)
  OBVIOUS
<1>2. CASE o.op = "update"
  <2>1. o.account \in Account
    BY <1>2 DEF OpSet, RecoveryOp
  <2>2. NeedOf(o) \in {[Nobody EXCEPT !.owner = {o.account}], [Nobody EXCEPT !.active = {o.account}]}
    BY <1>2 DEF NeedOf
  <2> QED BY <1>1, <2>1, <2>2 DEF Nobody, Need
<1>3. CASE o.op = "request"
  <2>1. o.partner \in Account
    BY <1>3 DEF OpSet, RecoveryOp
  <2>2. NeedOf(o) = [Nobody EXCEPT !.active = {o.partner}]
    BY <1>3 DEF NeedOf
  <2> QED BY <1>1, <2>1, <2>2 DEF Nobody, Need
<1>4. CASE o.op = "recover"
  <2>1. o.auth \in Authority /\ o.recent \in Authority
    BY <1>4 DEF OpSet, RecoveryOp
  <2>2. <<o.auth, o.recent>> \in Seq(Authority)
    BY <2>1
  <2>3. NeedOf(o) = [Nobody EXCEPT !.other = <<o.auth, o.recent>>]
    BY <1>4 DEF NeedOf
  <2> QED BY <2>2, <2>3 DEF Nobody, Need
<1>5. CASE o.op = "change"
  <2>1. o.account \in Account
    BY <1>5 DEF OpSet, RecoveryOp
  <2>2. NeedOf(o) = [Nobody EXCEPT !.owner = {o.account}]
    BY <1>5 DEF NeedOf
  <2> QED BY <1>1, <2>1, <2>2 DEF Nobody, Need
<1>6. CASE o.op = "metadata"
  <2>1. o.account \in Account
    BY <1>6 DEF OpSet, RecoveryOp
  <2>2. NeedOf(o) = [Nobody EXCEPT !.posting = {o.account}]
    BY <1>6 DEF NeedOf
  <2> QED BY <1>1, <2>1, <2>2 DEF Nobody, Need
<1>7. o.op \in {"update", "request", "recover", "change", "metadata"}
  BY DEF OpSet, RecoveryOp
<1> QED BY <1>2, <1>3, <1>4, <1>5, <1>6, <1>7

\* What the operations of a proposal need.
LEMMA NeedOfAllType ==
  ASSUME NEW seq \in Seq(OpSet)
  PROVE  NeedOfAll(seq) \in Need
<1>1. Nobody \in Need
  BY DEF Nobody, Need
<1>2. ASSUME NEW n \in Need, NEW o \in OpSet PROVE NeedStep(0, n, o) \in Need
  <2>1. NeedOf(o) \in Need
    BY NeedOfType
  <2>2. n.other \o NeedOf(o).other \in Seq(Authority)
    BY <2>1 DEF Need
  <2> QED BY <2>1, <2>2 DEF NeedStep, Need
<1>3. N!Fold(0, Nobody, seq) \in Need
  BY <1>1, <1>2, N!FoldKeeps
<1> QED BY <1>3, NeedOfAllIsFold

\* The part of IndInv about the proposals f and the required approvals req.
AccountsOf(p) == p.need.active \cup p.need.owner \cup p.need.posting
Stands(p, t, n) ==
    /\ p \in Proposal /\ p.expires \in 1..(t + MaxLifetime) /\ p.review < p.expires
    /\ p.id < n /\ p.expires > t
Props(f, req, t, n) ==
    /\ IsFiniteSet(DOMAIN f) /\ req \subseteq Account \X Nat
    /\ \A x \in DOMAIN f : Stands(f[x], t, n)
    /\ \A x, y \in DOMAIN f : f[x].id = f[y].id => x = y
    /\ \A x \in DOMAIN f, a \in Account : <<a, f[x].id>> \in req <=> a \in AccountsOf(f[x])
    /\ \A r \in req : \E x \in DOMAIN f : f[x].id = r[2]
Whole(d, f, req, t, n) ==
    t \in Nat /\ n \in Nat /\ Kept(d, t) /\ Current(d, t) /\ Props(f, req, t, n)

\* The accounts that a proposal needs are in one of its three parts.
LEMMA PartsOfNeed ==
  ASSUME NEW p, p.need \in Need, NEW a
  PROVE  a \in AccountsOf(p) <=> \E part \in {"active", "owner", "posting"} : a \in p.need[part]
BY DEF AccountsOf, Need

\* The inductive invariant as a formula about a state, which a loop can keep.
LEMMA WholeIsInv == IndInv <=> Whole(db, prop, required, now, serial)
<1>1. ASSUME IndInv PROVE Whole(db, prop, required, now, serial)
  <2>1. \A x \in DOMAIN prop : prop[x] \in Proposal /\ prop[x].need \in Need
    BY <1>1 DEF IndInv, ProposalsInv, Proposal
  <2>2. \A x \in DOMAIN prop : Stands(prop[x], now, serial)
    BY <1>1, <2>1 DEF IndInv, ProposalsInv, NothingLeftBehind, TypeOK, NothingOverdue, Stands
  <2>3. \A x \in DOMAIN prop, a \in Account : <<a, prop[x].id>> \in required <=> a \in AccountsOf(prop[x])
    BY <1>1, <2>1, PartsOfNeed DEF IndInv, NothingLeftBehind, RequiredMatches
  <2> QED BY <1>1, <2>2, <2>3
          DEF IndInv, ProposalsInv, NothingLeftBehind, RequiredMatches, Whole, Props, Kept
<1>2. ASSUME Whole(db, prop, required, now, serial) PROVE IndInv
  <2>1. \A x \in DOMAIN prop : prop[x] \in Proposal /\ prop[x].need \in Need
    BY <1>2 DEF Whole, Props, Stands, Proposal
  <2>2. RequiredMatches
    BY <1>2, <2>1, PartsOfNeed DEF Whole, Props, RequiredMatches
  <2>3. NothingOverdue
    BY <1>2 DEF Whole, Props, Stands, Current, NothingOverdue
  <2>4. \A a \in Account : /\ db.partner[a] \in Account
                           /\ \A role \in DOMAIN db.auth[a] : db.auth[a][role] \in Authority
    BY <1>2 DEF Whole, Kept, IsDatabase, Auths
  <2>5. TypeOK
    BY <1>2, <2>1, <2>4 DEF Whole, Props, Stands, Proposal, Approvals, TypeOK
  <2> QED BY <1>2, <2>1, <2>2, <2>3, <2>5 DEF Whole, Props, IndInv, ProposalsInv, NothingLeftBehind, Kept
<1> QED BY <1>1, <1>2

\* A new proposal takes the next id.
LEMMA PropsAdd ==
  ASSUME NEW f, NEW req, NEW t \in Nat, NEW n \in Nat, Props(f, req, t, n),
         NEW x, x \notin DOMAIN f, NEW p, Stands(p, t, n + 1), p.id = n
  PROVE  Props(Put(f, x, p), req \cup {<<a, n>> : a \in AccountsOf(p)}, t, n + 1)
<1> DEFINE g == Put(f, x, p)
           more == {<<a, n>> : a \in AccountsOf(p)}
<1>1. DOMAIN g = DOMAIN f \cup {x} /\ g[x] = p /\ \A y \in DOMAIN f : g[y] = f[y]
  BY DEF Put
<1>2. AccountsOf(p) \subseteq Account /\ more \subseteq Account \X Nat
  BY DEF Stands, Proposal, Need, AccountsOf
<1>3. \A y \in DOMAIN f : f[y].id \in Nat /\ f[y].id < n
  BY DEF Props, Stands, Proposal
<1>4. \A y \in DOMAIN f : Stands(f[y], t, n + 1)
  BY <1>3 DEF Props, Stands
<1>5. \A r \in req : r[2] # n
  BY <1>3 DEF Props
<1>6. IsFiniteSet(DOMAIN g)
  BY <1>1, FS_AddElement DEF Props
<1> HIDE DEF g
<1>7. \A y \in DOMAIN g : Stands(g[y], t, n + 1)
  BY <1>1, <1>4
<1>8. \A y, z \in DOMAIN g : g[y].id = g[z].id => y = z
  BY <1>1, <1>3 DEF Props
<1>9. ASSUME NEW y \in DOMAIN g, NEW a \in Account
      PROVE  <<a, g[y].id>> \in req \cup more <=> a \in AccountsOf(g[y])
  <2>1. CASE y = x
    <3>1. <<a, n>> \notin req
      BY <1>5
    <3>2. <<a, n>> \in more <=> a \in AccountsOf(p)
      OBVIOUS
    <3> QED BY <1>1, <2>1, <3>1, <3>2
  <2>2. CASE y # x
    <3>1. y \in DOMAIN f /\ g[y] = f[y] /\ f[y].id # n
      BY <1>1, <1>3, <2>2
    <3>2. <<a, f[y].id>> \notin more
      BY <3>1
    <3> QED BY <3>1, <3>2 DEF Props
  <2> QED BY <2>1, <2>2
<1>10. \A r \in req \cup more : \E y \in DOMAIN g : g[y].id = r[2]
  BY <1>1 DEF Props
<1>11. req \cup more \subseteq Account \X Nat
  BY <1>2 DEF Props
<1> QED BY <1>6, <1>7, <1>8, <1>9, <1>10, <1>11 DEF Props, g

\* Proposals that are removed take their required approvals along, and those
\* of no other proposal.
LEMMA PropsRemove ==
  ASSUME NEW f, NEW req, NEW t \in Nat, NEW n \in Nat, Props(f, req, t, n),
         NEW S, S \subseteq DOMAIN f, NEW s \in Nat, t <= s, \A x \in S : f[x].expires > s
  PROVE  Props(Restrict(f, S), req \ UNION {RequiredOf(f[x]) : x \in DOMAIN f \ S}, s, n)
<1> DEFINE g == Restrict(f, S)
           gone == UNION {RequiredOf(f[x]) : x \in DOMAIN f \ S}
<1>1. DOMAIN g = S /\ \A x \in S : g[x] = f[x]
  BY DEF Restrict
<1>2. \A x \in S : Stands(f[x], s, n)
  BY InputAssumption DEF Props, Stands
<1>3. IsFiniteSet(S)
  BY FS_Subset DEF Props
<1>4. \A r : r \in gone <=> \E x \in DOMAIN f \ S : \E a \in AccountsOf(f[x]) : r = <<a, f[x].id>>
  BY DEF RequiredOf, AccountsOf
<1> HIDE DEF g, gone
<1>5. \A x, y \in DOMAIN g : g[x].id = g[y].id => x = y
  BY <1>1 DEF Props
<1>6. ASSUME NEW x \in DOMAIN g, NEW a \in Account
      PROVE  <<a, g[x].id>> \in req \ gone <=> a \in AccountsOf(g[x])
  <2>1. x \in DOMAIN f /\ x \in S /\ g[x] = f[x]
    BY <1>1
  <2>2. <<a, f[x].id>> \notin gone
    <3> SUFFICES ASSUME NEW y \in DOMAIN f \ S, NEW b \in AccountsOf(f[y]), <<a, f[x].id>> = <<b, f[y].id>>
                 PROVE  FALSE
      BY <1>4
    <3>1. f[x].id = f[y].id
      OBVIOUS
    <3>2. x = y
      BY <2>1, <3>1 DEF Props
    <3> QED BY <2>1, <3>2
  <2>3. <<a, f[x].id>> \in req <=> a \in AccountsOf(f[x])
    BY <2>1 DEF Props
  <2> QED BY <2>1, <2>2, <2>3
<1>7. ASSUME NEW r \in req \ gone PROVE \E x \in DOMAIN g : g[x].id = r[2]
  <2>1. PICK x \in DOMAIN f : f[x].id = r[2]
    BY DEF Props
  <2>2. r \in Account \X Nat /\ r = <<r[1], f[x].id>> /\ r[1] \in Account
    BY <2>1 DEF Props
  <2>3. r[1] \in AccountsOf(f[x])
    BY <2>2 DEF Props
  <2>4. x \in S
    BY <1>4, <2>2, <2>3
  <2> QED BY <1>1, <2>1, <2>4
<1> QED BY <1>1, <1>2, <1>3, <1>5, <1>6, <1>7 DEF Props, g, gone

\* A proposal is removed with its required approvals.
LEMMA PropsRemoveOne ==
  ASSUME NEW f, NEW req, NEW t \in Nat, NEW n \in Nat, Props(f, req, t, n), NEW x \in DOMAIN f
  PROVE  Props(Without(f, x), req \ RequiredOf(f[x]), t, n)
<1>1. DOMAIN f \ {x} \subseteq DOMAIN f /\ DOMAIN f \ (DOMAIN f \ {x}) = {x}
  OBVIOUS
<1>2. \A y \in DOMAIN f \ {x} : f[y].expires > t
  BY DEF Props, Stands
<1>3. UNION {RequiredOf(f[y]) : y \in {x}} = RequiredOf(f[x])
  OBVIOUS
<1>4. Props(Restrict(f, DOMAIN f \ {x}), req \ UNION {RequiredOf(f[y]) : y \in {x}}, t, n)
  <2>1. t <= t
    OBVIOUS
  <2>2. Props(Restrict(f, DOMAIN f \ {x}), req \ UNION {RequiredOf(f[y]) : y \in DOMAIN f \ (DOMAIN f \ {x})}, t, n)
    BY <1>1, <1>2, <2>1, PropsRemove
  <2> QED BY <1>1, <2>2
<1> QED BY <1>3, <1>4 DEF Without

\* New approvals change nothing else of a proposal.
LEMMA PropsUpdate ==
  ASSUME NEW f, NEW req, NEW t \in Nat, NEW n \in Nat, Props(f, req, t, n),
         NEW x \in DOMAIN f, NEW by \in Approvals
  PROVE  Props([f EXCEPT ![x] = [f[x] EXCEPT !.by = by]], req, t, n)
<1> DEFINE p == [f[x] EXCEPT !.by = by]
           g == [f EXCEPT ![x] = p]
<1>1. DOMAIN g = DOMAIN f /\ g[x] = p /\ \A y \in DOMAIN f : y # x => g[y] = f[y]
  OBVIOUS
<1>2. Stands(f[x], t, n) /\ f[x] \in Proposal
  BY DEF Props, Stands
<1>3. /\ p \in Proposal /\ p.id = f[x].id /\ p.need = f[x].need /\ p.expires = f[x].expires
      /\ p.review = f[x].review
  BY <1>2 DEF Proposal
<1> HIDE DEF p, g
<1>4. Stands(p, t, n) /\ AccountsOf(p) = AccountsOf(f[x])
  BY <1>2, <1>3 DEF Stands, AccountsOf
<1>5. \A y \in DOMAIN f : Stands(g[y], t, n) /\ g[y].id = f[y].id /\ AccountsOf(g[y]) = AccountsOf(f[y])
  BY <1>1, <1>3, <1>4 DEF Props
<1> QED BY <1>1, <1>5 DEF Props, g, p

-----------------------------------------------------------------------------
(* The actions                                                             *)

\* WholeIsInv after a step.
LEMMA WholeIsInvNext == Whole(db, prop, required, now, serial)' => IndInv'
<1> SUFFICES ASSUME Whole(db, prop, required, now, serial)' PROVE IndInv'
  OBVIOUS
<1>1. \A x \in DOMAIN prop' : prop'[x] \in Proposal /\ prop'[x].need \in Need
  BY DEF Whole, Props, Stands, Proposal
<1>2. RequiredMatches'
  BY <1>1, PartsOfNeed DEF Whole, Props, RequiredMatches
<1>3. NothingOverdue'
  BY DEF Whole, Props, Stands, Current, NothingOverdue
<1>4. \A a \in Account : /\ db'.partner[a] \in Account
                         /\ \A role \in DOMAIN db'.auth[a] : db'.auth[a][role] \in Authority
  BY DEF Whole, Kept, IsDatabase, Auths
<1>5. TypeOK'
  BY <1>1, <1>4 DEF Whole, Props, Stands, Proposal, Approvals, TypeOK
<1> QED BY <1>1, <1>2, <1>3, <1>5 DEF Whole, Props, IndInv, ProposalsInv, NothingLeftBehind, Kept

\* The start.
LEMMA InitInv == Init => IndInv
<1> SUFFICES ASSUME Init PROVE Whole(db, prop, required, now, serial)
  BY WholeIsInv
<1>1. Kept(db, now) /\ Current(db, now)
  BY StartAssumption DEF Init, Kept, Current, Outlives
<1>2. DOMAIN prop = {}
  BY DEF Init
<1>3. Props(prop, required, now, serial)
  BY <1>2, FS_EmptySet DEF Init, Props
<1> QED BY <1>1, <1>3 DEF Init, Whole

\* An operation is executed.
LEMMA ExecuteInv ==
  ASSUME IndInv, NEW o \in Ops, Execute(o)
  PROVE  IndInv'
<1>1. Whole(db, prop, required, now, serial) /\ o \in OpSet
  BY WholeIsInv, InputAssumption
<1>2. KeptIn(db, Applied(db, o, now), now)
  BY <1>1, AppliedKeeps DEF Whole
<1>3. db' = Applied(db, o, now) /\ now' = now /\ UNCHANGED <<prop, required, serial>>
  BY DEF Execute, Operation
<1>4. Whole(db, prop, required, now, serial)'
  BY <1>1, <1>2, <1>3 DEF Whole, KeptIn
<1> QED BY <1>4, WholeIsInvNext

\* proposal_create_evaluator.
LEMMA ProposalCreateInv ==
  ASSUME IndInv, NEW d \in Drafts, ProposalCreate(d)
  PROVE  IndInv'
<1> DEFINE all == NeedOfAll(d.ops)
           need == [all EXCEPT !.active = @ \ all.owner]
           p == [id |-> serial, author |-> d.author, ops |-> d.ops, need |-> need, by |-> NoApprovals,
                 expires |-> now + d.life, review |-> IF d.review = 0 THEN 0 ELSE now + d.review]
<1>1. Whole(db, prop, required, now, serial)
  BY WholeIsInv
<1>2. d.author \in Account /\ d.ops \in Seq(OpSet) /\ d.life \in Int /\ d.review \in Int
  BY InputAssumption
<1>3. all \in Need
  BY <1>2, NeedOfAllType
<1>4. need \in Need
  <2> HIDE DEF all
  <2> QED BY <1>3 DEF Need
<1>5. /\ d.title \notin DOMAIN prop /\ TimesAllowed(d)
      /\ prop' = Put(prop, d.title, p)
      /\ required' = required \cup {<<a, serial>> : a \in need.active \cup need.owner \cup need.posting}
      /\ serial' = serial + 1 /\ db' = db /\ now' = now
  BY DEF ProposalCreate, Operation
<1> HIDE DEF need
<1>6. now \in Nat /\ serial \in Nat
  BY <1>1 DEF Whole
<1>7. p.need = need /\ p.id = serial /\ AccountsOf(p) = need.active \cup need.owner \cup need.posting
  BY DEF AccountsOf
<1>8. Stands(p, now, serial + 1)
  <2>1. NoApprovals \in Approvals
    BY DEF NoApprovals, Approvals
  <2>2. /\ now + d.life \in 1..(now + MaxLifetime) /\ now + d.life > now
        /\ (IF d.review = 0 THEN 0 ELSE now + d.review) \in Int
        /\ (IF d.review = 0 THEN 0 ELSE now + d.review) < now + d.life
    BY <1>2, <1>5, <1>6, InputAssumption DEF TimesAllowed
  <2>3. p \in Proposal
    BY <1>2, <1>4, <1>6, <2>1, <2>2 DEF Proposal
  <2> QED BY <1>6, <2>2, <2>3 DEF Stands
<1> HIDE DEF p
<1>9. Props(prop, required, now, serial)'
  <2>1. Props(Put(prop, d.title, p), required \cup {<<a, serial>> : a \in AccountsOf(p)}, now, serial + 1)
    BY <1>1, <1>5, <1>6, <1>7, <1>8, PropsAdd DEF Whole
  <2> QED BY <1>5, <1>7, <2>1
<1>10. Whole(db, prop, required, now, serial)'
  BY <1>1, <1>5, <1>6, <1>9 DEF Whole
<1> QED BY <1>10, WholeIsInvNext

\* proposal_update_evaluator.
LEMMA ProposalUpdateInv ==
  ASSUME IndInv, NEW u \in Changes, ProposalUpdate(u)
  PROVE  IndInv'
<1> DEFINE old == prop[u.title]
           by == [part \in Parts |-> (old.by[part] \cup u.add[part]) \ u.remove[part]]
           p == [old EXCEPT !.by = by]
           r == ApplyAll(db, p.ops, now)
           keep == prop' = [prop EXCEPT ![u.title] = p] /\ UNCHANGED required
<1>1. Whole(db, prop, required, now, serial) /\ u.add \in Approvals /\ u.remove \in Approvals
  BY WholeIsInv, InputAssumption
<1>2. /\ u.title \in DOMAIN prop /\ now' = now /\ serial' = serial
      /\ \/ (Removed(u.title) \/ keep) /\ db' = db
         \/ r.ok /\ db' = r.db /\ Removed(u.title)
  BY DEF ProposalUpdate, Operation
<1>3. /\ now \in Nat /\ serial \in Nat /\ Props(prop, required, now, serial) /\ old \in Proposal
      /\ Kept(db, now) /\ Current(db, now)
  BY <1>1, <1>2 DEF Whole, Props, Stands
<1>4. by \in Approvals
  <2>1. old.by \in Approvals
    BY <1>3 DEF Proposal
  <2> HIDE DEF old
  <2>2. Parts = {"active", "owner", "posting", "keys"}
    BY DEF Parts, NoApprovals
  <2> QED BY <1>1, <2>1, <2>2 DEF Approvals
<1>5. p.ops \in Seq(OpSet)
  <2> HIDE DEF old, by
  <2> QED BY <1>3 DEF Proposal
<1> HIDE DEF by
<1>6. keep => Props(prop, required, now, serial)'
  <2>1. Props([prop EXCEPT ![u.title] = p], required, now, serial)
    BY <1>2, <1>3, <1>4, PropsUpdate
  <2> QED BY <1>2, <2>1
<1>7. Removed(u.title) => Props(prop, required, now, serial)'
  <2>1. Props(Without(prop, u.title), required \ RequiredOf(prop[u.title]), now, serial)
    BY <1>2, <1>3, PropsRemoveOne
  <2> QED BY <1>2, <2>1 DEF Removed
<1>8. Kept(db', now') /\ Current(db', now')
  <2> HIDE DEF p, keep
  <2>1. r.ok => KeptIn(db, r.db, now)
    BY <1>3, <1>5, ApplyAllKeeps
  <2> HIDE DEF r
  <2> QED BY <1>2, <1>3, <2>1 DEF KeptIn
<1>9. Whole(db, prop, required, now, serial)'
  <2> HIDE DEF p, keep, r
  <2> QED BY <1>2, <1>3, <1>6, <1>7, <1>8 DEF Whole
<1> QED BY <1>9, WholeIsInvNext

\* proposal_delete_evaluator.
LEMMA ProposalDeleteInv ==
  ASSUME IndInv, NEW title \in DOMAIN prop, NEW a \in Account, ProposalDelete(title, a)
  PROVE  IndInv'
<1>1. Whole(db, prop, required, now, serial)
  BY WholeIsInv
<1>2. now' = now /\ serial' = serial /\ db' = db /\ Removed(title)
  BY DEF ProposalDelete, Operation
<1>3. Props(Without(prop, title), required \ RequiredOf(prop[title]), now, serial)
  BY <1>1, PropsRemoveOne DEF Whole
<1>4. Whole(db, prop, required, now, serial)'
  BY <1>1, <1>2, <1>3 DEF Whole, Removed
<1> QED BY <1>4, WholeIsInvNext

\* The order in which proposals are cleared is a sequence of proposals.
LEMMA OrderType ==
  ASSUME IndInv, NEW t, NEW order \in InOrder(t)
  PROVE  order \in Seq({prop[x] : x \in Due(t)})
<1> DEFINE S == {prop[x] : x \in Due(t)}
           D == Due(t)
<1>1. IsFiniteSet(D)
  BY FS_Subset DEF IndInv, ProposalsInv, Due
<1>2. IsFiniteSet(S)
  <2> DEFINE f == [x \in D |-> prop[x]]
  <2>1. f \in Surjection(D, S)
    BY DEF Surjection
  <2> HIDE DEF f, S, D
  <2> QED BY <1>1, <2>1, FS_Surjection DEF ExistsSurjection
<1>3. order \in SetToSeqs(S)
  BY DEF InOrder
<1> HIDE DEF S
<1>4. Cardinality(S) \in Nat /\ order \in [1..Cardinality(S) -> S]
  BY <1>2, <1>3, FS_CardinalityType DEF SetToSeqs
<1>5. order \in Seq(S)
  <2>1. \A n \in Nat : [1..n -> S] \subseteq Seq(S)
    OBVIOUS
  <2> QED BY <1>4, <2>1
<1> QED BY <1>5 DEF S

\* A block ends.
LEMMA BlockInv ==
  ASSUME IndInv, Block
  PROVE  IndInv'
<1> DEFINE t == now + 1
           S == {prop[x] : x \in Due(t)}
<1>1. Whole(db, prop, required, now, serial)
  BY WholeIsInv
<1>2. PICK order \in InOrder(t) :
        /\ now' = t /\ db' = RecoveryProcessing(ClearExpired(order, t).db, t)
        /\ prop' = Restrict(prop, DOMAIN prop \ Due(t))
        /\ required' = required \ UNION {RequiredOf(prop[x]) : x \in Due(t)}
        /\ serial' = serial
  BY DEF Block
<1>3. /\ now \in Nat /\ serial \in Nat /\ t \in Nat /\ now <= t
      /\ Props(prop, required, now, serial) /\ Kept(db, now)
  BY <1>1 DEF Whole
<1>4. Kept(db, t)
  <2>1. \A a \in DOMAIN db.change : db.change[a].at \in Int
    BY <1>3 DEF Kept, IsDatabase, IsByAccount, Change
  <2>2. Outlives(db, t)
    BY <1>3, <2>1, PeriodFacts DEF Kept, Outlives
  <2> QED BY <1>3, <2>2 DEF Kept
<1>5. Due(t) \subseteq DOMAIN prop /\ \A x \in DOMAIN prop : prop[x] \in Proposal
  BY <1>3 DEF Due, Props, Stands
<1>6. \A x \in DOMAIN prop \ Due(t) : prop[x].expires > t
  <2>1. \A x \in DOMAIN prop : prop[x].expires \in Int
    BY <1>5 DEF Proposal
  <2> QED BY <1>3, <2>1 DEF Due
<1> HIDE DEF t
<1>7. Kept(ClearExpired(order, t).db, t)
  <2>1. \A p \in S : p.ops \in Seq(OpSet)
    BY <1>5 DEF Proposal
  <2>2. order \in Seq(S)
    BY OrderType
  <2> HIDE DEF S
  <2> QED BY <1>3, <1>4, <2>1, <2>2, ClearExpiredKeeps
<1>8. Kept(db', now') /\ Current(db', now')
  BY <1>2, <1>3, <1>7, RecoveryProcessingKeeps
<1>9. Props(prop, required, now, serial)'
  <2>1. DOMAIN prop \ Due(t) \subseteq DOMAIN prop /\ DOMAIN prop \ (DOMAIN prop \ Due(t)) = Due(t)
    BY <1>5
  <2>2. Props(Restrict(prop, DOMAIN prop \ Due(t)),
              required \ UNION {RequiredOf(prop[x]) : x \in DOMAIN prop \ (DOMAIN prop \ Due(t))}, t, serial)
    BY <1>3, <1>6, <2>1, PropsRemove
  <2> QED BY <1>2, <2>1, <2>2
<1>10. Whole(db, prop, required, now, serial)'
  BY <1>2, <1>3, <1>8, <1>9 DEF Whole
<1> QED BY <1>10, WholeIsInvNext

\* Every step keeps the invariant.
LEMMA NextInv == IndInv /\ [Next]_vars => IndInv'
<1> SUFFICES ASSUME IndInv, [Next]_vars PROVE IndInv'
  OBVIOUS
<1>1. CASE UNCHANGED vars
  BY <1>1, WholeIsInv, WholeIsInvNext DEF vars, Whole
<1>2. ASSUME NEW o \in Ops, Execute(o) PROVE IndInv'
  BY <1>2, ExecuteInv
<1>3. ASSUME NEW d \in Drafts, ProposalCreate(d) PROVE IndInv'
  BY <1>3, ProposalCreateInv
<1>4. ASSUME NEW u \in Changes, ProposalUpdate(u) PROVE IndInv'
  BY <1>4, ProposalUpdateInv
<1>5. ASSUME NEW title \in DOMAIN prop, NEW a \in Account, ProposalDelete(title, a) PROVE IndInv'
  BY <1>5, ProposalDeleteInv
<1>6. CASE Block
  BY <1>6, BlockInv
<1> QED BY <1>1, <1>2, <1>3, <1>4, <1>5, <1>6 DEF Next

-----------------------------------------------------------------------------
(* The theorems                                                            *)

\* The inductive invariant holds in every reachable state.
THEOREM IndInvHolds == Spec => []IndInv
BY InitInv, NextInv, PTL DEF Spec

\* As long as a change of the recovery account waits, the authority that
\* owned the account when change_recovery_account was applied can still take
\* the account back: remove_expired_owner_history never drops it too early,
\* whatever operations, proposals and recoveries come in between.
THEOREM RecoverableUntilChangedHolds == Spec => []RecoverableUntilChanged
<1>1. IndInv => RecoverableUntilChanged
  BY DEF IndInv, Outlives, RecoverableUntilChanged
<1> QED BY <1>1, IndInvHolds, PTL

\* Between blocks no proposal, recovery request, change of the recovery
\* account or owner history is overdue, and the required_approval_objects are
\* those of the proposals that stand, however proposals are made, approved,
\* executed, deleted and cleared.
THEOREM NothingLeftBehindHolds == Spec => []NothingLeftBehind
<1>1. IndInv => NothingLeftBehind
  BY DEF IndInv
<1> QED BY <1>1, IndInvHolds, PTL
=============================================================================
