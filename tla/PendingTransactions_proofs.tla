--------------------- MODULE PendingTransactions_proofs ---------------------
(***************************************************************************)
(* Proofs about PendingTransactions, for every set of transactions and     *)
(* foreign blocks and every order of the steps of the two threads.         *)
(***************************************************************************)
EXTENDS PendingTransactions, TLAPS

-----------------------------------------------------------------------------
(* The loops over transactions and blocks are folds                        *)

ApplyStep(c, r, t) ==
    [ok |-> r.ok /\ CanApply(r.s, t, FALSE), s |-> ApplyTransaction(r.s, t)]
PushStep(c, r, t) ==
    IF t \in r.s.known THEN r
    ELSE IF ~CanApply(r.s, t, FALSE) THEN [r EXCEPT !.started = TRUE]
    ELSE [s |-> ApplyTransaction(r.s, t), txs |-> Append(r.txs, t), started |-> TRUE]
ChainStep(c, ts, h) == ts \o h.txs
SelectStep(when, r, t) ==
    IF \/ Expiration[t] < when
       \/ r.size + Size[t] >= MaxSize
       \/ ~CanApply(r.s, t, FALSE)
    THEN r
    ELSE [s |-> ApplyTransaction(r.s, t), txs |-> Append(r.txs, t), size |-> r.size + Size[t]]

A == INSTANCE FoldFacts WITH op <- ApplyStep
P == INSTANCE FoldFacts WITH op <- PushStep
C == INSTANCE FoldFacts WITH op <- ChainStep
G == INSTANCE FoldFacts WITH op <- SelectStep

\* The transactions of a block are applied one after the other.
LEMMA ApplyAllIsFold ==
  ASSUME NEW s, NEW ts
  PROVE  ApplyAll(s, ts) = A!Fold(0, [ok |-> TRUE, s |-> s], ts)
BY DEF ApplyAll, A!Fold, ApplyStep, FoldLeft, MapThenFoldSet, Max, A!FoldLeft,
       A!MapThenFoldSet, A!Max

\* The transactions of _popped_tx and of the pending ones are pushed again one after the other.
LEMMA PushAllIsFold ==
  ASSUME NEW s, NEW ts
  PROVE  PushAll(s, ts) = P!Fold(0, [s |-> s, txs |-> << >>, started |-> FALSE], ts)
BY DEF PushAll, P!Fold, PushStep, FoldLeft, MapThenFoldSet, Max, P!FoldLeft,
       P!MapThenFoldSet, P!Max

\* What a chain holds is gathered block by block.
LEMMA OnChainIsFold ==
  ASSUME NEW b
  PROVE  OnChain(b) = C!Fold(0, << >>, b)
BY DEF OnChain, C!Fold, ChainStep, FoldLeft, MapThenFoldSet, Max, C!FoldLeft,
       C!MapThenFoldSet, C!Max

\* What generate_block selects is a fold, too.
LEMMA SelectedIsFold ==
  ASSUME NEW s
  PROVE  Selected(s) = G!Fold(gen.when, [s |-> s, txs |-> << >>, size |-> HeaderRoom], pending)
BY DEF Selected, G!Fold, SelectStep, FoldLeft, MapThenFoldSet, Max, G!FoldLeft,
       G!MapThenFoldSet, G!Max

\* The transactions on a chain and on the chain with one block more.
LEMMA OnChainType ==
  ASSUME NEW b \in Seq(Header)
  PROVE  OnChain(b) \in Seq(Tx)
<1>1. \A ts \in Seq(Tx), h \in Header : ChainStep(0, ts, h) \in Seq(Tx)
  BY DEF ChainStep, Header
<1>2. << >> \in Seq(Tx)
  OBVIOUS
<1> QED BY <1>1, <1>2, C!FoldKeeps, OnChainIsFold

\* A longer chain holds the transactions of one more block.
LEMMA OnChainAppend ==
  ASSUME NEW b \in Seq(Header), NEW h \in Header
  PROVE  OnChain(Append(b, h)) = OnChain(b) \o h.txs
<1>1. C!Fold(0, << >>, Append(b, h)) = ChainStep(0, C!Fold(0, << >>, b), h)
  BY C!FoldAppend
<1> QED BY <1>1, OnChainIsFold DEF ChainStep

-----------------------------------------------------------------------------
(* Transactions                                                            *)

\* The numbers of a transaction.
LEMMA TxNumbers ==
  ASSUME NEW t \in Tx
  PROVE  Expiration[t] \in Nat /\ Size[t] \in Nat
  BY TxAssumption

\* _apply_transaction keeps the type of a state.
LEMMA ApplyTransactionType ==
  ASSUME NEW s \in State, NEW t \in Tx
  PROVE  /\ ApplyTransaction(s, t) \in State
         /\ ApplyTransaction(s, t).head = s.head
         /\ ApplyTransaction(s, t).known = s.known \cup {t}
  BY DEF ApplyTransaction, State

Applied == [ok : BOOLEAN, s : State]

\* What holds of apply_transaction for the first k transactions of ts, from s.
ApplyGood(s, ts, k, r) ==
    /\ r \in Applied
    /\ r.s.head = s.head
    /\ \A i \in 1..k : ts[i] \in r.s.known
    /\ s.known \subseteq r.s.known
    /\ r.ok => /\ \A i, j \in 1..k : i # j => ts[i] # ts[j]
               /\ \A i \in 1..k : ts[i] \notin s.known /\ Valid(s, ts[i], FALSE)

\* One more transaction is applied, or nothing is.
LEMMA ApplyGoodStep ==
  ASSUME NEW s \in State, NEW ts \in Seq(Tx), NEW k \in 1..Len(ts), NEW r,
         ApplyGood(s, ts, k - 1, r)
  PROVE  ApplyGood(s, ts, k, ApplyStep(0, r, ts[k]))
<1> DEFINE q == ApplyStep(0, r, ts[k])
<1>1. r \in Applied /\ r.s \in State /\ ts[k] \in Tx /\ k \in Nat
  BY DEF ApplyGood, Applied
<1>2. q.s = ApplyTransaction(r.s, ts[k])
  BY DEF ApplyStep
<1>3. q \in Applied
  <2>1. (r.ok /\ CanApply(r.s, ts[k], FALSE)) \in BOOLEAN
    OBVIOUS
  <2>2. ApplyTransaction(r.s, ts[k]) \in State
    BY <1>1, ApplyTransactionType
  <2> QED BY <2>1, <2>2 DEF ApplyStep, Applied
<1>4. q.s.head = s.head /\ q.s.known = r.s.known \cup {ts[k]}
  <2>1. r.s.head = s.head
    BY DEF ApplyGood
  <2> HIDE DEF q
  <2>2. q.s.head = r.s.head
    BY <1>1, <1>2, ApplyTransactionType
  <2>3. q.s.known = r.s.known \cup {ts[k]}
    BY <1>1, <1>2, ApplyTransactionType
  <2> QED BY <2>1, <2>2, <2>3
<1>5. \A i \in 1..k : i = k \/ i \in 1..(k - 1)
  BY <1>1
<1>6. \A i \in 1..k : ts[i] \in q.s.known
  BY <1>4, <1>5 DEF ApplyGood
<1>7. ASSUME q.ok
      PROVE  /\ \A i, j \in 1..k : i # j => ts[i] # ts[j]
             /\ \A i \in 1..k : ts[i] \notin s.known /\ Valid(s, ts[i], FALSE)
  <2>1. r.ok /\ ts[k] \notin r.s.known /\ Valid(r.s, ts[k], FALSE)
    BY <1>7 DEF CanApply, ApplyStep
  <2>2. Valid(s, ts[k], FALSE)
    BY <2>1 DEF Valid, ApplyGood
  <2>3. ts[k] \notin s.known /\ \A i \in 1..(k - 1) : ts[i] # ts[k]
    BY <2>1 DEF ApplyGood
  <2> HIDE DEF q
  <2>4. \A i, j \in 1..(k - 1) : i # j => ts[i] # ts[j]
    BY <2>1 DEF ApplyGood
  <2>5. \A i \in 1..(k - 1) : ts[i] \notin s.known /\ Valid(s, ts[i], FALSE)
    BY <2>1 DEF ApplyGood
  <2>6. \A i, j \in 1..k : i # j => ts[i] # ts[j]
    BY <1>5, <2>3, <2>4
  <2> QED BY <1>5, <2>2, <2>3, <2>5, <2>6
<1> HIDE DEF q
<1>8. s.known \subseteq q.s.known
  BY <1>4 DEF ApplyGood
<1> QED BY <1>3, <1>4, <1>6, <1>7, <1>8 DEF ApplyGood, q

\* If all transactions of a block apply, they are different ones, and none
\* was known or had expired before.
LEMMA ApplyAllFacts ==
  ASSUME NEW s \in State, NEW ts \in Seq(Tx)
  PROVE  ApplyGood(s, ts, Len(ts), ApplyAll(s, ts))
<1> DEFINE base == [ok |-> TRUE, s |-> s]
           B == [k \in 0..Len(ts) |-> {r \in Applied : ApplyGood(s, ts, k, r)}]
<1>1. base \in B[0]
  <2>1. base \in Applied
    BY DEF Applied
  <2>2. ApplyGood(s, ts, 0, base)
    BY <2>1 DEF ApplyGood
  <2>3. 0 \in 0..Len(ts)
    OBVIOUS
  <2> QED BY <2>1, <2>2, <2>3
<1>2. ASSUME NEW k \in 1..Len(ts), NEW r \in B[k - 1] PROVE ApplyStep(0, r, ts[k]) \in B[k]
  <2>1. k - 1 \in 0..Len(ts) /\ k \in 0..Len(ts)
    OBVIOUS
  <2>2. ApplyGood(s, ts, k, ApplyStep(0, r, ts[k]))
    BY <2>1, ApplyGoodStep
  <2>3. ApplyStep(0, r, ts[k]) \in Applied
    BY <2>2 DEF ApplyGood
  <2> QED BY <2>1, <2>2, <2>3
<1>3. A!Fold(0, base, ts) \in B[Len(ts)]
  <2> HIDE DEF B, base
  <2> QED BY <1>1, <1>2, A!FoldAlong
<1>4. Len(ts) \in 0..Len(ts)
  OBVIOUS
<1> QED BY <1>3, <1>4, ApplyAllIsFold

Pushed == [s : State, txs : Seq(Tx), started : BOOLEAN]
NothingPushed(s) == [s |-> s, txs |-> << >>, started |-> FALSE]

\* What holds of _push_transaction for some transactions, from s: the ones
\* that were accepted lead to the same state when they are pushed again.
PushGood(s, r) ==
    /\ r \in Pushed
    /\ r.s.head = s.head
    /\ s.known \subseteq r.s.known
    /\ ~r.started => r.s = s /\ r.txs = << >>
    /\ P!Fold(0, NothingPushed(s), r.txs).s = r.s
    /\ P!Fold(0, NothingPushed(s), r.txs).txs = r.txs

\* One more transaction is pushed again: the types.
LEMMA PushStepType ==
  ASSUME NEW r \in Pushed, NEW t \in Tx
  PROVE  /\ PushStep(0, r, t) \in Pushed
         /\ PushStep(0, r, t).s.head = r.s.head
         /\ r.s.known \subseteq PushStep(0, r, t).s.known
<1>1. ApplyTransaction(r.s, t) \in State /\ Append(r.txs, t) \in Seq(Tx)
  BY ApplyTransactionType DEF Pushed
<1> QED BY <1>1, ApplyTransactionType DEF PushStep, Pushed

\* One more transaction is pushed again: what is pending is applied.
LEMMA PushGoodStep ==
  ASSUME NEW s \in State, NEW r, PushGood(s, r), NEW t \in Tx
  PROVE  PushGood(s, PushStep(0, r, t))
<1> DEFINE q == PushStep(0, r, t)
           again(x) == P!Fold(0, NothingPushed(s), x)
<1>1. r \in Pushed /\ r.txs \in Seq(Tx)
  BY DEF PushGood, Pushed
<1>2. q \in Pushed /\ q.s.head = s.head /\ s.known \subseteq q.s.known
  BY <1>1, PushStepType DEF PushGood
<1>3. CASE t \in r.s.known
  BY <1>3 DEF PushStep
<1>4. CASE t \notin r.s.known /\ ~CanApply(r.s, t, FALSE)
  <2>1. q.s = r.s /\ q.txs = r.txs /\ q.started
    BY <1>1, <1>4 DEF PushStep, Pushed
  <2> HIDE DEF q
  <2>2. again(q.txs).s = q.s /\ again(q.txs).txs = q.txs
    BY <2>1 DEF PushGood
  <2> QED BY <1>2, <2>1, <2>2 DEF PushGood, q
<1>5. CASE t \notin r.s.known /\ CanApply(r.s, t, FALSE)
  <2>1. q.s = ApplyTransaction(r.s, t) /\ q.txs = Append(r.txs, t) /\ q.started
    BY <1>5 DEF PushStep
  <2>2. again(Append(r.txs, t)) = PushStep(0, again(r.txs), t)
    BY <1>1, P!FoldAppend
  <2>3. again(r.txs).s = r.s /\ again(r.txs).txs = r.txs
    BY DEF PushGood
  <2> HIDE DEF again
  <2>4. /\ PushStep(0, again(r.txs), t).s = ApplyTransaction(r.s, t)
        /\ PushStep(0, again(r.txs), t).txs = Append(r.txs, t)
    BY <1>5, <2>3 DEF PushStep
  <2> HIDE DEF q
  <2>5. again(q.txs).s = q.s /\ again(q.txs).txs = q.txs
    BY <2>1, <2>2, <2>4
  <2> QED BY <1>2, <2>1, <2>5 DEF PushGood, q, again
<1> QED BY <1>3, <1>4, <1>5

\* What the restorer and push_transaction keep.
LEMMA PushAllFacts ==
  ASSUME NEW s \in State, NEW ts \in Seq(Tx)
  PROVE  PushGood(s, PushAll(s, ts))
<1> DEFINE Good == {r \in Pushed : PushGood(s, r)}
<1>1. NothingPushed(s) \in Good
  <2>1. NothingPushed(s) \in Pushed
    BY DEF NothingPushed, Pushed
  <2>2. P!Fold(0, NothingPushed(s), << >>) = NothingPushed(s)
    BY P!FoldEmpty
  <2>3. /\ NothingPushed(s).s = s /\ NothingPushed(s).txs = << >>
        /\ NothingPushed(s).started = FALSE
    BY DEF NothingPushed
  <2> QED BY <2>1, <2>2, <2>3 DEF PushGood
<1>2. \A r \in Good, t \in Tx : PushStep(0, r, t) \in Good
  BY PushGoodStep DEF PushGood
<1>3. P!Fold(0, NothingPushed(s), ts) \in Good
  <2> HIDE DEF Good
  <2> QED BY <1>1, <1>2, P!FoldKeeps
<1> QED BY <1>3, PushAllIsFold DEF NothingPushed

-----------------------------------------------------------------------------
(* States and the undo stack                                               *)

\* The first n elements of a sequence.
LEMMA PrefixFacts ==
  ASSUME NEW S, NEW s \in Seq(S), NEW n \in 0..Len(s)
  PROVE  /\ SubSeq(s, 1, n) \in Seq(S)
         /\ Len(SubSeq(s, 1, n)) = n
         /\ \A i \in 1..n : SubSeq(s, 1, n)[i] = s[i]
  OBVIOUS

\* A block that is not empty is its previous block and a header.
LEMMA LastBlock ==
  ASSUME NEW b \in Seq(Header), b # << >>
  PROVE  /\ Len(b) \in Nat \ {0}
         /\ Last(b) \in Header /\ Last(b).txs \in Seq(Tx) /\ Time(b) \in Nat
         /\ Previous(b) \in Seq(Header) /\ Len(Previous(b)) = Len(b) - 1
         /\ b = Append(Previous(b), Last(b))
<1>1. Len(b) \in Nat \ {0} /\ Len(b) \in 1..Len(b)
  OBVIOUS
<1>2. b[Len(b)] \in Header
  BY <1>1
<1>3. /\ Previous(b) \in Seq(Header) /\ Len(Previous(b)) = Len(b) - 1
      /\ \A i \in 1..(Len(b) - 1) : Previous(b)[i] = b[i]
  <2>1. Len(b) - 1 \in 0..Len(b)
    BY <1>1
  <2> QED BY <2>1, PrefixFacts DEF Previous
<1>4. b = Append(Previous(b), Last(b))
  <2>1. \A i \in 1..(Len(b) - 1) : Previous(b)[i] = b[i]
    BY <1>3
  <2>2. b[Len(b)] = Last(b)
    BY DEF Last
  <2> QED BY <1>1, <1>2, <1>3, <2>1, <2>2
<1> QED BY <1>1, <1>2, <1>3, <1>4 DEF Last, Header, Time

\* The empty chain has no previous one that is not empty.
LEMMA BlockOnTop ==
  ASSUME NEW b \in Seq(Header), NEW h \in Seq(Header), h # << >>, Previous(b) = h
  PROVE  b # << >>
  BY DEF Previous

\* Applying a block keeps the duplicate check complete: its transactions are
\* different, were not known, and had not expired, so none of them was on the
\* chain; and what is forgotten has expired.
LEMMA StateAfterFacts ==
  ASSUME NEW s \in State, Covered(s), NEW b \in Seq(Header), Applies(s, b)
  PROVE  StateAfter(s, b) \in State /\ Covered(StateAfter(s, b)) /\ StateAfter(s, b).head = b
<1> DEFINE ts == Last(b).txs
           r == ApplyAll(s, ts)
           q == StateAfter(s, b)
           old == OnChain(s.head)
           n == Len(old)
<1>1. s.head \in Seq(Header) /\ s.head # << >> /\ Previous(b) = s.head /\ Time(s.head) < Time(b)
  BY DEF State, Covered, Applies
<1>2. b # << >>
  BY <1>1, BlockOnTop
<1>3. ts \in Seq(Tx) /\ Time(b) \in Nat /\ Time(s.head) \in Nat /\ b = Append(s.head, Last(b))
  BY <1>1, <1>2, LastBlock
<1>4. old \in Seq(Tx) /\ OnChain(b) = old \o ts
  BY <1>1, <1>2, <1>3, LastBlock, OnChainType, OnChainAppend
<1>5. ApplyGood(s, ts, Len(ts), r) /\ r.ok
  BY <1>3, ApplyAllFacts DEF Applies
<1> HIDE DEF r
<1>6. r.s \in State /\ s.known \subseteq r.s.known /\ \A i \in 1..Len(ts) : ts[i] \in r.s.known
  BY <1>5 DEF ApplyGood, Applied
<1>7. /\ \A i, j \in 1..Len(ts) : i # j => ts[i] # ts[j]
      /\ \A i \in 1..Len(ts) : ts[i] \notin s.known /\ Valid(s, ts[i], FALSE)
  BY <1>5 DEF ApplyGood
<1>8. /\ q.head = b /\ q.known = {t \in r.s.known : Time(b) <= Expiration[t]}
      /\ q.done = r.s.done /\ q \in State
  BY <1>6 DEF StateAfter, Unexpired, State, r
<1> HIDE DEF q
<1>9. \A i \in 1..Len(ts) : Time(s.head) <= Expiration[ts[i]]
  <2> SUFFICES ASSUME NEW i \in 1..Len(ts) PROVE Time(s.head) <= Expiration[ts[i]]
    OBVIOUS
  <2>1. ts[i] \in Tx /\ Expiration[ts[i]] \in Nat
    BY <1>3, TxNumbers
  <2> QED BY <1>3, <1>7, <2>1 DEF Valid
<1>10. \A i \in 1..n, j \in 1..Len(ts) : old[i] # ts[j]
  <2> SUFFICES ASSUME NEW i \in 1..n, NEW j \in 1..Len(ts), old[i] = ts[j] PROVE FALSE
    OBVIOUS
  <2>1. ts[j] \in Tx /\ Expiration[ts[j]] \in Nat
    <3>1. ts[j] \in Tx
      BY <1>3
    <3> QED BY <3>1, TxNumbers
  <2>3. ts[j] \notin s.known
    BY <1>7
  <2>2. old[i] \in s.known \/ Expiration[old[i]] < Time(s.head)
    BY DEF Covered
  <2> QED BY <1>3, <1>9, <2>1, <2>2, <2>3
<1>11. \A i, j \in 1..n : i # j => old[i] # old[j]
  BY DEF Covered
<1>12. \A i \in 1..n : old[i] \in q.known \/ Expiration[old[i]] < Time(b)
  <2> SUFFICES ASSUME NEW i \in 1..n PROVE old[i] \in q.known \/ Expiration[old[i]] < Time(b)
    OBVIOUS
  <2>1. old[i] \in Tx /\ Expiration[old[i]] \in Nat
    BY <1>4, TxNumbers
  <2>2. old[i] \in s.known \/ Expiration[old[i]] < Time(s.head)
    BY DEF Covered
  <2> HIDE DEF old
  <2> QED BY <1>1, <1>3, <1>6, <1>8, <2>1, <2>2
<1>13. \A i \in 1..Len(ts) : ts[i] \in q.known \/ Expiration[ts[i]] < Time(b)
  <2> SUFFICES ASSUME NEW i \in 1..Len(ts) PROVE ts[i] \in q.known \/ Expiration[ts[i]] < Time(b)
    OBVIOUS
  <2>1. ts[i] \in Tx /\ Expiration[ts[i]] \in Nat
    BY <1>3, TxNumbers
  <2> HIDE DEF ts
  <2> QED BY <1>3, <1>6, <1>8, <2>1
<1> DEFINE new == OnChain(b)
<1>14. /\ Len(new) = n + Len(ts) /\ n \in Nat /\ Len(ts) \in Nat
       /\ \A i \in 1..n : new[i] = old[i]
       /\ \A i \in 1..Len(ts) : new[n + i] = ts[i]
  <2> HIDE DEF old, ts
  <2> QED BY <1>3, <1>4
<1> HIDE DEF new, old, ts, n
<1>15. \A i \in 1..Len(new) : i \in 1..n \/ \E j \in 1..Len(ts) : i = n + j
  <2> SUFFICES ASSUME NEW i \in 1..Len(new), i \notin 1..n PROVE \E j \in 1..Len(ts) : i = n + j
    OBVIOUS
  <2>1. i - n \in 1..Len(ts) /\ i = n + (i - n)
    BY <1>14
  <2> QED BY <2>1
<1>16. \A i, j \in 1..Len(new) : i # j => new[i] # new[j]
  <2> SUFFICES ASSUME NEW i \in 1..Len(new), NEW j \in 1..Len(new), i # j PROVE new[i] # new[j]
    OBVIOUS
  <2>1. CASE i \in 1..n /\ j \in 1..n
    BY <1>11, <1>14, <2>1
  <2>2. CASE i \in 1..n /\ j \notin 1..n
    BY <1>10, <1>14, <1>15, <2>2
  <2>3. CASE i \notin 1..n /\ j \in 1..n
    BY <1>10, <1>14, <1>15, <2>3
  <2>4. CASE i \notin 1..n /\ j \notin 1..n
    <3>1. PICK x \in 1..Len(ts) : i = n + x
      BY <1>15, <2>4
    <3>2. PICK y \in 1..Len(ts) : j = n + y
      BY <1>15, <2>4
    <3> QED BY <1>7, <1>14, <3>1, <3>2 DEF ts
  <2> QED BY <2>1, <2>2, <2>3, <2>4
<1>17. \A i \in 1..Len(new) : new[i] \in q.known \/ Expiration[new[i]] < Time(b)
  <2> SUFFICES ASSUME NEW i \in 1..Len(new)
               PROVE  new[i] \in q.known \/ Expiration[new[i]] < Time(b)
    OBVIOUS
  <2>1. CASE i \in 1..n
    BY <1>12, <1>14, <2>1
  <2>2. CASE i \notin 1..n
    <3>1. PICK j \in 1..Len(ts) : i = n + j
      BY <1>15, <2>2
    <3>2. new[i] = ts[j]
      BY <1>14, <3>1
    <3> QED BY <1>13, <3>2
  <2> QED BY <2>1, <2>2
<1> QED BY <1>2, <1>8, <1>16, <1>17 DEF Covered, new, q

\* Accepted transactions only add to what is known.
LEMMA CoveredGrows ==
  ASSUME NEW s, NEW r, Covered(s), r.head = s.head, s.known \subseteq r.known
  PROVE  Covered(r)
  BY DEF Covered

\* A state with the stack of the states it can be undone to.
Stack(s, u) ==
    /\ s \in State /\ Covered(s)
    /\ u \in Seq(State) /\ \A i \in 1..Len(u) : Covered(u[i])

\* A state goes on the undo stack.
LEMMA StackPush ==
  ASSUME NEW s, NEW u, Stack(s, u), NEW x \in State, Covered(x)
  PROVE  Stack(x, Append(u, s)) /\ Append(u, s) # << >> /\ Last(Append(u, s)) = s
<1> DEFINE v == Append(u, s)
<1>1. /\ v \in Seq(State) /\ Len(v) = Len(u) + 1 /\ Len(u) \in Nat /\ v[Len(u) + 1] = s
      /\ \A i \in 1..Len(u) : v[i] = u[i]
  BY DEF Stack
<1> HIDE DEF v
<1>2. \A i \in 1..Len(v) : Covered(v[i])
  <2> SUFFICES ASSUME NEW i \in 1..Len(v) PROVE Covered(v[i])
    OBVIOUS
  <2>1. i \in 1..Len(u) \/ i = Len(u) + 1
    BY <1>1
  <2> QED BY <1>1, <2>1 DEF Stack
<1>3. v # << >> /\ Last(v) = s
  BY <1>1 DEF Last
<1> QED BY <1>1, <1>2, <1>3 DEF Stack, v

\* A state comes from the undo stack.
LEMMA StackPop ==
  ASSUME NEW s, NEW u, Stack(s, u), u # << >>
  PROVE  Stack(Last(u), Front(u))
<1>1. u \in Seq(State) /\ Len(u) \in Nat \ {0} /\ Len(u) \in 1..Len(u)
  BY DEF Stack
<1>2. Last(u) \in State /\ Covered(Last(u))
  BY <1>1 DEF Stack, Last
<1>3. /\ Front(u) \in Seq(State) /\ Len(Front(u)) = Len(u) - 1
      /\ \A i \in 1..(Len(u) - 1) : Front(u)[i] = u[i]
  <2>1. Len(u) - 1 \in 0..Len(u)
    BY <1>1
  <2> QED BY <1>1, <2>1, PrefixFacts DEF Front
<1>4. \A i \in 1..(Len(u) - 1) : i \in 1..Len(u)
  BY <1>1
<1> QED BY <1>1, <1>2, <1>3, <1>4 DEF Stack

\* Closing the session of the pending transactions.
LEMMA CleanFacts ==
  ASSUME IndInv
  PROVE  Stack(st, undo) /\ Stack(Clean, CleanUndo)
<1>1. Stack(st, undo)
  BY DEF IndInv, TypeOK, AllCovered, Stack
<1>2. session => undo # << >>
  BY DEF IndInv, TypeOK
<1> QED BY <1>1, <1>2, StackPop DEF Clean, CleanUndo

-----------------------------------------------------------------------------
(* The fork database                                                       *)

\* The operations of the fork database keep its type.
LEMMA PushBlockType ==
  ASSUME NEW f \in Fork, NEW b \in Seq(Header)
  PROVE  PushBlock(f, b) \in Fork
<1> DEFINE link == f.head # Nil /\ Previous(b) # Nil
           higher == f.head = Nil \/ Num(b) > Num(f.head)
           i == f.index \cup {b}
           l == IF link /\ b \notin f.index THEN f.linked \cup {b} ELSE f.linked
           h == IF higher THEN b ELSE f.head
           q == IF higher THEN link ELSE f.hlinked
<1>1. PushBlock(f, b) = [f EXCEPT !.index = i, !.linked = l, !.head = h, !.hlinked = q]
  BY DEF PushBlock
<1>2. i \in SUBSET Seq(Header) /\ l \in SUBSET Seq(Header) /\ h \in Seq(Header)
  BY DEF Fork
<1>3. q \in BOOLEAN
  BY DEF Fork
<1> HIDE DEF i, l, h, q
<1> QED BY <1>1, <1>2, <1>3 DEF Fork

\* pop_block.
LEMMA PopBlockType ==
  ASSUME NEW f \in Fork, CanPop(f)
  PROVE  PopBlock(f) \in Fork
<1> DEFINE h == Previous(f.head)
           q == Previous(f.head) \in f.linked
<1>1. h \in Seq(Header)
  BY LastBlock DEF CanPop, Fork, Nil
<1>2. PopBlock(f) = [f EXCEPT !.head = h, !.hlinked = q] /\ q \in BOOLEAN
  BY DEF PopBlock
<1> HIDE DEF h, q
<1> QED BY <1>1, <1>2 DEF Fork

\* The blocks of a bad fork leave the fork database.
LEMMA RemoveBlocksType ==
  ASSUME NEW f \in Fork, NEW R
  PROVE  RemoveBlocks(f, R) \in Fork
<1> DEFINE i == f.index \ R
           l == {b \in f.linked \ R : Previous(b) \notin R}
           q == f.hlinked /\ Previous(f.head) \notin R
<1>1. RemoveBlocks(f, R) = [f EXCEPT !.index = i, !.linked = l, !.hlinked = q]
  BY DEF RemoveBlocks, Drop
<1>2. i \in SUBSET Seq(Header) /\ l \in SUBSET Seq(Header)
  BY DEF Fork
<1>3. q \in BOOLEAN
  BY DEF Fork
<1> HIDE DEF i, l, q
<1> QED BY <1>1, <1>2, <1>3 DEF Fork

\* The head of the fork database moves.
LEMMA SetHeadType ==
  ASSUME NEW f \in Fork, NEW b \in Seq(Header)
  PROVE  SetHead(f, b) \in Fork
<1> DEFINE q == b \in f.linked
<1>1. SetHead(f, b) = [f EXCEPT !.head = b, !.hlinked = q] /\ q \in BOOLEAN
  BY DEF SetHead
<1> HIDE DEF q
<1> QED BY <1>1 DEF Fork

\* Two branches part below the tip of the second one.
LEMMA ForkPointFacts ==
  ASSUME NEW a \in Seq(Header), NEW b \in Seq(Header), b # << >>
  PROVE  ForkPoint(a, b) \in Nat /\ ForkPoint(a, b) < Num(b)
<1> DEFINE S == {n \in 0..(Num(b) - 1) : At(a, n) = At(b, n)}
<1>1. Num(b) \in Nat \ {0}
  BY DEF Num
<1>2. 0 \in S
  <2>1. 0 \in 0..Len(a) /\ 0 \in 0..Len(b)
    OBVIOUS
  <2>2. /\ At(a, 0) \in Seq(Header) /\ Len(At(a, 0)) = 0
        /\ At(b, 0) \in Seq(Header) /\ Len(At(b, 0)) = 0
    BY <2>1, PrefixFacts DEF At
  <2>3. At(a, 0) = At(b, 0)
    BY <2>2
  <2> QED BY <1>1, <2>3
<1>3. S \subseteq Nat /\ S # {} /\ Num(b) \in Nat /\ \A y \in S : y <= Num(b)
  BY <1>1, <1>2
<1>4. PICK x \in S : \A y \in S : y <= x
  BY <1>3, A!LargestOf
<1>5. \A y \in S : x >= y
  BY <1>3, <1>4
<1>6. Max(S) \in S
  BY <1>5 DEF Max
<1>7. ForkPoint(a, b) \in 0..(Num(b) - 1)
  BY <1>6 DEF ForkPoint
<1> QED BY <1>1, <1>7

-----------------------------------------------------------------------------
(* One lemma for each action                                               *)

\* What is left to show when the chain and its stack are known.
LEMMA Together ==
  ASSUME Stack(st', undo')
  PROVE  (st \in State)' /\ (undo \in Seq(State))' /\ AllCovered'
  BY DEF Stack, AllCovered

\* The start of push_block.
LEMMA BeginPushInv ==
  ASSUME IndInv, NEW b \in Seq(Header), NEW by \in {"network", "witness"},
         BeginPush(b, by), gen' \in Gen
  PROVE  IndInv'
<1> DEFINE f == IF CanPush(fork, b) THEN PushBlock(fork, b) ELSE fork
           head == Clean.head
<1>1. /\ held' = pending /\ pending' = << >> /\ popped' = popped /\ session' = FALSE
      /\ st' = Clean /\ undo' = CleanUndo /\ fork' = f
  BY DEF BeginPush
<1>2. TypeOK /\ fork \in Fork
  BY DEF IndInv, TypeOK
<1>3. Stack(st', undo') /\ Clean \in State /\ Covered(Clean)
  BY <1>1, CleanFacts DEF Stack
<1>4. head \in Seq(Header) /\ head # << >> /\ f \in Fork
  BY <1>2, <1>3, PushBlockType DEF Covered, State
<1>5. f.head \in Seq(Header) /\ Num(f.head) \in Nat /\ Num(head) \in Nat /\ Nil \in Seq(Header)
  BY <1>4 DEF Fork, Num, Nil
<1> HIDE DEF f, head
<1> DEFINE J(mode, to, base, threw) ==
             [mode |-> mode, to |-> to, from |-> head, base |-> base, by |-> by, threw |-> threw]
<1>6. \/ pc' = "restore" /\ \E threw \in BOOLEAN : job' = J("none", Nil, 0, threw)
      \/ pc' = "apply" /\ job' = J("extend", b, 0, FALSE)
      \/ /\ Num(f.head) > Num(head) /\ pc' = "pop"
         /\ job' = J("switch", f.head, ForkPoint(f.head, head), FALSE)
  BY DEF BeginPush, f, head
<1>7. pc' \in {"restore", "apply", "pop"} /\ job' \in Job /\ JobInv'
  <2>1. CASE pc' = "restore" /\ \E threw \in BOOLEAN : job' = J("none", Nil, 0, threw)
    <3>1. job' \in Job
      BY <1>4, <1>5, <2>1 DEF Job
    <3> QED BY <1>1, <2>1, <3>1 DEF JobInv
  <2>2. CASE pc' = "apply" /\ job' = J("extend", b, 0, FALSE)
    <3>1. job' \in Job /\ job'.mode = "extend"
      BY <1>4, <1>5, <2>2 DEF Job
    <3> QED BY <1>1, <2>2, <3>1 DEF JobInv
  <2>3. CASE /\ Num(f.head) > Num(head) /\ pc' = "pop"
             /\ job' = J("switch", f.head, ForkPoint(f.head, head), FALSE)
    <3> DEFINE n == ForkPoint(f.head, head)
               h == f.head
    <3>1. n \in Nat /\ n < Num(head) /\ n < Num(h) /\ h \in Seq(Header)
      BY <1>4, <1>5, <2>3, ForkPointFacts
    <3>2. job' = J("switch", h, n, FALSE) /\ pc' = "pop"
      BY <2>3
    <3> HIDE DEF n, h
    <3>3. /\ job' \in Job /\ job'.mode = "switch" /\ job'.to = h /\ job'.from = head
          /\ job'.base = n
      BY <1>4, <3>1, <3>2 DEF Job
    <3> QED BY <1>1, <3>1, <3>2, <3>3 DEF JobInv
  <2> QED BY <1>6, <2>1, <2>2, <2>3
<1>8. TypeOK' /\ AllCovered'
  <2>1. fork' \in Fork /\ << >> \in Seq(Tx)
    BY <1>1, <1>4
  <2> QED BY <1>1, <1>2, <1>3, <1>7, <2>1, Together DEF TypeOK
<1>9. PendingIsApplied'
  BY <1>7 DEF PendingIsApplied
<1> QED BY <1>7, <1>8, <1>9 DEF IndInv

\* A block from the network.
LEMMA ReceiveBlockInv ==
  ASSUME IndInv, NEW b \in Foreign, ReceiveBlock(b)
  PROVE  IndInv'
<1>1. b \in Seq(Header)
  BY ForeignAssumption
<1>2. BeginPush(b, "network") /\ gen' \in Gen
  BY DEF ReceiveBlock, IndInv, TypeOK
<1> QED BY <1>1, <1>2, BeginPushInv

\* generate_block pushes its block.
LEMMA GeneratePushInv == ASSUME IndInv, GeneratePush PROVE IndInv'
<1>1. gen \in Gen /\ gen' = [gen EXCEPT !.at = "pushing"] /\ BeginPush(GeneratedBlock, "witness")
  BY DEF GeneratePush, IndInv, TypeOK
<1>2. gen' \in Gen
  BY <1>1 DEF Gen
<1>3. GeneratedBlock \in Seq(Header)
  <2>1. gen.prev \in Seq(Header) /\ [time |-> gen.when, txs |-> gen.txs, id |-> 0] \in Header
    BY <1>1 DEF Gen, Header
  <2> QED BY <2>1 DEF GeneratedBlock
<1> QED BY <1>1, <1>2, <1>3, BeginPushInv

\* A block of the old fork is undone.
LEMMA PopBlockOfStateInv == ASSUME IndInv, PopBlockOfState PROVE IndInv'
<1>1. pc = "pop" /\ pending' = pending /\ session' = session /\ held' = held /\ gen' = gen
  BY DEF PopBlockOfState
<1>2. TypeOK /\ ~session /\ job.mode # "extend" /\ job \in Job
      /\ job.base < Num(job.from) /\ job.base < Num(job.to)
  BY <1>1 DEF IndInv, JobInv, TypeOK
<1>3. CASE CanPop(fork)
  <2>1. /\ fork' = PopBlock(fork) /\ job' = job
        /\ st' = UndoState /\ undo' = IF undo = << >> THEN undo ELSE Front(undo)
        /\ popped' = Last(st.head).txs \o popped
        /\ pc' = IF st'.head = At(job.from, job.base) THEN "apply" ELSE "pop"
    BY <1>3 DEF PopBlockOfState
  <2>2. Stack(st, undo)
    BY CleanFacts
  <2>3. Stack(st', undo')
    BY <2>1, <2>2, StackPop DEF UndoState
  <2>4. popped' \in Seq(Tx)
    <3>1. st.head \in Seq(Header) /\ st.head # << >> /\ popped \in Seq(Tx)
      BY <1>2, <2>2 DEF Stack, State, Covered, TypeOK
    <3>2. Last(st.head).txs \in Seq(Tx)
      BY <3>1, LastBlock
    <3> QED BY <2>1, <3>1, <3>2
  <2>5. fork' \in Fork /\ pc' \in {"apply", "pop"}
    BY <1>2, <1>3, <2>1, PopBlockType DEF TypeOK
  <2>6. TypeOK' /\ AllCovered'
    BY <1>1, <1>2, <2>1, <2>3, <2>4, <2>5, Together DEF TypeOK
  <2>7. pc' = "apply" => Num(st'.head) = job.base
    <3> SUFFICES ASSUME pc' = "apply" PROVE Num(st'.head) = job.base
      OBVIOUS
    <3>1. st'.head = At(job.from, job.base)
      BY <2>1
    <3>2. job.from \in Seq(Header) /\ job.base \in 0..Len(job.from)
      BY <1>2 DEF Job, Num
    <3> QED BY <3>1, <3>2, PrefixFacts DEF At, Num
  <2>8. JobInv'
    BY <1>1, <1>2, <2>1, <2>5, <2>7 DEF JobInv
  <2>9. PendingIsApplied'
    BY <2>5 DEF PendingIsApplied
  <2> QED BY <2>6, <2>8, <2>9 DEF IndInv
<1>4. CASE ~CanPop(fork)
  <2>1. /\ pc' = "restore" /\ job' = [job EXCEPT !.threw = TRUE]
        /\ st' = st /\ undo' = undo /\ fork' = fork /\ popped' = popped
    BY <1>4 DEF PopBlockOfState, chainVars
  <2>2. job' \in Job
    BY <1>2, <2>1 DEF Job
  <2>3. TypeOK' /\ AllCovered'
    BY <1>1, <1>2, <2>1, <2>2, CleanFacts, Together DEF TypeOK
  <2>4. JobInv' /\ PendingIsApplied'
    BY <1>1, <1>2, <2>1 DEF JobInv, PendingIsApplied
  <2> QED BY <2>3, <2>4 DEF IndInv
<1> QED BY <1>3, <1>4

\* apply_block.
LEMMA ApplyBlockInv == ASSUME IndInv, ApplyBlock PROVE IndInv'
<1> DEFINE b == NextBlock
<1>1. /\ pc = "apply" /\ Applies(st, b) /\ st' = StateAfter(st, b) /\ undo' = Append(undo, st)
      /\ pc' = IF b = job.to THEN "restore" ELSE "apply"
      /\ fork' = fork /\ job' = job /\ gen' = gen
      /\ pending' = pending /\ session' = session /\ popped' = popped /\ held' = held
  BY DEF ApplyBlock, poolVars
<1>2. TypeOK /\ ~session /\ job \in Job /\ st \in State /\ Covered(st) /\ Stack(st, undo)
  BY <1>1, CleanFacts DEF IndInv, JobInv, TypeOK, Stack
<1>3. /\ st.head \in Seq(Header) /\ st.head # << >> /\ job.to \in Seq(Header)
      /\ Num(st.head) \in Nat /\ Num(job.to) \in Nat
  BY <1>2 DEF State, Covered, Job, Num
<1>4. /\ b \in Seq(Header)
      /\ job.mode # "extend" => /\ job.base < Num(job.from) /\ job.base < Num(job.to)
                                /\ Num(b) = Num(st.head) + 1 /\ Num(b) <= Num(job.to)
                                /\ b = At(job.to, Num(b))
      /\ job.mode = "extend" => b = job.to
  <2>1. CASE job.mode = "extend"
    BY <1>3, <2>1 DEF NextBlock
  <2>2. CASE job.mode # "extend"
    <3>1. Num(st.head) < Num(job.to) /\ job.base < Num(job.from) /\ job.base < Num(job.to)
      BY <1>1, <2>2 DEF IndInv, JobInv
    <3>2. b = At(job.to, Num(st.head) + 1) /\ Num(st.head) + 1 \in 0..Len(job.to)
      BY <1>3, <2>2, <3>1 DEF NextBlock, Num
    <3>3. b \in Seq(Header) /\ Num(b) = Num(st.head) + 1
      BY <1>3, <3>2, PrefixFacts DEF At, Num
    <3> QED BY <1>3, <2>2, <3>1, <3>2, <3>3
  <2> QED BY <2>1, <2>2
<1> HIDE DEF b
<1>5. st' \in State /\ Covered(st') /\ st'.head = b
  BY <1>1, <1>2, <1>4, StateAfterFacts
<1>6. Stack(st', undo')
  BY <1>1, <1>2, <1>5, StackPush
<1>7. TypeOK' /\ AllCovered'
  BY <1>1, <1>2, <1>6, Together DEF TypeOK
<1>8. JobInv'
  <2>1. pc' = "apply" /\ job'.mode # "extend" => Num(st'.head) < Num(job'.to)
    <3> SUFFICES ASSUME pc' = "apply", job.mode # "extend" PROVE Num(b) < Num(job.to)
      BY <1>1, <1>5
    <3>1. Num(b) # Num(job.to)
      <4>1. At(job.to, Num(job.to)) = job.to
        <5>1. Len(job.to) \in 0..Len(job.to)
          BY <1>3
        <5> QED BY <1>3, <5>1, PrefixFacts DEF At, Num
      <4> QED BY <1>1, <1>4, <4>1
    <3> QED BY <1>3, <1>4, <3>1
  <2>2. pc' # "pop" /\ ~session'
    BY <1>1, <1>2
  <2> QED BY <1>1, <1>4, <2>1, <2>2 DEF JobInv
<1>9. PendingIsApplied'
  BY <1>1 DEF PendingIsApplied
<1> QED BY <1>7, <1>8, <1>9 DEF IndInv

\* A block of the new fork does not apply.
LEMMA ApplyThrowsInv == ASSUME IndInv, ApplyThrows PROVE IndInv'
<1>1. /\ pc = "apply" /\ st' = st /\ undo' = undo /\ gen' = gen
      /\ pending' = pending /\ session' = session /\ popped' = popped /\ held' = held
  BY DEF ApplyThrows, poolVars
<1>2. TypeOK /\ ~session /\ job \in Job /\ fork \in Fork /\ job.from \in Seq(Header)
  BY <1>1 DEF IndInv, JobInv, TypeOK, Job
<1>3. CASE job.mode = "switch"
  <2>1. PICK R : fork' = SetHead(RemoveBlocks(fork, R), job.from)
    BY <1>3 DEF ApplyThrows
  <2>2. /\ pc' = IF st.head = At(job.from, job.base) THEN "apply" ELSE "pop"
        /\ job' = [job EXCEPT !.mode = "recover", !.to = job.from, !.threw = TRUE]
    BY <1>3 DEF ApplyThrows
  <2>3. fork' \in Fork
    BY <1>2, <2>1, RemoveBlocksType, SetHeadType
  <2>4. /\ job' \in Job /\ job'.mode = "recover" /\ job'.to = job.from /\ job'.from = job.from
        /\ job'.base = job.base
    BY <1>2, <2>2 DEF Job
  <2>5. TypeOK' /\ AllCovered'
    BY <1>1, <1>2, <2>2, <2>3, <2>4, CleanFacts, Together DEF TypeOK
  <2>6. job.base < Num(job.from) /\ job.base \in Nat
    BY <1>1, <1>2, <1>3 DEF IndInv, JobInv, Job
  <2>7. pc' = "apply" => Num(st'.head) = job.base
    <3> SUFFICES ASSUME pc' = "apply" PROVE Num(st.head) = job.base
      BY <1>1
    <3>1. st.head = At(job.from, job.base)
      BY <2>2
    <3>2. job.base \in 0..Len(job.from)
      BY <1>2, <2>6 DEF Num
    <3> QED BY <1>2, <3>1, <3>2, PrefixFacts DEF At, Num
  <2>8. JobInv' /\ PendingIsApplied'
    BY <1>1, <1>2, <2>2, <2>4, <2>6, <2>7 DEF JobInv, PendingIsApplied
  <2> QED BY <2>5, <2>8 DEF IndInv
<1>4. CASE job.mode # "switch"
  <2>1. /\ fork' = IF job.mode = "extend" THEN RemoveBlocks(fork, {NextBlock}) ELSE fork
        /\ pc' = "restore" /\ job' = [job EXCEPT !.threw = TRUE]
    BY <1>4 DEF ApplyThrows
  <2>2. fork' \in Fork /\ job' \in Job
    BY <1>2, <2>1, RemoveBlocksType DEF Job
  <2>3. TypeOK' /\ AllCovered'
    BY <1>1, <1>2, <2>1, <2>2, CleanFacts, Together DEF TypeOK
  <2>4. JobInv' /\ PendingIsApplied'
    BY <1>1, <1>2, <2>1 DEF JobInv, PendingIsApplied
  <2> QED BY <2>3, <2>4 DEF IndInv
<1> QED BY <1>3, <1>4

\* The pending transactions are restored.
LEMMA RestoreInv == ASSUME IndInv, Restore PROVE IndInv'
<1> DEFINE r == PushAll(st, popped \o held)
<1>1. /\ pc = "restore" /\ pending' = r.txs /\ session' = r.started /\ st' = r.s
      /\ undo' = IF r.started THEN Append(undo, st) ELSE undo
      /\ popped' = << >> /\ held' = << >> /\ pc' = "free" /\ job' = NoJob /\ fork' = fork
      /\ gen' = IF job.by = "network" THEN gen
                ELSE [gen EXCEPT !.at = IF job.threw THEN "failed" ELSE "idle"]
  BY DEF Restore
<1>2. TypeOK /\ st \in State /\ Covered(st) /\ Stack(st, undo)
  BY CleanFacts DEF IndInv, TypeOK, Stack
<1>3. PushGood(st, r)
  <2>1. popped \o held \in Seq(Tx)
    BY <1>2 DEF TypeOK
  <2> QED BY <1>2, <2>1, PushAllFacts
<1> HIDE DEF r
<1>4. /\ r.s \in State /\ r.txs \in Seq(Tx) /\ r.started \in BOOLEAN
      /\ r.s.head = st.head /\ st.known \subseteq r.s.known
      /\ ~r.started => r.s = st /\ r.txs = << >>
  BY <1>3 DEF PushGood, Pushed
<1>5. Covered(r.s)
  BY <1>2, <1>4, CoveredGrows
<1>6. /\ Stack(st', undo')
      /\ r.started => undo' # << >> /\ Last(undo') = st
  BY <1>1, <1>2, <1>4, <1>5, StackPush
<1>7. NoJob \in Job
  BY DEF NoJob, Job, Nil
<1>8. gen' \in Gen
  BY <1>1, <1>2 DEF TypeOK, Gen
<1>9. << >> \in Seq(Tx)
  OBVIOUS
<1>10. TypeOK' /\ AllCovered'
  BY <1>1, <1>2, <1>4, <1>6, <1>7, <1>8, <1>9, Together DEF TypeOK
<1>11. JobInv'
  BY <1>1 DEF JobInv
<1>12. Clean' = st
  BY <1>1, <1>4, <1>6 DEF Clean
<1>13. PushAll(st, r.txs).s = r.s /\ PushAll(st, r.txs).txs = r.txs
  BY <1>3, PushAllIsFold DEF PushGood, NothingPushed
<1>14. PendingIsApplied'
  BY <1>1, <1>12, <1>13 DEF PendingIsApplied
<1> QED BY <1>10, <1>11, <1>14 DEF IndInv

\* What a node accepts from the network it also accepts in a block.
LEMMA StricterWhenPushed ==
  ASSUME NEW s \in State, s.head # << >>, NEW t \in Tx, CanApply(s, t, TRUE)
  PROVE  CanApply(s, t, FALSE)
<1>1. Time(s.head) \in Nat /\ Expiration[t] \in Nat
  BY LastBlock, TxNumbers DEF State
<1> QED BY <1>1 DEF CanApply, Valid

\* push_transaction.
LEMMA PushTransactionInv ==
  ASSUME IndInv, NEW t \in Tx, PushTransaction(t)
  PROVE  IndInv'
<1> DEFINE ok == CanApply(st, t, TRUE)
<1>1. /\ pc = "free" /\ session' = TRUE
      /\ undo' = IF session THEN undo ELSE Append(undo, st)
      /\ st' = IF ok THEN ApplyTransaction(st, t) ELSE st
      /\ pending' = IF ok THEN Append(pending, t) ELSE pending
      /\ fork' = fork /\ popped' = popped /\ held' = held /\ pc' = pc /\ job' = job /\ gen' = gen
  BY DEF PushTransaction
<1>2. TypeOK /\ st \in State /\ Covered(st) /\ Stack(st, undo) /\ pending \in Seq(Tx)
  BY CleanFacts DEF IndInv, TypeOK, Stack
<1>3. st' \in State /\ Covered(st') /\ pending' \in Seq(Tx)
  <2>1. CASE ok
    <3>1. st' = ApplyTransaction(st, t) /\ pending' = Append(pending, t)
      BY <1>1, <2>1
    <3>2. st' \in State /\ st'.head = st.head /\ st'.known = st.known \cup {t}
      BY <1>2, <3>1, ApplyTransactionType
    <3>3. Covered(st')
      BY <1>2, <3>2, CoveredGrows
    <3>4. pending' \in Seq(Tx)
      BY <1>2, <3>1
    <3> QED BY <3>2, <3>3, <3>4
  <2>2. CASE ~ok
    BY <1>1, <1>2, <2>2
  <2> QED BY <2>1, <2>2
<1>4. Stack(st', undo') /\ undo' # << >> /\ Last(undo') = Clean
  <2>1. CASE session
    BY <1>1, <1>2, <1>3, <2>1 DEF Stack, TypeOK, Clean
  <2>2. CASE ~session
    BY <1>1, <1>2, <1>3, <2>2, StackPush DEF Clean
  <2> QED BY <2>1, <2>2
<1>6. TypeOK' /\ AllCovered'
  BY <1>1, <1>2, <1>3, <1>4, Together DEF TypeOK
<1>7. JobInv'
  BY <1>1 DEF JobInv
<1>8. PendingIsApplied'
  <2> SUFFICES ASSUME gen.at \notin {"selected", "signed"}
               PROVE  PushAll(Clean, pending').s = st' /\ PushAll(Clean, pending').txs = pending'
    <3>1. Clean' = Clean
      BY <1>1, <1>4 DEF Clean
    <3> QED BY <1>1, <3>1 DEF PendingIsApplied
  <2> DEFINE q == PushAll(Clean, pending)
  <2>1. q.s = st /\ q.txs = pending
    BY <1>1 DEF IndInv, PendingIsApplied
  <2>2. CASE ~ok
    BY <1>1, <2>1, <2>2
  <2>3. CASE ok
    <3>1. CanApply(st, t, FALSE) /\ t \notin st.known
      BY <1>2, <2>3, StricterWhenPushed DEF CanApply, Covered
    <3>2. PushAll(Clean, Append(pending, t)) = PushStep(0, q, t)
      <4>1. P!Fold(0, NothingPushed(Clean), Append(pending, t))
            = PushStep(0, P!Fold(0, NothingPushed(Clean), pending), t)
        BY <1>2, P!FoldAppend
      <4> QED BY <4>1, PushAllIsFold DEF NothingPushed
    <3> HIDE DEF q
    <3>3. /\ PushStep(0, q, t).s = ApplyTransaction(st, t)
          /\ PushStep(0, q, t).txs = Append(pending, t)
      BY <2>1, <3>1 DEF PushStep
    <3> QED BY <1>1, <2>3, <3>2, <3>3
  <2> QED BY <2>2, <2>3
<1> QED BY <1>6, <1>7, <1>8 DEF IndInv

\* A step of the witness thread that only changes its own variable, and
\* does not leave the window of _generate_block.
LEMMA OnlyGenInv ==
  ASSUME IndInv, UNCHANGED <<st, undo, fork, pending, session, popped, held, pc, job>>,
         gen' \in Gen,
         gen.at \in {"selected", "signed"} => gen'.at \in {"selected", "signed"}
  PROVE  IndInv'
<1>1. /\ st' = st /\ undo' = undo /\ fork' = fork /\ pending' = pending /\ session' = session
      /\ popped' = popped /\ held' = held /\ pc' = pc /\ job' = job
  OBVIOUS
<1>2. TypeOK' /\ AllCovered' /\ JobInv'
  BY <1>1 DEF IndInv, TypeOK, AllCovered, JobInv
<1>3. Clean' = Clean
  BY <1>1 DEF Clean
<1>4. PendingIsApplied'
  BY <1>1, <1>3 DEF IndInv, PendingIsApplied
<1> QED BY <1>2, <1>4 DEF IndInv

\* The time of a slot comes.
LEMMA SlotComesInv ==
  ASSUME IndInv, NEW when \in Slots, SlotComes(when)
  PROVE  IndInv'
<1>1. /\ gen \in Gen /\ gen.at = "idle" /\ when \in Nat
      /\ gen' = [gen EXCEPT !.at = "due", !.when = when, !.retry = 0]
      /\ UNCHANGED <<st, undo, fork, pending, session, popped, held, pc, job>>
  BY ForeignAssumption DEF SlotComes, IndInv, TypeOK, chainVars, poolVars
<1>2. gen' \in Gen
  BY <1>1 DEF Gen
<1> QED BY <1>1, <1>2, OnlyGenInv

\* generate_block checks the slot.
LEMMA GenerateCheckInv == ASSUME IndInv, GenerateCheck PROVE IndInv'
<1> DEFINE a == IF gen.when > Time(st.head) THEN "checked" ELSE "failed"
<1>1. /\ gen \in Gen /\ gen.at = "due" /\ st.head \in Seq(Header)
      /\ gen' = [gen EXCEPT !.at = a, !.on = st.head]
      /\ UNCHANGED <<st, undo, fork, pending, session, popped, held, pc, job>>
  BY DEF GenerateCheck, IndInv, TypeOK, State, chainVars, poolVars
<1>2. a \in {"checked", "failed"}
  OBVIOUS
<1> HIDE DEF a
<1>3. gen' \in Gen
  BY <1>1, <1>2 DEF Gen
<1> QED BY <1>1, <1>3, OnlyGenInv

\* generate_block signs its block.
LEMMA GenerateSignInv == ASSUME IndInv, GenerateSign PROVE IndInv'
<1>1. /\ gen \in Gen /\ gen.at = "selected" /\ st.head \in Seq(Header)
      /\ gen' = [gen EXCEPT !.at = "signed", !.prev = st.head]
      /\ UNCHANGED <<st, undo, fork, pending, session, popped, held, pc, job>>
  BY DEF GenerateSign, IndInv, TypeOK, State, chainVars, poolVars
<1>2. gen' \in Gen /\ gen'.at = "signed"
  BY <1>1 DEF Gen
<1> QED BY <1>1, <1>2, OnlyGenInv

\* What _generate_block selects are transactions.
LEMMA SelectedType ==
  ASSUME NEW s \in State, pending \in Seq(Tx)
  PROVE  Selected(s).txs \in Seq(Tx)
<1> DEFINE Chosen == [s : State, txs : Seq(Tx), size : Nat]
           base == [s |-> s, txs |-> << >>, size |-> HeaderRoom]
<1>1. base \in Chosen
  BY TxAssumption
<1>2. ASSUME NEW r \in Chosen, NEW t \in Tx PROVE SelectStep(gen.when, r, t) \in Chosen
  <2>1. /\ ApplyTransaction(r.s, t) \in State /\ Append(r.txs, t) \in Seq(Tx)
        /\ r.size + Size[t] \in Nat
    BY TxNumbers, ApplyTransactionType
  <2> QED BY <2>1 DEF SelectStep
<1>3. G!Fold(gen.when, base, pending) \in Chosen
  <2> HIDE DEF Chosen, base
  <2> QED BY <1>1, <1>2, G!FoldKeeps
<1> QED BY <1>3, SelectedIsFold

\* generate_block selects transactions.
LEMMA GenerateSelectInv == ASSUME IndInv, GenerateSelect PROVE IndInv'
<1> DEFINE x == Selected(Clean).txs
<1>1. /\ pc = "free" /\ st' = Clean /\ undo' = CleanUndo /\ session' = FALSE
      /\ gen' = [gen EXCEPT !.at = "selected", !.txs = x]
      /\ fork' = fork /\ pending' = pending /\ popped' = popped /\ held' = held /\ pc' = pc
      /\ job' = job
  BY DEF GenerateSelect
<1>2. TypeOK /\ pending \in Seq(Tx) /\ gen \in Gen /\ Stack(st', undo') /\ Clean \in State
  BY <1>1, CleanFacts DEF IndInv, TypeOK, Stack
<1>3. x \in Seq(Tx)
  BY <1>2, SelectedType
<1> HIDE DEF x
<1>4. gen' \in Gen /\ gen'.at = "selected"
  BY <1>1, <1>2, <1>3 DEF Gen
<1>5. TypeOK' /\ AllCovered'
  BY <1>1, <1>2, <1>4, Together DEF TypeOK
<1>6. JobInv' /\ PendingIsApplied'
  BY <1>1, <1>4 DEF JobInv, PendingIsApplied
<1> QED BY <1>5, <1>6 DEF IndInv

\* clear_pending.
LEMMA ClearPendingInv == ASSUME IndInv, ClearPending PROVE IndInv'
<1>1. /\ st' = Clean /\ undo' = CleanUndo /\ session' = FALSE /\ pending' = << >>
      /\ gen' = [gen EXCEPT !.at = IF gen.retry = 0 THEN "due" ELSE "idle", !.retry = 1,
                            !.txs = << >>, !.on = Nil, !.prev = Nil]
      /\ fork' = fork /\ popped' = popped /\ held' = held /\ pc' = pc /\ job' = job
  BY DEF ClearPending
<1>2. TypeOK /\ gen \in Gen /\ Stack(st', undo')
  BY <1>1, CleanFacts DEF IndInv, TypeOK
<1>3. gen' \in Gen
  <2> DEFINE a == IF gen.retry = 0 THEN "due" ELSE "idle"
  <2>1. gen' = [gen EXCEPT !.at = a, !.retry = 1, !.txs = << >>, !.on = Nil, !.prev = Nil]
    BY <1>1
  <2>2. a \in {"due", "idle"} /\ Nil \in Seq(Header) /\ << >> \in Seq(Tx)
    BY DEF Nil
  <2> HIDE DEF a
  <2> QED BY <1>2, <2>1, <2>2 DEF Gen
<1>4. TypeOK' /\ AllCovered'
  <2>1. << >> \in Seq(Tx)
    OBVIOUS
  <2> QED BY <1>1, <1>2, <1>3, <2>1, Together DEF TypeOK
<1>5. pc = "free" \/ Clean = st
  BY DEF IndInv, JobInv, Clean
<1>6. JobInv'
  BY <1>1, <1>5 DEF IndInv, JobInv
<1>7. PendingIsApplied'
  <2>1. Clean' = st'
    BY <1>1 DEF Clean
  <2>2. PushAll(st', << >>) = NothingPushed(st')
    BY P!FoldEmpty, PushAllIsFold DEF NothingPushed
  <2> QED BY <1>1, <2>1, <2>2 DEF PendingIsApplied, NothingPushed
<1> QED BY <1>4, <1>6, <1>7 DEF IndInv

\* The start of the chain.
LEMMA InitInv == ASSUME Init PROVE IndInv
<1>1. /\ st = [head |-> Root, known |-> {}, done |-> {}] /\ undo = << >>
      /\ fork = StartBlock(EmptyFork, Root)
      /\ pending = << >> /\ session = FALSE /\ popped = << >> /\ held = << >>
      /\ pc = "free" /\ job = NoJob
      /\ gen = [at |-> "idle", when |-> 0, txs |-> << >>, on |-> Nil, prev |-> Nil, retry |-> 0]
  BY DEF Init
<1>2. Root \in Seq(Header) /\ Len(Root) = 1 /\ Root # << >> /\ Root[1].txs = << >>
  <2>1. Root \in Seq(Header) /\ Root[1].txs = << >>
    BY ForeignAssumption
  <2>2. Len(Root) = 1
    BY ForeignAssumption DEF Num
  <2>3. Root # << >>
    <3>1. Len(<< >>) = 0
      OBVIOUS
    <3> QED BY <2>2, <3>1
  <2> QED BY <2>1, <2>2, <2>3
<1>3. st \in State /\ st.head = Root
  BY <1>1, <1>2 DEF State
<1>4. Nil \in Seq(Header) /\ << >> \in Seq(Tx) /\ undo \in Seq(State) /\ Len(undo) = 0
  BY <1>1 DEF Nil
<1>5. fork \in Fork
  <2>1. EmptyFork \in Fork
    BY <1>4 DEF EmptyFork, Fork, DefaultSize
  <2> QED BY <1>1, <1>2, <2>1 DEF StartBlock, Fork
<1>6. job \in Job /\ gen \in Gen
  BY <1>1, <1>4 DEF NoJob, Job, Gen
<1>7. TypeOK
  BY <1>1, <1>3, <1>4, <1>5, <1>6 DEF TypeOK
<1>8. OnChain(Root) = << >>
  <2>1. Root = Append(<< >>, Root[1]) /\ Root[1] \in Header /\ << >> \in Seq(Header)
    BY <1>2
  <2>2. OnChain(Root) = OnChain(<< >>) \o << >>
    BY <1>2, <2>1, OnChainAppend
  <2>3. OnChain(<< >>) = << >>
    BY C!FoldEmpty, OnChainIsFold
  <2> QED BY <2>2, <2>3
<1>9. Covered(st)
  BY <1>2, <1>3, <1>8 DEF Covered
<1>10. AllCovered
  BY <1>4, <1>9 DEF AllCovered
<1>11. JobInv
  BY <1>1 DEF JobInv
<1>12. PushAll(st, << >>) = NothingPushed(st)
  BY P!FoldEmpty, PushAllIsFold DEF NothingPushed
<1>13. PendingIsApplied
  <2>1. Clean = st /\ pending = << >>
    BY <1>1 DEF Clean
  <2>2. PushAll(Clean, pending).s = st /\ PushAll(Clean, pending).txs = pending
    BY <1>12, <2>1 DEF NothingPushed
  <2> QED BY <2>2 DEF PendingIsApplied
<1> QED BY <1>7, <1>10, <1>11, <1>13 DEF IndInv

\* Every step keeps the invariant.
LEMMA NextInv == IndInv /\ [Next]_vars => IndInv'
<1> SUFFICES ASSUME IndInv, [Next]_vars PROVE IndInv'
  OBVIOUS
<1>1. CASE UNCHANGED vars
  <2>1. UNCHANGED <<st, undo, fork, pending, session, popped, held, pc, job>> /\ gen' = gen
    BY <1>1 DEF vars
  <2>2. gen' \in Gen
    BY <2>1 DEF IndInv, TypeOK
  <2> QED BY <2>1, <2>2, OnlyGenInv
<1>2. CASE Next
  BY <1>2, ReceiveBlockInv, PushTransactionInv, PopBlockOfStateInv, ApplyBlockInv,
     ApplyThrowsInv, RestoreInv, SlotComesInv, GenerateCheckInv, GenerateSelectInv,
     GenerateSignInv, GeneratePushInv, ClearPendingInv DEF Next
<1> QED BY <1>1, <1>2

-----------------------------------------------------------------------------
(* Theorems                                                                *)

\* The inductive invariant holds whatever blocks and transactions arrive and
\* however the network thread and the witness thread interleave.
THEOREM IndInvHolds == Spec => []IndInv
<1>1. Init => IndInv
  BY InitInv
<1> QED BY <1>1, NextInv, PTL DEF Spec

\* No transaction is on the chain twice, after any fork switch and with any
\* expiration times: the duplicate check forgets a transaction only when it
\* can no longer be applied.
THEOREM NoReplayHolds == Spec => []NoReplay
<1>1. IndInv => NoReplay
  BY DEF IndInv, AllCovered, Covered, NoReplay
<1> QED BY <1>1, IndInvHolds, PTL

\* The state with the session of the pending transactions is the result of
\* applying them, except in the window that _generate_block opens.
THEOREM PendingIsAppliedHolds == Spec => []PendingIsApplied
<1>1. IndInv => PendingIsApplied
  BY DEF IndInv
<1> QED BY <1>1, IndInvHolds, PTL
=============================================================================
