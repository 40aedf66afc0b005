------------------------ MODULE ChainDatabase_proofs ------------------------
(***************************************************************************)
(* Proofs about ChainDatabase: for every set of blocks and witnesses and   *)
(* every value of the other constants the undo stack is a chain of         *)
(* ancestors of the head, only committed blocks are in the block log, a    *)
(* committed block is never undone, and the state is always the one that a *)
(* replay of its chain leads to.                                           *)
(***************************************************************************)
EXTENDS ChainDatabase, TLAPS, FiniteSetTheorems

\* One step of a replay of the chain of b.
ReplayStep(b, s, n) == StateAfter(s, At(b, n))
Loop == INSTANCE FoldFacts WITH op <- ReplayStep

-----------------------------------------------------------------------------
(* Blocks                                                                  *)

\* A prefix of a sequence.
LEMMA AtFacts ==
  ASSUME NEW S, NEW s \in Seq(S), NEW n \in 0..Len(s)
  PROVE  /\ At(s, n) \in Seq(S)
         /\ Len(At(s, n)) = n
         /\ \A i \in 1..n : At(s, n)[i] = s[i]
  BY DEF At

LEMMA AtAt ==
  ASSUME NEW S, NEW s \in Seq(S), NEW n \in 0..Len(s), NEW m \in 0..n
  PROVE  At(At(s, n), m) = At(s, m)
  BY DEF At

LEMMA AtFull ==
  ASSUME NEW S, NEW s \in Seq(S)
  PROVE  At(s, Len(s)) = s
  BY DEF At

\* What the assumption on Block says of blocks and heads.
LEMMA BlockFacts ==
  ASSUME NEW b \in Block \cup {Nil}
  PROVE  /\ b \in Seq(Header)
         /\ Num(b) \in Nat
         /\ b \in Block <=> Num(b) > 0
         /\ b = Nil <=> Num(b) = 0
         /\ \A n \in 0..Num(b) : At(b, n) \in Block \cup {Nil} /\ Num(At(b, n)) = n
         /\ At(b, Num(b)) = b
<1>1. b \in Seq(Header) /\ Num(b) \in Nat /\ Num(b) = Len(b)
  <2>1. CASE b \in Block
    BY <2>1, BlockAssumption DEF Num
  <2>2. CASE b = << >>
    BY <2>2 DEF Num
  <2> QED
    BY <2>1, <2>2 DEF Nil
<1>2. (b \in Block <=> Num(b) > 0) /\ (b = Nil <=> Num(b) = 0)
  BY <1>1, BlockAssumption DEF Nil
<1>3. ASSUME NEW n \in 0..Num(b) PROVE At(b, n) \in Block \cup {Nil} /\ Num(At(b, n)) = n
  <2>1. At(b, n) \in Seq(Header) /\ Len(At(b, n)) = n
    BY <1>1, AtFacts
  <2>2. CASE n = 0
    BY <2>1, <2>2 DEF Nil, Num
  <2>3. CASE n > 0
    <3>1. b \in Block /\ n \in 1..Num(b)
      BY <1>1, <1>2, <2>3
    <3> QED
      BY <2>1, <3>1, BlockAssumption DEF Num
  <2> QED
    BY <1>1, <2>2, <2>3
<1>4. At(b, Num(b)) = b
  BY <1>1, AtFull
<1> QED
  BY <1>1, <1>2, <1>3, <1>4

LEMMA PreviousFacts ==
  ASSUME NEW b \in Block
  PROVE  /\ Num(b) \in Nat \ {0}
         /\ Previous(b) = At(b, Num(b) - 1)
         /\ Previous(b) \in Block \cup {Nil}
         /\ Num(Previous(b)) = Num(b) - 1
<1>1. Num(b) \in Nat \ {0}
  BY BlockFacts
<1>2. Previous(b) = At(b, Num(b) - 1)
  BY DEF Previous, At, Num
<1>3. Num(b) - 1 \in 0..Num(b)
  BY <1>1
<1> QED
  BY <1>1, <1>2, <1>3, BlockFacts

\* The head of a block is its last header, by a scheduled witness.
LEMMA LastHeader ==
  ASSUME NEW b \in Block
  PROVE  Last(b).by \in Witness
<1>1. b \in Seq(Header) /\ Len(b) \in 1..Len(b)
  BY BlockFacts DEF Num
<1>2. b[Len(b)] \in Header
  BY <1>1
<1> QED
  BY <1>2 DEF Last, Header

-----------------------------------------------------------------------------
(* The last irreversible block                                             *)

\* nth_element finds the number of a scheduled witness.
LEMMA ThresholdFacts ==
  ASSUME NEW conf \in [Witness -> Nat], NEW k \in Nat, \A w \in Witness : conf[w] <= k
  PROVE  ConfirmedByThreshold(conf) \in 0..k
<1> DEFINE S == {conf[w] : w \in Witness}
           Upto(n) == {w \in Witness : conf[w] <= n}
           Below(n) == {w \in Witness : conf[w] < n}
           T == {n \in S : Cardinality(Upto(n)) > IrreversibleOffset}
<1>1. S \subseteq 0..k /\ S # {} /\ S \subseteq Nat /\ \A y \in S : y <= k
  BY WitnessAssumption
<1>2. Cardinality(Witness) \in Nat \ {0}
  <2>1. IsFiniteSet(Witness) /\ Witness # {}
    BY WitnessAssumption
  <2>2. Cardinality(Witness) \in Nat
    BY <2>1, FS_CardinalityType
  <2>3. Cardinality(Witness) # 0
    BY <2>1, FS_EmptySet
  <2> QED
    BY <2>2, <2>3
<1>3. IrreversibleOffset \in Nat /\ IrreversibleOffset < Cardinality(Witness)
  BY <1>2 DEF IrreversibleOffset
<1>4. T # {}
  <2>1. PICK m \in S : \A y \in S : y <= m
    BY <1>1, Loop!LargestOf
  <2>2. Upto(m) = Witness
    BY <2>1
  <2> QED
    BY <1>3, <2>1, <2>2
<1>5. PICK n \in T : \A m \in T : n <= m
  BY <1>1, <1>4, Loop!SmallestOf
<1>6. Cardinality(Below(n)) <= IrreversibleOffset
  <2>1. CASE Below(n) = {}
    BY <1>3, <2>1, FS_EmptySet
  <2>2. CASE Below(n) # {}
    <3> DEFINE V == {y \in S : y < n}
    <3>1. V # {} /\ V \subseteq Nat /\ \A y \in V : y <= k
      BY <1>1, <2>2
    <3>2. PICK m \in V : \A y \in V : y <= m
      BY <3>1, Loop!LargestOf
    <3>3. m \in Nat /\ n \in Nat /\ m \in S /\ m < n
      BY <1>1, <1>5, <3>2
    <3>4. Below(n) = Upto(m)
      <4>1. ASSUME NEW w \in Witness PROVE conf[w] < n <=> conf[w] <= m
        <5>1. conf[w] \in Nat /\ conf[w] \in S
          OBVIOUS
        <5>2. conf[w] < n => conf[w] <= m
          BY <3>2, <5>1
        <5> QED
          BY <3>3, <5>1, <5>2
      <4> QED
        BY <4>1
    <3>5. m \notin T
      <4>1. m \in T => n <= m
        BY <1>5
      <4> QED
        BY <3>3, <4>1
    <3>6. Cardinality(Upto(m)) \in Nat
      BY WitnessAssumption, FS_Subset, FS_CardinalityType
    <3> QED
      BY <1>3, <3>3, <3>4, <3>5, <3>6
  <2> QED
    BY <2>1, <2>2
<1>7. \E x \in S : /\ Cardinality(Below(x)) <= IrreversibleOffset
                   /\ Cardinality(Upto(x)) > IrreversibleOffset
  BY <1>5, <1>6
<1>8. ConfirmedByThreshold(conf) \in S
  BY <1>7 DEF ConfirmedByThreshold
<1> QED
  BY <1>1, <1>8

LEMMA NewIrreversibleFacts ==
  ASSUME NEW conf \in [Witness -> Nat], NEW num \in Nat, NEW lib \in 0..num,
         \A w \in Witness : conf[w] <= num
  PROVE  NewIrreversible(lib, num, conf) \in 0..num
<1>1. ConfirmedByThreshold(conf) \in 0..num
  BY ThresholdFacts
<1> QED
  BY <1>1, NumbersAssumption DEF NewIrreversible

\* What membership in State says, and applying a block keeps it.
LEMMA StateFacts ==
  ASSUME NEW s \in State
  PROVE  /\ s.head \in Block \cup {Nil}
         /\ s.lib \in 0..Num(s.head)
         /\ s.conf \in [Witness -> Nat]
         /\ \A w \in Witness : s.conf[w] <= Num(s.head)
         /\ Num(s.head) \in Nat
<1>1. /\ s.head \in Block \cup {Nil} /\ s.lib \in Nat /\ s.conf \in [Witness -> Nat]
      /\ s.lib <= Num(s.head) /\ \A w \in Witness : s.conf[w] <= Num(s.head)
  BY DEF State
<1>2. Num(s.head) \in Nat
  BY <1>1, BlockFacts
<1> QED
  BY <1>1, <1>2

LEMMA StateAfterFacts ==
  ASSUME NEW s \in State, NEW b \in Block, Num(b) = Num(s.head) + 1
  PROVE  StateAfter(s, b) \in State /\ StateAfter(s, b).head = b
<1> DEFINE conf == [s.conf EXCEPT ![Last(b).by] = Num(b)]
           lib == NewIrreversible(s.lib, Num(b), conf)
<1>1. StateAfter(s, b) = [head |-> b, conf |-> conf, lib |-> lib]
  BY DEF StateAfter
<1>2. /\ Num(b) \in Nat /\ Num(s.head) \in Nat /\ s.lib \in 0..Num(b)
      /\ s.conf \in [Witness -> Nat]
      /\ \A w \in Witness : s.conf[w] <= Num(s.head)
  BY StateFacts, BlockFacts
<1>3. conf \in [Witness -> Nat] /\ \A w \in Witness : conf[w] <= Num(b)
  BY <1>2, LastHeader
<1> HIDE DEF conf
<1>4. lib \in 0..Num(b)
  BY <1>2, <1>3, NewIrreversibleFacts
<1> HIDE DEF lib
<1> QED
  BY <1>1, <1>2, <1>3, <1>4 DEF State

LEMMA GenesisFacts == Genesis \in State /\ Genesis.head = Nil /\ Num(Nil) = 0
  BY DEF Genesis, State, Nil, Num

-----------------------------------------------------------------------------
(* The fork database                                                       *)

LEMMA ForkFacts ==
  ASSUME NEW f \in Fork
  PROVE  /\ f \in [index : SUBSET Block, linked : SUBSET Block, head : Block \cup {Nil},
                   hlinked : BOOLEAN, size : Nat]
         /\ f.index \subseteq Block /\ f.linked \subseteq f.index
         /\ f.head \in Block \cup {Nil}
  BY DEF Fork

LEMMA EmptyForkFacts == EmptyFork \in Fork
  BY DEF EmptyFork, Fork, DefaultSize, Nil

LEMMA StartBlockFacts ==
  ASSUME NEW f \in Fork, NEW b \in Block
  PROVE  StartBlock(f, b) \in Fork
  BY DEF StartBlock, Fork

LEMMA PushBlockFacts ==
  ASSUME NEW f \in Fork, NEW b \in Block
  PROVE  /\ PushBlock(f, b) \in Fork
         /\ PushBlock(f, b).head \in Block
<1> DEFINE link == f.head # Nil /\ Previous(b) # Nil
           higher == f.head = Nil \/ Num(b) > Num(f.head)
           i == f.index \cup {b}
           l == IF link /\ b \notin f.index THEN f.linked \cup {b} ELSE f.linked
           h == IF higher THEN b ELSE f.head
           q == IF higher THEN link ELSE f.hlinked
<1>1. PushBlock(f, b) = [f EXCEPT !.index = i, !.linked = l, !.head = h, !.hlinked = q]
  BY DEF PushBlock
<1>2. i \in SUBSET Block /\ l \in SUBSET i /\ h \in Block
  BY DEF Fork
<1>3. q \in BOOLEAN
  BY DEF Fork
<1> HIDE DEF i, l, h, q
<1> QED
  BY <1>1, <1>2, <1>3 DEF Fork

LEMMA PopBlockFacts ==
  ASSUME NEW f \in Fork, CanPop(f)
  PROVE  PopBlock(f) \in Fork
<1>1. f.head \in Block
  BY DEF CanPop, Fork
<1>2. Previous(f.head) \in Block \cup {Nil}
  BY <1>1, PreviousFacts
<1> DEFINE h == Previous(f.head)
           q == Previous(f.head) \in f.linked
<1>3. PopBlock(f) = [f EXCEPT !.head = h, !.hlinked = q] /\ q \in BOOLEAN
  BY DEF PopBlock
<1> HIDE DEF q
<1> QED
  BY <1>2, <1>3 DEF Fork

LEMMA DropFacts ==
  ASSUME NEW f \in Fork, NEW R
  PROVE  Drop(f, R) \in Fork
<1> DEFINE i == f.index \ R
           l == {b \in f.linked \ R : Previous(b) \notin R}
           q == f.hlinked /\ Previous(f.head) \notin R
<1>1. Drop(f, R) = [f EXCEPT !.index = i, !.linked = l, !.hlinked = q]
  BY DEF Drop
<1>2. i \in SUBSET Block /\ l \in SUBSET i
  BY DEF Fork
<1>3. q \in BOOLEAN
  BY DEF Fork
<1> HIDE DEF i, l, q
<1> QED
  BY <1>1, <1>2, <1>3 DEF Fork

LEMMA SetHeadFacts ==
  ASSUME NEW f \in Fork, NEW b \in Block \cup {Nil}
  PROVE  SetHead(f, b) \in Fork
<1> DEFINE q == b \in f.linked
<1>1. SetHead(f, b) = [f EXCEPT !.head = b, !.hlinked = q] /\ q \in BOOLEAN
  BY DEF SetHead
<1> HIDE DEF q
<1> QED
  BY <1>1 DEF Fork

LEMMA SetMaxSizeFacts ==
  ASSUME NEW f \in Fork, NEW s \in Nat
  PROVE  SetMaxSize(f, s) \in Fork
<1> DEFINE g == [f EXCEPT !.size = s]
<1>1. g \in Fork
  BY DEF Fork
<1> HIDE DEF g
<1>2. \A R : Drop(g, R) \in Fork
  BY <1>1, DropFacts
<1>3. SetMaxSize(f, s) = IF f.head = Nil THEN g
                         ELSE Drop(g, {b \in g.index : Num(b) < OldestNum(g)})
  BY DEF SetMaxSize, g
<1> QED
  BY <1>1, <1>2, <1>3

\* The two branches start above a common block, below both of their tips.
LEMMA ForkPointFacts ==
  ASSUME NEW a \in Block, NEW b \in Block
  PROVE  ForkPoint(a, b) \in 0..(Num(b) - 1)
<1> DEFINE S == {n \in 0..(Num(b) - 1) : At(a, n) = At(b, n)}
<1>1. Num(a) \in Nat \ {0} /\ Num(b) \in Nat \ {0}
  BY BlockFacts
<1>2. 0 \in S
  <2>1. At(a, 0) \in Block \cup {Nil} /\ Num(At(a, 0)) = 0 /\ At(b, 0) \in Block \cup {Nil} /\ Num(At(b, 0)) = 0
    BY <1>1, BlockFacts
  <2>2. At(a, 0) = Nil /\ At(b, 0) = Nil
    BY <2>1, BlockFacts
  <2> QED
    BY <1>1, <2>2
<1>3. S \subseteq Nat /\ S # {} /\ Num(b) \in Nat /\ \A y \in S : y <= Num(b)
  BY <1>1, <1>2
<1>4. PICK x \in S : \A y \in S : y <= x
  BY <1>3, Loop!LargestOf
<1>5. \A y \in S : x >= y
  BY <1>3, <1>4
<1>6. Max(S) \in S
  BY <1>5 DEF Max
<1> QED
  BY <1>6 DEF ForkPoint

\* What goes to the log at position n is a block with number n.
LEMMA MainBranchFacts ==
  ASSUME NEW f \in Fork, NEW n \in Nat \ {0}, MainBranchAt(f, n) # Nil
  PROVE  MainBranchAt(f, n) \in Block /\ Num(MainBranchAt(f, n)) = n
<1> DEFINE S == BlocksAt(f, n)
<1>1. \A b \in S : b \in Block /\ Num(b) = n
  BY ForkFacts DEF BlocksAt
<1>2. CASE Cardinality(S) = 0
  BY <1>2 DEF MainBranchAt
<1>3. CASE Cardinality(S) = 1
  <2>1. S # {}
    BY <1>3, FS_EmptySet
  <2>2. MainBranchAt(f, n) = CHOOSE b \in S : TRUE
    BY <1>3 DEF MainBranchAt
  <2> QED
    BY <1>1, <2>1, <2>2
<1>4. CASE Cardinality(S) # 0 /\ Cardinality(S) # 1
  <2>1. MainBranchAt(f, n) = WalkMainBranch(f, n)
    BY <1>4 DEF MainBranchAt
  <2>2. MainBranchAt(f, n) = At(f.head, n) /\ n <= Num(f.head)
    BY <2>1 DEF WalkMainBranch
  <2>3. f.head \in Block \cup {Nil} /\ Num(f.head) \in Nat
    BY ForkFacts, BlockFacts
  <2>4. n \in 0..Num(f.head)
    BY <2>2, <2>3
  <2> QED
    BY <2>2, <2>3, <2>4, BlockFacts
<1> QED
  BY <1>2, <1>3, <1>4

-----------------------------------------------------------------------------
(* The undo stack                                                          *)

LEMMA FrontFacts ==
  ASSUME NEW S, NEW s \in Seq(S), Len(s) > 0
  PROVE  /\ SubSeq(s, 1, Len(s) - 1) \in Seq(S)
         /\ Len(SubSeq(s, 1, Len(s) - 1)) = Len(s) - 1
         /\ \A i \in 1..(Len(s) - 1) : SubSeq(s, 1, Len(s) - 1)[i] = s[i]
<1>1. Len(s) - 1 \in 0..Len(s)
  OBVIOUS
<1> QED
  BY <1>1, AtFacts DEF At

\* The states on the undo stack are states, and their heads are prefixes of
\* the head.
LEMMA UndoEntries ==
  ASSUME TypeOK, UndoChain, rev = Num(st.head), NEW i \in 1..Len(undo)
  PROVE  /\ undo[i] \in State
         /\ rev - Len(undo) + i - 1 \in 0..(rev - 1)
         /\ undo[i].head = At(st.head, rev - Len(undo) + i - 1)
         /\ Num(undo[i].head) = rev - Len(undo) + i - 1
<1>1. undo[i] \in State /\ Len(undo) \in Nat /\ rev \in Nat /\ st \in State
  BY DEF TypeOK
<1>2. rev - Len(undo) + i - 1 \in 0..(rev - 1)
  BY <1>1 DEF UndoChain
<1>3. undo[i].head = At(st.head, rev - Len(undo) + i - 1)
  BY DEF UndoChain
<1>4. st.head \in Block \cup {Nil} /\ rev - Len(undo) + i - 1 \in 0..Num(st.head)
  BY <1>1, <1>2, StateFacts
<1> QED
  BY <1>1, <1>2, <1>3, <1>4, BlockFacts

\* undo() leads to an ancestor of the head, and to a stack of its ancestors.
LEMMA UndoFacts ==
  ASSUME TypeOK, UndoChain, rev = Num(st.head), Undo
  PROVE  /\ st' \in State /\ undo' \in Seq(State) /\ rev' \in Nat
         /\ Len(undo') <= rev'
         /\ rev' = Num(st'.head)
         /\ \A i \in 1..Len(undo') : undo'[i].head = At(st'.head, rev' - Len(undo') + i - 1)
         /\ rev' - Len(undo') = rev - Len(undo)
         /\ st' = UndoState
         /\ rev' <= rev
         /\ st'.head = At(st.head, rev')
<1>1. /\ st \in State /\ undo \in Seq(State) /\ rev \in Nat /\ Len(undo) \in Nat
      /\ st.head \in Block \cup {Nil} /\ Len(undo) <= rev
  BY StateFacts DEF TypeOK, UndoChain
<1>2. CASE undo = << >>
  <2>1. st' = st /\ undo' = undo /\ rev' = rev /\ st' = UndoState
    BY <1>2 DEF Undo, UndoState
  <2>2. At(st.head, Num(st.head)) = st.head
    BY <1>1, BlockFacts
  <2> QED
    BY <1>1, <2>1, <2>2 DEF UndoChain
<1>3. CASE undo # << >>
  <2>1. Len(undo) > 0 /\ Len(undo) \in 1..Len(undo)
    BY <1>1, <1>3
  <2>2. st' = undo[Len(undo)] /\ undo' = SubSeq(undo, 1, Len(undo) - 1) /\ rev' = rev - 1 /\ st' = UndoState
    BY <1>3 DEF Undo, UndoState, Last, Front
  <2>3. /\ st' \in State /\ st'.head = At(st.head, rev - 1) /\ Num(st'.head) = rev - 1
        /\ rev - 1 \in Nat
    <3>1. rev - Len(undo) + Len(undo) - 1 = rev - 1 /\ rev - 1 \in Nat
      BY <1>1, <2>1
    <3>2. /\ undo[Len(undo)] \in State
          /\ undo[Len(undo)].head = At(st.head, rev - Len(undo) + Len(undo) - 1)
          /\ Num(undo[Len(undo)].head) = rev - Len(undo) + Len(undo) - 1
      BY <2>1, UndoEntries
    <3> QED
      BY <2>2, <3>1, <3>2
  <2>4. /\ undo' \in Seq(State) /\ Len(undo') = Len(undo) - 1
        /\ \A i \in 1..(Len(undo) - 1) : undo'[i] = undo[i]
    BY <1>1, <2>1, <2>2, FrontFacts
  <2>5. ASSUME NEW i \in 1..Len(undo')
        PROVE  undo'[i].head = At(st'.head, rev' - Len(undo') + i - 1)
    <3>1. i \in 1..Len(undo) /\ i \in 1..(Len(undo) - 1)
      BY <1>1, <2>1, <2>4
    <3> DEFINE n == rev - Len(undo) + i - 1
    <3>2. undo'[i].head = At(st.head, n) /\ n \in 0..(rev - 1)
      BY <2>4, <3>1, UndoEntries
    <3>3. st.head \in Seq(Header) /\ rev - 1 \in 0..Len(st.head)
      BY <1>1, <2>1, BlockFacts DEF Num
    <3>4. At(At(st.head, rev - 1), n) = At(st.head, n)
      BY <3>2, <3>3, AtAt
    <3>5. rev' - Len(undo') + i - 1 = n
      BY <1>1, <2>2, <2>4
    <3> QED
      BY <2>3, <3>2, <3>4, <3>5
  <2>6. Len(undo') <= rev' /\ rev' - Len(undo') = rev - Len(undo) /\ rev' <= rev /\ rev' \in Nat
    BY <1>1, <2>1, <2>2, <2>4
  <2> QED
    BY <2>2, <2>3, <2>4, <2>5, <2>6
<1> QED
  BY <1>2, <1>3

\* commit() drops the oldest sessions, those up to the revision lib.
LEMMA UncommittedFacts ==
  ASSUME NEW S, NEW u \in Seq(S), NEW r \in Nat, Len(u) <= r, NEW lib \in 0..r
  PROVE  LET v == Uncommitted(u, r, lib)
         IN  /\ v \in Seq(S) /\ Len(v) \in 0..Len(u)
             /\ \A i \in 1..Len(v) : v[i] = u[i + Len(u) - Len(v)]
             /\ lib <= r - Len(v)
<1> DEFINE x == lib - (r - Len(u))
           m == Min({Len(u), x})
           k == Max({0, m})
<1>1. Len(u) \in Nat /\ x \in Int /\ x <= Len(u)
  OBVIOUS
<1>2. \A a \in Int : \A b \in Int : b <= a => Min({a, b}) = b
  <2> SUFFICES ASSUME NEW a \in Int, NEW b \in Int, b <= a PROVE Min({a, b}) = b
    OBVIOUS
  <2>1. \A y \in {a, b} : b <= y
    OBVIOUS
  <2>2. \E y \in {a, b} : \A z \in {a, b} : y <= z
    BY <2>1
  <2>3. Min({a, b}) \in {a, b} /\ \A z \in {a, b} : Min({a, b}) <= z
    BY <2>2 DEF Min
  <2> QED
    BY <2>3
<1>3. m = x
  BY <1>1, <1>2
<1>4. \A a \in Int : Max({0, a}) = IF a > 0 THEN a ELSE 0
  <2> SUFFICES ASSUME NEW a \in Int PROVE Max({0, a}) = IF a > 0 THEN a ELSE 0
    OBVIOUS
  <2>1. \E y \in {0, a} : \A z \in {0, a} : y >= z
    <3>1. CASE a > 0
      BY <3>1
    <3>2. CASE ~(a > 0)
      BY <3>2
    <3> QED
      BY <3>1, <3>2
  <2>2. Max({0, a}) \in {0, a} /\ \A z \in {0, a} : Max({0, a}) >= z
    BY <2>1 DEF Max
  <2> QED
    BY <2>2
<1>5. k = IF x > 0 THEN x ELSE 0
  BY <1>1, <1>3, <1>4
<1>6. k \in 0..Len(u) /\ x <= k
  BY <1>1, <1>5
<1>7. Uncommitted(u, r, lib) = SubSeq(u, k + 1, Len(u))
  BY DEF Uncommitted
<1> HIDE DEF k, m
<1>8. /\ SubSeq(u, k + 1, Len(u)) \in Seq(S)
      /\ Len(SubSeq(u, k + 1, Len(u))) = Len(u) - k
      /\ \A i \in 1..(Len(u) - k) : SubSeq(u, k + 1, Len(u))[i] = u[i + k]
  BY <1>1, <1>6
<1> DEFINE v == Uncommitted(u, r, lib)
<1>10. v \in Seq(S) /\ Len(v) = Len(u) - k /\ \A i \in 1..(Len(u) - k) : v[i] = u[i + k]
  BY <1>7, <1>8
<1> HIDE DEF v
<1>11. Len(v) \in 0..Len(u) /\ Len(u) - Len(v) = k /\ lib <= r - Len(v)
  BY <1>1, <1>6, <1>10
<1>12. ASSUME NEW i \in 1..Len(v) PROVE v[i] = u[i + Len(u) - Len(v)]
  <2>1. v[i] = u[i + k]
    BY <1>10
  <2>2. i + k = i + Len(u) - Len(v)
    BY <1>1, <1>6, <1>10
  <2> QED
    BY <2>1, <2>2
<1> QED
  BY <1>10, <1>11, <1>12 DEF v

\* An undo session around a block on top of the head.
LEMMA SessionFacts ==
  ASSUME TypeOK, UndoChain, rev = Num(st.head),
         NEW b \in Block, Previous(b) = st.head, NEW s \in State, s.head = b, Session(s)
  PROVE  /\ undo' \in Seq(State) /\ rev' \in Nat
         /\ Len(undo') <= rev'
         /\ rev' = Num(st'.head)
         /\ \A i \in 1..Len(undo') : undo'[i].head = At(st'.head, rev' - Len(undo') + i - 1)
         /\ rev - Len(undo) <= rev' - Len(undo')
         /\ st'.lib <= rev' - Len(undo')
<1> DEFINE u == Append(undo, st)
<1>1. /\ st \in State /\ undo \in Seq(State) /\ rev \in Nat /\ Len(undo) \in Nat
      /\ st.head \in Block \cup {Nil} /\ Len(undo) <= rev
  BY StateFacts DEF TypeOK, UndoChain
<1>2. Num(b) = rev + 1 /\ st.head = At(b, rev)
  BY <1>1, PreviousFacts
<1>0. st' = s /\ rev' = rev + 1
  BY DEF Session
<1>3. s.lib \in 0..(rev + 1)
  BY <1>2, StateFacts
<1>4. /\ u \in Seq(State) /\ Len(u) = Len(undo) + 1 /\ u[Len(u)] = st
      /\ \A i \in 1..Len(undo) : u[i] = undo[i]
  BY <1>1
<1> HIDE DEF u
<1>5. ASSUME NEW i \in 1..Len(u) PROVE u[i].head = At(b, rev - Len(undo) + i - 1)
  <2>1. CASE i = Len(u)
    <3>1. rev - Len(undo) + i - 1 = rev
      BY <1>1, <1>4, <2>1
    <3> QED
      BY <1>2, <1>4, <2>1, <3>1
  <2>2. CASE i # Len(u)
    <3> DEFINE n == rev - Len(undo) + i - 1
    <3>1. i \in 1..Len(undo)
      BY <1>1, <1>4, <2>2
    <3>2. u[i].head = At(st.head, n) /\ n \in 0..(rev - 1)
      BY <1>4, <3>1, UndoEntries
    <3>3. b \in Seq(Header) /\ rev \in 0..Len(b) /\ n \in 0..rev
      BY <1>1, <1>2, <3>2, BlockFacts DEF Num
    <3>4. At(At(b, rev), n) = At(b, n)
      BY <3>3, AtAt
    <3> QED
      BY <1>2, <3>2, <3>4
  <2> QED
    BY <2>1, <2>2
<1>6. /\ undo' \in Seq(State) /\ Len(undo') \in 0..Len(u)
      /\ \A i \in 1..Len(undo') : undo'[i] = u[i + Len(u) - Len(undo')]
      /\ s.lib <= rev + 1 - Len(undo')
  <2>1. undo' = Uncommitted(u, rev + 1, s.lib)
    BY DEF u, Session
  <2>2. rev + 1 \in Nat /\ Len(u) <= rev + 1
    BY <1>1, <1>4
  <2> DEFINE r == rev + 1
             l == s.lib
             v == Uncommitted(u, r, l)
  <2>3. r \in Nat /\ Len(u) <= r /\ l \in 0..r
    BY <1>3, <2>2
  <2>4. undo' = v /\ l = s.lib /\ r = rev + 1
    BY <2>1
  <2> HIDE DEF r, l
  <2>5. /\ v \in Seq(State) /\ Len(v) \in 0..Len(u)
        /\ \A i \in 1..Len(v) : v[i] = u[i + Len(u) - Len(v)]
        /\ l <= r - Len(v)
    BY <1>4, <2>3, UncommittedFacts
  <2> HIDE DEF v
  <2>6. /\ undo' \in Seq(State) /\ Len(undo') \in 0..Len(u)
        /\ \A i \in 1..Len(undo') : undo'[i] = u[i + Len(u) - Len(undo')]
    BY <2>4, <2>5
  <2>7. s.lib <= rev + 1 - Len(undo')
    <3>1. Len(v) \in Nat /\ l \in Nat /\ r \in Nat /\ rev \in Nat
      BY <1>1, <1>4, <2>3, <2>5
    <3> QED
      BY <2>4, <2>5, <3>1
  <2> QED
    BY <2>6, <2>7
<1>7. ASSUME NEW i \in 1..Len(undo')
      PROVE  undo'[i].head = At(st'.head, rev' - Len(undo') + i - 1)
  <2> DEFINE j == i + Len(u) - Len(undo')
  <2>1. j \in 1..Len(u) /\ undo'[i] = u[j]
    BY <1>1, <1>4, <1>6
  <2>2. rev - Len(undo) + j - 1 = rev' - Len(undo') + i - 1
    <3>1. i \in Nat /\ Len(undo') \in Nat /\ Len(undo) \in Nat /\ rev \in Nat
      BY <1>1, <1>4, <1>6
    <3>2. Len(u) = Len(undo) + 1 /\ rev' = rev + 1
      BY <1>0, <1>4
    <3> QED
      BY <3>1, <3>2
  <2> QED
    BY <1>0, <1>5, <2>1, <2>2
<1>8. rev' \in Nat /\ Len(undo') <= rev' /\ rev - Len(undo) <= rev' - Len(undo')
  BY <1>0, <1>1, <1>4, <1>6
<1>9. rev' = Num(st'.head) /\ st'.lib <= rev' - Len(undo')
  BY <1>0, <1>1, <1>2, <1>3, <1>4, <1>6
<1> QED
  BY <1>6, <1>7, <1>8, <1>9

-----------------------------------------------------------------------------
(* The steps of push_block                                                 *)

\* The state of a running node.
Ancestors ==
    /\ st \in State /\ undo \in Seq(State) /\ rev \in Nat
    /\ Len(undo) <= rev
    /\ rev = Num(st.head)
    /\ \A i \in 1..Len(undo) : undo[i].head = At(st.head, rev - Len(undo) + i - 1)

LEMMA RunningFacts ==
  ASSUME IndInv, Up
  PROVE  /\ Ancestors /\ rev = Num(st.head)
         /\ Len(log) \in Nat /\ Len(undo) \in Nat /\ Len(log) <= rev - Len(undo)
         /\ st.head \in Block \cup {Nil}
  BY StateFacts DEF IndInv, TypeOK, UndoChain, Ancestors, LoggedIsCommitted, RewoundRev

\* The exception handlers.
LEMMA FailFacts ==
  ASSUME job \in Job, NEW f \in Fork, NEW s, NEW b, Fail(s, f, b)
  PROVE  /\ fork' \in Fork /\ job' \in Job
         /\ pc' \in {"idle", "apply", "pop"}
         /\ pc' # "idle" => /\ job.mode # "extend" /\ job'.mode = "recover"
                            /\ job'.to = job.from /\ job'.from = job.from
                            /\ job'.base = job.base
         /\ pc' = "apply" => s.head = Target
<1>0. NoJob \in Job
  BY DEF NoJob, Job, Nil
<1>1. CASE job.mode = "extend" /\ fork' = RemoveBlocks(f, {b}) /\ pc' = "idle" /\ job' = NoJob
  <2>1. fork' \in Fork
    BY <1>1, DropFacts DEF RemoveBlocks
  <2> QED
    BY <1>0, <1>1, <2>1
<1>2. CASE /\ job.mode = "switch"
           /\ fork' = SetHead(RemoveBlocks(f, {At(job.to, n) : n \in Num(b)..Num(job.to)}), job.from)
           /\ job' = [job EXCEPT !.mode = "recover", !.to = job.from]
           /\ pc' = IF s.head = Target THEN "apply" ELSE "pop"
  <2>1. job.from \in Block \cup {Nil}
    BY DEF Job
  <2>2. fork' \in Fork
    BY <1>2, <2>1, DropFacts, SetHeadFacts DEF RemoveBlocks
  <2>3. /\ job' \in Job /\ job'.mode = "recover"
        /\ job'.to = job.from /\ job'.from = job.from /\ job'.base = job.base
    BY <1>2 DEF Job
  <2> QED
    BY <1>2, <2>2, <2>3
<1>3. CASE job.mode = "recover" /\ fork' = f /\ pc' = "idle" /\ job' = NoJob
  BY <1>0, <1>3
<1> QED
  BY <1>1, <1>2, <1>3 DEF Fail

\* A step that throws leaves the invariant, whatever was undone before.
LEMMA ThrowInv ==
  ASSUME IndInv, pc \in {"apply", "log"}, NEW f \in Fork, NEW s, NEW b, Fail(s, f, b),
         s = st', Ancestors', rev' - Len(undo') = rev - Len(undo), log' = log
  PROVE  IndInv'
<1>1. /\ job \in Job /\ log \in Seq(Block) /\ Len(log) <= rev - Len(undo)
      /\ LogNumbers /\ Len(log) \in Nat
  BY RunningFacts DEF IndInv, TypeOK, Up, Running
<1>2. /\ fork' \in Fork /\ job' \in Job
      /\ pc' \in {"idle", "apply", "pop"}
      /\ pc' # "idle" => /\ job.mode # "extend" /\ job'.mode = "recover"
                         /\ job'.to = job.from /\ job'.from = job.from
                         /\ job'.base = job.base
      /\ pc' = "apply" => s.head = Target
  BY <1>1, FailFacts
<1>3. job.mode # "extend" => job.from \in Block /\ job.base < Num(job.from) /\ job.base \in Nat
  BY DEF IndInv, JobInv, Running, TypeOK, Job
<1>4. TypeOK' /\ UndoChain' /\ StartInv'
  <2>1. (log \in Seq(Block))' /\ (fork \in Fork)' /\ (job \in Job)'
    BY <1>1, <1>2
  <2> QED
    BY <1>2, <2>1 DEF Ancestors, TypeOK, UndoChain, StartInv
<1>5. LoggedIsCommitted' /\ LogNumbers'
  BY <1>1 DEF LoggedIsCommitted, RewoundRev, LogNumbers
<1>6. pc' = "apply" => Num(st'.head) = job.base
  <2> SUFFICES ASSUME pc' = "apply" PROVE Num(st'.head) = job.base
    OBVIOUS
  <2>1. st'.head = At(job.from, job.base)
    BY <1>2 DEF Target
  <2>2. job.from \in Block /\ Num(job.from) \in Nat /\ job.base \in 0..Num(job.from)
    BY <1>2, <1>3, BlockFacts
  <2> QED
    BY <2>1, <2>2, BlockFacts
<1>7. JobInv'
  BY <1>2, <1>3, <1>6 DEF JobInv, Running
<1> QED
  BY <1>4, <1>5, <1>7 DEF IndInv

LEMMA ApplyThrowsInv == IndInv /\ ApplyThrows => IndInv'
<1> SUFFICES ASSUME IndInv, ApplyThrows PROVE IndInv'
  OBVIOUS
<1>1. /\ pc = "apply" /\ Fail(st, fork, NextBlock) /\ st' = st /\ undo' = undo
      /\ rev' = rev /\ log' = log
  BY DEF ApplyThrows
<1>2. Ancestors /\ fork \in Fork
  BY <1>1, RunningFacts DEF Up, Running, IndInv, TypeOK
<1>3. Ancestors'
  BY <1>1, <1>2 DEF Ancestors
<1> QED
  BY <1>1, <1>2, <1>3, ThrowInv

\* The undo session of a block that was applied is undone.
LEMMA UndoneInv ==
  ASSUME IndInv, pc = "log", Undo, NEW f \in Fork, NEW b, Fail(UndoState, f, b), log' = log
  PROVE  IndInv'
<1>1. Up /\ TypeOK /\ UndoChain
  BY DEF Up, Running, IndInv
<1>2. rev = Num(st.head)
  BY <1>1 DEF UndoChain
<1>3. Ancestors' /\ rev' - Len(undo') = rev - Len(undo) /\ st' = UndoState
  BY <1>1, <1>2, UndoFacts DEF Ancestors
<1> QED
  BY <1>3, ThrowInv

LEMMA LogThrowsInv == IndInv /\ LogThrows => IndInv'
<1> SUFFICES ASSUME IndInv, LogThrows PROVE IndInv'
  OBVIOUS
<1>1. fork \in Fork /\ pc = "log" /\ Undo /\ Fail(UndoState, fork, st.head) /\ log' = log
  BY DEF LogThrows, IndInv, TypeOK
<1> QED
  BY <1>1, UndoneInv

LEMMA ResizedFacts ==
  ASSUME TypeOK
  PROVE  Resized \in Fork
<1>1. st \in State /\ fork \in Fork
  BY DEF TypeOK
<1>2. Num(st.head) - st.lib + 1 \in Nat
  BY <1>1, StateFacts
<1> QED
  BY <1>1, <1>2, SetMaxSizeFacts DEF Resized

LEMMA FinishThrowsInv == IndInv /\ FinishThrows => IndInv'
<1> SUFFICES ASSUME IndInv, FinishThrows PROVE IndInv'
  OBVIOUS
<1>1. pc = "log" /\ Undo /\ Fail(UndoState, Resized, st.head) /\ log' = log
  BY DEF FinishThrows
<1>2. Resized \in Fork
  BY ResizedFacts DEF IndInv
<1> QED
  BY <1>1, <1>2, UndoneInv

LEMMA PushInv == ASSUME IndInv, NEW b \in Block, Push(b) PROVE IndInv'
<1> DEFINE f == PushBlock(fork, b)
<1>1. /\ pc = "idle" /\ fork' = f
      /\ st' = st /\ undo' = undo /\ rev' = rev /\ log' = log
  BY DEF Push
<1>2. Ancestors /\ fork \in Fork /\ job \in Job /\ log \in Seq(Block)
  BY <1>1, RunningFacts DEF Up, Running, IndInv, TypeOK
<1>3. f \in Fork /\ f.head \in Block
  BY <1>2, PushBlockFacts
<1>4. /\ st.head \in Block \cup {Nil} /\ Num(st.head) \in Nat /\ b \in Block \cup {Nil}
      /\ f.head \in Block \cup {Nil}
  BY <1>2, <1>3, StateFacts DEF Ancestors
<1>5. /\ job' \in Job /\ pc' \in {"idle", "pop", "apply"} /\ JobInv'
  <2>1. CASE /\ job' = [mode |-> "extend", to |-> b, from |-> st.head, base |-> Num(st.head)]
             /\ pc' = "apply"
    <3>1. job' \in Job /\ job'.mode = "extend" /\ job'.to = b
      BY <1>4, <2>1 DEF Job
    <3> QED
      BY <2>1, <3>1 DEF JobInv, Running
  <2>2. CASE /\ Num(f.head) > Num(st.head)
             /\ CanFetchBranches(f, f.head, st.head)
             /\ job' = [mode |-> "switch", to |-> f.head, from |-> st.head,
                        base |-> ForkPoint(f.head, st.head)]
             /\ pc' = "pop"
    <3>1. st.head \in Block
      BY <1>3, <2>2, ForkFacts DEF CanFetchBranches
    <3>2. ForkPoint(f.head, st.head) \in 0..(Num(st.head) - 1)
      BY <1>3, <3>1, ForkPointFacts
    <3>3. Num(f.head) \in Nat /\ Num(st.head) \in Nat
      BY <1>4, BlockFacts
    <3> DEFINE h == f.head
               n == ForkPoint(f.head, st.head)
    <3>4. n \in Nat /\ n < Num(st.head) /\ n < Num(h) /\ h \in Block
      BY <1>3, <2>2, <3>2, <3>3
    <3>5. job' = [mode |-> "switch", to |-> h, from |-> st.head, base |-> n] /\ pc' = "pop"
      BY <2>2
    <3> HIDE DEF h, n
    <3>6. /\ job' \in Job /\ job'.mode = "switch" /\ job'.to = h /\ job'.from = st.head
          /\ job'.base = n
      BY <3>1, <3>4, <3>5 DEF Job
    <3> QED
      BY <3>1, <3>4, <3>5, <3>6 DEF JobInv, Running
  <2>3. CASE job' = job /\ pc' = pc
    BY <1>1, <1>2, <2>3 DEF JobInv, Running
  <2> QED
    BY <2>1, <2>2, <2>3 DEF Push
<1>6. TypeOK' /\ UndoChain' /\ StartInv'
  <2>1. fork' \in Fork
    BY <1>1, <1>3
  <2> QED
    BY <1>1, <1>2, <1>5, <2>1 DEF Ancestors, TypeOK, UndoChain, StartInv
<1>7. LoggedIsCommitted' /\ LogNumbers'
  <2>1. LoggedIsCommitted /\ LogNumbers /\ Up
    BY <1>1 DEF IndInv, Up, Running
  <2> QED
    BY <1>1, <2>1 DEF LoggedIsCommitted, RewoundRev, LogNumbers
<1> QED
  BY <1>5, <1>6, <1>7 DEF IndInv

LEMMA PopBlockInv == IndInv /\ PopBlockOfState => IndInv'
<1> SUFFICES ASSUME IndInv, PopBlockOfState PROVE IndInv'
  OBVIOUS
<1>1. /\ pc = "pop" /\ CanPop(fork) /\ fork' = PopBlock(fork) /\ Undo
      /\ pc' = IF UndoState.head = Target THEN "apply" ELSE "pop"
      /\ log' = log /\ job' = job
  BY DEF PopBlockOfState
<1>2. Up /\ TypeOK /\ UndoChain /\ fork \in Fork /\ job \in Job /\ log \in Seq(Block)
  BY <1>1 DEF Up, Running, IndInv, TypeOK
<1>3. rev = Num(st.head) /\ LogNumbers /\ Len(log) <= rev - Len(undo)
  BY <1>2, RunningFacts DEF IndInv
<1>4. Ancestors' /\ rev' - Len(undo') = rev - Len(undo) /\ st' = UndoState
  BY <1>1, <1>2, <1>3, UndoFacts DEF Ancestors
<1>5. TypeOK' /\ UndoChain' /\ StartInv'
  <2>1. fork' \in Fork /\ job' \in Job /\ log' \in Seq(Block) /\ pc' \in {"apply", "pop"}
    BY <1>1, <1>2, PopBlockFacts
  <2> QED
    BY <1>4, <2>1 DEF Ancestors, TypeOK, UndoChain, StartInv
<1>6. LoggedIsCommitted' /\ LogNumbers'
  BY <1>1, <1>3, <1>4 DEF LoggedIsCommitted, RewoundRev, LogNumbers
<1>7. /\ job.mode # "extend" /\ job.to \in Block /\ job.from \in Block /\ job.base \in Nat
      /\ job.base < Num(job.from) /\ job.base < Num(job.to)
  BY <1>1, <1>2 DEF IndInv, JobInv, Running, Job
<1>8. pc' = "apply" => Num(st'.head) = job.base
  <2> SUFFICES ASSUME pc' = "apply" PROVE Num(st'.head) = job.base
    OBVIOUS
  <2>1. st'.head = At(job.from, job.base)
    BY <1>1, <1>4 DEF Target
  <2>2. job.from \in Block /\ Num(job.from) \in Nat /\ job.base \in 0..Num(job.from)
    BY <1>7, BlockFacts
  <2> QED
    BY <2>1, <2>2, BlockFacts
<1>9. JobInv'
  BY <1>1, <1>7, <1>8 DEF JobInv, Running
<1> QED
  BY <1>5, <1>6, <1>9 DEF IndInv

LEMMA PopThrowsInv == IndInv /\ PopThrows => IndInv'
<1> SUFFICES ASSUME IndInv, PopThrows PROVE IndInv'
  OBVIOUS
<1>1. /\ pc = "pop" /\ pc' = "idle" /\ job' = NoJob
      /\ st' = st /\ undo' = undo /\ rev' = rev /\ log' = log /\ fork' = fork
  BY DEF PopThrows
<1>2. NoJob \in Job
  BY DEF NoJob, Job, Nil
<1>3. TypeOK' /\ LogNumbers'
  BY <1>1, <1>2 DEF IndInv, TypeOK, LogNumbers
<1>4. UndoChain' /\ LoggedIsCommitted'
  BY <1>1 DEF IndInv, UndoChain, LoggedIsCommitted, RewoundRev, Up, Running
<1>5. JobInv' /\ StartInv'
  BY <1>1 DEF JobInv, StartInv, Running
<1> QED
  BY <1>3, <1>4, <1>5 DEF IndInv

\* The block that is applied next is a block, one above the head.
LEMMA NextBlockFacts ==
  ASSUME IndInv, pc = "apply", Previous(NextBlock) = st.head
  PROVE  /\ NextBlock \in Block /\ Num(NextBlock) = Num(st.head) + 1
         /\ Num(NextBlock) <= Num(job.to) /\ NextBlock = At(job.to, Num(NextBlock))
         /\ job.mode = "extend" => NextBlock = job.to
<1>1. st.head \in Block \cup {Nil} /\ Num(st.head) \in Nat
  BY StateFacts DEF IndInv, TypeOK
<1>2. job.to \in Block /\ job.to \in Block \cup {Nil}
  BY DEF IndInv, JobInv, Running
<1>3. NextBlock \in Block /\ Num(NextBlock) <= Num(job.to) /\ NextBlock = At(job.to, Num(NextBlock))
  <2>1. CASE job.mode = "extend"
    BY <1>2, <2>1, BlockFacts DEF NextBlock
  <2>2. CASE job.mode # "extend"
    <3>1. Num(st.head) < Num(job.to) /\ NextBlock = At(job.to, Num(st.head) + 1)
      BY <2>2 DEF IndInv, JobInv, NextBlock
    <3>2. Num(job.to) \in Nat
      BY <1>2, BlockFacts
    <3>3. Num(st.head) + 1 \in 0..Num(job.to)
      BY <1>1, <3>1, <3>2
    <3>4. NextBlock \in Block \cup {Nil} /\ Num(NextBlock) = Num(st.head) + 1
      BY <1>2, <3>1, <3>3, BlockFacts
    <3> QED
      BY <1>1, <3>1, <3>3, <3>4, BlockFacts
  <2> QED
    BY <2>1, <2>2
<1>4. Num(NextBlock) = Num(st.head) + 1
  BY <1>1, <1>3, PreviousFacts
<1> QED
  BY <1>3, <1>4 DEF NextBlock

LEMMA ApplyBlockInv == IndInv /\ ApplyBlock => IndInv'
<1> SUFFICES ASSUME IndInv, ApplyBlock PROVE IndInv'
  OBVIOUS
<1> DEFINE b == NextBlock
           s == StateAfter(st, b)
<1>1. /\ pc = "apply" /\ Previous(b) = st.head /\ Session(s) /\ st' = s /\ pc' = "log"
      /\ log' = log /\ fork' = fork /\ job' = job
  BY DEF ApplyBlock, Applies, Session
<1>2. /\ Up /\ TypeOK /\ UndoChain /\ st \in State /\ fork \in Fork /\ job \in Job
      /\ log \in Seq(Block) /\ LogNumbers /\ Len(log) \in Nat
  BY <1>1 DEF Up, Running, IndInv, TypeOK
<1>3. rev = Num(st.head) /\ Len(log) <= rev - Len(undo) /\ rev \in Nat /\ Len(undo) \in Nat
  BY <1>2, RunningFacts DEF Ancestors
<1>4. /\ b \in Block /\ Num(b) = Num(st.head) + 1
      /\ Num(b) <= Num(job.to) /\ b = At(job.to, Num(b))
      /\ job.mode = "extend" => b = job.to
  BY <1>1, NextBlockFacts
<1> HIDE DEF b
<1>5. s \in State /\ s.head = b
  BY <1>2, <1>4, StateAfterFacts
<1> HIDE DEF s
<1>6. /\ Ancestors'
      /\ rev - Len(undo) <= rev' - Len(undo') /\ st'.lib <= rev' - Len(undo')
  BY <1>1, <1>2, <1>3, <1>4, <1>5, SessionFacts DEF Ancestors
<1>7. rev' \in Nat /\ Len(undo') \in Nat
  BY <1>6 DEF Ancestors
<1>8. TypeOK' /\ UndoChain' /\ StartInv'
  BY <1>1, <1>2, <1>6 DEF Ancestors, TypeOK, UndoChain, StartInv
<1>9. LoggedIsCommitted' /\ LogNumbers'
  BY <1>1, <1>2, <1>3, <1>6, <1>7 DEF LoggedIsCommitted, RewoundRev, LogNumbers
<1>10. st'.head = b /\ b # Nil
  BY <1>1, <1>4, <1>5, BlockAssumption
<1>11. JobInv'
  <2>1. /\ job.to \in Block
        /\ job.mode # "extend" =>
             job.from \in Block /\ job.base < Num(job.from) /\ job.base < Num(job.to)
    BY <1>1 DEF IndInv, JobInv, Running
  <2> QED
    BY <1>1, <1>4, <1>6, <1>10, <2>1 DEF JobInv, Running, RewoundRev
<1> QED
  BY <1>8, <1>9, <1>11 DEF IndInv

LEMMA LogBlockInv == IndInv /\ LogBlock => IndInv'
<1> SUFFICES ASSUME IndInv, LogBlock PROVE IndInv'
  OBVIOUS
<1> DEFINE b == ToLog
<1>1. /\ pc = "log" /\ Len(log) < st.lib /\ b # Nil /\ log' = Append(log, b)
      /\ st' = st /\ undo' = undo /\ rev' = rev /\ fork' = fork /\ pc' = pc /\ job' = job
  BY DEF LogBlock
<1>2. /\ log \in Seq(Block) /\ Len(log) \in Nat /\ fork \in Fork /\ st \in State
      /\ LogNumbers /\ rev \in Nat /\ Len(undo) \in Nat
  BY DEF IndInv, TypeOK
<1>3. b \in Block /\ Num(b) = Len(log) + 1
  BY <1>1, <1>2, MainBranchFacts DEF ToLog
<1> HIDE DEF b
<1>4. /\ log' \in Seq(Block) /\ Len(log') = Len(log) + 1
      /\ log'[Len(log) + 1] = b /\ \A i \in 1..Len(log) : log'[i] = log[i]
  BY <1>1, <1>2, <1>3
<1>5. LogNumbers'
  <2> SUFFICES ASSUME NEW i \in 1..Len(log') PROVE Num(log'[i]) = i
    BY DEF LogNumbers
  <2>1. i \in 1..Len(log) \/ i = Len(log) + 1
    BY <1>2, <1>4
  <2> QED
    BY <1>2, <1>3, <1>4, <2>1 DEF LogNumbers
<1>6. LoggedIsCommitted'
  <2>1. st.lib \in Nat /\ st.lib <= rev - Len(undo)
    BY <1>1, <1>2, StateFacts DEF IndInv, JobInv, RewoundRev
  <2> QED
    BY <1>1, <1>2, <1>4, <2>1 DEF LoggedIsCommitted, RewoundRev
<1>7. TypeOK' /\ UndoChain'
  BY <1>1, <1>4 DEF IndInv, TypeOK, UndoChain, Up, Running
<1>8. JobInv' /\ StartInv'
  BY <1>1 DEF IndInv, JobInv, StartInv, Running, RewoundRev
<1> QED
  BY <1>5, <1>6, <1>7, <1>8 DEF IndInv

LEMMA FinishApplyInv == IndInv /\ FinishApply => IndInv'
<1> SUFFICES ASSUME IndInv, FinishApply PROVE IndInv'
  OBVIOUS
<1>1. /\ pc = "log" /\ fork' = Resized
      /\ pc' = IF st.head = job.to THEN "idle" ELSE "apply"
      /\ job' = IF st.head = job.to THEN NoJob ELSE job
      /\ st' = st /\ undo' = undo /\ rev' = rev /\ log' = log
  BY DEF FinishApply
<1>2. Resized \in Fork
  BY ResizedFacts DEF IndInv
<1>3. NoJob \in Job
  BY DEF NoJob, Job, Nil
<1>4. TypeOK' /\ LogNumbers'
  BY <1>1, <1>2, <1>3 DEF IndInv, TypeOK, LogNumbers
<1>5. UndoChain' /\ LoggedIsCommitted'
  BY <1>1 DEF IndInv, UndoChain, LoggedIsCommitted, RewoundRev, Up, Running
<1>6. CASE st.head = job.to
  <2>1. JobInv' /\ StartInv'
    BY <1>1, <1>6 DEF JobInv, StartInv, Running
  <2> QED
    BY <1>4, <1>5, <2>1 DEF IndInv
<1>7. CASE st.head # job.to
  <2>1. /\ job.mode # "extend" /\ job.to \in Block /\ job.from \in Block
        /\ job.base < Num(job.from) /\ job.base < Num(job.to)
        /\ Num(st.head) <= Num(job.to) /\ st.head = At(job.to, Num(st.head))
    BY <1>1, <1>7 DEF IndInv, JobInv, Running
  <2>2. At(job.to, Num(job.to)) = job.to /\ Num(job.to) \in Nat /\ Num(st.head) \in Nat
    BY <2>1, BlockFacts, StateFacts DEF IndInv, TypeOK
  <2>3. Num(st.head) # Num(job.to)
    BY <1>7, <2>1, <2>2
  <2>4. Num(st.head) < Num(job.to)
    BY <2>1, <2>2, <2>3
  <2>5. JobInv' /\ StartInv'
    BY <1>1, <1>7, <2>1, <2>4 DEF JobInv, StartInv, Running
  <2> QED
    BY <1>4, <1>5, <2>5 DEF IndInv
<1> QED
  BY <1>6, <1>7

-----------------------------------------------------------------------------
(* Stopping and starting                                                   *)

LEMMA StopInv == IndInv /\ Stop => IndInv'
<1> SUFFICES ASSUME IndInv, Stop PROVE IndInv'
  OBVIOUS
<1>1. /\ pc' = "down" /\ fork' = EmptyFork /\ job' = NoJob
      /\ st' = st /\ undo' = undo /\ rev' = rev /\ log' = log
  BY DEF Stop
<1>2. NoJob \in Job /\ EmptyFork \in Fork
  BY EmptyForkFacts DEF NoJob, Job, Nil
<1>3. TypeOK' /\ LogNumbers'
  BY <1>1, <1>2 DEF IndInv, TypeOK, LogNumbers
<1>4. UndoChain' /\ LoggedIsCommitted' /\ JobInv' /\ StartInv'
  BY <1>1 DEF IndInv, UndoChain, LoggedIsCommitted, RewoundRev, JobInv, StartInv, Up, Running
<1> QED
  BY <1>3, <1>4 DEF IndInv

\* What undo_all() leads to.
LEMMA RewoundFacts ==
  ASSUME IndInv
  PROVE  /\ RewoundState \in State /\ RewoundRev \in Nat
         /\ RewoundState.head \in Block \cup {Nil} /\ Num(RewoundState.head) \in Nat
<1>1. /\ st \in State /\ undo \in Seq(State) /\ rev \in Nat /\ Len(undo) \in Nat
      /\ Len(undo) <= rev
  BY DEF IndInv, TypeOK, UndoChain
<1>2. RewoundState \in State
  <2>1. CASE undo = << >>
    BY <1>1, <2>1 DEF RewoundState
  <2>2. CASE undo # << >>
    <3>1. 1 \in 1..Len(undo)
      BY <1>1, <2>2
    <3>2. undo[1] \in State
      BY <1>1, <3>1
    <3> QED
      BY <2>2, <3>2 DEF RewoundState
  <2> QED
    BY <2>1, <2>2
<1> QED
  BY <1>1, <1>2, StateFacts DEF RewoundRev

\* A start that leaves no undo session: what is left to show.
LEMMA StartedInv ==
  ASSUME log \in Seq(Block), LogNumbers, log' = log, undo' = << >>,
         st' \in State, rev' \in Nat, fork' \in Fork, job' \in Job,
         pc' \in {"idle", "reindex", "reindexed", "stuck"},
         pc' = "idle" => rev' = Num(st'.head) /\ Len(log) <= rev',
         pc' = "reindex" => Num(st'.head) < Len(log),
         pc' = "reindexed" => log # << >> /\ Num(st'.head) = Len(log)
  PROVE  IndInv'
<1>1. Len(undo') = 0 /\ undo' \in Seq(State) /\ Len(undo') <= rev'
  OBVIOUS
<1>2. TypeOK' /\ LogNumbers'
  BY <1>1 DEF TypeOK, LogNumbers
<1>3. UndoChain'
  BY <1>1 DEF UndoChain, Up, Running
<1>4. LoggedIsCommitted'
  <2>1. pc' = "idle" => Len(log') <= rev' - Len(undo')
    BY <1>1
  <2> QED
    BY <2>1 DEF LoggedIsCommitted, Up, Running, RewoundRev
<1>5. JobInv' /\ StartInv'
  BY DEF JobInv, StartInv, Running
<1> QED
  BY <1>2, <1>3, <1>4, <1>5 DEF IndInv

LEMMA OpenDatabaseInv == IndInv /\ OpenDatabase => IndInv'
<1> SUFFICES ASSUME IndInv, OpenDatabase PROVE IndInv'
  OBVIOUS
<1>1. /\ RewoundRev = Num(RewoundState.head) /\ (log # << >> => RewoundRev = Len(log))
      /\ st' = RewoundState /\ rev' = RewoundRev /\ undo' = << >>
      /\ fork' = IF st'.head = Nil THEN fork ELSE StartBlock(fork, st'.head)
      /\ pc' = "idle" /\ log' = log /\ job' = job
  BY DEF OpenDatabase
<1>2. RewoundState \in State /\ RewoundRev \in Nat /\ RewoundState.head \in Block \cup {Nil}
  BY RewoundFacts
<1>3. fork \in Fork /\ job \in Job /\ log \in Seq(Block) /\ LogNumbers
  BY DEF IndInv, TypeOK
<1>4. fork' \in Fork
  BY <1>1, <1>2, <1>3, StartBlockFacts
<1>5. Len(log) <= rev'
  <2>1. CASE log = << >>
    BY <1>1, <1>2, <2>1
  <2>2. CASE log # << >>
    BY <1>1, <1>2, <1>3, <2>2
  <2> QED
    BY <2>1, <2>2
<1> QED
  BY <1>1, <1>2, <1>3, <1>4, <1>5, StartedInv

LEMMA OpenAndReplayInv == IndInv /\ OpenAndReplay => IndInv'
<1> SUFFICES ASSUME IndInv, OpenAndReplay PROVE IndInv'
  OBVIOUS
<1>1. /\ RewoundRev = Num(RewoundState.head) /\ StateInLog(RewoundState)
      /\ log # << >> /\ RewoundRev # Len(log)
      /\ st' = RewoundState /\ rev' = RewoundRev /\ undo' = << >>
      /\ pc' = "reindex" /\ log' = log /\ fork' = fork /\ job' = job
  BY DEF OpenAndReplay
<1>2. /\ RewoundState \in State /\ RewoundRev \in Nat /\ RewoundState.head \in Block \cup {Nil}
      /\ Num(RewoundState.head) \in Nat
  BY RewoundFacts
<1>3. fork \in Fork /\ job \in Job /\ log \in Seq(Block) /\ LogNumbers /\ Len(log) \in Nat \ {0}
  BY <1>1 DEF IndInv, TypeOK
<1>4. Num(RewoundState.head) < Len(log)
  <2>1. CASE RewoundState.head = Nil
    BY <1>3, <2>1, GenesisFacts
  <2>2. CASE RewoundState.head # Nil
    BY <1>1, <1>2, <1>3, <2>2 DEF StateInLog
  <2> QED
    BY <2>1, <2>2
<1> QED
  BY <1>1, <1>2, <1>3, <1>4, StartedInv

LEMMA RevisionMismatchInv == IndInv /\ RevisionMismatch => IndInv'
<1> SUFFICES ASSUME IndInv, RevisionMismatch PROVE IndInv'
  OBVIOUS
<1>1. undo' = << >> /\ log' = log /\ fork' = fork /\ job' = job /\ log # << >>
  BY DEF RevisionMismatch
<1>2. /\ RewoundState \in State /\ RewoundRev \in Nat /\ RewoundState.head \in Block \cup {Nil}
      /\ Num(RewoundState.head) \in Nat
  BY RewoundFacts
<1>3. fork \in Fork /\ job \in Job /\ log \in Seq(Block) /\ LogNumbers /\ Len(log) \in Nat \ {0}
  BY <1>1 DEF IndInv, TypeOK
<1>4. CASE st' = Genesis /\ rev' = 0 /\ pc' = "reindex"
  <2>1. st' \in State /\ Num(st'.head) < Len(log)
    BY <1>3, <1>4, GenesisFacts
  <2> QED
    BY <1>1, <1>3, <1>4, <2>1, StartedInv
<1>5. CASE /\ st' = RewoundState /\ rev' = RewoundRev
           /\ pc' = IF Num(st'.head) < Len(log) THEN "reindex" ELSE "stuck"
  BY <1>1, <1>2, <1>3, <1>5, StartedInv
<1> QED
  BY <1>4, <1>5 DEF RevisionMismatch

LEMMA LogMismatchInv == IndInv /\ LogMismatch => IndInv'
<1> SUFFICES ASSUME IndInv, LogMismatch PROVE IndInv'
  OBVIOUS
<1>1. /\ st' = Genesis /\ rev' = 0 /\ undo' = << >>
      /\ pc' = IF log = << >> THEN "idle" ELSE "reindex"
      /\ log' = log /\ fork' = fork /\ job' = job
  BY DEF LogMismatch
<1>2. fork \in Fork /\ job \in Job /\ log \in Seq(Block) /\ LogNumbers /\ Len(log) \in Nat
  BY DEF IndInv, TypeOK
<1>3. st' \in State /\ Num(st'.head) = 0
  BY <1>1, GenesisFacts
<1>4. CASE log = << >>
  <2>1. Len(log) <= rev'
    BY <1>1, <1>4
  <2> QED
    BY <1>1, <1>2, <1>3, <1>4, <2>1, StartedInv
<1>5. CASE log # << >>
  <2>1. Num(st'.head) < Len(log)
    BY <1>2, <1>3, <1>5
  <2> QED
    BY <1>1, <1>2, <1>3, <1>5, <2>1, StartedInv
<1> QED
  BY <1>4, <1>5

LEMMA ReindexBlockInv == IndInv /\ ReindexBlock => IndInv'
<1> SUFFICES ASSUME IndInv, ReindexBlock PROVE IndInv'
  OBVIOUS
<1> DEFINE b == log[Num(st.head) + 1]
           s == StateAfter(st, b)
<1>1. /\ pc = "reindex" /\ st' = s
      /\ fork' = SetMaxSize(fork, Num(b) - st'.lib + 1)
      /\ rev' = IF Num(b) % RevisionEvery = 0 /\ Num(b) < Len(log) THEN Num(b) ELSE rev
      /\ pc' = IF Num(b) = Len(log) THEN "reindexed" ELSE "reindex"
      /\ undo' = undo /\ log' = log /\ job' = job
  BY DEF ReindexBlock
<1>2. /\ fork \in Fork /\ job \in Job /\ log \in Seq(Block) /\ LogNumbers /\ Len(log) \in Nat
      /\ st \in State /\ rev \in Nat
  BY DEF IndInv, TypeOK
<1>3. undo = << >> /\ Num(st.head) < Len(log) /\ Num(st.head) \in Nat
  BY <1>1, <1>2, StateFacts DEF IndInv, StartInv
<1>4. b \in Block /\ Num(b) = Num(st.head) + 1
  <2>1. Num(st.head) + 1 \in 1..Len(log)
    BY <1>2, <1>3
  <2> QED
    BY <1>2, <2>1 DEF LogNumbers
<1> HIDE DEF b
<1>5. s \in State /\ s.head = b
  BY <1>2, <1>4, StateAfterFacts
<1> HIDE DEF s
<1>6. Num(b) - st'.lib + 1 \in Nat
  BY <1>1, <1>5, StateFacts
<1>7. fork' \in Fork
  BY <1>1, <1>2, <1>6, SetMaxSizeFacts
<1>8. rev' \in Nat /\ Num(st'.head) = Num(b) /\ log # << >>
  BY <1>1, <1>2, <1>3, <1>4, <1>5
<1>9. pc' = "reindex" => Num(st'.head) < Len(log)
  BY <1>1, <1>2, <1>3, <1>4, <1>8
<1> QED
  BY <1>1, <1>2, <1>3, <1>5, <1>7, <1>8, <1>9, StartedInv

LEMMA FinishReindexInv == IndInv /\ FinishReindex => IndInv'
<1> SUFFICES ASSUME IndInv, FinishReindex PROVE IndInv'
  OBVIOUS
<1>1. /\ pc = "reindexed" /\ rev' = Num(st.head) /\ fork' = StartBlock(fork, Last(log))
      /\ pc' = "idle" /\ st' = st /\ undo' = undo /\ log' = log /\ job' = job
  BY DEF FinishReindex
<1>2. /\ fork \in Fork /\ job \in Job /\ log \in Seq(Block) /\ LogNumbers /\ Len(log) \in Nat
      /\ st \in State
  BY DEF IndInv, TypeOK
<1>3. undo = << >> /\ log # << >> /\ Num(st.head) = Len(log)
  BY <1>1 DEF IndInv, StartInv
<1>4. Last(log) \in Block
  <2>1. Len(log) \in 1..Len(log)
    BY <1>2, <1>3
  <2> QED
    BY <1>2, <2>1 DEF Last
<1>5. fork' \in Fork
  BY <1>1, <1>2, <1>4, StartBlockFacts
<1>6. rev' \in Nat /\ rev' = Num(st'.head) /\ Len(log) <= rev'
  BY <1>1, <1>2, <1>3
<1> QED
  BY <1>1, <1>2, <1>3, <1>5, <1>6, StartedInv

-----------------------------------------------------------------------------
(* The theorems                                                            *)

LEMMA InitInv == Init => IndInv
<1> SUFFICES ASSUME Init PROVE IndInv
  OBVIOUS
<1>1. /\ st = Genesis /\ undo = << >> /\ rev = 0 /\ log = << >> /\ fork = EmptyFork
      /\ pc = "idle" /\ job = NoJob
  BY DEF Init
<1>2. NoJob \in Job /\ EmptyFork \in Fork /\ st \in State /\ Num(st.head) = 0
  BY <1>1, EmptyForkFacts, GenesisFacts DEF NoJob, Job, Nil
<1>3. TypeOK /\ LogNumbers
  BY <1>1, <1>2 DEF TypeOK, LogNumbers
<1>4. UndoChain /\ LoggedIsCommitted /\ JobInv /\ StartInv
  BY <1>1, <1>2 DEF UndoChain, LoggedIsCommitted, RewoundRev, JobInv, StartInv, Up, Running
<1> QED
  BY <1>3, <1>4 DEF IndInv

LEMMA NextInv == IndInv /\ [Next]_vars => IndInv'
<1> SUFFICES ASSUME IndInv, [Next]_vars PROVE IndInv'
  OBVIOUS
<1>1. CASE UNCHANGED vars
  BY <1>1 DEF vars, IndInv, TypeOK, UndoChain, LoggedIsCommitted, LogNumbers, JobInv,
              StartInv, RewoundRev, Up, Running
<1>2. CASE Next
  BY <1>2, PushInv, PopBlockInv, PopThrowsInv, ApplyBlockInv, ApplyThrowsInv, LogBlockInv,
     LogThrowsInv, FinishApplyInv, FinishThrowsInv, StopInv, OpenDatabaseInv,
     OpenAndReplayInv, RevisionMismatchInv, LogMismatchInv, ReindexBlockInv,
     FinishReindexInv DEF Next
<1> QED
  BY <1>1, <1>2

\* The inductive invariant holds of every node, whatever blocks it hears of
\* and wherever it is stopped.
THEOREM IndInvHolds == Spec => []IndInv
<1> QED
  BY InitInv, NextInv, PTL DEF Spec

\* Every session on the undo stack leads to an ancestor of the head, so
\* pop_block() and undo_all() never leave the chain.
THEOREM UndoChainHolds == Spec => []UndoChain
<1>1. IndInv => UndoChain
  BY DEF IndInv
<1> QED
  BY <1>1, IndInvHolds, PTL

\* The block log holds only blocks whose undo sessions are committed.
THEOREM LoggedIsCommittedHolds == Spec => []LoggedIsCommitted
<1>1. IndInv => LoggedIsCommitted
  BY DEF IndInv
<1> QED
  BY <1>1, IndInvHolds, PTL

-----------------------------------------------------------------------------
(* Irreversible blocks stay                                                *)

\* A prefix in the sense of At is one in the sense of IsPrefix.
LEMMA PrefixBy ==
  ASSUME NEW a \in Block \cup {Nil}, NEW b \in Block \cup {Nil}, NEW n \in 0..Num(b),
         a = At(b, n)
  PROVE  IsPrefix(a, b)
<1>1. Num(a) = n /\ Num(a) \in Nat /\ At(a, Num(a)) = a
  BY BlockFacts
<1> QED
  BY <1>1 DEF IsPrefix, Num, At

\* The state that undo_all() leads to is on the chain of a running node.
LEMMA RewoundOnChain ==
  ASSUME IndInv, Up
  PROVE  /\ RewoundRev \in 0..rev
         /\ RewoundState.head = At(st.head, RewoundRev)
<1>1. /\ Ancestors /\ rev = Num(st.head) /\ TypeOK /\ UndoChain
      /\ rev \in Nat /\ Len(undo) \in Nat /\ Len(undo) <= rev
      /\ st.head \in Block \cup {Nil}
  BY RunningFacts DEF IndInv, Ancestors
<1>2. CASE undo = << >>
  BY <1>1, <1>2, BlockFacts DEF RewoundRev, RewoundState
<1>3. CASE undo # << >>
  <2>1. 1 \in 1..Len(undo)
    BY <1>1, <1>3 DEF Ancestors
  <2>2. undo[1].head = At(st.head, rev - Len(undo) + 1 - 1)
    BY <1>1, <2>1, UndoEntries
  <2>3. rev - Len(undo) + 1 - 1 = RewoundRev /\ RewoundRev \in 0..rev
    BY <1>1 DEF RewoundRev
  <2> QED
    BY <1>3, <2>2, <2>3 DEF RewoundState
<1> QED
  BY <1>2, <1>3

\* The same after an undo, and after a block on top of the head.
LEMMA PopKeepsRewound ==
  ASSUME IndInv, Up, Undo
  PROVE  IsPrefix(RewoundState.head, st'.head)
<1>1. /\ TypeOK /\ UndoChain /\ rev = Num(st.head) /\ st.head \in Block \cup {Nil}
      /\ rev \in Nat /\ Len(undo) \in Nat
  BY RunningFacts DEF IndInv, Ancestors
<1>2. /\ st' \in State /\ rev' \in Nat /\ rev' = Num(st'.head) /\ rev' <= rev
      /\ rev' - Len(undo') = rev - Len(undo)
      /\ st'.head = At(st.head, rev') /\ Len(undo') \in Nat
  BY <1>1, UndoFacts
<1>3. RewoundRev \in 0..rev /\ RewoundState.head = At(st.head, RewoundRev)
  BY RewoundOnChain
<1>4. RewoundRev \in 0..rev' /\ rev' \in 0..Num(st.head)
  BY <1>1, <1>2, <1>3 DEF RewoundRev
<1>5. st.head \in Seq(Header) /\ rev' \in 0..Len(st.head)
  BY <1>1, <1>4, BlockFacts DEF Num
<1>6. RewoundState.head = At(st'.head, RewoundRev)
  BY <1>2, <1>3, <1>4, <1>5, AtAt
<1>7. RewoundState.head \in Block \cup {Nil} /\ st'.head \in Block \cup {Nil}
  BY <1>2, RewoundFacts, StateFacts
<1> QED
  BY <1>2, <1>4, <1>6, <1>7, PrefixBy

LEMMA ApplyKeepsRewound ==
  ASSUME IndInv, ApplyBlock
  PROVE  IsPrefix(RewoundState.head, st'.head)
<1> DEFINE b == NextBlock
<1>1. pc = "apply" /\ Previous(b) = st.head /\ st' = StateAfter(st, b) /\ Up
  BY DEF ApplyBlock, Applies, Session, Up, Running
<1>2. b \in Block /\ Num(b) = Num(st.head) + 1
  BY <1>1, NextBlockFacts
<1>3. st \in State /\ rev = Num(st.head) /\ rev \in Nat
  BY <1>1, RunningFacts DEF Ancestors
<1> HIDE DEF b
<1>4. st'.head = b
  BY <1>1, <1>2, <1>3, StateAfterFacts
<1>5. st.head = At(b, rev)
  <2>1. Num(b) - 1 = rev
    BY <1>2, <1>3
  <2> QED
    BY <1>1, <1>2, <2>1, PreviousFacts
<1>6. RewoundRev \in 0..rev /\ RewoundState.head = At(st.head, RewoundRev)
  BY <1>1, RewoundOnChain
<1>7. b \in Seq(Header) /\ rev \in 0..Len(b) /\ RewoundRev \in 0..Num(b)
  BY <1>2, <1>3, <1>6, BlockFacts DEF Num
<1>8. RewoundState.head = At(b, RewoundRev)
  BY <1>5, <1>6, <1>7, AtAt
<1>9. RewoundState.head \in Block \cup {Nil}
  BY RewoundFacts
<1> QED
  BY <1>2, <1>4, <1>7, <1>8, <1>9, PrefixBy

LEMMA SameKeepsRewound ==
  ASSUME IndInv, Up, st' = st
  PROVE  IsPrefix(RewoundState.head, st'.head)
<1>1. RewoundRev \in 0..Num(st.head) /\ RewoundState.head = At(st.head, RewoundRev)
  BY RewoundOnChain, RunningFacts
<1>2. RewoundState.head \in Block \cup {Nil} /\ st.head \in Block \cup {Nil}
  BY RewoundFacts, RunningFacts
<1> QED
  BY <1>1, <1>2, PrefixBy

\* A block that was committed as irreversible stays on the chain of a running
\* node, through every push, switch and failed switch.
THEOREM IrreversibleStaysHolds == Spec => IrreversibleStays
<1>1. IndInv /\ [Next]_vars => [Up /\ Up' => IsPrefix(RewoundState.head, st'.head)]_vars
  <2> SUFFICES ASSUME IndInv, Next, Up, Up' PROVE IsPrefix(RewoundState.head, st'.head)
    OBVIOUS
  <2>1. CASE st' = st
    BY <2>1, SameKeepsRewound
  <2>2. CASE Undo
    BY <2>2, PopKeepsRewound
  <2>3. CASE ApplyBlock
    BY <2>3, ApplyKeepsRewound
  <2>4. CASE Stop \/ OpenDatabase \/ OpenAndReplay \/ RevisionMismatch \/ LogMismatch
             \/ ReindexBlock \/ FinishReindex
    <3>1. pc' = "down" \/ pc \in {"down", "reindex", "reindexed"}
      BY <2>4 DEF Stop, OpenDatabase, OpenAndReplay, RevisionMismatch, LogMismatch,
                  ReindexBlock, FinishReindex
    <3> QED
      BY <3>1 DEF Up, Running
  <2>5. CASE (\E b \in Block : Push(b)) \/ PopThrows \/ ApplyThrows \/ LogBlock \/ FinishApply
    <3>1. st' = st
      BY <2>5 DEF Push, PopThrows, ApplyThrows, LogBlock, FinishApply
    <3> QED
      BY <2>1, <3>1
  <2>6. CASE PopBlockOfState \/ LogThrows \/ FinishThrows
    <3>1. Undo
      BY <2>6 DEF PopBlockOfState, LogThrows, FinishThrows
    <3> QED
      BY <2>2, <3>1
  <2> QED
    BY <2>3, <2>4, <2>5, <2>6 DEF Next
<1> QED
  BY <1>1, IndInvHolds, PTL DEF Spec, IrreversibleStays
-----------------------------------------------------------------------------
(* The state is the one that its chain leads to                            *)

\* The numbers that a replay goes through.
Numbers(k) == [n \in 1..k |-> n]

\* A replay from the genesis is a fold.
LEMMA ReplayIsFold ==
  ASSUME NEW b
  PROVE  Replayed(b) = Loop!Fold(b, Genesis, Numbers(Num(b)))
BY DEF Replayed, Loop!Fold, ReplayStep, Numbers, FoldLeft, MapThenFoldSet, Max, Loop!FoldLeft,
       Loop!MapThenFoldSet, Loop!Max

\* The genesis is the state of no block.
LEMMA ReplayedNil == Replayed(Nil) = Genesis
<1>1. Num(Nil) = 0 /\ Numbers(0) = << >>
  BY DEF Num, Nil, Numbers
<1>2. Loop!Fold(Nil, Genesis, << >>) = Genesis
  BY Loop!FoldEmpty
<1> QED BY <1>1, <1>2, ReplayIsFold

\* The state of a block is made from that of the block before.
LEMMA ReplayedStep ==
  ASSUME NEW b \in Block
  PROVE  Replayed(b) = StateAfter(Replayed(Previous(b)), b)
<1> DEFINE a == Previous(b)
           k == Num(a)
<1>1. /\ k \in Nat /\ Num(b) = k + 1 /\ a = At(b, k) /\ b \in Seq(Header) /\ Len(b) = k + 1
      /\ At(b, k + 1) = b
  BY PreviousFacts, BlockFacts DEF Num
<1>2. ASSUME NEW n \in 0..k PROVE At(a, n) = At(b, n)
  <2>1. k \in 0..Len(b) /\ n \in 0..k
    BY <1>1
  <2>2. At(At(b, k), n) = At(b, n)
    BY <1>1, <2>1, AtAt
  <2> QED BY <1>1, <2>2
<1> HIDE DEF a, k
<1>3. /\ Numbers(k) \in Seq(Nat) /\ Len(Numbers(k)) = k /\ \A n \in 1..k : Numbers(k)[n] = n
      /\ k + 1 \in Nat /\ Numbers(k + 1) = Append(Numbers(k), k + 1)
  BY <1>1 DEF Numbers
<1>4. ASSUME NEW n \in 1..Len(Numbers(k)), NEW s
      PROVE  ReplayStep(a, s, Numbers(k)[n]) = ReplayStep(b, s, Numbers(k)[n])
  <2>1. n \in 0..k /\ Numbers(k)[n] = n
    BY <1>1, <1>3
  <2> QED BY <1>2, <2>1 DEF ReplayStep
<1>5. Loop!Fold(a, Genesis, Numbers(k)) = Loop!Fold(b, Genesis, Numbers(k))
  <2>1. Numbers(k) \in Seq(Nat)
    BY <1>3
  <2> HIDE DEF Numbers
  <2> QED BY <1>4, <2>1, Loop!FoldOfContext
<1>6. Loop!Fold(b, Genesis, Append(Numbers(k), k + 1))
        = ReplayStep(b, Loop!Fold(b, Genesis, Numbers(k)), k + 1)
  BY <1>3, Loop!FoldAppend
<1>7. Replayed(b) = ReplayStep(b, Replayed(a), k + 1)
  BY <1>1, <1>3, <1>5, <1>6, ReplayIsFold DEF k
<1> QED BY <1>1, <1>7 DEF ReplayStep, a

\* A state is the one that the chain of its head leads to.
IsReplayed(s) == s = Replayed(s.head)

\* The next block leads from such a state to such a state.
LEMMA StateAfterIsReplayed ==
  ASSUME NEW b \in Block, IsReplayed(st), Previous(b) = st.head
  PROVE  IsReplayed(StateAfter(st, b))
<1>1. StateAfter(st, b).head = b
  BY DEF StateAfter
<1>2. Replayed(b) = StateAfter(st, b)
  BY ReplayedStep DEF IsReplayed
<1> QED BY <1>1, <1>2 DEF IsReplayed

\* StateIsReplayed, with the states named.
LEMMA StateIsReplayedMeans ==
  StateIsReplayed <=> IsReplayed(st) /\ \A i \in 1..Len(undo) : IsReplayed(undo[i])
BY DEF StateIsReplayed, IsReplayed

\* undo() leads to a state of the undo stack.
LEMMA UndoReplayed ==
  ASSUME undo \in Seq(State), StateIsReplayed, Undo
  PROVE  StateIsReplayed'
<1>1. IsReplayed(st) /\ \A i \in 1..Len(undo) : IsReplayed(undo[i])
  BY StateIsReplayedMeans
<1>2. CASE undo = << >>
  <2>1. st' = st /\ undo' = undo
    BY <1>2 DEF Undo, UndoState
  <2> QED BY <2>1 DEF StateIsReplayed
<1>3. CASE undo # << >>
  <2>1. Len(undo) \in Nat /\ Len(undo) > 0 /\ Len(undo) \in 1..Len(undo)
    BY <1>3
  <2>2. st' = undo[Len(undo)] /\ undo' = SubSeq(undo, 1, Len(undo) - 1)
    BY <1>3 DEF Undo, UndoState, Last, Front
  <2>3. Len(undo') = Len(undo) - 1 /\ \A i \in 1..(Len(undo) - 1) : undo'[i] = undo[i]
    BY <2>1, <2>2, FrontFacts
  <2>4. ASSUME NEW i \in 1..Len(undo') PROVE IsReplayed(undo'[i])
    <3>1. i \in 1..Len(undo) /\ undo'[i] = undo[i]
      BY <2>1, <2>3
    <3> QED BY <1>1, <3>1
  <2>5. IsReplayed(st')
    BY <1>1, <2>1, <2>2
  <2> QED BY <2>4, <2>5 DEF StateIsReplayed, IsReplayed
<1> QED BY <1>2, <1>3

\* A session over a state leaves it on the stack, and commit() only drops
\* states.
LEMMA SessionReplayed ==
  ASSUME TypeOK, Len(undo) <= rev, StateIsReplayed, NEW s \in State, IsReplayed(s),
         s.lib <= rev + 1, Session(s)
  PROVE  StateIsReplayed'
<1> DEFINE u == Append(undo, st)
<1>1. IsReplayed(st) /\ \A i \in 1..Len(undo) : IsReplayed(undo[i])
  BY StateIsReplayedMeans
<1>2. /\ undo \in Seq(State) /\ st \in State /\ rev + 1 \in Nat /\ s.lib \in 0..(rev + 1)
      /\ Len(undo) \in Nat
  BY DEF TypeOK, State
<1>3. /\ u \in Seq(State) /\ Len(u) = Len(undo) + 1 /\ Len(u) <= rev + 1
      /\ u[Len(undo) + 1] = st /\ \A i \in 1..Len(undo) : u[i] = undo[i]
  BY <1>2 DEF TypeOK
<1>4. st' = s /\ undo' = Uncommitted(u, rev + 1, s.lib)
  BY DEF Session
<1> HIDE DEF u
<1>5. /\ Len(undo') \in 0..Len(u)
      /\ \A i \in 1..Len(undo') : undo'[i] = u[i + Len(u) - Len(undo')]
  BY <1>2, <1>3, <1>4, UncommittedFacts
<1>6. ASSUME NEW i \in 1..Len(undo') PROVE IsReplayed(undo'[i])
  <2> DEFINE j == i + Len(u) - Len(undo')
  <2>1. undo'[i] = u[j] /\ j \in 1..(Len(undo) + 1)
    BY <1>2, <1>3, <1>5
  <2>2. CASE j = Len(undo) + 1
    BY <1>1, <1>3, <2>1, <2>2
  <2>3. CASE j # Len(undo) + 1
    <3>1. j \in 1..Len(undo)
      BY <1>2, <2>1, <2>3
    <3> HIDE DEF j
    <3> QED BY <1>1, <1>3, <2>1, <3>1
  <2> QED BY <2>2, <2>3
<1> QED BY <1>4, <1>6 DEF StateIsReplayed, IsReplayed

\* A start that begins from such a state, without undo sessions.
LEMMA StartReplayed ==
  ASSUME undo' = << >>, IsReplayed(st')
  PROVE  StateIsReplayed'
<1>1. 1..Len(undo') = {}
  OBVIOUS
<1> QED BY <1>1 DEF StateIsReplayed, IsReplayed

\* What undo_all() leads to is a state of the undo stack.
LEMMA RewoundReplayed ==
  ASSUME undo \in Seq(State), StateIsReplayed
  PROVE  IsReplayed(RewoundState)
<1>1. IsReplayed(st) /\ \A i \in 1..Len(undo) : IsReplayed(undo[i])
  BY StateIsReplayedMeans
<1>2. CASE undo = << >>
  BY <1>1, <1>2 DEF RewoundState
<1>3. CASE undo # << >>
  <2>1. 1 \in 1..Len(undo)
    BY <1>3
  <2> QED BY <1>1, <1>3, <2>1 DEF RewoundState
<1> QED BY <1>2, <1>3

\* apply_block in a session.
LEMMA ApplyReplayed ==
  ASSUME IndInv, StateIsReplayed, ApplyBlock
  PROVE  StateIsReplayed'
<1> DEFINE b == NextBlock
           s == StateAfter(st, b)
<1>1. pc = "apply" /\ Previous(b) = st.head /\ Session(s)
  BY DEF ApplyBlock, Applies
<1>2. /\ TypeOK /\ st \in State /\ Len(undo) <= rev /\ rev = Num(st.head)
  BY <1>1 DEF IndInv, TypeOK, UndoChain, Up, Running
<1>3. b \in Block /\ Num(b) = Num(st.head) + 1
  BY <1>1, NextBlockFacts
<1> HIDE DEF b
<1>4. s \in State /\ s.head = b
  BY <1>2, <1>3, StateAfterFacts
<1>5. IsReplayed(s)
  BY <1>1, <1>3, StateAfterIsReplayed DEF StateIsReplayed, IsReplayed
<1> HIDE DEF s
<1>6. s.lib <= rev + 1
  BY <1>2, <1>3, <1>4 DEF State
<1> QED BY <1>1, <1>2, <1>4, <1>5, <1>6, SessionReplayed

\* One block of a replay of the block log.
LEMMA ReindexReplayed ==
  ASSUME IndInv, StateIsReplayed, ReindexBlock
  PROVE  StateIsReplayed'
<1> DEFINE b == log[Num(st.head) + 1]
<1>1. pc = "reindex" /\ Previous(b) = st.head /\ st' = StateAfter(st, b) /\ undo' = undo
  BY DEF ReindexBlock
<1>2. /\ undo = << >> /\ log \in Seq(Block) /\ st \in State /\ Num(st.head) < Len(log)
  BY <1>1 DEF IndInv, TypeOK, StartInv
<1>3. Num(st.head) + 1 \in 1..Len(log)
  BY <1>2, StateFacts
<1>4. b \in Block
  BY <1>2, <1>3
<1> HIDE DEF b
<1>5. IsReplayed(StateAfter(st, b))
  BY <1>1, <1>4, StateAfterIsReplayed DEF StateIsReplayed, IsReplayed
<1> QED BY <1>1, <1>2, <1>5, StartReplayed

\* Every step keeps it.
LEMMA NextReplayed ==
  ASSUME IndInv, StateIsReplayed, Next
  PROVE  StateIsReplayed'
<1>0. undo \in Seq(State)
  BY DEF IndInv, TypeOK
<1>1. CASE st' = st /\ undo' = undo
  BY <1>1 DEF StateIsReplayed
<1>2. CASE Undo
  BY <1>0, <1>2, UndoReplayed
<1>3. CASE ApplyBlock
  BY <1>3, ApplyReplayed
<1>4. CASE ReindexBlock
  BY <1>4, ReindexReplayed
<1>5. CASE undo' = << >> /\ st' \in {RewoundState, Genesis}
  <2>1. IsReplayed(Genesis)
    BY ReplayedNil DEF IsReplayed, Genesis
  <2>2. IsReplayed(st')
    BY <1>0, <1>5, <2>1, RewoundReplayed
  <2> QED BY <1>5, <2>2, StartReplayed
<1>6. CASE (\E b \in Block : Push(b)) \/ PopThrows \/ ApplyThrows \/ LogBlock \/ FinishApply
           \/ Stop \/ FinishReindex
  <2>1. st' = st /\ undo' = undo
    BY <1>6 DEF Push, PopThrows, ApplyThrows, LogBlock, FinishApply, Stop, FinishReindex
  <2> QED BY <1>1, <2>1
<1>7. CASE PopBlockOfState \/ LogThrows \/ FinishThrows
  <2>1. Undo
    BY <1>7 DEF PopBlockOfState, LogThrows, FinishThrows
  <2> QED BY <1>2, <2>1
<1>8. CASE OpenDatabase \/ OpenAndReplay \/ RevisionMismatch \/ LogMismatch
  <2>1. undo' = << >> /\ st' \in {RewoundState, Genesis}
    BY <1>8 DEF OpenDatabase, OpenAndReplay, RevisionMismatch, LogMismatch
  <2> QED BY <1>5, <2>1
<1> QED BY <1>3, <1>4, <1>6, <1>7, <1>8 DEF Next

\* Whatever was undone, switched, replayed or cut short by a crash, the state
\* and every state that can still be undone to is the one that applying the
\* chain of its head from the genesis leads to.
THEOREM StateIsReplayedHolds == Spec => []StateIsReplayed
<1>1. Init => StateIsReplayed
  <2> SUFFICES ASSUME Init PROVE StateIsReplayed
    OBVIOUS
  <2>1. st = Genesis /\ undo = << >> /\ 1..Len(undo) = {}
    BY DEF Init
  <2> QED BY <2>1, ReplayedNil DEF StateIsReplayed, Genesis
<1>2. IndInv /\ StateIsReplayed /\ [Next]_vars => StateIsReplayed'
  <2> SUFFICES ASSUME IndInv, StateIsReplayed, [Next]_vars PROVE StateIsReplayed'
    OBVIOUS
  <2>1. CASE UNCHANGED vars
    BY <2>1 DEF vars, StateIsReplayed
  <2> QED BY <2>1, NextReplayed
<1> QED BY <1>1, <1>2, IndInvHolds, PTL DEF Spec
=============================================================================
