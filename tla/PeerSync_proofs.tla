-------------------------- MODULE PeerSync_proofs --------------------------
(***************************************************************************)
(* Proofs about PeerSync, for any number of peers, any tree of blocks and  *)
(* any limits: requests are made once and belong to somebody, and lists    *)
(* are branches of blocks that start where the chain is.                   *)
(***************************************************************************)
EXTENDS PeerSync, TLAPS, FiniteSetTheorems

-----------------------------------------------------------------------------
(* The loops are folds                                                     *)

\* c is the list and the number of its first block.
SynopsisStep(c, ids, n) == IF n >= c[2] THEN Append(ids, c[1][n + 1 - c[2]]) ELSE ids
WantStep(taken, w, b) ==
    IF /\ Len(w) < MaxPerPeer /\ ~HaveReceived(b) /\ b \notin taken \cup Range(w)
       /\ b \notin active
    THEN Append(w, b) ELSE w
DivideStep(c, acc, p) ==
    [taken |-> acc.taken \cup Range(Wanted(peer[p], acc.taken)),
     asked |-> [acc.asked EXCEPT ![p] = Wanted(peer[p], acc.taken)]]

S == INSTANCE FoldFacts WITH op <- SynopsisStep
W == INSTANCE FoldFacts WITH op <- WantStep
D == INSTANCE FoldFacts WITH op <- DivideStep

\* The fold of the loop of create_blockchain_synopsis_for_peer.
LEMMA SynopsisFold ==
  ASSUME NEW list, NEW first, NEW base, NEW seq
  PROVE  FoldLeft(LAMBDA ids, n : IF n >= first THEN Append(ids, list[n + 1 - first]) ELSE ids,
                  base, seq)
           = S!Fold(<<list, first>>, base, seq)
BY DEF S!Fold, SynopsisStep, FoldLeft, MapThenFoldSet, Max, S!FoldLeft, S!MapThenFoldSet, S!Max

\* The loop of create_blockchain_synopsis_for_peer.
LEMMA SynopsisIsFold ==
  ASSUME NEW c, NEW r, r.toGet # << >>
  PROVE  LET s == BlockchainSynopsis(c, r.seen, Len(r.toGet))
             first == Num(Head(r.toGet))
             high == first + Len(r.toGet) - 1
             low == IF s = << >> THEN 1 ELSE Num(Head(s))
         IN  SynopsisForPeer(c, r) = S!Fold(<<r.toGet, first>>, s, Spaced(low, high, high))
BY SynopsisFold DEF SynopsisForPeer

\* The inner and the outer loop of fetch_sync_items_loop.
LEMMA WantedIsFold ==
  ASSUME NEW r, NEW taken, r.conn = "active", Idle(r), r.weNeed, ~r.inhibit
  PROVE  Wanted(r, taken) = W!Fold(taken, << >>, r.toGet)
BY DEF Wanted, W!Fold, WantStep, FoldLeft, MapThenFoldSet, Max, W!FoldLeft,
       W!MapThenFoldSet, W!Max

\* The walk over the peers is a fold, too.
LEMMA DivideIsFold ==
  ASSUME NEW order
  PROVE  Divide(order) = D!Fold(0, [taken |-> {}, asked |-> [p \in Peer |-> << >>]], order)
BY DEF Divide, D!Fold, DivideStep, FoldLeft, MapThenFoldSet, Max, D!FoldLeft,
       D!MapThenFoldSet, D!Max

-----------------------------------------------------------------------------
(* Numbers                                                                 *)

\* The larger of two numbers.
LEMMA MaxOfTwo ==
  ASSUME NEW a \in Int, NEW b \in Int
  PROVE  Max({a, b}) \in {a, b} /\ Max({a, b}) >= a /\ Max({a, b}) >= b
<1>1. \E x \in {a, b} : \A y \in {a, b} : x >= y
  <2>1. CASE a >= b
    BY <2>1
  <2>2. CASE ~(a >= b)
    BY <2>2
  <2> QED BY <2>1, <2>2
<1> QED BY <1>1 DEF Max

\* The smaller of two numbers.
LEMMA MinOfTwo ==
  ASSUME NEW a \in Int, NEW b \in Int
  PROVE  Min({a, b}) \in {a, b} /\ Min({a, b}) <= a /\ Min({a, b}) <= b
<1>1. \E x \in {a, b} : \A y \in {a, b} : x <= y
  <2>1. CASE a <= b
    BY <2>1
  <2>2. CASE ~(a <= b)
    BY <2>2
  <2> QED BY <2>1, <2>2
<1> QED BY <1>1 DEF Min

\* The largest of some positions of a sequence.
LEMMA MaxOfPositions ==
  ASSUME NEW n \in Nat, NEW T \in SUBSET (1..n), T # {}
  PROVE  Max(T) \in T /\ \A y \in T : y <= Max(T)
<1>1. T \subseteq Nat /\ \A y \in T : y <= n
  OBVIOUS
<1>2. \E x \in T : \A y \in T : y <= x
  BY <1>1, S!LargestOf
<1>3. \E x \in T : \A y \in T : x >= y
  BY <1>1, <1>2
<1> QED BY <1>1, <1>3 DEF Max

\* The least of some positions.
LEMMA MinOfPositions ==
  ASSUME NEW n \in Nat, NEW T \in SUBSET (1..n), T # {}
  PROVE  Min(T) \in T /\ \A y \in T : Min(T) <= y
<1>1. T \subseteq Nat
  OBVIOUS
<1>2. \E x \in T : \A y \in T : x <= y
  BY <1>1, S!SmallestOf
<1> QED BY <1>2 DEF Min

\* Half of what is left, rounded up, and one at the end.
LEMMA HalfFacts ==
  ASSUME NEW d \in Nat
  PROVE  (d + 2) \div 2 \in Nat \ {0} /\ (d > 0 => (d + 2) \div 2 <= d)
OBVIOUS

\* The elements of a sequence.
LEMMA SeqElement ==
  ASSUME NEW A, NEW seq \in Seq(A), NEW i \in 1..Len(seq)
  PROVE  seq[i] \in A
OBVIOUS

\* Sequences over a set are sequences over a larger one.
LEMMA SeqGrows ==
  ASSUME NEW A, NEW B, A \subseteq B, NEW seq \in Seq(A)
  PROVE  seq \in Seq(B)
OBVIOUS

-----------------------------------------------------------------------------
(* The numbers of a synopsis                                               *)

Rest(g, n, top, high) == IF n > top THEN << >> ELSE <<n>> \o g[n + (high - n + 2) \div 2]

\* The recursion of Spaced has a solution: it goes up, and ends at top.
LEMMA SpacedExists ==
  ASSUME NEW top \in Nat, NEW high \in Nat, top <= high
  PROVE  \E g : g = [n \in Nat |-> Rest(g, n, top, high)]
<1> DEFINE G == {k \in 0..(top + 1) :
                   \E g : g = [n \in Nat |-> g[n]] /\ \A n \in Nat : n + k > top => g[n] = Rest(g, n, top, high)}
<1>1. 0 \in G
  <2> DEFINE g == [n \in Nat |-> << >>]
  <2>1. \A n \in Nat : n + 0 > top => g[n] = Rest(g, n, top, high)
    BY DEF Rest
  <2>2. g = [n \in Nat |-> g[n]]
    OBVIOUS
  <2> QED BY <2>1, <2>2
<1>2. ASSUME NEW k \in 1..(top + 1), k - 1 \in G PROVE k \in G
  <2>1. PICK g : g = [n \in Nat |-> g[n]] /\ \A n \in Nat : n + (k - 1) > top => g[n] = Rest(g, n, top, high)
    BY <1>2
  <2> DEFINE h == [n \in Nat |-> IF n + (k - 1) > top THEN g[n] ELSE Rest(g, n, top, high)]
  <2>2. ASSUME NEW n \in Nat, n + k > top PROVE h[n] = Rest(h, n, top, high)
    <3>1. h[n] = Rest(g, n, top, high)
      BY <2>1
    <3>2. CASE n > top
      BY <3>1, <3>2 DEF Rest
    <3>3. CASE ~(n > top)
      <4>1. high - n \in Nat
        BY <3>3
      <4>2. (high - n + 2) \div 2 \in Nat \ {0}
        BY <4>1, HalfFacts
      <4> DEFINE m == n + (high - n + 2) \div 2
      <4>3. m \in Nat /\ m + (k - 1) > top
        BY <2>2, <4>2
      <4>4. h[m] = g[m]
        BY <4>3
      <4>5. Rest(g, n, top, high) = <<n>> \o g[m] /\ Rest(h, n, top, high) = <<n>> \o h[m]
        BY <3>3 DEF Rest
      <4> QED BY <3>1, <4>4, <4>5
    <3> QED BY <3>2, <3>3
  <2>3. h = [n \in Nat |-> h[n]]
    OBVIOUS
  <2> HIDE DEF h
  <2> QED BY <2>2, <2>3
<1>3. \A k \in 0..(top + 1) : k \in G
  <2> HIDE DEF G
  <2> QED BY <1>1, <1>2, S!UpTo
<1>4. top + 1 \in G
  BY <1>3
<1>5. PICK g : g = [n \in Nat |-> g[n]] /\ \A n \in Nat : n + (top + 1) > top => g[n] = Rest(g, n, top, high)
  BY <1>4
<1>6. \A n \in Nat : g[n] = Rest(g, n, top, high)
  BY <1>5
<1>7. g = [n \in Nat |-> Rest(g, n, top, high)]
  BY <1>5, <1>6
<1> QED BY <1>7

\* Its numbers lie between low and top, and the last one is top where no ids
\* are to follow.
LEMMA SpacedFacts ==
  ASSUME NEW low \in Nat, NEW top \in Nat, NEW high \in Nat, top <= high
  PROVE  /\ Spaced(low, top, high) \in Seq(low..top)
         /\ top = high /\ low <= top => top \in Range(Spaced(low, top, high))
<1> DEFINE f == CHOOSE g : g = [n \in Nat |-> Rest(g, n, top, high)]
<1>1. f = [n \in Nat |-> Rest(f, n, top, high)]
  BY SpacedExists
<1>2. Spaced(low, top, high) = f[low]
  BY DEF Spaced, Rest
<1> HIDE DEF f
<1>3. \A n \in Nat : f[n] = Rest(f, n, top, high)
  BY <1>1
<1> DEFINE Good(n) == /\ f[n] \in Seq(n..top)
                      /\ top = high /\ n <= top => top \in Range(f[n])
           G == {k \in 0..(top + 1) : \A n \in Nat : n + k > top => Good(n)}
<1>4. 0 \in G
  <2> SUFFICES ASSUME NEW n \in Nat, n > top PROVE Good(n)
    OBVIOUS
  <2>1. f[n] = << >>
    BY <1>3 DEF Rest
  <2> QED BY <2>1
<1>5. ASSUME NEW k \in 1..(top + 1), k - 1 \in G PROVE k \in G
  <2> SUFFICES ASSUME NEW n \in Nat, n + k > top PROVE Good(n)
    OBVIOUS
  <2>1. CASE n + (k - 1) > top
    BY <1>5, <2>1
  <2>2. CASE ~(n + (k - 1) > top)
    <3>1. n <= top /\ high - n \in Nat
      BY <2>2
    <3> DEFINE st == (high - n + 2) \div 2
               m == n + st
    <3>2. st \in Nat \ {0} /\ (high - n > 0 => st <= high - n)
      BY <3>1, HalfFacts
    <3> HIDE DEF st
    <3>3. m \in Nat /\ m > n /\ m + (k - 1) > top
      BY <2>2, <3>2
    <3>4. f[m] \in Seq(m..top) /\ (top = high /\ m <= top => top \in Range(f[m]))
      BY <1>5, <3>3
    <3>5. f[n] = <<n>> \o f[m]
      <4>1. f[n] = Rest(f, n, top, high) /\ ~(n > top)
        BY <1>3, <3>1
      <4>2. Rest(f, n, top, high) = <<n>> \o f[n + st]
        BY <4>1 DEF Rest, st
      <4> QED BY <4>1, <4>2
    <3>6. f[m] \in Seq(n..top)
      <4>1. m..top \subseteq n..top
        BY <3>3
      <4> HIDE DEF m
      <4>2. f[m] \in Seq(m..top)
        BY <3>4
      <4> QED BY <4>1, <4>2, SeqGrows
    <3>7. f[n] \in Seq(n..top)
      BY <3>1, <3>5, <3>6
    <3>8. ASSUME top = high PROVE top \in Range(f[n])
      <4>1. CASE n = top
        <5>1. f[n][1] = n /\ 1 \in DOMAIN f[n]
          BY <3>5, <3>6
        <5> QED BY <4>1, <5>1 DEF Range
      <4>2. CASE n # top
        <5>1. m <= top
          BY <3>1, <3>2, <3>8, <4>2
        <5>2. PICK i \in DOMAIN f[m] : f[m][i] = top
          BY <3>4, <3>8, <5>1 DEF Range
        <5>3. i + 1 \in DOMAIN f[n] /\ f[n][i + 1] = top
          BY <3>5, <3>6, <5>2
        <5> QED BY <5>3 DEF Range
      <4> QED BY <4>1, <4>2
    <3> QED BY <3>7, <3>8
  <2> QED BY <2>1, <2>2
<1>6. \A k \in 0..(top + 1) : k \in G
  <2> HIDE DEF G
  <2> QED BY <1>4, <1>5, S!UpTo
<1>7. Good(low)
  <2>1. top + 1 \in G
    BY <1>6
  <2> QED BY <2>1
<1> QED BY <1>2, <1>7

-----------------------------------------------------------------------------
(* Blocks and synopses                                                     *)

\* A block is a sequence of headers, and so is its history.
LEMMA BlockFacts ==
  ASSUME NEW b \in Block
  PROVE  /\ b \in Seq(Header) /\ b # Nil /\ Num(b) \in Nat \ {0} /\ b \in Blocks
         /\ \A n \in 1..Num(b) : At(b, n) \in Block
<1>1. b \in Seq(Header) /\ b # Nil /\ \A n \in 1..Num(b) : At(b, n) \in Block
  BY BlockAssumption
<1>2. Len(b) \in Nat /\ Len(b) # 0
  BY <1>1 DEF Nil
<1> QED BY <1>1, <1>2 DEF Num, Blocks

\* The same for a block or no block.
LEMMA BlocksFacts ==
  ASSUME NEW b \in Blocks
  PROVE  /\ b \in Seq(Header) /\ Num(b) \in Nat
         /\ \A n \in 1..Num(b) : At(b, n) \in Block
<1>1. CASE b \in Block
  BY <1>1, BlockFacts
<1>2. CASE b = Nil
  BY <1>2 DEF Nil, Num
<1> QED BY <1>1, <1>2 DEF Blocks

\* The parts of a block are blocks with their numbers.
LEMMA AtFacts ==
  ASSUME NEW b \in Seq(Header), NEW n \in 0..Num(b)
  PROVE  At(b, n) \in Seq(Header) /\ Num(At(b, n)) = n
BY DEF At, Num

\* The last irreversible block has a number.
LEMMA LastIrreversibleType ==
  ASSUME NEW c, c.head \in Blocks
  PROVE  LastIrreversible(c) \in Nat
<1>1. Num(c.head) \in Nat /\ UndoDepth \in Nat
  BY BlocksFacts, ParametersAssumption
<1> DEFINE m == Num(c.head) - UndoDepth
<1>2. m \in Int
  BY <1>1
<1>3. Max({0, m}) \in {0, m} /\ Max({0, m}) >= 0
  <2>1. 0 \in Int
    OBVIOUS
  <2> HIDE DEF m
  <2> QED BY <1>2, <2>1, MaxOfTwo, Zenon
<1> QED BY <1>2, <1>3 DEF LastIrreversible

\* A synopsis of the chain is made of blocks of one branch.
LEMMA BlockchainSynopsisType ==
  ASSUME NEW c, NEW ref, NEW after \in Nat, NEW K, c.head \in Blocks, ref \in Blocks,
         \A n \in 1..Num(IF ref = Nil THEN c.head ELSE ref) :
             At(IF ref = Nil THEN c.head ELSE ref, n) \in K
  PROVE  BlockchainSynopsis(c, ref, after) \in Seq(K)
<1> DEFINE h == IF ref = Nil THEN c.head ELSE ref
           high == IF ref = Nil THEN Num(c.head) ELSE Num(ref)
           m == Min({LastIrreversible(c), high})
           low == Max({1, m})
           nums == IF high = 0 THEN << >> ELSE Spaced(low, high, high + after)
<1>1. high = Num(h) /\ high \in Nat
  BY BlocksFacts
<1> HIDE DEF high, h
<1>2. m \in Nat
  <2>1. LastIrreversible(c) \in Nat
    BY LastIrreversibleType
  <2>2. LastIrreversible(c) \in Int /\ high \in Int
    BY <1>1, <2>1
  <2>3. m \in {LastIrreversible(c), high}
    BY <2>2, MinOfTwo, Zenon
  <2> QED BY <1>1, <2>1, <2>3
<1> HIDE DEF m
<1>3. low \in Nat /\ low >= 1
  <2>1. 1 \in Int /\ m \in Int
    BY <1>2
  <2>2. low \in {1, m} /\ low >= 1
    BY <2>1, MaxOfTwo, Zenon
  <2> QED BY <1>2, <2>2
<1> HIDE DEF low
<1>4. nums \in Seq(1..high)
  <2>1. CASE high = 0
    BY <2>1
  <2>2. CASE high # 0
    <3>1. high + after \in Nat /\ high <= high + after
      BY <1>1
    <3>2. Spaced(low, high, high + after) \in Seq(low..high)
      BY <1>1, <1>3, <3>1, SpacedFacts
    <3>3. low..high \subseteq 1..high
      BY <1>1, <1>3
    <3>4. Spaced(low, high, high + after) \in Seq(1..high)
      BY <3>2, <3>3, SeqGrows
    <3> QED BY <2>2, <3>4
  <2> QED BY <2>1, <2>2
<1> HIDE DEF nums
<1>5. \A n \in 1..high : At(h, n) \in K
  BY <1>1 DEF h
<1>6. [i \in 1..Len(nums) |-> At(h, nums[i])] \in Seq(K)
  <2>1. \A i \in 1..Len(nums) : nums[i] \in 1..high
    BY <1>4, SeqElement, Zenon
  <2>2. Len(nums) \in Nat /\ \A i \in 1..Len(nums) : At(h, nums[i]) \in K
    BY <1>4, <1>5, <2>1
  <2> QED BY <2>2
<1>7. BlockchainSynopsis(c, ref, after) = [i \in 1..Len(nums) |-> At(h, nums[i])]
  BY DEF BlockchainSynopsis, nums, low, m, high, h
<1> QED BY <1>6, <1>7

\* The chain behind the delegate: it has its head and, with a block, all that
\* come before it.
ChainOk(c) ==
    /\ c \in [head : Blocks, known : SUBSET Blocks]
    /\ c.head \in c.known /\ Nil \in c.known
    /\ \A b \in c.known : \A n \in 0..Num(b) : At(b, n) \in c.known

\* The synopsis for a peer: blocks of the chain, then blocks of its list.  It
\* is empty only with an empty list.
LEMMA SynopsisForPeerFacts ==
  ASSUME NEW c, ChainOk(c), NEW r, r.toGet \in Seq(Block), r.seen \in c.known
  PROVE  /\ SynopsisForPeer(c, r) \in Seq(Block)
         /\ Range(SynopsisForPeer(c, r)) \subseteq c.known \cup Range(r.toGet)
         /\ SynopsisForPeer(c, r) = << >> => r.toGet = << >>
<1> DEFINE s == BlockchainSynopsis(c, r.seen, Len(r.toGet))
           X == Block \cap (c.known \cup Range(r.toGet))
<1>1. s \in Seq(Block \cap c.known)
  <2> DEFINE h == IF r.seen = Nil THEN c.head ELSE r.seen
  <2>1. h \in c.known /\ c.head \in Blocks /\ h \in Blocks /\ r.seen \in Blocks
    BY DEF ChainOk
  <2>2. Num(h) \in Nat
    BY <2>1, BlocksFacts
  <2>3. ASSUME NEW n \in 1..Num(h) PROVE At(h, n) \in Block \cap c.known
    <3>1. n \in 0..Num(h)
      BY <2>2
    <3> HIDE DEF h
    <3> QED BY <2>1, <2>3, <3>1, BlocksFacts DEF ChainOk
  <2>4. Len(r.toGet) \in Nat
    OBVIOUS
  <2> QED BY <2>1, <2>3, <2>4, BlockchainSynopsisType
<1>2. s \in Seq(X)
  BY <1>1, SeqGrows
<1>3. X \subseteq Block /\ X \subseteq c.known \cup Range(r.toGet)
  OBVIOUS
<1>4. CASE r.toGet = << >>
  <2>1. SynopsisForPeer(c, r) = s
    BY <1>4 DEF SynopsisForPeer
  <2>2. s \in Seq(Block)
    BY <1>2, <1>3, SeqGrows
  <2>3. Range(s) \subseteq X
    BY <1>2 DEF Range
  <2> QED BY <1>3, <1>4, <2>1, <2>2, <2>3
<1>5. CASE r.toGet # << >>
  <2> DEFINE first == Num(Head(r.toGet))
             high == first + Len(r.toGet) - 1
             low == IF s = << >> THEN 1 ELSE Num(Head(s))
             nums == Spaced(low, high, high)
             ctx == <<r.toGet, first>>
  <2>1. SynopsisForPeer(c, r) = S!Fold(ctx, s, nums)
    BY <1>5, SynopsisIsFold
  <2>2. Head(r.toGet) \in Block /\ Len(r.toGet) \in Nat \ {0}
    BY <1>5
  <2>3. first \in Nat \ {0} /\ high \in Nat /\ high >= first
    BY <2>2, BlockFacts
  <2>4. low \in Nat
    <3>1. CASE s = << >>
      BY <3>1
    <3>2. CASE s # << >>
      <4>1. Head(s) \in Block
        BY <1>1, <3>2
      <4> QED BY <3>2, <4>1, BlockFacts
    <3> QED BY <3>1, <3>2
  <2> HIDE DEF s, low, high, first
  <2>5. /\ nums \in Seq(low..high)
        /\ low <= high => high \in Range(nums)
    <3>1. high <= high
      BY <2>3
    <3> QED BY <2>3, <2>4, <3>1, SpacedFacts, Zenon
  <2>6. ASSUME NEW ids \in Seq(X), NEW n \in low..high
        PROVE  /\ SynopsisStep(ctx, ids, n) \in Seq(X)
               /\ ids # << >> \/ n >= first => SynopsisStep(ctx, ids, n) # << >>
    <3>1. n \in Nat
      BY <2>4
    <3>2. CASE n >= first
      <4>1. n + 1 - first \in 1..Len(r.toGet)
        <5>1. n <= high
          BY <2>3, <2>4
        <5> QED BY <2>2, <2>3, <3>1, <3>2, <5>1 DEF high
      <4> DEFINE e == r.toGet[n + 1 - first]
      <4>2. e \in X
        BY <4>1 DEF Range
      <4>3. SynopsisStep(ctx, ids, n) = Append(ids, e)
        BY <3>2 DEF SynopsisStep
      <4> HIDE DEF X, e
      <4>4. Append(ids, e) \in Seq(X) /\ Append(ids, e) # << >>
        BY <4>2
      <4> QED BY <4>3, <4>4
    <3>3. CASE ~(n >= first)
      BY <3>3 DEF SynopsisStep
    <3> HIDE DEF X
    <3> QED BY <3>2, <3>3, Zenon
  <2> HIDE DEF nums, ctx, X
  <2>7. S!Fold(ctx, s, nums) \in Seq(X)
    BY <1>2, <2>5, <2>6, S!FoldKeeps
  <2>8. S!Fold(ctx, s, nums) # << >>
    <3>1. CASE s # << >>
      <4> DEFINE A == Seq(X) \ {<< >>}
      <4>1. s \in A
        BY <1>2, <3>1
      <4>2. \A a \in A, e \in low..high : SynopsisStep(ctx, a, e) \in A
        BY <2>6
      <4> HIDE DEF A
      <4>3. S!Fold(ctx, s, nums) \in A
        BY <2>5, <4>1, <4>2, S!FoldKeeps
      <4> QED BY <4>3 DEF A
    <3>2. CASE s = << >>
      <4>1. low <= high
        BY <2>3, <3>2 DEF low
      <4>2. PICK i \in DOMAIN nums : nums[i] = high
        BY <2>5, <4>1 DEF Range
      <4> DEFINE B == [k \in 0..Len(nums) |-> {ids \in Seq(X) : k >= i => ids # << >>}]
      <4>3. Len(nums) \in Nat /\ i \in 1..Len(nums)
        BY <2>5
      <4>4. s \in B[0]
        BY <1>2, <4>3
      <4>5. ASSUME NEW k \in 1..Len(nums), NEW a \in B[k - 1]
            PROVE  SynopsisStep(ctx, a, nums[k]) \in B[k]
        <5>0. k - 1 \in 0..Len(nums) /\ k \in 0..Len(nums)
          BY <4>3
        <5>1. nums[k] \in low..high /\ k - 1 \in 0..Len(nums) /\ k \in 0..Len(nums)
          BY <2>5, <5>0, SeqElement, Zenon
        <5>2. a \in Seq(X) /\ (k - 1 >= i => a # << >>)
          BY <4>5, <5>1
        <5>3. SynopsisStep(ctx, a, nums[k]) \in Seq(X)
          BY <2>6, <5>1, <5>2
        <5>4. k >= i => SynopsisStep(ctx, a, nums[k]) # << >>
          <6>1. CASE k = i
            BY <2>3, <2>6, <4>2, <5>1, <5>2, <6>1
          <6>2. CASE k # i
            BY <2>6, <4>3, <5>1, <5>2, <6>2
          <6> QED BY <6>1, <6>2
        <5> QED BY <5>1, <5>3, <5>4
      <4>6. S!Fold(ctx, s, nums) \in B[Len(nums)]
        <5> HIDE DEF B
        <5> QED BY <2>5, <4>4, <4>5, S!FoldAlong
      <4> QED BY <4>3, <4>6
    <3> QED BY <3>1, <3>2
  <2>9. S!Fold(ctx, s, nums) \in Seq(Block) /\ Range(S!Fold(ctx, s, nums)) \subseteq X
    <3>1. X \subseteq Block
      BY <1>3 DEF X
    <3>2. S!Fold(ctx, s, nums) \in Seq(Block)
      BY <2>7, <3>1, SeqGrows
    <3>3. Range(S!Fold(ctx, s, nums)) \subseteq X
      BY <2>7 DEF Range
    <3> QED BY <3>2, <3>3
  <2> QED BY <1>3, <1>5, <2>1, <2>8, <2>9 DEF X
<1> QED BY <1>4, <1>5

-----------------------------------------------------------------------------
(* Connections                                                             *)

\* A connection before its ids are asked for.
Ready(r, known, working) ==
    /\ r \in Connection
    /\ IsBranch(r.toGet)
    /\ r.conn = "closed" => r.sync = {}
    /\ r.ids.open /\ r.ids.synopsis = << >> => r.toGet = << >>
    /\ r.conn = "active" => r.processing \subseteq known \cup working
    /\ r.conn = "active" => r.seen \in known \cup r.processing

\* A connection that is tracked can be asked for ids.
LEMMA TrackedIsReady ==
  ASSUME NEW r, NEW known, NEW working, Tracked(r, known, working)
  PROVE  Ready(r, known, working)
BY DEF Tracked, Ready

\* What the chain and the delegate have may grow.
LEMMA TrackedGrows ==
  ASSUME NEW r, NEW known, NEW working, NEW K, NEW V, Tracked(r, known, working),
         known \subseteq K, known \cup working \subseteq K \cup V
  PROVE  Tracked(r, K, V)
BY DEF Tracked

\* The messages of the wire are in their fields.
LEMMA MessageTypes ==
  /\ \A s \in Seq(Block) : Msg("ids", Nil, s) \in Message /\ Msg("ask", Nil, s) \in Message
  /\ \A b \in Block : Msg("block", b, << >>) \in Message /\ Msg("inv", b, << >>) \in Message
BY DEF Msg, Message

\* Changes of one field.
LEMMA SendFacts ==
  ASSUME NEW r, NEW known, NEW working, NEW m \in Message
  PROVE  /\ Tracked(r, known, working) => Tracked(Send(r, m), known, working)
         /\ r \in Connection => Send(r, m).sync = r.sync /\ Send(r, m) \in Connection
<1> SUFFICES ASSUME r \in Connection
             PROVE  /\ Tracked(r, known, working) => Tracked(Send(r, m), known, working)
                    /\ Send(r, m).sync = r.sync /\ Send(r, m) \in Connection
  BY DEF Tracked
<1> DEFINE w == Append(r.wire, m)
           q == [r EXCEPT !.wire = w]
<1>1. w \in Seq(Message)
  BY DEF Connection
<1>2. Send(r, m) = q
  BY DEF Send
<1> HIDE DEF w
<1>3. q \in Connection
  BY <1>1 DEF Connection
<1>4. /\ q.conn = r.conn /\ q.toGet = r.toGet /\ q.sync = r.sync /\ q.ids = r.ids
      /\ q.processing = r.processing /\ q.seen = r.seen
  BY DEF Connection
<1> HIDE DEF q
<1> QED BY <1>2, <1>3, <1>4 DEF Tracked

\* disconnect_from_peer.
LEMMA DisconnectFacts ==
  ASSUME NEW r, NEW known, NEW working, Ready(r, known, working)
  PROVE  Tracked(Disconnect(r), known, working) /\ Disconnect(r).sync = r.sync
<1> DEFINE q == [r EXCEPT !.conn = "closing"]
<1>1. Disconnect(r) = q
  BY DEF Disconnect
<1>2. q \in Connection
  BY DEF Ready, Connection
<1>3. q.conn = "closing" /\ q.toGet = r.toGet /\ q.sync = r.sync /\ q.ids = r.ids
  BY DEF Ready, Connection
<1> HIDE DEF q
<1> QED BY <1>1, <1>2, <1>3 DEF Tracked, Ready

\* fetch_next_batch_of_item_ids_from_peer.
LEMMA FetchIdsFacts ==
  ASSUME NEW c, ChainOk(c), NEW r, NEW working, Ready(r, c.known, working)
  PROVE  Tracked(FetchIds(c, r), c.known, working) /\ FetchIds(c, r).sync = r.sync
<1>1. CASE r.seen \notin c.known
  <2> DEFINE q == [r EXCEPT !.conn = "terminating"]
  <2>1. FetchIds(c, r) = q
    BY <1>1 DEF FetchIds
  <2>2. q \in Connection
    BY DEF Ready, Connection
  <2>3. q.conn = "terminating" /\ q.toGet = r.toGet /\ q.sync = r.sync /\ q.ids = r.ids
    BY DEF Ready, Connection
  <2> HIDE DEF q
  <2> QED BY <2>1, <2>2, <2>3 DEF Tracked, Ready
<1>2. CASE r.seen \in c.known /\ TooOld(c, r.seen)
  <2>1. FetchIds(c, r) = Disconnect(r)
    BY <1>2 DEF FetchIds
  <2> QED BY <2>1, DisconnectFacts
<1>3. CASE r.seen \in c.known /\ ~TooOld(c, r.seen)
  <2> DEFINE s == SynopsisForPeer(c, r)
             q == [r EXCEPT !.ids = [open |-> TRUE, synopsis |-> s]]
             m == Msg("ids", Nil, s)
  <2>1. r.toGet \in Seq(Block)
    BY DEF Ready, Connection
  <2>2. /\ s \in Seq(Block) /\ Range(s) \subseteq c.known \cup Range(r.toGet)
        /\ s = << >> => r.toGet = << >>
    BY <1>3, <2>1, SynopsisForPeerFacts
  <2>3. FetchIds(c, r) = Send(q, m)
    BY <1>3 DEF FetchIds
  <2> HIDE DEF s
  <2>4. q \in Connection
    BY <2>2 DEF Ready, Connection
  <2>5. /\ q.conn = r.conn /\ q.toGet = r.toGet /\ q.sync = r.sync
        /\ q.processing = r.processing /\ q.seen = r.seen
        /\ q.ids.open /\ q.ids.synopsis = s
    BY DEF Ready, Connection
  <2> HIDE DEF q
  <2>6. Tracked(q, c.known, working)
    BY <2>2, <2>4, <2>5 DEF Tracked, Ready
  <2>7. m \in Message
    BY <2>2, MessageTypes
  <2> QED BY <2>3, <2>4, <2>5, <2>6, <2>7, SendFacts
<1> QED BY <1>1, <1>2, <1>3

\* start_synchronizing_with_peer.
LEMMA StartSynchronizingFacts ==
  ASSUME NEW c, ChainOk(c), NEW r \in Connection, NEW working, r.conn = "closed" => r.sync = {},
         r.conn = "active" => r.processing \subseteq c.known \cup working
  PROVE  /\ Tracked(StartSynchronizing(c, r), c.known, working)
         /\ StartSynchronizing(c, r).sync = r.sync
<1> DEFINE q == [r EXCEPT !.toGet = << >>, !.unfetched = 0, !.weNeed = TRUE,
                          !.seen = Nil, !.inhibit = FALSE]
<1>1. q \in Connection
  <2>1. << >> \in Seq(Block) /\ Nil \in Blocks /\ 0 \in Nat
    BY DEF Blocks
  <2> DEFINE q1 == [r EXCEPT !.toGet = << >>, !.unfetched = 0]
  <2>2. q1 \in Connection
    BY <2>1 DEF Connection
  <2>3. q = [q1 EXCEPT !.weNeed = TRUE, !.seen = Nil, !.inhibit = FALSE]
    BY DEF Connection
  <2> HIDE DEF q1
  <2> QED BY <2>1, <2>2, <2>3 DEF Connection
<1>2. /\ q.conn = r.conn /\ q.toGet = << >> /\ q.sync = r.sync /\ q.ids = r.ids
      /\ q.processing = r.processing /\ q.seen = Nil
  BY DEF Connection
<1>3. StartSynchronizing(c, r) = FetchIds(c, q)
  BY DEF StartSynchronizing
<1>4. Nil \in c.known
  BY DEF ChainOk
<1>5. IsBranch(<< >>)
  BY DEF IsBranch
<1> HIDE DEF q
<1>6. Ready(q, c.known, working)
  BY <1>1, <1>2, <1>4, <1>5 DEF Ready
<1>7. Tracked(FetchIds(c, q), c.known, working) /\ FetchIds(c, q).sync = q.sync
  BY <1>6, FetchIdsFacts
<1> QED BY <1>2, <1>3, <1>7

-----------------------------------------------------------------------------
(* Answers with ids                                                        *)

\* The chain of the node is one.
LEMMA ChainIsOk == ChainInv => ChainOk(chain)
BY DEF ChainInv, ChainOk

\* The parts of a sequence.
LEMMA SubSeqFacts ==
  ASSUME NEW A, NEW seq \in Seq(A), NEW i \in 1..(Len(seq) + 1), NEW j \in 0..Len(seq), i <= j + 1
  PROVE  /\ SubSeq(seq, i, j) \in Seq(A) /\ Len(SubSeq(seq, i, j)) = j + 1 - i
         /\ \A k \in 1..(j + 1 - i) : SubSeq(seq, i, j)[k] = seq[i + k - 1]
OBVIOUS

\* The block before the one with number n + 1 on a chain is that with number n.
LEMMA PreviousAt ==
  ASSUME NEW b \in Seq(Header), NEW n \in 1..(Num(b) - 1)
  PROVE  At(b, n) = Previous(At(b, n + 1))
<1>1. n \in Nat /\ n + 1 \in 0..Len(b) /\ Len(b) \in Nat
  BY DEF Num
<1>2. /\ At(b, n + 1) \in Seq(Header) /\ Len(At(b, n + 1)) = n + 1
      /\ \A k \in 1..(n + 1) : At(b, n + 1)[k] = b[k]
  BY <1>1 DEF At
<1>3. /\ At(b, n) \in Seq(Header) /\ Len(At(b, n)) = n
      /\ \A k \in 1..n : At(b, n)[k] = b[k]
  BY <1>1 DEF At
<1>4. /\ Previous(At(b, n + 1)) \in Seq(Header) /\ Len(Previous(At(b, n + 1))) = n
      /\ \A k \in 1..n : Previous(At(b, n + 1))[k] = At(b, n + 1)[k]
  BY <1>1, <1>2 DEF Previous
<1> QED BY <1>1, <1>2, <1>3, <1>4

\* get_block_ids: a part of the branch of the head.
LEMMA BlockIdsFacts ==
  ASSUME NEW h \in Blocks, NEW s \in Seq(Block)
  PROVE  /\ BlockIds(h, s) \in Seq(Block) /\ IsBranch(BlockIds(h, s))
         /\ \A i \in 1..Len(BlockIds(h, s)) : Num(BlockIds(h, s)[i]) \in 1..Num(h)
<1> DEFINE from == IF s = << >> THEN 1 ELSE Num(s[Max(Known(h, s))])
           to == Min({Num(h), from + BatchIds - 1})
           ids == [i \in 1..(to + 1 - from) |-> At(h, from + i - 1)]
<1>0. h \in Seq(Header) /\ Num(h) \in Nat /\ BatchIds \in Nat /\ BatchIds > 1
  BY BlocksFacts, ParametersAssumption
<1>1. CASE s # << >> /\ Known(h, s) = {}
  <2>1. BlockIds(h, s) = << >>
    BY <1>1 DEF BlockIds
  <2> QED BY <2>1 DEF IsBranch
<1>2. CASE ~(s # << >> /\ Known(h, s) = {})
  <2>1. BlockIds(h, s) = ids
    BY <1>2 DEF BlockIds
  <2>2. from \in Nat \ {0} /\ from <= Num(h) + 1
    <3>1. CASE s = << >>
      BY <1>0, <3>1
    <3>2. CASE s # << >>
      <4>1. Known(h, s) \in SUBSET (1..Len(s)) /\ Known(h, s) # {} /\ Len(s) \in Nat
        BY <1>2, <3>2 DEF Known
      <4>2. Max(Known(h, s)) \in Known(h, s)
        BY <4>1, MaxOfPositions
      <4>3. s[Max(Known(h, s))] \in Block /\ Num(s[Max(Known(h, s))]) <= Num(h)
        BY <4>1, <4>2 DEF Known, Included
      <4>4. Num(s[Max(Known(h, s))]) \in Nat \ {0}
        BY <4>3, BlockFacts
      <4> QED BY <1>0, <3>2, <4>3, <4>4
    <3> QED BY <3>1, <3>2
  <2> HIDE DEF from
  <2>3. to \in Nat /\ to <= Num(h) /\ to + 1 - from \in Nat
    <3>1. Num(h) \in Int /\ from + BatchIds - 1 \in Int
      BY <1>0, <2>2
    <3>2. /\ to \in {Num(h), from + BatchIds - 1}
          /\ to <= Num(h) /\ to <= from + BatchIds - 1
      BY <3>1, MinOfTwo, Zenon
    <3> QED BY <1>0, <2>2, <3>2
  <2> HIDE DEF to
  <2>4. ASSUME NEW i \in 1..(to + 1 - from)
        PROVE  /\ At(h, from + i - 1) \in Block /\ Num(At(h, from + i - 1)) = from + i - 1
               /\ from + i - 1 \in 1..Num(h)
    <3>1. from + i - 1 \in 1..Num(h) /\ from + i - 1 \in 0..Num(h)
      BY <1>0, <2>2, <2>3
    <3>2. At(h, from + i - 1) \in Block
      BY <3>1, BlocksFacts
    <3>3. Num(At(h, from + i - 1)) = from + i - 1
      BY <1>0, <3>1, AtFacts
    <3> QED BY <3>1, <3>2, <3>3
  <2>5. ids \in Seq(Block) /\ Len(ids) = to + 1 - from
    BY <2>3, <2>4
  <2>6. IsBranch(ids)
    <3>1. ASSUME NEW i \in 1..(Len(ids) - 1) PROVE ids[i] = Previous(ids[i + 1])
      <4> DEFINE n == from + i - 1
      <4>1. i \in 1..(to + 1 - from) /\ i + 1 \in 1..(to + 1 - from)
        BY <2>3, <2>5
      <4>2. ids[i] = At(h, n) /\ ids[i + 1] = At(h, n + 1)
        BY <2>2, <4>1
      <4>3. n \in 1..(Num(h) - 1)
        BY <1>0, <2>2, <2>3, <4>1
      <4> HIDE DEF n, ids
      <4> QED BY <1>0, <4>2, <4>3, PreviousAt
    <3> HIDE DEF ids
    <3> QED BY <3>1 DEF IsBranch
  <2>7. \A i \in 1..Len(ids) : Num(ids[i]) \in 1..Num(h)
    BY <2>4, <2>5
  <2> HIDE DEF ids
  <2> QED BY <2>1, <2>5, <2>6, <2>7
<1> QED BY <1>1, <1>2

\* A part of a branch is a branch.
LEMMA SubBranch ==
  ASSUME NEW seq \in Seq(Block), IsBranch(seq),
         NEW i \in 1..(Len(seq) + 1), NEW j \in 0..Len(seq), i <= j + 1
  PROVE  IsBranch(SubSeq(seq, i, j))
<1> DEFINE t == SubSeq(seq, i, j)
<1>1. Len(t) = j + 1 - i /\ \A k \in 1..(j + 1 - i) : t[k] = seq[i + k - 1]
  BY SubSeqFacts
<1> HIDE DEF t
<1>2. ASSUME NEW k \in 1..(Len(t) - 1) PROVE t[k] = Previous(t[k + 1])
  <2>1. k \in 1..(j + 1 - i) /\ k + 1 \in 1..(j + 1 - i) /\ i + k - 1 \in 1..(Len(seq) - 1)
    BY <1>1
  <2>2. i + (k + 1) - 1 = (i + k - 1) + 1
    BY <2>1
  <2>3. seq[i + k - 1] = Previous(seq[(i + k - 1) + 1])
    BY <2>1 DEF IsBranch
  <2> QED BY <1>1, <2>1, <2>2, <2>3
<1>3. IsBranch(t)
  BY <1>2 DEF IsBranch
<1> QED BY <1>3 DEF t

\* A branch without its first block.
LEMMA TailBranch ==
  ASSUME NEW seq \in Seq(Block), IsBranch(seq), seq # << >>
  PROVE  Tail(seq) \in Seq(Block) /\ IsBranch(Tail(seq))
<1>1. Tail(seq) \in Seq(Block) /\ Len(Tail(seq)) = Len(seq) - 1
  OBVIOUS
<1>2. \A k \in 1..(Len(seq) - 1) : Tail(seq)[k] = seq[k + 1]
  OBVIOUS
<1>3. ASSUME NEW k \in 1..(Len(seq) - 2) PROVE Tail(seq)[k] = Previous(Tail(seq)[k + 1])
  <2>1. k \in 1..(Len(seq) - 1) /\ k + 1 \in 1..(Len(seq) - 1)
    OBVIOUS
  <2> QED BY <1>2, <2>1 DEF IsBranch
<1> QED BY <1>1, <1>3 DEF IsBranch

\* The leading blocks that go are in the chain.
LEMMA DropKnownFacts ==
  ASSUME NEW p, NEW ids \in Seq(Block), IsBranch(ids), ids # << >>
  PROVE  LET new == DropKnown(p, ids)
             dropped == Len(ids) - Len(new)
         IN  /\ new \in Seq(Block) /\ IsBranch(new)
             /\ dropped \in 0..Len(ids)
             /\ dropped # 0 => ids[dropped] \in chain.known
<1> DEFINE T == {i \in 1..(Len(ids) + 1) : i > Len(ids) \/ ids[i] \notin chain.known}
           n == Min(T)
           new == DropKnown(p, ids)
           dropped == Len(ids) - Len(new)
<1> SUFFICES /\ new \in Seq(Block) /\ IsBranch(new)
             /\ dropped \in 0..Len(ids)
             /\ dropped # 0 => ids[dropped] \in chain.known
  OBVIOUS
<1>0. Len(ids) \in Nat
  OBVIOUS
<1>1. n \in T /\ \A y \in T : n <= y
  <2>1. T \in SUBSET (1..(Len(ids) + 1)) /\ Len(ids) + 1 \in T /\ Len(ids) + 1 \in Nat
    BY <1>0
  <2>2. T # {}
    BY <2>1
  <2> HIDE DEF T
  <2> QED BY <2>1, <2>2, MinOfPositions
<1> HIDE DEF n
<1>2. n \in 1..(Len(ids) + 1)
  BY <1>1
<1>3. new = ids \/ new = SubSeq(ids, n, Len(ids))
  BY DEF DropKnown, n
<1> HIDE DEF new
<1>4. CASE new = ids
  BY <1>0, <1>4
<1>5. CASE new = SubSeq(ids, n, Len(ids))
  <2>1. Len(ids) \in 0..Len(ids) /\ n <= Len(ids) + 1
    BY <1>0, <1>2
  <2>2. new \in Seq(Block) /\ Len(new) = Len(ids) + 1 - n
    BY <1>2, <1>5, <2>1, SubSeqFacts
  <2>3. IsBranch(new)
    BY <1>2, <1>5, <2>1, SubBranch
  <2>4. dropped = n - 1
    BY <1>0, <1>2, <2>2
  <2>5. ASSUME n - 1 # 0 PROVE ids[n - 1] \in chain.known
    <3>1. n - 1 \in 1..Len(ids) /\ n - 1 \in 1..(Len(ids) + 1) /\ ~(n <= n - 1) /\ ~(n - 1 > Len(ids))
      BY <1>0, <1>2, <2>5
    <3>2. n - 1 \notin T
      BY <1>1, <3>1
    <3> QED BY <3>1, <3>2
  <2>6. dropped \in 0..Len(ids)
    BY <1>0, <1>2, <2>4
  <2> HIDE DEF dropped
  <2> QED BY <2>2, <2>3, <2>4, <2>5, <2>6
<1> QED BY <1>3, <1>4, <1>5

\* The list cut where the answer starts, and the answer.
LEMMA JoinedFacts ==
  ASSUME NEW r, r.toGet \in Seq(Block), IsBranch(r.toGet), NEW ids \in Seq(Block), IsBranch(ids),
         \E i \in 1..Len(r.toGet) : r.toGet[i] = ids[1]
  PROVE  Joined(r, ids) \o ids \in Seq(Block) /\ IsBranch(Joined(r, ids) \o ids)
<1> DEFINE at == {i \in 1..Len(r.toGet) : r.toGet[i] = ids[1]}
           m == Max(at)
           t == SubSeq(r.toGet, 1, m - 1)
           u == t \o ids
<1>0. Len(r.toGet) \in Nat /\ Len(ids) \in Nat
  OBVIOUS
<1>1. at # {} /\ at \in SUBSET (1..Len(r.toGet))
  OBVIOUS
<1>2. m \in at
  <2> HIDE DEF at
  <2> QED BY <1>0, <1>1, MaxOfPositions
<1>3. m \in 1..Len(r.toGet) /\ r.toGet[m] = ids[1]
  BY <1>2
<1>4. Joined(r, ids) = t
  BY <1>1 DEF Joined
<1> HIDE DEF m
<1>5. 1 \in 1..(Len(r.toGet) + 1) /\ m - 1 \in 0..Len(r.toGet) /\ 1 <= (m - 1) + 1
  BY <1>0, <1>3
<1>6. /\ t \in Seq(Block) /\ Len(t) = m - 1
      /\ \A k \in 1..(m - 1) : t[k] = r.toGet[k]
  <2>1. /\ t \in Seq(Block) /\ Len(t) = (m - 1) + 1 - 1
        /\ \A k \in 1..((m - 1) + 1 - 1) : t[k] = r.toGet[1 + k - 1]
    BY <1>5, SubSeqFacts
  <2> QED BY <1>3, <2>1
<1> HIDE DEF t
<1>7. /\ u \in Seq(Block) /\ Len(u) = (m - 1) + Len(ids)
      /\ \A k \in 1..(m - 1) : u[k] = t[k]
      /\ \A k \in 1..Len(ids) : u[(m - 1) + k] = ids[k]
  <2>1. /\ u \in Seq(Block) /\ Len(u) = Len(t) + Len(ids)
        /\ \A k \in 1..Len(t) : u[k] = t[k]
        /\ \A k \in 1..Len(ids) : u[Len(t) + k] = ids[k]
    <3>1. t \in Seq(Block)
      BY <1>6
    <3>2. t \o ids \in Seq(Block) /\ Len(t \o ids) = Len(t) + Len(ids)
      BY <3>1
    <3>3. \A k \in 1..Len(t) : (t \o ids)[k] = t[k]
      BY <3>1
    <3>4. \A k \in 1..Len(ids) : (t \o ids)[Len(t) + k] = ids[k]
      BY <3>1
    <3> QED BY <3>2, <3>3, <3>4
  <2> QED BY <1>6, <2>1
<1> HIDE DEF u
<1>8. ASSUME NEW i \in 1..(Len(u) - 1) PROVE u[i] = Previous(u[i + 1])
  <2>1. CASE i < m - 1
    <3>1. i \in 1..(m - 1) /\ i + 1 \in 1..(m - 1) /\ i \in 1..(Len(r.toGet) - 1)
      BY <1>3, <2>1
    <3>2. r.toGet[i] = Previous(r.toGet[i + 1])
      BY <3>1 DEF IsBranch
    <3> QED BY <1>6, <1>7, <3>1, <3>2
  <2>2. CASE i = m - 1
    <3>1. i \in 1..(m - 1) /\ i \in 1..(Len(r.toGet) - 1) /\ 1 \in 1..Len(ids) /\ i + 1 = m
      BY <1>0, <1>3, <1>7, <2>2
    <3>2. r.toGet[i] = Previous(r.toGet[i + 1])
      BY <3>1 DEF IsBranch
    <3>3. u[i + 1] = ids[1]
      BY <1>7, <2>2, <3>1
    <3> QED BY <1>3, <1>6, <1>7, <3>1, <3>2, <3>3
  <2>3. CASE i > m - 1
    <3> DEFINE j == i - (m - 1)
    <3>1. /\ j \in 1..(Len(ids) - 1) /\ j \in 1..Len(ids) /\ j + 1 \in 1..Len(ids)
          /\ i = (m - 1) + j /\ i + 1 = (m - 1) + (j + 1)
      BY <1>0, <1>3, <1>7, <2>3
    <3> HIDE DEF j
    <3>2. ids[j] = Previous(ids[j + 1])
      BY <3>1 DEF IsBranch
    <3>3. u[i] = ids[j] /\ u[i + 1] = ids[j + 1]
      BY <1>7, <3>1
    <3> QED BY <3>2, <3>3
  <2> QED BY <1>3, <2>1, <2>2, <2>3
<1>9. IsBranch(u)
  BY <1>8 DEF IsBranch
<1> QED BY <1>4, <1>7, <1>9 DEF u

\* The first of the ids is one that the list, if there is one, can be joined at.
Attached(r, ids) ==
    r.conn = "active" /\ ids # << >> /\ r.toGet # << >> =>
        ids[1] \in chain.known \cup r.processing \cup Range(r.toGet)

\* The list of the peer after a valid answer: it starts at a block that the
\* node has or that is on its way to the chain.
LEMMA MergeIdsFacts ==
  ASSUME NEW p, NEW working, NEW r, Ready(r, chain.known, working), ~r.ids.open,
         NEW ids \in Seq(Block), IsBranch(ids), Attached(r, ids)
  PROVE  /\ Ready(MergeIds(p, r, ids), chain.known, working)
         /\ MergeIds(p, r, ids).sync = r.sync /\ MergeIds(p, r, ids).ids = r.ids
<1> DEFINE new == DropKnown(p, ids)
           dropped == Len(ids) - Len(new)
           common == \E i \in 1..Len(r.toGet) : r.toGet[i] = ids[1]
<1>0. r.toGet \in Seq(Block) /\ IsBranch(r.toGet) /\ r \in Connection
  BY DEF Ready, Connection
<1>1. CASE ids = << >>
  BY <1>1 DEF MergeIds
<1>2. CASE ids # << >> /\ r.toGet = << >>
  <2> DEFINE q == [r EXCEPT !.toGet = new, !.seen = IF dropped = 0 THEN @ ELSE ids[dropped]]
  <2>1. MergeIds(p, r, ids) = q
    BY <1>2 DEF MergeIds
  <2>2. /\ new \in Seq(Block) /\ IsBranch(new) /\ dropped \in 0..Len(ids)
        /\ dropped # 0 => ids[dropped] \in chain.known
    BY <1>2, DropKnownFacts
  <2> HIDE DEF new
  <2>3. dropped # 0 => ids[dropped] \in Block
    <3> HIDE DEF dropped
    <3> QED BY <2>2
  <2> HIDE DEF dropped
  <2>4. q \in Connection
    BY <1>0, <2>2, <2>3 DEF Connection, Blocks
  <2>5. /\ q.conn = r.conn /\ q.toGet = new /\ q.sync = r.sync /\ q.ids = r.ids
        /\ q.processing = r.processing /\ q.seen = IF dropped = 0 THEN r.seen ELSE ids[dropped]
    BY <1>0 DEF Connection
  <2> HIDE DEF q
  <2>6. Ready(q, chain.known, working)
    BY <2>2, <2>4, <2>5 DEF Ready
  <2> QED BY <2>1, <2>5, <2>6
<1>3. CASE ids # << >> /\ r.toGet # << >> /\ common
  <2> DEFINE t == Joined(r, ids) \o ids
             q == [r EXCEPT !.toGet = t]
  <2>1. MergeIds(p, r, ids) = q
    BY <1>3 DEF MergeIds
  <2>2. t \in Seq(Block) /\ IsBranch(t)
    BY <1>0, <1>3, JoinedFacts
  <2> HIDE DEF t
  <2>4. q \in Connection
    BY <1>0, <2>2 DEF Connection
  <2>5. /\ q.conn = r.conn /\ q.toGet = t /\ q.sync = r.sync /\ q.ids = r.ids
        /\ q.processing = r.processing /\ q.seen = r.seen
    BY <1>0 DEF Connection
  <2> HIDE DEF q
  <2>6. Ready(q, chain.known, working)
    BY <2>2, <2>4, <2>5 DEF Ready
  <2> QED BY <2>1, <2>5, <2>6
<1>4. CASE ids # << >> /\ r.toGet # << >> /\ ~common
  <2> DEFINE t == Tail(ids)
             b == ids[1]
             q == [r EXCEPT !.toGet = t, !.seen = b]
  <2>1. MergeIds(p, r, ids) = q
    BY <1>4 DEF MergeIds
  <2>2. t \in Seq(Block) /\ IsBranch(t)
    BY <1>4, TailBranch
  <2>3. b \in Block
    BY <1>4
  <2>4. r.conn = "active" => b \in chain.known \cup r.processing
    <3>1. b \notin Range(r.toGet)
      BY <1>0, <1>4 DEF Range
    <3> QED BY <1>4, <3>1 DEF Attached
  <2> HIDE DEF t, b
  <2>5. q \in Connection
    BY <1>0, <2>2, <2>3 DEF Connection, Blocks
  <2>6. /\ q.conn = r.conn /\ q.toGet = t /\ q.sync = r.sync /\ q.ids = r.ids
        /\ q.processing = r.processing /\ q.seen = b
    BY <1>0 DEF Connection
  <2> HIDE DEF q
  <2>7. Ready(q, chain.known, working)
    BY <2>2, <2>4, <2>5, <2>6 DEF Ready
  <2> QED BY <2>1, <2>6, <2>7
<1> QED BY <1>1, <1>2, <1>3, <1>4

-----------------------------------------------------------------------------
(* Steps that change little                                                *)

\* What a connection tracks depends on these fields.
LEMMA SameTracked ==
  ASSUME NEW r, NEW q \in Connection, NEW known, NEW working, Tracked(r, known, working),
         q.conn = r.conn, q.toGet = r.toGet, q.ids = r.ids, q.processing = r.processing,
         q.seen = r.seen, q.conn = "closed" => q.sync = {}
  PROVE  Tracked(q, known, working)
BY DEF Tracked

\* Only the wire of a connection changes.
LEMMA WireFacts ==
  ASSUME NEW r, NEW known, NEW working, NEW w \in Seq(Message), Tracked(r, known, working)
  PROVE  /\ Tracked([r EXCEPT !.wire = w], known, working)
         /\ [r EXCEPT !.wire = w].sync = r.sync
<1> DEFINE q == [r EXCEPT !.wire = w]
<1>1. r \in Connection /\ (r.conn = "closed" => r.sync = {})
  BY DEF Tracked
<1>2. q \in Connection
  BY <1>1 DEF Connection
<1>3. /\ q.conn = r.conn /\ q.toGet = r.toGet /\ q.sync = r.sync /\ q.ids = r.ids
      /\ q.processing = r.processing /\ q.seen = r.seen
  BY <1>1 DEF Connection
<1> HIDE DEF q
<1>4. Tracked(q, known, working) /\ q.sync = r.sync
  BY <1>1, <1>2, <1>3, SameTracked
<1> QED BY <1>4 DEF q

\* The message at the head of a wire.
LEMMA ReadsFacts ==
  ASSUME PeersInv, NEW p \in Peer, NEW t, Reads(p, t)
  PROVE  /\ peer[p] \in Connection /\ Tracked(peer[p], chain.known, AtDelegate)
         /\ Tail(peer[p].wire) \in Seq(Message)
         /\ Head(peer[p].wire) \in Message /\ Head(peer[p].wire).t = t
         /\ peer[p].conn # "closed"
<1>1. peer[p] \in Connection /\ Tracked(peer[p], chain.known, AtDelegate)
  BY DEF PeersInv
<1>2. peer[p].wire \in Seq(Message)
  BY <1>1 DEF Connection
<1> DEFINE w == peer[p].wire
<1>3. w # << >> /\ Head(w).t = t /\ peer[p].conn # "closed"
  BY DEF Reads
<1>4. Tail(w) \in Seq(Message) /\ Head(w) \in Message
  <2> HIDE DEF w
  <2> QED BY <1>2, <1>3 DEF w
<1> QED BY <1>1, <1>3, <1>4

\* What a message holds.
LEMMA HeadTypes ==
  ASSUME NEW m \in Message
  PROVE  /\ m.t \in {"ids", "ask"} => m.synopsis \in Seq(Block)
         /\ m.t \in {"block", "inv"} => m.b \in Block
BY DEF Message

\* One connection changes.
LEMMA OnePeer ==
  ASSUME PeersInv, NEW p \in Peer, NEW r, Tracked(r, chain.known, AtDelegate),
         peer' = [peer EXCEPT ![p] = r], chain'.known = chain.known, AtDelegate' = AtDelegate
  PROVE  PeersInv'
<1>1. r \in Connection
  BY DEF Tracked
<1>2. peer' \in [Peer -> Connection]
  BY <1>1 DEF PeersInv
<1>3. ASSUME NEW q \in Peer PROVE Tracked(peer'[q], chain.known, AtDelegate)
  BY DEF PeersInv
<1> QED BY <1>2, <1>3 DEF PeersInv

\* The requests stay as they are.
LEMMA SameRequests ==
  ASSUME RequestsInv, \A q \in Peer : peer'[q].sync = peer[q].sync, active' = active,
         Range(received') \cup Range(fresh') \subseteq Range(received) \cup Range(fresh),
         \A q \in Peer : theirs'[q].lost = theirs[q].lost
  PROVE  RequestsInv'
<1>1. RequestedOnce'
  BY DEF RequestsInv, RequestedOnce, HaveReceived
<1>2. RequestsOwned'
  BY DEF RequestsInv, RequestsOwned, Orphans
<1> QED BY <1>1, <1>2 DEF RequestsInv

\* on_blockchain_item_ids_inventory_message.
LEMMA OnItemIdsInv ==
  ASSUME IndInv, NEW p \in Peer, OnItemIds(p)
  PROVE  IndInv'
<1> DEFINE m == Head(peer[p].wire)
           r == [peer[p] EXCEPT !.wire = Tail(@)]
           base == [peer[p] EXCEPT !.wire = Tail(@), !.ids = NoRequest]
           known == chain.known
<1>1. ChainInv /\ JobsInv /\ OwnTypes /\ PeersInv /\ RequestsInv
  BY DEF IndInv
<1>2. /\ peer[p] \in Connection /\ Tracked(peer[p], known, AtDelegate)
      /\ Tail(peer[p].wire) \in Seq(Message) /\ m.synopsis \in Seq(Block)
      /\ peer[p].conn # "closed"
  BY <1>1, ReadsFacts, HeadTypes DEF OnItemIds
<1>3. PICK ids \in Answers(p) : \E merged \in {Listed(p, ids)} : OnItemIds(p)!2!(ids)!(merged)
  BY DEF OnItemIds
<1>4. PICK merged \in {Listed(p, ids)} : OnItemIds(p)!2!(ids)!(merged)
  BY <1>3
<1>5. merged = Listed(p, ids) /\ ids = BlockIds(theirs[p].head, m.synopsis)
  BY DEF Answers
<1> DEFINE good == r.ids.open /\ ValidAnswer(r, ids)
           uptodate == UpToDate(r, ids, Remaining(p, ids))
<1>6. \/ ~r.ids.open /\ peer' = [peer EXCEPT ![p] = r]
      \/ r.ids.open /\ ~good /\ peer' = [peer EXCEPT ![p] = Disconnect(r)]
      \/ good /\ peer' = [peer EXCEPT ![p] = [r EXCEPT !.ids = NoRequest, !.weNeed = FALSE]]
      \/ good /\ peer' = [peer EXCEPT ![p] = merged]
      \/ good /\ peer' = [peer EXCEPT ![p] = FetchIds(chain, merged)]
  BY <1>4
<1>7. /\ ids \in Seq(Block) /\ IsBranch(ids)
      /\ \A i \in 1..Len(ids) : Num(ids[i]) \in 1..Num(theirs[p].head)
  <2>1. theirs[p].head \in Blocks
    BY <1>1 DEF OwnTypes
  <2> QED BY <1>2, <1>5, <2>1, BlockIdsFacts
<1>8. Tracked(r, known, AtDelegate) /\ r.sync = peer[p].sync /\ r.ids = peer[p].ids
  <2> DEFINE w == Tail(peer[p].wire)
  <2>1. w \in Seq(Message)
    BY <1>2
  <2>2. r = [peer[p] EXCEPT !.wire = w]
    OBVIOUS
  <2>3. r.ids = peer[p].ids
    BY <1>2 DEF Connection
  <2> HIDE DEF w, r
  <2> QED BY <1>2, <2>1, <2>2, <2>3, WireFacts
<1>9. base \in Connection
  <2>1. NoRequest \in [open : BOOLEAN, synopsis : Seq(Block)]
    BY DEF NoRequest
  <2> QED BY <1>2, <2>1 DEF Connection
<1>10. /\ base.conn = peer[p].conn /\ base.toGet = peer[p].toGet /\ base.sync = peer[p].sync
       /\ base.processing = peer[p].processing /\ base.seen = peer[p].seen
       /\ base.ids = NoRequest
  BY <1>2 DEF Connection
<1> HIDE DEF base
<1>11. Ready(base, known, AtDelegate) /\ ~base.ids.open
  <2>1. ~NoRequest.open
    BY DEF NoRequest
  <2> QED BY <1>2, <1>9, <1>10, <2>1 DEF Tracked, Ready
<1>12. ASSUME good
       PROVE  /\ Ready(merged, known, AtDelegate) /\ merged.sync = peer[p].sync
              /\ merged.ids = NoRequest
  <2> DEFINE syn == Range(peer[p].ids.synopsis)
             b == MergeIds(p, base, ids)
             rem == Remaining(p, ids)
  <2>1. base.conn = "active" => syn \subseteq known \cup base.processing \cup Range(base.toGet)
    BY <1>2, <1>8, <1>10, <1>12 DEF Tracked
  <2>2. base.conn = "active" /\ ids # << >> /\ base.toGet # << >> =>
            ids[1] \in known \cup base.processing \cup Range(base.toGet)
    <3>1. SUFFICES ASSUME base.conn = "active", ids # << >>, base.toGet # << >>
                   PROVE  ids[1] \in syn
      BY <2>1
    <3>2. peer[p].ids.synopsis # << >>
      BY <1>2, <1>8, <1>10, <1>12, <3>1 DEF Tracked
    <3> QED BY <1>8, <1>12, <3>1, <3>2 DEF ValidAnswer
  <2>3. Ready(b, known, AtDelegate) /\ b.sync = base.sync /\ b.ids = base.ids
    <3> HIDE DEF syn
    <3>1. Attached(base, ids)
      BY <2>2 DEF Attached
    <3> QED BY <1>7, <1>11, <3>1, MergeIdsFacts
  <2>4. rem \in Nat
    <3>1. CASE ids = << >>
      BY <3>1 DEF Remaining
    <3>2. CASE ids # << >>
      <4>1. Last(ids) = ids[Len(ids)] /\ Len(ids) \in 1..Len(ids)
        BY <1>7, <3>2 DEF Last
      <4>2. theirs[p].head \in Blocks
        BY <1>1 DEF OwnTypes
      <4>3. Num(theirs[p].head) \in Nat /\ Num(Last(ids)) \in 1..Num(theirs[p].head)
        BY <1>7, <4>1, <4>2, BlocksFacts
      <4> QED BY <3>2, <4>3 DEF Remaining
    <3> QED BY <3>1, <3>2
  <2> HIDE DEF b, rem
  <2>5. merged = [b EXCEPT !.unfetched = rem]
    BY <1>5 DEF Listed, b, rem, base
  <2>6. b \in Connection
    BY <2>3 DEF Ready
  <2> DEFINE q == [b EXCEPT !.unfetched = rem]
  <2>7. q \in Connection
    BY <2>4, <2>6 DEF Connection
  <2>8. /\ q.conn = b.conn /\ q.toGet = b.toGet /\ q.sync = b.sync /\ q.ids = b.ids
        /\ q.processing = b.processing /\ q.seen = b.seen
    BY <2>6 DEF Connection
  <2> HIDE DEF q
  <2>9. Ready(q, known, AtDelegate)
    BY <2>3, <2>7, <2>8 DEF Ready
  <2> QED BY <1>10, <2>3, <2>5, <2>8, <2>9 DEF q
<1>13. PICK q : peer' = [peer EXCEPT ![p] = q] /\ Tracked(q, known, AtDelegate) /\ q.sync = peer[p].sync
  <2> HIDE DEF r, uptodate
  <2>1. CASE ~r.ids.open /\ peer' = [peer EXCEPT ![p] = r]
    BY <1>8, <2>1
  <2>2. CASE r.ids.open /\ ~good /\ peer' = [peer EXCEPT ![p] = Disconnect(r)]
    <3>1. Tracked(Disconnect(r), known, AtDelegate) /\ Disconnect(r).sync = r.sync
      BY <1>8, TrackedIsReady, DisconnectFacts
    <3> QED BY <1>8, <2>2, <3>1
  <2>3. CASE good /\ peer' = [peer EXCEPT ![p] = [r EXCEPT !.ids = NoRequest, !.weNeed = FALSE]]
    <3> DEFINE q == [r EXCEPT !.ids = NoRequest, !.weNeed = FALSE]
    <3>1. NoRequest \in [open : BOOLEAN, synopsis : Seq(Block)] /\ ~NoRequest.open
      BY DEF NoRequest
    <3>2. r \in Connection
      BY <1>8 DEF Tracked
    <3>3. q \in Connection
      BY <3>1, <3>2 DEF Connection
    <3>4. /\ q.conn = r.conn /\ q.toGet = r.toGet /\ q.sync = r.sync /\ q.ids = NoRequest
          /\ q.processing = r.processing /\ q.seen = r.seen
      BY <3>2 DEF Connection
    <3> HIDE DEF q
    <3>5. Tracked(q, known, AtDelegate)
      BY <1>8, <3>1, <3>3, <3>4 DEF Tracked
    <3> QED BY <1>8, <2>3, <3>4, <3>5 DEF q
  <2>4. CASE good /\ peer' = [peer EXCEPT ![p] = merged]
    <3>1. ~NoRequest.open
      BY DEF NoRequest
    <3>2. Tracked(merged, known, AtDelegate)
      BY <1>12, <2>4, <3>1 DEF Ready, Tracked
    <3> QED BY <1>12, <2>4, <3>2
  <2>5. CASE good /\ peer' = [peer EXCEPT ![p] = FetchIds(chain, merged)]
    <3>1. Tracked(FetchIds(chain, merged), known, AtDelegate) /\ FetchIds(chain, merged).sync = merged.sync
      BY <1>1, <1>12, <2>5, ChainIsOk, FetchIdsFacts
    <3> QED BY <1>12, <2>5, <3>1
  <2> QED BY <1>6, <2>1, <2>2, <2>3, <2>4, <2>5
<1>14. UNCHANGED <<chain, accepted, active, received, fresh, jobs, toFetch, processed, news>>
  BY DEF OnItemIds
<1>15. AtDelegate' = AtDelegate
  BY <1>14 DEF AtDelegate
<1>16. PeersInv'
  BY <1>1, <1>13, <1>14, <1>15, OnePeer
<1>17. ChainInv' /\ JobsInv'
  BY <1>1, <1>14 DEF ChainInv, JobsInv
<1>18. theirs' = [theirs EXCEPT ![p].insync = InSync(m.synopsis, ids)]
  BY <1>4
<1>19. flags' = [flags EXCEPT !.sync = @ \/ (good /\ ~uptodate /\ EnoughIds(merged))]
  BY <1>4
<1>20. OwnTypes'
  <2>1. InSync(m.synopsis, ids) \in BOOLEAN
    BY DEF InSync
  <2>2. theirs' \in [Peer -> [head : Blocks, insync : BOOLEAN, connects : Nat, lost : SUBSET Block]]
    BY <1>1, <1>18, <2>1 DEF OwnTypes
  <2>3. flags' \in [sync : BOOLEAN, items : BOOLEAN, backlog : BOOLEAN, suspend : BOOLEAN, loop : BOOLEAN]
    <3> DEFINE x == flags.sync \/ (good /\ ~uptodate /\ EnoughIds(merged))
    <3>1. x \in BOOLEAN /\ flags' = [flags EXCEPT !.sync = x]
      BY <1>19
    <3> HIDE DEF x
    <3> QED BY <1>1, <3>1 DEF OwnTypes
  <2> QED BY <1>1, <1>14, <2>2, <2>3 DEF OwnTypes
<1>21. RequestsInv'
  <2>1. \A q2 \in Peer : peer'[q2].sync = peer[q2].sync
    BY <1>1, <1>13 DEF PeersInv
  <2>2. \A q2 \in Peer : theirs'[q2].lost = theirs[q2].lost
    BY <1>1, <1>18 DEF OwnTypes
  <2> QED BY <1>1, <1>14, <2>1, <2>2, SameRequests
<1> QED BY <1>16, <1>17, <1>20, <1>21 DEF IndInv

\* A record of triggers.
Flags == [sync : BOOLEAN, items : BOOLEAN, backlog : BOOLEAN, suspend : BOOLEAN, loop : BOOLEAN]

\* A block that the chain has is the last that a connection knows to be seen.
LEMMA SeenFacts ==
  ASSUME NEW r, NEW known, NEW working, NEW b \in Block, b \in known, Tracked(r, known, working)
  PROVE  Tracked([r EXCEPT !.seen = b], known, working) /\ [r EXCEPT !.seen = b].sync = r.sync
<1> DEFINE q == [r EXCEPT !.seen = b]
<1>1. r \in Connection
  BY DEF Tracked
<1>2. q \in Connection
  BY <1>1 DEF Connection, Blocks
<1>3. /\ q.conn = r.conn /\ q.toGet = r.toGet /\ q.sync = r.sync /\ q.ids = r.ids
      /\ q.processing = r.processing /\ q.seen = b
  BY <1>1 DEF Connection
<1> HIDE DEF q
<1>4. Tracked(q, known, working) /\ q.sync = r.sync
  BY <1>2, <1>3 DEF Tracked
<1> QED BY <1>4 DEF q

\* Every peer that offered a block of the chain has seen it.
LEMMA SeenByAllFacts ==
  ASSUME NEW pr, NEW p \in Peer, NEW known, NEW working, Tracked(pr[p], known, working),
         NEW b \in Block, b \in known
  PROVE  /\ Tracked(SeenByAll(pr, b)[p], known, working)
         /\ SeenByAll(pr, b)[p].sync = pr[p].sync
<1>1. SeenByAll(pr, b)[p] = pr[p] \/ SeenByAll(pr, b)[p] = [pr[p] EXCEPT !.seen = b]
  BY DEF SeenByAll
<1>2. Tracked([pr[p] EXCEPT !.seen = b], known, working) /\ [pr[p] EXCEPT !.seen = b].sync = pr[p].sync
  BY SeenFacts
<1> QED BY <1>1, <1>2

\* All connections change.
LEMMA AllPeers ==
  ASSUME NEW P, P = [p \in Peer |-> P[p]], peer' = P,
         \A p \in Peer : Tracked(P[p], chain.known', AtDelegate')
  PROVE  PeersInv'
<1>1. \A p \in Peer : P[p] \in Connection
  BY DEF Tracked
<1>2. P \in [Peer -> Connection]
  BY <1>1
<1> QED BY <1>2 DEF PeersInv

\* A request is answered or given up.
LEMMA SyncFacts ==
  ASSUME NEW r, NEW known, NEW working, Tracked(r, known, working), NEW b
  PROVE  /\ Tracked([r EXCEPT !.sync = @ \ {b}], known, working)
         /\ [r EXCEPT !.sync = @ \ {b}].sync = r.sync \ {b}
<1> DEFINE rest == r.sync \ {b}
           q == [r EXCEPT !.sync = rest]
<1>1. r \in Connection /\ (r.conn = "closed" => r.sync = {})
  BY DEF Tracked
<1>2. q \in Connection
  BY <1>1 DEF Connection
<1>3. /\ q.conn = r.conn /\ q.toGet = r.toGet /\ q.sync = rest /\ q.ids = r.ids
      /\ q.processing = r.processing /\ q.seen = r.seen
  BY <1>1 DEF Connection
<1>4. q = [r EXCEPT !.sync = @ \ {b}]
  OBVIOUS
<1>5. r.conn = "closed" => rest = {}
  BY <1>1
<1> HIDE DEF q
<1>6. Tracked(q, known, working) /\ q.sync = rest
  BY <1>1, <1>2, <1>3, <1>5, SameTracked
<1> QED BY <1>4, <1>6

\* The connection with the message read.
LEMMA ReadFacts ==
  ASSUME PeersInv, NEW p \in Peer, NEW t, Reads(p, t)
  PROVE  LET r == [peer[p] EXCEPT !.wire = Tail(@)]
         IN  /\ Tracked(r, chain.known, AtDelegate) /\ r \in Connection
             /\ r.sync = peer[p].sync /\ r.items = peer[p].items /\ r.inv = peer[p].inv
             /\ r.conn = peer[p].conn
<1> DEFINE w == Tail(peer[p].wire)
           r == [peer[p] EXCEPT !.wire = w]
<1>1. w \in Seq(Message) /\ peer[p] \in Connection /\ Tracked(peer[p], chain.known, AtDelegate)
  BY ReadsFacts
<1> HIDE DEF w
<1>2. Tracked(r, chain.known, AtDelegate) /\ r.sync = peer[p].sync
  BY <1>1, WireFacts
<1>3. r \in Connection /\ r.items = peer[p].items /\ r.inv = peer[p].inv /\ r.conn = peer[p].conn
  BY <1>1 DEF Connection
<1> QED BY <1>2, <1>3 DEF w

\* One more element at the front.
LEMMA RangeOfPut ==
  ASSUME NEW A, NEW seq \in Seq(A), NEW b \in A
  PROVE  Range(<<b>> \o seq) = {b} \cup Range(seq)
<1> DEFINE t == <<b>> \o seq
<1>1. t \in Seq(A) /\ Len(t) = Len(seq) + 1 /\ t[1] = b /\ \A i \in 1..Len(seq) : t[i + 1] = seq[i]
  OBVIOUS
<1>2. ASSUME NEW i \in 1..Len(t), i # 1 PROVE i - 1 \in 1..Len(seq) /\ t[i] = seq[i - 1]
  <2>1. i - 1 \in 1..Len(seq) /\ i = (i - 1) + 1
    BY <1>1, <1>2
  <2> QED BY <1>1, <2>1
<1>3. DOMAIN t = 1..Len(t) /\ DOMAIN seq = 1..Len(seq) /\ 1 \in 1..Len(t)
  BY <1>1
<1>4. \A i \in 1..Len(seq) : i + 1 \in 1..Len(t)
  BY <1>1
<1> HIDE DEF t
<1>5. ASSUME NEW x \in Range(t) PROVE x \in {b} \cup Range(seq)
  <2>1. PICK i \in 1..Len(t) : t[i] = x
    BY <1>3 DEF Range
  <2>2. CASE i = 1
    BY <1>1, <2>1, <2>2
  <2>3. CASE i # 1
    BY <1>2, <1>3, <2>1, <2>3 DEF Range
  <2> QED BY <2>2, <2>3
<1>6. ASSUME NEW x \in {b} \cup Range(seq) PROVE x \in Range(t)
  <2>1. CASE x = b
    BY <1>1, <1>3, <2>1 DEF Range
  <2>2. CASE x \in Range(seq)
    <3>1. PICK i \in 1..Len(seq) : seq[i] = x
      BY <1>3, <2>2 DEF Range
    <3>2. i + 1 \in 1..Len(t) /\ t[i + 1] = x
      BY <1>1, <1>4, <3>1
    <3> QED BY <1>3, <3>2 DEF Range
  <2> QED BY <2>1, <2>2
<1>7. Range(t) = {b} \cup Range(seq)
  BY <1>5, <1>6
<1> QED BY <1>7 DEF t

\* A job is added or leaves.
LEMMA NormalJob ==
  ASSUME JobsInv, NEW p \in Peer, NEW b \in Block,
         jobs' = Append(jobs, [b |-> b, from |-> p, result |-> "todo"]),
         accepted' = accepted, chain' = chain
  PROVE  JobsInv' /\ AtDelegate' = AtDelegate
<1> DEFINE j == [b |-> b, from |-> p, result |-> "todo"]
<1>1. j \in Job /\ j.from # "sync" /\ j.result # "ok"
  BY PeersAssumption DEF Job
<1> HIDE DEF j
<1>2. /\ jobs \in Seq(Job) /\ jobs' = Append(jobs, j) /\ jobs' \in Seq(Job)
      /\ Len(jobs) \in Nat /\ Len(jobs') = Len(jobs) + 1
      /\ jobs'[Len(jobs) + 1] = j /\ \A i \in 1..Len(jobs) : jobs'[i] = jobs[i]
  BY <1>1 DEF JobsInv, j
<1>3. \A i \in 1..Len(jobs') : i \in 1..Len(jobs) \/ i = Len(jobs) + 1
  BY <1>2
<1>4. JobsInv'
  BY <1>1, <1>2, <1>3 DEF JobsInv
<1>5. \A i \in 1..Len(jobs) : i \in 1..Len(jobs')
  BY <1>2
<1>6. AtDelegate' = AtDelegate
  BY <1>1, <1>2, <1>3, <1>5 DEF AtDelegate
<1> QED BY <1>4, <1>6

\* process_block_message, and process_block_during_normal_operation.
LEMMA OnBlockInv ==
  ASSUME IndInv, NEW p \in Peer, OnBlock(p)
  PROVE  IndInv'
<1> DEFINE b == Head(peer[p].wire).b
           r == [peer[p] EXCEPT !.wire = Tail(@)]
           asNormal == b \in r.items
           normal == [r EXCEPT !.items = @ \ {b}]
           asSync == ~asNormal /\ b \in r.sync
           synced == [r EXCEPT !.sync = @ \ {b}]
           more == synced.unfetched > 0 /\ Len(synced.toGet) < MinIds
           push == asNormal /\ b \notin accepted
           known == chain.known
<1>1. ChainInv /\ JobsInv /\ OwnTypes /\ PeersInv /\ RequestsInv
  BY DEF IndInv
<1>2. b \in Block
  BY <1>1, ReadsFacts, HeadTypes DEF OnBlock
<1>3. /\ Tracked(r, known, AtDelegate) /\ r \in Connection /\ r.sync = peer[p].sync
      /\ r.items \in SUBSET Block /\ r.inv \in SUBSET Block
  <2>1. Reads(p, "block")
    BY DEF OnBlock
  <2>2. /\ Tracked(r, chain.known, AtDelegate) /\ r \in Connection /\ r.sync = peer[p].sync
    BY <1>1, <2>1, ReadFacts
  <2> HIDE DEF r
  <2> QED BY <2>2 DEF Connection
<1>4. Tracked(normal, known, AtDelegate) /\ normal.sync = r.sync
  <2> HIDE DEF r
  <2>1. r.items \ {b} \in SUBSET Block
    BY <1>3
  <2>2. normal \in Connection
    BY <1>3, <2>1 DEF Connection
  <2>3. /\ normal.conn = r.conn /\ normal.toGet = r.toGet /\ normal.sync = r.sync
        /\ normal.ids = r.ids /\ normal.processing = r.processing /\ normal.seen = r.seen
    BY <1>3 DEF Connection
  <2> HIDE DEF normal
  <2>4. r.conn = "closed" => r.sync = {}
    BY <1>3 DEF Tracked
  <2> QED BY <1>3, <2>2, <2>3, <2>4, SameTracked
<1>5. Tracked(synced, known, AtDelegate) /\ synced.sync = r.sync \ {b}
  BY <1>3, SyncFacts
<1>6. /\ chain' = chain /\ accepted' = accepted /\ theirs' = theirs /\ received' = received
      /\ toFetch' = toFetch
      /\ active' = IF asSync THEN active \ {b} ELSE active
      /\ fresh' = IF asSync THEN <<b>> \o fresh ELSE fresh
      /\ jobs' = IF push THEN Append(jobs, [b |-> b, from |-> p, result |-> "todo"]) ELSE jobs
      /\ processed' = IF push THEN processed \cup {b} ELSE processed
      /\ news' = IF asNormal /\ ~push THEN news \cup {b} ELSE news
      /\ flags' = [flags EXCEPT !.backlog = @ \/ asSync,
                                !.items = @ \/ (asNormal /\ ~push /\ Idle(normal)),
                                !.sync = @ \/ (asSync /\ Idle(synced) /\ ~more)]
  BY DEF OnBlock
<1>7. \/ asNormal /\ ~push /\ peer' = SeenByAll([peer EXCEPT ![p] = normal], b)
      \/ push /\ peer' = [peer EXCEPT ![p] = normal]
      \/ asSync /\ peer' = [peer EXCEPT ![p] = FetchIds(chain, synced)]
      \/ asSync /\ peer' = [peer EXCEPT ![p] = synced]
      \/ ~asNormal /\ ~asSync /\ peer' = [peer EXCEPT ![p] = Disconnect(r)]
  BY DEF OnBlock
<1> HIDE DEF r, b, normal, synced, more
<1>8. JobsInv' /\ AtDelegate' = AtDelegate
  <2>1. CASE push
    BY <1>1, <1>2, <1>6, <2>1, NormalJob
  <2>2. CASE ~push
    BY <1>1, <1>6, <2>2 DEF JobsInv, AtDelegate
  <2> QED BY <2>1, <2>2
<1>9. ChainInv'
  BY <1>1, <1>6 DEF ChainInv
<1>10. OwnTypes'
  <2>1. active' \cup toFetch' \cup processed' \cup news' \subseteq Block
    BY <1>1, <1>2, <1>6 DEF OwnTypes
  <2>2. fresh' \in Seq(Block)
    BY <1>1, <1>2, <1>6 DEF OwnTypes
  <2>3. flags' \in Flags
    <3> DEFINE x == flags.backlog \/ asSync
               y == flags.items \/ (asNormal /\ ~push /\ Idle(normal))
               z == flags.sync \/ (asSync /\ Idle(synced) /\ ~more)
    <3>1. x \in BOOLEAN /\ y \in BOOLEAN /\ z \in BOOLEAN
      OBVIOUS
    <3>2. flags' = [flags EXCEPT !.backlog = x, !.items = y, !.sync = z]
      BY <1>6
    <3> HIDE DEF x, y, z
    <3> QED BY <1>1, <3>1, <3>2 DEF OwnTypes, Flags
  <2> QED BY <1>1, <1>6, <2>1, <2>2, <2>3 DEF OwnTypes, Flags
<1>11. CASE asNormal \/ ~asSync
  <2>1. ~asSync /\ active' = active /\ fresh' = fresh
    BY <1>6, <1>11
  <2>2. PeersInv' /\ \A q \in Peer : peer'[q].sync = peer[q].sync
    <3>1. CASE asNormal /\ ~push /\ peer' = SeenByAll([peer EXCEPT ![p] = normal], b)
      <4> DEFINE pr == [peer EXCEPT ![p] = normal]
      <4>1. \A q \in Peer : Tracked(pr[q], known, AtDelegate) /\ pr[q].sync = peer[q].sync
        BY <1>1, <1>3, <1>4 DEF PeersInv
      <4>2. b \in known
        BY <1>1, <3>1 DEF JobsInv
      <4> HIDE DEF pr
      <4>3. SeenByAll(pr, b) = [q \in Peer |-> SeenByAll(pr, b)[q]]
        BY DEF SeenByAll
      <4>6. \A q \in Peer : /\ Tracked(SeenByAll(pr, b)[q], known, AtDelegate)
                            /\ SeenByAll(pr, b)[q].sync = pr[q].sync
        BY <1>2, <4>1, <4>2, SeenByAllFacts
      <4>4. peer' = SeenByAll(pr, b)
        BY <3>1 DEF pr
      <4>5. PeersInv'
        BY <1>6, <1>8, <4>3, <4>4, <4>6, AllPeers
      <4> QED BY <4>1, <4>4, <4>5, <4>6
    <3>2. CASE push /\ peer' = [peer EXCEPT ![p] = normal]
      <4>1. PeersInv'
        BY <1>1, <1>4, <1>6, <1>8, <3>2, OnePeer
      <4> QED BY <1>1, <1>3, <1>4, <3>2, <4>1 DEF PeersInv
    <3>3. CASE ~asNormal /\ ~asSync /\ peer' = [peer EXCEPT ![p] = Disconnect(r)]
      <4>1. Tracked(Disconnect(r), known, AtDelegate) /\ Disconnect(r).sync = r.sync
        BY <1>3, TrackedIsReady, DisconnectFacts
      <4>2. PeersInv'
        BY <1>1, <1>6, <1>8, <3>3, <4>1, OnePeer
      <4> QED BY <1>1, <1>3, <3>3, <4>1, <4>2 DEF PeersInv
    <3> QED BY <1>7, <2>1, <3>1, <3>2, <3>3
  <2>3. RequestsInv'
    BY <1>1, <1>6, <2>1, <2>2, SameRequests
  <2> QED BY <1>8, <1>9, <1>10, <2>2, <2>3 DEF IndInv
<1>12. CASE asSync
  <2>1. PICK q : peer' = [peer EXCEPT ![p] = q] /\ Tracked(q, known, AtDelegate) /\ q.sync = r.sync \ {b}
    <3>1. Tracked(FetchIds(chain, synced), known, AtDelegate) /\ FetchIds(chain, synced).sync = synced.sync
      BY <1>1, <1>5, ChainIsOk, TrackedIsReady, FetchIdsFacts
    <3> QED BY <1>5, <1>7, <1>12, <3>1
  <2>2. PeersInv'
    BY <1>1, <1>6, <1>8, <2>1, OnePeer
  <2>3. peer'[p].sync = peer[p].sync \ {b} /\ \A u \in Peer \ {p} : peer'[u].sync = peer[u].sync
    BY <1>1, <1>3, <2>1 DEF PeersInv
  <2>4. /\ b \in peer[p].sync /\ active' = active \ {b} /\ received' = received
        /\ fresh' = <<b>> \o fresh /\ theirs' = theirs
    BY <1>3, <1>6, <1>12
  <2>5. Range(fresh') = {b} \cup Range(fresh)
    <3>1. fresh \in Seq(Block)
      BY <1>1 DEF OwnTypes
    <3> QED BY <1>2, <2>4, <3>1, RangeOfPut
  <2>6. RequestedOnce'
    BY <1>1, <2>3, <2>4, <2>5 DEF RequestsInv, RequestedOnce, HaveReceived
  <2>7. RequestsOwned'
    <3>1. ASSUME NEW x PROVE x \in Orphans' <=> x \in Orphans
      BY <2>3, <2>4 DEF Orphans
    <3> QED BY <1>1, <2>4, <3>1 DEF RequestsInv, RequestsOwned
  <2>8. \A u \in Peer : peer'[u].sync \subseteq active'
    BY <1>1, <2>3, <2>4 DEF RequestsInv, RequestedOnce
  <2> QED BY <1>8, <1>9, <1>10, <2>2, <2>6, <2>7, <2>8 DEF IndInv, RequestsInv
<1> QED BY <1>11, <1>12

\* on_item_not_available_message.
LEMMA OnItemNotAvailableInv ==
  ASSUME IndInv, NEW p \in Peer, OnItemNotAvailable(p)
  PROVE  IndInv'
<1> DEFINE b == Head(peer[p].wire).b
           r == [peer[p] EXCEPT !.wire = Tail(@)]
           asNormal == b \in r.items
           asSync == ~asNormal /\ b \in r.sync
           missing == [r EXCEPT !.items = @ \ {b}, !.inv = @ \ {b}]
           synced == [r EXCEPT !.sync = @ \ {b}]
           inhibited == [synced EXCEPT !.inhibit = TRUE]
           known == chain.known
<1>1. ChainInv /\ JobsInv /\ OwnTypes /\ PeersInv /\ RequestsInv
  BY DEF IndInv
<1>2. b \in Block
  BY <1>1, ReadsFacts, HeadTypes DEF OnItemNotAvailable
<1>3. /\ Tracked(r, known, AtDelegate) /\ r \in Connection /\ r.sync = peer[p].sync
      /\ r.items \in SUBSET Block /\ r.inv \in SUBSET Block
      /\ r.conn = "closed" => r.sync = {}
  <2>1. Reads(p, "block")
    BY DEF OnItemNotAvailable
  <2>2. /\ Tracked(r, chain.known, AtDelegate) /\ r \in Connection /\ r.sync = peer[p].sync
    BY <1>1, <2>1, ReadFacts
  <2> HIDE DEF r
  <2> QED BY <2>2 DEF Connection, Tracked
<1>4. Tracked(missing, known, AtDelegate) /\ missing.sync = r.sync
  <2>1. r.items \ {b} \in SUBSET Block /\ r.inv \ {b} \in SUBSET Block
    BY <1>3
  <2> HIDE DEF r
  <2>2. missing \in Connection
    BY <1>3, <2>1 DEF Connection
  <2>3. /\ missing.conn = r.conn /\ missing.toGet = r.toGet /\ missing.sync = r.sync
        /\ missing.ids = r.ids /\ missing.processing = r.processing /\ missing.seen = r.seen
    BY <1>3 DEF Connection
  <2> HIDE DEF missing
  <2> QED BY <1>3, <2>2, <2>3, SameTracked
<1>5. Tracked(synced, known, AtDelegate) /\ synced.sync = r.sync \ {b}
  BY <1>3, SyncFacts
<1>6. Tracked(inhibited, known, AtDelegate) /\ inhibited.sync = synced.sync
  <2>1. synced \in Connection /\ (synced.conn = "closed" => synced.sync = {})
    BY <1>5 DEF Tracked
  <2> HIDE DEF synced
  <2>2. inhibited \in Connection
    BY <2>1 DEF Connection
  <2>3. /\ inhibited.conn = synced.conn /\ inhibited.toGet = synced.toGet
        /\ inhibited.sync = synced.sync /\ inhibited.ids = synced.ids
        /\ inhibited.processing = synced.processing /\ inhibited.seen = synced.seen
    BY <2>1 DEF Connection
  <2> HIDE DEF inhibited
  <2> QED BY <1>5, <2>1, <2>2, <2>3, SameTracked
<1>7. /\ UNCHANGED <<chain, accepted, active, received, fresh, jobs, processed, news>>
      /\ toFetch' = toFetch \/ toFetch' = toFetch \cup {b}
      /\ flags' = [flags EXCEPT !.items = @ \/ asNormal, !.sync = @ \/ asSync]
      /\ theirs' = [theirs EXCEPT ![p].lost = IF asSync THEN @ \cup {b} ELSE @]
  BY DEF OnItemNotAvailable
<1>8. \/ asNormal /\ peer' = [peer EXCEPT ![p] = missing]
      \/ asSync /\ peer' = [peer EXCEPT ![p] = inhibited]
      \/ asSync /\ peer' = [peer EXCEPT ![p] = Disconnect(synced)]
      \/ ~asNormal /\ ~asSync /\ peer' = [peer EXCEPT ![p] = r]
  BY DEF OnItemNotAvailable
<1> HIDE DEF r, b, missing, synced, inhibited
<1>9. AtDelegate' = AtDelegate /\ ChainInv' /\ JobsInv'
  BY <1>1, <1>7 DEF AtDelegate, ChainInv, JobsInv
<1>10. PICK q : /\ peer' = [peer EXCEPT ![p] = q] /\ Tracked(q, known, AtDelegate)
                /\ q.sync = IF asSync THEN peer[p].sync \ {b} ELSE peer[p].sync
  <2>1. Tracked(Disconnect(synced), known, AtDelegate) /\ Disconnect(synced).sync = synced.sync
    BY <1>5, TrackedIsReady, DisconnectFacts
  <2> QED BY <1>3, <1>4, <1>5, <1>6, <1>8, <2>1
<1>11. PeersInv'
  BY <1>1, <1>7, <1>9, <1>10, OnePeer
<1>12. theirs[p].lost \in SUBSET Block /\ theirs' \in [Peer -> [head : Blocks, insync : BOOLEAN, connects : Nat, lost : SUBSET Block]]
  <2> DEFINE x == IF asSync THEN theirs[p].lost \cup {b} ELSE theirs[p].lost
  <2>1. theirs[p].lost \in SUBSET Block /\ x \in SUBSET Block
    BY <1>1, <1>2 DEF OwnTypes
  <2>2. theirs' = [theirs EXCEPT ![p].lost = x]
    BY <1>7
  <2> HIDE DEF x
  <2> QED BY <1>1, <2>1, <2>2 DEF OwnTypes
<1>13. OwnTypes'
  <2>1. flags' \in Flags
    <3> DEFINE x == flags.items \/ asNormal
               y == flags.sync \/ asSync
    <3>1. x \in BOOLEAN /\ y \in BOOLEAN /\ flags' = [flags EXCEPT !.items = x, !.sync = y]
      BY <1>7
    <3> HIDE DEF x, y
    <3> QED BY <1>1, <3>1 DEF OwnTypes, Flags
  <2>2. active' \cup toFetch' \cup processed' \cup news' \subseteq Block
    BY <1>1, <1>2, <1>7 DEF OwnTypes
  <2> QED BY <1>1, <1>7, <1>12, <2>1, <2>2 DEF OwnTypes, Flags
<1>14. /\ \A u \in Peer \ {p} : theirs'[u].lost = theirs[u].lost
       /\ theirs'[p].lost = IF asSync THEN theirs[p].lost \cup {b} ELSE theirs[p].lost
  BY <1>1, <1>7 DEF OwnTypes
<1>15. /\ \A u \in Peer \ {p} : peer'[u].sync = peer[u].sync
       /\ peer'[p].sync = IF asSync THEN peer[p].sync \ {b} ELSE peer[p].sync
  BY <1>1, <1>10 DEF PeersInv
<1>16. RequestsInv'
  <2>1. RequestedOnce'
    BY <1>1, <1>7, <1>15 DEF RequestsInv, RequestedOnce, HaveReceived
  <2>2. RequestsOwned'
    <3>1. asSync => b \in active /\ b \in peer[p].sync /\ \A u \in Peer \ {p} : b \notin peer[u].sync
      BY <1>1, <1>3 DEF RequestsInv, RequestedOnce, asSync
    <3>2. ASSUME NEW x PROVE x \in Orphans' <=> x \in Orphans \/ (asSync /\ x = b)
      BY <1>7, <1>15, <3>1 DEF Orphans
    <3>3. ASSUME NEW x PROVE x \in UNION {theirs'[u].lost : u \in Peer}
                               <=> x \in UNION {theirs[u].lost : u \in Peer} \/ (asSync /\ x = b)
      BY <1>14
    <3> QED BY <1>1, <3>2, <3>3 DEF RequestsInv, RequestsOwned
  <2>3. \A u \in Peer : peer'[u].sync \subseteq active'
    BY <1>1, <1>7, <1>15 DEF RequestsInv
  <2> QED BY <2>1, <2>2, <2>3 DEF RequestsInv
<1> QED BY <1>9, <1>11, <1>13, <1>16 DEF IndInv

\* The elements of two sequences one after the other.
LEMMA RangeOfJoin ==
  ASSUME NEW A, NEW u \in Seq(A), NEW t \in Seq(A)
  PROVE  u \o t \in Seq(A) /\ Range(u \o t) = Range(u) \cup Range(t)
<1> DEFINE v == u \o t
<1>1. /\ Len(u) \in Nat /\ Len(t) \in Nat /\ DOMAIN u = 1..Len(u) /\ DOMAIN t = 1..Len(t)
      /\ v \in Seq(A) /\ Len(v) = Len(u) + Len(t) /\ DOMAIN v = 1..Len(v)
  OBVIOUS
<1>2. \A i \in 1..Len(u) : v[i] = u[i] /\ i \in 1..Len(v)
  OBVIOUS
<1>3. \A i \in 1..Len(t) : v[Len(u) + i] = t[i] /\ Len(u) + i \in 1..Len(v)
  OBVIOUS
<1> HIDE DEF v
<1>4. ASSUME NEW x \in Range(v) PROVE x \in Range(u) \cup Range(t)
  <2>1. PICK i \in 1..Len(v) : v[i] = x
    BY <1>1 DEF Range
  <2>2. CASE i <= Len(u)
    <3>1. i \in 1..Len(u) /\ x = u[i]
      BY <1>1, <1>2, <2>1, <2>2
    <3> QED BY <1>1, <3>1 DEF Range
  <2>3. CASE ~(i <= Len(u))
    <3>1. i - Len(u) \in 1..Len(t) /\ i = Len(u) + (i - Len(u))
      BY <1>1, <2>3
    <3>2. x = t[i - Len(u)]
      BY <1>3, <2>1, <3>1
    <3> QED BY <1>1, <3>1, <3>2 DEF Range
  <2> QED BY <2>2, <2>3
<1>5. Range(u) \subseteq Range(v) /\ Range(t) \subseteq Range(v)
  BY <1>1, <1>2, <1>3 DEF Range
<1>6. v \in Seq(A) /\ Range(v) = Range(u) \cup Range(t)
  BY <1>1, <1>4, <1>5
<1> QED BY <1>6 DEF v

\* The elements of a sequence in the reverse order.
LEMMA RangeOfReverse ==
  ASSUME NEW A, NEW s \in Seq(A)
  PROVE  Reverse(s) \in Seq(A) /\ Range(Reverse(s)) = Range(s)
<1> DEFINE u == Reverse(s)
<1>1. Len(s) \in Nat /\ DOMAIN s = 1..Len(s)
  OBVIOUS
<1>2. /\ u \in Seq(A) /\ Len(u) = Len(s) /\ DOMAIN u = 1..Len(s)
      /\ \A i \in 1..Len(s) : u[i] = s[Len(s) - i + 1] /\ Len(s) - i + 1 \in 1..Len(s)
  <2>1. u = [i \in 1..Len(s) |-> s[Len(s) - i + 1]]
    BY DEF Reverse
  <2>2. \A i \in 1..Len(s) : Len(s) - i + 1 \in 1..Len(s)
    BY <1>1
  <2>3. \A i \in 1..Len(s) : s[Len(s) - i + 1] \in A
    BY <2>2
  <2> HIDE DEF u
  <2> QED BY <1>1, <2>1, <2>2, <2>3
<1> HIDE DEF u
<1>3. Range(u) \subseteq Range(s)
  BY <1>1, <1>2 DEF Range
<1>4. ASSUME NEW x \in Range(s) PROVE x \in Range(u)
  <2>1. PICK i \in 1..Len(s) : s[i] = x
    BY <1>1 DEF Range
  <2> DEFINE j == Len(s) - i + 1
  <2>2. j \in 1..Len(s) /\ Len(s) - j + 1 = i
    BY <1>1
  <2>3. u[j] = x
    <3> HIDE DEF j
    <3> QED BY <1>2, <2>1, <2>2
  <2> QED BY <1>2, <2>2, <2>3 DEF Range
<1>5. u \in Seq(A) /\ Range(u) = Range(s)
  BY <1>2, <1>3, <1>4
<1> QED BY <1>5 DEF u

\* The start of process_backlog_of_sync_blocks.
LEMMA ProcessBacklogInv ==
  ASSUME IndInv, ProcessBacklog
  PROVE  IndInv'
<1>1. ChainInv /\ JobsInv /\ OwnTypes /\ PeersInv /\ RequestsInv
  BY DEF IndInv
<1>2. UNCHANGED <<chain, accepted, peer, theirs, active, jobs, toFetch, processed, news>>
  BY DEF ProcessBacklog
<1>3. received \in Seq(Block) /\ fresh \in Seq(Block)
  BY <1>1 DEF OwnTypes
<1>4. /\ received' \in Seq(Block) /\ fresh' \in Seq(Block)
      /\ Range(received') \cup Range(fresh') = Range(received) \cup Range(fresh)
  <2>1. CASE UNCHANGED <<received, fresh>>
    BY <1>3, <2>1
  <2>2. CASE received' = Reverse(fresh) \o received /\ fresh' = << >>
    <3>1. received' \in Seq(Block) /\ Range(received') = Range(fresh) \cup Range(received)
      BY <1>3, <2>2, RangeOfJoin, RangeOfReverse
    <3>2. fresh' \in Seq(Block) /\ Range(fresh') = {}
      BY <2>2 DEF Range
    <3> QED BY <3>1, <3>2
  <2> QED BY <2>1, <2>2 DEF ProcessBacklog
<1>5. AtDelegate' = AtDelegate
  BY <1>2 DEF AtDelegate
<1>6. ChainInv' /\ JobsInv' /\ PeersInv'
  BY <1>1, <1>2, <1>5 DEF ChainInv, JobsInv, PeersInv
<1>7. OwnTypes'
  <2>1. flags' = [flags EXCEPT !.backlog = FALSE] \/ flags' = [flags EXCEPT !.suspend = FALSE, !.loop = TRUE]
    BY DEF ProcessBacklog
  <2>2. flags' \in Flags
    BY <1>1, <2>1 DEF OwnTypes, Flags
  <2> QED BY <1>1, <1>2, <1>4, <2>2 DEF OwnTypes, Flags
<1>8. RequestsInv'
  BY <1>1, <1>2, <1>4, SameRequests
<1> QED BY <1>6, <1>7, <1>8 DEF IndInv

\* A connection is given up.
LEMMA TerminatingFacts ==
  ASSUME NEW r, NEW known, NEW working, Tracked(r, known, working)
  PROVE  /\ Tracked([r EXCEPT !.conn = "terminating"], known, working)
         /\ [r EXCEPT !.conn = "terminating"].sync = r.sync
<1> DEFINE q == [r EXCEPT !.conn = "terminating"]
<1>1. r \in Connection
  BY DEF Tracked
<1>2. q \in Connection
  BY <1>1 DEF Connection
<1>3. q.conn = "terminating" /\ q.toGet = r.toGet /\ q.sync = r.sync /\ q.ids = r.ids
  BY <1>1 DEF Connection
<1> HIDE DEF q
<1>4. Tracked(q, known, working) /\ q.sync = r.sync
  BY <1>2, <1>3 DEF Tracked
<1> QED BY <1>4 DEF q

\* A step that changes one connection, but not its requests, and other things
\* that the requests do not depend on.
LEMMA OnePeerStep ==
  ASSUME IndInv, NEW p \in Peer, NEW q, Tracked(q, chain.known, AtDelegate), q.sync = peer[p].sync,
         peer' = [peer EXCEPT ![p] = q],
         UNCHANGED <<chain, accepted, active, received, fresh, jobs>>,
         toFetch' \cup processed' \cup news' \subseteq Block, flags' \in Flags,
         theirs' \in [Peer -> [head : Blocks, insync : BOOLEAN, connects : Nat, lost : SUBSET Block]],
         \A u \in Peer : theirs'[u].lost = theirs[u].lost
  PROVE  IndInv'
<1>1. ChainInv /\ JobsInv /\ OwnTypes /\ PeersInv /\ RequestsInv
  BY DEF IndInv
<1>2. AtDelegate' = AtDelegate
  BY DEF AtDelegate
<1>3. ChainInv' /\ JobsInv'
  BY <1>1 DEF ChainInv, JobsInv
<1>4. PeersInv'
  BY <1>1, <1>2, OnePeer
<1>5. OwnTypes'
  BY <1>1 DEF OwnTypes, Flags
<1>6. \A u \in Peer : peer'[u].sync = peer[u].sync
  BY <1>1 DEF PeersInv
<1>7. RequestsInv'
  BY <1>1, <1>6, SameRequests
<1> QED BY <1>3, <1>4, <1>5, <1>7 DEF IndInv

\* What the invariant says of the types of a state.
LEMMA TypesFromInv ==
  ASSUME IndInv
  PROVE  /\ toFetch \cup processed \cup news \subseteq Block /\ flags \in Flags
         /\ theirs \in [Peer -> [head : Blocks, insync : BOOLEAN, connects : Nat, lost : SUBSET Block]]
         /\ \A p \in Peer : Tracked(peer[p], chain.known, AtDelegate) /\ peer[p] \in Connection
         /\ ChainOk(chain) /\ PeersInv
BY ChainIsOk DEF IndInv, OwnTypes, Flags, PeersInv

\* terminate_inactive_connections_loop.
LEMMA TimeoutsInv ==
  ASSUME IndInv, NEW p \in Peer, RequestTimeout(p) \/ ClosingTimeout(p)
  PROVE  IndInv'
<1> DEFINE q == [peer[p] EXCEPT !.conn = "terminating"]
<1>1. peer' = [peer EXCEPT ![p] = q]
  BY DEF RequestTimeout, ClosingTimeout
<1>2. UNCHANGED <<chain, accepted, theirs, active, received, fresh, jobs, toFetch, processed, news, flags>>
  BY DEF RequestTimeout, ClosingTimeout
<1>3. Tracked(q, chain.known, AtDelegate) /\ q.sync = peer[p].sync
  BY TypesFromInv, TerminatingFacts
<1> HIDE DEF q
<1> QED BY <1>1, <1>2, <1>3, TypesFromInv, OnePeerStep

\* on_item_ids_inventory_message.
LEMMA OnInventoryInv ==
  ASSUME IndInv, NEW p \in Peer, OnInventory(p)
  PROVE  IndInv'
<1> DEFINE b == Head(peer[p].wire).b
           have == b \in processed \cup news
           requested == \E q \in Active(peer) : b \in peer[q].items
           new == ~have /\ ~requested /\ b \notin toFetch
           w == Tail(peer[p].wire)
           iv == IF have THEN peer[p].inv ELSE peer[p].inv \cup {b}
           q == [peer[p] EXCEPT !.wire = w, !.inv = iv]
<1>1. /\ b \in Block /\ w \in Seq(Message) /\ peer[p] \in Connection
      /\ Tracked(peer[p], chain.known, AtDelegate)
  BY TypesFromInv, ReadsFacts, HeadTypes DEF OnInventory
<1>2. iv \in SUBSET Block
  BY <1>1 DEF Connection
<1>3. peer' = [peer EXCEPT ![p] = q]
  <2>1. peer' = [peer EXCEPT ![p].wire = w, ![p].inv = IF have THEN @ ELSE @ \cup {b}]
    BY DEF OnInventory
  <2> HIDE DEF have, b, w
  <2> QED BY <1>1, <2>1, TypesFromInv DEF PeersInv, Connection
<1>4. /\ UNCHANGED <<chain, accepted, theirs, active, received, fresh, jobs, processed, news>>
      /\ toFetch' = IF new THEN toFetch \cup {b} ELSE toFetch
      /\ flags' = [flags EXCEPT !.items = @ \/ new]
  BY DEF OnInventory
<1> HIDE DEF b, w, iv
<1>5. q \in Connection
  BY <1>1, <1>2 DEF Connection
<1>6. /\ q.conn = peer[p].conn /\ q.toGet = peer[p].toGet /\ q.sync = peer[p].sync
      /\ q.ids = peer[p].ids /\ q.processing = peer[p].processing /\ q.seen = peer[p].seen
  BY <1>1 DEF Connection
<1> HIDE DEF q
<1>7. Tracked(q, chain.known, AtDelegate)
  BY <1>1, <1>5, <1>6, SameTracked DEF Tracked
<1>8. flags' \in Flags
  <2>1. (flags.items \/ new) \in BOOLEAN
    OBVIOUS
  <2> HIDE DEF new
  <2> DEFINE x == flags.items \/ new
  <2>2. flags' = [flags EXCEPT !.items = x] /\ x \in BOOLEAN
    BY <1>4
  <2> HIDE DEF x
  <2> QED BY <2>2, TypesFromInv DEF Flags
<1>9. toFetch' \cup processed' \cup news' \subseteq Block
  BY <1>1, <1>4, TypesFromInv
<1>10. \A u \in Peer : theirs'[u].lost = theirs[u].lost
  BY <1>4
<1> QED BY <1>3, <1>4, <1>6, <1>7, <1>8, <1>9, <1>10, TypesFromInv, OnePeerStep

\* The chain of a peer changes.
LEMMA PeerAdvancesInv ==
  ASSUME IndInv, NEW p \in Peer, NEW b \in Block, PeerAdvances(p, b)
  PROVE  IndInv'
<1> DEFINE s == BlockchainSynopsis([head |-> b], Nil, 0)
<1>1. s \in Seq(Block)
  <2> DEFINE c == [head |-> b]
  <2>1. c.head = b /\ b \in Blocks /\ Nil \in Blocks /\ 0 \in Nat
    BY DEF Blocks
  <2>2. \A n \in 1..Num(b) : At(b, n) \in Block
    BY BlockFacts
  <2> HIDE DEF c
  <2>3. BlockchainSynopsis(c, Nil, 0) \in Seq(Block)
    BY <2>1, <2>2, BlockchainSynopsisType
  <2> QED BY <2>3 DEF c
<1> HIDE DEF s
<1>2. /\ UNCHANGED <<chain, accepted, active, received, fresh, jobs, toFetch, processed, news, flags>>
      /\ theirs' = [theirs EXCEPT ![p].head = b]
  BY DEF PeerAdvances
<1>3. \/ peer' = [peer EXCEPT ![p] = Send(@, Msg("inv", b, << >>))]
      \/ peer' = [peer EXCEPT ![p] = Send(@, Msg("ask", Nil, s))]
      \/ peer' = peer
  BY DEF PeerAdvances, s
<1>4. PICK q : /\ peer' = [peer EXCEPT ![p] = q] /\ Tracked(q, chain.known, AtDelegate)
               /\ q.sync = peer[p].sync
  <2>1. Tracked(peer[p], chain.known, AtDelegate) /\ peer[p] \in Connection /\ PeersInv
    BY TypesFromInv
  <2>2. CASE peer' = peer
    BY <2>1, <2>2 DEF PeersInv
  <2>3. ASSUME NEW m \in Message, peer' = [peer EXCEPT ![p] = Send(@, m)]
        PROVE  /\ peer' = [peer EXCEPT ![p] = Send(peer[p], m)]
               /\ Tracked(Send(peer[p], m), chain.known, AtDelegate)
               /\ Send(peer[p], m).sync = peer[p].sync
    BY <2>1, <2>3, SendFacts
  <2>4. Msg("inv", b, << >>) \in Message /\ Msg("ask", Nil, s) \in Message
    BY <1>1, MessageTypes
  <2> QED BY <1>3, <2>2, <2>3, <2>4
<1>5. /\ theirs' \in [Peer -> [head : Blocks, insync : BOOLEAN, connects : Nat, lost : SUBSET Block]]
      /\ \A u \in Peer : theirs'[u].lost = theirs[u].lost
  <2>1. b \in Blocks
    BY DEF Blocks
  <2> QED BY <1>2, <2>1, TypesFromInv
<1> QED BY <1>2, <1>4, <1>5, TypesFromInv, OnePeerStep

\* on_fetch_blockchain_item_ids_message.
LEMMA OnFetchItemIdsInv ==
  ASSUME IndInv, NEW p \in Peer, OnFetchItemIds(p)
  PROVE  IndInv'
<1> DEFINE s == Head(peer[p].wire).synopsis
           r == [peer[p] EXCEPT !.wire = Tail(@)]
           ids == BlockIds(chain.head, s)
           even == ids # << >> /\ InSync(s, ids)
           told == [r EXCEPT !.theyNeed = ~InSync(s, ids)]
           missing == ~r.weNeed /\ s # << >> /\ Last(s) \notin chain.known
           started == IF missing THEN StartSynchronizing(chain, told) ELSE told
           known == chain.known
<1>1. peer' = [peer EXCEPT ![p] = IF even /\ r.inhibit THEN Disconnect(started) ELSE started]
  BY DEF OnFetchItemIds
<1>2. /\ UNCHANGED <<chain, accepted, theirs, active, received, fresh, jobs, toFetch,
                     processed, news, flags>>
      /\ Reads(p, "ask")
  BY DEF OnFetchItemIds
<1>3. Tracked(r, known, AtDelegate) /\ r \in Connection /\ r.sync = peer[p].sync
  BY <1>2, TypesFromInv, ReadFacts
<1> HIDE DEF r, ids, s
<1>4. /\ Tracked(told, known, AtDelegate) /\ told \in Connection /\ told.sync = r.sync
      /\ told.conn = "closed" => told.sync = {}
      /\ told.conn = "active" => told.processing \subseteq known \cup AtDelegate
  <2> DEFINE x == ~InSync(s, ids)
             q == [r EXCEPT !.theyNeed = x]
  <2>1. x \in BOOLEAN
    OBVIOUS
  <2> HIDE DEF x
  <2>2. q \in Connection
    BY <1>3, <2>1 DEF Connection
  <2>3. /\ q.conn = r.conn /\ q.toGet = r.toGet /\ q.sync = r.sync /\ q.ids = r.ids
        /\ q.processing = r.processing /\ q.seen = r.seen
    BY <1>3 DEF Connection
  <2>4. told = q
    BY DEF x
  <2> HIDE DEF q, told
  <2> QED BY <1>3, <2>2, <2>3, <2>4, SameTracked DEF Tracked
<1> HIDE DEF told
<1>5. Tracked(started, known, AtDelegate) /\ started.sync = told.sync
  <2>1. /\ Tracked(StartSynchronizing(chain, told), known, AtDelegate)
        /\ StartSynchronizing(chain, told).sync = told.sync
    BY <1>4, TypesFromInv, StartSynchronizingFacts
  <2> QED BY <1>4, <2>1
<1> HIDE DEF started
<1>6. Tracked(Disconnect(started), known, AtDelegate) /\ Disconnect(started).sync = started.sync
  BY <1>5, TrackedIsReady, DisconnectFacts
<1> DEFINE q == IF even /\ r.inhibit THEN Disconnect(started) ELSE started
<1>7. peer' = [peer EXCEPT ![p] = q] /\ Tracked(q, known, AtDelegate) /\ q.sync = peer[p].sync
  BY <1>1, <1>3, <1>4, <1>5, <1>6
<1> HIDE DEF q
<1> QED BY <1>2, <1>7, TypesFromInv, OnePeerStep

\* A new connection.
LEMMA ConnectedFacts ==
  ASSUME NEW c, ChainOk(c), NEW p, NEW working
  PROVE  Tracked(Connected(p, c), c.known, working) /\ Connected(p, c).sync = {}
<1> DEFINE r == [Closed EXCEPT !.conn = "active"]
<1>1. r \in Connection
  <2>1. << >> \in Seq(Block) /\ << >> \in Seq(Message) /\ {} \in SUBSET Block /\ Nil \in Blocks /\ 0 \in Nat
    BY DEF Blocks
  <2>2. NoRequest \in [open : BOOLEAN, synopsis : Seq(Block)]
    BY DEF NoRequest
  <2>3. Closed \in Connection
    BY <2>1, <2>2 DEF Closed, Connection
  <2> QED BY <2>3 DEF Connection
<1>2. r.sync = {} /\ r.processing = {}
  BY DEF Closed
<1> HIDE DEF r
<1>3. /\ Tracked(StartSynchronizing(c, r), c.known, working)
      /\ StartSynchronizing(c, r).sync = r.sync
  BY <1>1, <1>2, StartSynchronizingFacts
<1> QED BY <1>2, <1>3 DEF Connected, r

\* A connection that is not there.
LEMMA ClosedFacts ==
  ASSUME NEW known, NEW working
  PROVE  Tracked(Closed, known, working) /\ Closed.sync = {}
<1>1. << >> \in Seq(Block) /\ << >> \in Seq(Message) /\ {} \in SUBSET Block /\ Nil \in Blocks /\ 0 \in Nat
  BY DEF Blocks
<1>2. NoRequest \in [open : BOOLEAN, synopsis : Seq(Block)] /\ ~NoRequest.open
  BY DEF NoRequest
<1>3. Closed \in Connection
  BY <1>1, <1>2 DEF Closed, Connection
<1>4. Closed.conn = "closed" /\ Closed.toGet = << >> /\ Closed.sync = {} /\ Closed.ids = NoRequest
  BY DEF Closed
<1>5. IsBranch(<< >>)
  BY DEF IsBranch
<1> QED BY <1>2, <1>3, <1>4, <1>5 DEF Tracked

\* move_peer_to_active_list and new_peer_just_added.
LEMMA ConnectInv ==
  ASSUME IndInv, NEW p \in Peer, Connect(p)
  PROVE  IndInv'
<1> DEFINE s == BlockchainSynopsis(theirs[p], Nil, 0)
           m == Msg("ask", Nil, s)
           c == Connected(p, chain)
           q == Send(c, m)
<1>1. s \in Seq(Block)
  <2>1. theirs[p].head \in Blocks /\ Nil \in Blocks /\ 0 \in Nat
    BY TypesFromInv DEF Blocks
  <2>2. \A n \in 1..Num(theirs[p].head) : At(theirs[p].head, n) \in Block
    BY <2>1, BlocksFacts
  <2> QED BY <2>1, <2>2, BlockchainSynopsisType
<1> HIDE DEF s
<1>2. m \in Message
  BY <1>1, MessageTypes
<1> HIDE DEF m
<1>3. Tracked(c, chain.known, AtDelegate) /\ c.sync = {}
  BY TypesFromInv, ConnectedFacts
<1> HIDE DEF c
<1>4. Tracked(q, chain.known, AtDelegate) /\ q.sync = {}
  <2>1. c \in Connection
    BY <1>3 DEF Tracked
  <2> QED BY <1>2, <1>3, <2>1, SendFacts
<1>5. /\ UNCHANGED <<chain, accepted, active, received, fresh, jobs, toFetch, processed, news, flags>>
      /\ theirs' = [theirs EXCEPT ![p].insync = FALSE,
                                  ![p].connects = IF p \in Reliable THEN @ ELSE @ + 1]
      /\ peer' = [peer EXCEPT ![p] = q] /\ peer[p].conn = "closed"
  BY DEF Connect, q, c, m, s
<1> HIDE DEF q
<1>6. peer[p].sync = {}
  BY <1>5, TypesFromInv DEF Tracked
<1>7. /\ theirs' \in [Peer -> [head : Blocks, insync : BOOLEAN, connects : Nat, lost : SUBSET Block]]
      /\ \A u \in Peer : theirs'[u].lost = theirs[u].lost
  <2> DEFINE n == IF p \in Reliable THEN theirs[p].connects ELSE theirs[p].connects + 1
             x == [theirs[p] EXCEPT !.insync = FALSE, !.connects = n]
  <2>1. theirs[p] \in [head : Blocks, insync : BOOLEAN, connects : Nat, lost : SUBSET Block]
    BY TypesFromInv
  <2>2. n \in Nat
    BY <2>1
  <2>3. theirs' = [theirs EXCEPT ![p] = x]
    BY <1>5, TypesFromInv
  <2> HIDE DEF n
  <2>4. x \in [head : Blocks, insync : BOOLEAN, connects : Nat, lost : SUBSET Block] /\ x.lost = theirs[p].lost
    BY <2>1, <2>2
  <2> HIDE DEF x
  <2> QED BY <2>3, <2>4, TypesFromInv
<1> QED BY <1>4, <1>5, <1>6, <1>7, TypesFromInv, OnePeerStep

\* on_connection_closed.
LEMMA OnConnectionClosedInv ==
  ASSUME IndInv, NEW p \in Peer, OnConnectionClosed(p)
  PROVE  IndInv'
<1>1. ChainInv /\ JobsInv /\ OwnTypes /\ PeersInv /\ RequestsInv
  BY DEF IndInv
<1>2. /\ UNCHANGED <<chain, accepted, theirs, received, fresh, jobs, processed, news>>
      /\ peer' = [peer EXCEPT ![p] = Closed]
      /\ active' = active \ peer[p].sync
      /\ toFetch' \subseteq toFetch \cup peer[p].items
      /\ flags' = [flags EXCEPT !.sync = @ \/ peer[p].sync # {}, !.items = @ \/ peer[p].items # {}]
  BY DEF OnConnectionClosed
<1>3. AtDelegate' = AtDelegate /\ ChainInv' /\ JobsInv'
  BY <1>1, <1>2 DEF AtDelegate, ChainInv, JobsInv
<1>4. PeersInv'
  BY <1>1, <1>2, <1>3, ClosedFacts, OnePeer
<1>5. OwnTypes'
  <2>1. peer[p].items \in SUBSET Block
    BY TypesFromInv DEF Connection
  <2>2. flags' \in Flags
    <3> DEFINE x == flags.sync \/ peer[p].sync # {}
               y == flags.items \/ peer[p].items # {}
    <3>1. x \in BOOLEAN /\ y \in BOOLEAN /\ flags' = [flags EXCEPT !.sync = x, !.items = y]
      BY <1>2
    <3> HIDE DEF x, y
    <3> QED BY <3>1, TypesFromInv DEF Flags
  <2> QED BY <1>1, <1>2, <2>1, <2>2 DEF OwnTypes, Flags
<1>6. peer'[p].sync = {} /\ \A u \in Peer \ {p} : peer'[u].sync = peer[u].sync
  BY <1>1, <1>2, ClosedFacts DEF PeersInv
<1>7. RequestsInv'
  <2>1. RequestedOnce'
    BY <1>1, <1>2, <1>6 DEF RequestsInv, RequestedOnce, HaveReceived
  <2>2. RequestsOwned'
    <3>1. ASSUME NEW x PROVE x \in Orphans' <=> x \in Orphans
      BY <1>2, <1>6 DEF Orphans
    <3> QED BY <1>1, <1>2, <3>1 DEF RequestsInv, RequestsOwned
  <2>3. \A u \in Peer : peer'[u].sync \subseteq active'
    BY <1>1, <1>2, <1>6 DEF RequestsInv, RequestedOnce
  <2> QED BY <2>1, <2>2, <2>3 DEF RequestsInv
<1> QED BY <1>3, <1>4, <1>5, <1>7 DEF IndInv

\* A step that changes several connections, but not their requests.
LEMMA AllPeersStep ==
  ASSUME IndInv, peer' = [q \in Peer |-> peer'[q]],
         \A q \in Peer : Tracked(peer'[q], chain.known', AtDelegate') /\ peer'[q].sync = peer[q].sync,
         UNCHANGED <<active, theirs>>,
         Range(received') \cup Range(fresh') \subseteq Range(received) \cup Range(fresh),
         ChainInv', JobsInv', OwnTypes'
  PROVE  IndInv'
<1>1. RequestsInv
  BY DEF IndInv
<1>2. RequestsInv'
  BY <1>1, SameRequests
<1>3. \A q \in Peer : peer'[q] \in Connection
  BY DEF Tracked
<1>4. PeersInv'
  <2>1. peer' \in [Peer -> Connection]
    BY <1>3
  <2> QED BY <2>1 DEF PeersInv
<1> QED BY <1>2, <1>4 DEF IndInv

\* An item is asked for.
LEMMA ItemAskedFacts ==
  ASSUME NEW r, NEW known, NEW working, Tracked(r, known, working), NEW b \in Block
  PROVE  LET q == Send([r EXCEPT !.items = @ \cup {b}], Msg("block", b, << >>))
         IN  Tracked(q, known, working) /\ q.sync = r.sync
<1> DEFINE it == r.items \cup {b}
           u == [r EXCEPT !.items = it]
           m == Msg("block", b, << >>)
<1>1. r \in Connection /\ (r.conn = "closed" => r.sync = {})
  BY DEF Tracked
<1>2. it \in SUBSET Block
  BY <1>1 DEF Connection
<1> HIDE DEF it
<1>3. u \in Connection
  BY <1>1, <1>2 DEF Connection
<1>4. /\ u.conn = r.conn /\ u.toGet = r.toGet /\ u.sync = r.sync /\ u.ids = r.ids
      /\ u.processing = r.processing /\ u.seen = r.seen
  BY <1>1 DEF Connection
<1>5. m \in Message
  BY MessageTypes
<1>6. [r EXCEPT !.items = @ \cup {b}] = u
  BY DEF it
<1> HIDE DEF u, m
<1>7. Tracked(u, known, working)
  BY <1>1, <1>3, <1>4, SameTracked
<1>8. Tracked(Send(u, m), known, working) /\ Send(u, m).sync = u.sync
  BY <1>3, <1>5, <1>7, SendFacts
<1> QED BY <1>4, <1>6, <1>8 DEF m

\* fetch_items_loop.
LEMMA FetchItemsInv ==
  ASSUME IndInv, FetchItems
  PROVE  IndInv'
<1>0. PICK got \in SUBSET toFetch : \E from \in [got -> Peer] : FetchItems!(got)!(from)
  BY DEF FetchItems
<1>1. PICK from \in [got -> Peer] :
        /\ peer' = [p \in Peer |-> IF \E b \in got : from[b] = p
                      THEN LET b == CHOOSE b \in got : from[b] = p
                           IN  Send([peer[p] EXCEPT !.items = @ \cup {b}], Msg("block", b, << >>))
                      ELSE peer[p]]
        /\ toFetch' = toFetch \ got
        /\ flags' = [flags EXCEPT !.items = FALSE]
        /\ UNCHANGED <<chain, accepted, theirs, active, received, fresh, jobs, processed, news>>
  BY <1>0
<1>2. AtDelegate' = AtDelegate /\ ChainInv' /\ JobsInv'
  BY <1>1 DEF AtDelegate, ChainInv, JobsInv, IndInv
<1>3. OwnTypes'
  BY <1>1 DEF OwnTypes, IndInv
<1>4. ASSUME NEW p \in Peer
      PROVE  Tracked(peer'[p], chain.known', AtDelegate') /\ peer'[p].sync = peer[p].sync
  <2>1. Tracked(peer[p], chain.known, AtDelegate)
    BY TypesFromInv
  <2>2. CASE \E b \in got : from[b] = p
    <3> DEFINE b == CHOOSE b \in got : from[b] = p
    <3>1. b \in got
      BY <2>2
    <3>2. b \in Block
      BY <3>1, TypesFromInv
    <3>3. peer'[p] = Send([peer[p] EXCEPT !.items = @ \cup {b}], Msg("block", b, << >>))
      BY <1>1, <2>2
    <3> HIDE DEF b
    <3> QED BY <1>1, <1>2, <2>1, <3>2, <3>3, ItemAskedFacts
  <2>3. CASE ~\E b \in got : from[b] = p
    <3>1. peer'[p] = peer[p]
      BY <1>1, <2>3
    <3> QED BY <1>1, <1>2, <2>1, <3>1
  <2> QED BY <2>2, <2>3
<1>5. peer' = [p \in Peer |-> peer'[p]]
  BY <1>1
<1> QED BY <1>1, <1>2, <1>3, <1>4, <1>5, AllPeersStep

-----------------------------------------------------------------------------
(* Blocks at the delegate                                                  *)

\* push_block keeps the history of every block it has.
LEMMA HandleBlockFacts ==
  ASSUME NEW c, ChainOk(c), NEW b \in Block
  PROVE  LET h == HandleBlock(c, b)
         IN  /\ ChainOk(h.chain) /\ c.known \subseteq h.chain.known
             /\ h.result \in {"ok", "unlinkable", "rejected"}
             /\ h.result = "ok" => b \in h.chain.known
<1> DEFINE h == HandleBlock(c, b)
<1>1. CASE b \in c.known
  <2>1. h = [result |-> "ok", chain |-> c]
    BY <1>1 DEF HandleBlock
  <2> QED BY <1>1, <2>1
<1>2. CASE b \notin c.known /\ Previous(b) \notin c.known
  <2>1. h = [result |-> "unlinkable", chain |-> c]
    BY <1>2 DEF HandleBlock
  <2> QED BY <2>1
<1>3. CASE b \notin c.known /\ Previous(b) \in c.known /\ b \in Invalid
  <2>1. h = [result |-> "rejected", chain |-> c]
    BY <1>3 DEF HandleBlock
  <2> QED BY <2>1
<1>4. CASE b \notin c.known /\ Previous(b) \in c.known /\ b \notin Invalid
  <2> DEFINE d == [known |-> c.known \cup {b},
                   head |-> IF Num(b) > Num(c.head) THEN b ELSE c.head]
  <2>1. h = [result |-> "ok", chain |-> d]
    BY <1>4 DEF HandleBlock
  <2>2. b \in Blocks /\ b \in Seq(Header) /\ Num(b) \in Nat \ {0}
    BY BlockFacts
  <2>3. d \in [head : Blocks, known : SUBSET Blocks] /\ d.head \in d.known /\ Nil \in d.known
    BY <2>2 DEF ChainOk
  <2>4. ASSUME NEW n \in 0..Num(b) PROVE At(b, n) \in d.known
    <3>1. CASE n = Num(b)
      <4>1. At(b, n) = b
        BY <2>2, <3>1 DEF At, Num
      <4> QED BY <4>1
    <3>2. CASE n # Num(b)
      <4>1. n \in 0..(Num(b) - 1)
        BY <2>2, <3>2
      <4>2. Num(Previous(b)) = Num(b) - 1
        <5>1. 1 \in 1..(Len(b) + 1) /\ Len(b) - 1 \in 0..Len(b) /\ 1 <= Len(b) - 1 + 1
              /\ Len(b) - 1 + 1 - 1 = Len(b) - 1
          BY <2>2 DEF Num
        <5>2. Len(SubSeq(b, 1, Len(b) - 1)) = Len(b) - 1 + 1 - 1
          BY <2>2, <5>1, SubSeqFacts
        <5> QED BY <5>1, <5>2 DEF Num, Previous
      <4>3. At(b, n) = At(Previous(b), n)
        BY <2>2, <4>1 DEF At, Previous, Num
      <4> QED BY <1>4, <4>1, <4>2, <4>3 DEF ChainOk
    <3> QED BY <3>1, <3>2
  <2>5. ChainOk(d)
    <3>1. ASSUME NEW x \in d.known, NEW n \in 0..Num(x) PROVE At(x, n) \in d.known
      <4>1. CASE x = b
        BY <2>4, <4>1
      <4>2. CASE x # b
        BY <4>2 DEF ChainOk
      <4> QED BY <4>1, <4>2
    <3> HIDE DEF d
    <3> QED BY <2>3, <3>1 DEF ChainOk
  <2> QED BY <2>1, <2>5
<1> QED BY <1>1, <1>2, <1>3, <1>4

\* handle_block on the thread of the delegate.
LEMMA DelegateHandlesInv ==
  ASSUME IndInv, DelegateHandles
  PROVE  IndInv'
<1>1. PICK i \in 1..Len(jobs) :
        /\ chain' = HandleBlock(chain, jobs[i].b).chain
        /\ jobs' = [jobs EXCEPT ![i].result = HandleBlock(chain, jobs[i].b).result]
        /\ UNCHANGED <<accepted, peer, theirs, active, received, fresh, toFetch, processed,
                       news, flags>>
  BY DEF DelegateHandles
<1> DEFINE h == HandleBlock(chain, jobs[i].b)
           j == [jobs[i] EXCEPT !.result = h.result]
<1>2. jobs \in Seq(Job) /\ jobs[i] \in Job /\ jobs[i].b \in Block
  <2>1. jobs \in Seq(Job)
    BY DEF IndInv, JobsInv
  <2>2. jobs[i] \in Job
    BY <2>1
  <2> QED BY <2>1, <2>2 DEF Job
<1>3. /\ ChainOk(h.chain) /\ chain.known \subseteq h.chain.known
      /\ h.result \in {"ok", "unlinkable", "rejected"}
      /\ h.result = "ok" => jobs[i].b \in h.chain.known
  BY <1>2, TypesFromInv, HandleBlockFacts
<1> HIDE DEF h
<1>4. j \in Job /\ j.b = jobs[i].b /\ j.from = jobs[i].from /\ j.result = h.result
  BY <1>2, <1>3 DEF Job
<1>5. jobs' = [jobs EXCEPT ![i] = j]
  BY <1>1, <1>2 DEF h
<1> HIDE DEF j
<1>6. /\ jobs' \in Seq(Job) /\ Len(jobs') = Len(jobs)
      /\ \A k \in 1..Len(jobs) : jobs'[k] = IF k = i THEN j ELSE jobs[k]
  BY <1>2, <1>4, <1>5
<1>7. ChainInv' /\ chain.known \subseteq chain'.known
  BY <1>1, <1>3 DEF ChainInv, ChainOk, h
<1>8. JobsInv'
  <2>1. accepted' \subseteq chain'.known
    BY <1>1, <1>7 DEF IndInv, JobsInv
  <2>2. ASSUME NEW k \in 1..Len(jobs'), jobs'[k].result = "ok" PROVE jobs'[k].b \in chain'.known
    <3>1. CASE k = i
      BY <1>1, <1>3, <1>4, <1>6, <2>2, <3>1 DEF h
    <3>2. CASE k # i
      BY <1>6, <1>7, <2>2, <3>2 DEF IndInv, JobsInv
    <3> QED BY <3>1, <3>2
  <2> QED BY <1>6, <2>1, <2>2 DEF JobsInv
<1>9. AtDelegate' = AtDelegate
  <2>1. \A k \in 1..Len(jobs) : jobs'[k].b = jobs[k].b /\ jobs'[k].from = jobs[k].from
    BY <1>4, <1>6
  <2> QED BY <1>6, <2>1 DEF AtDelegate
<1>10. OwnTypes'
  BY <1>1 DEF OwnTypes, IndInv
<1>11. ASSUME NEW p \in Peer PROVE Tracked(peer'[p], chain.known', AtDelegate')
  <2>1. Tracked(peer[p], chain.known, AtDelegate)
    BY TypesFromInv
  <2> QED BY <1>1, <1>7, <1>9, <2>1, TrackedGrows
<1>12. peer' = [p \in Peer |-> peer'[p]]
  BY <1>1 DEF IndInv, PeersInv
<1> QED BY <1>1, <1>7, <1>8, <1>10, <1>11, <1>12, AllPeersStep

\* The first job leaves.
LEMMA FirstJob ==
  ASSUME JobsInv, jobs # << >>, jobs' = Tail(jobs), chain' = chain, accepted' \subseteq chain.known
  PROVE  /\ JobsInv' /\ Head(jobs) \in Job
         /\ Head(jobs).result = "ok" => Head(jobs).b \in chain.known
         /\ Head(jobs).from = "sync" => AtDelegate \subseteq AtDelegate' \cup {Head(jobs).b}
         /\ Head(jobs).from # "sync" => AtDelegate \subseteq AtDelegate'
         /\ AtDelegate' \subseteq AtDelegate
<1>1. /\ jobs \in Seq(Job) /\ jobs' \in Seq(Job) /\ Len(jobs) \in Nat \ {0}
      /\ Len(jobs') = Len(jobs) - 1 /\ Head(jobs) = jobs[1] /\ Head(jobs) \in Job
      /\ \A i \in 1..(Len(jobs) - 1) : jobs'[i] = jobs[i + 1]
  BY DEF JobsInv
<1>2. \A i \in 1..Len(jobs') : i + 1 \in 1..Len(jobs) /\ jobs'[i] = jobs[i + 1]
  BY <1>1
<1>3. \A i \in 1..Len(jobs) : i = 1 \/ (i - 1 \in 1..Len(jobs') /\ jobs'[i - 1] = jobs[i])
  <2>1. ASSUME NEW i \in 1..Len(jobs), i # 1 PROVE i - 1 \in 1..Len(jobs') /\ jobs'[i - 1] = jobs[i]
    <3>1. i - 1 \in 1..Len(jobs') /\ (i - 1) + 1 = i
      BY <1>1, <2>1
    <3> QED BY <1>2, <3>1
  <2> QED BY <2>1
<1>4. 1 \in 1..Len(jobs)
  BY <1>1
<1>5. JobsInv'
  BY <1>1, <1>2 DEF JobsInv
<1>6. Head(jobs).result = "ok" => Head(jobs).b \in chain.known
  BY <1>1, <1>4 DEF JobsInv
<1>7. AtDelegate' \subseteq AtDelegate
  BY <1>2 DEF AtDelegate
<1>8. ASSUME NEW x \in AtDelegate
      PROVE  x \in AtDelegate' \/ (Head(jobs).from = "sync" /\ x = Head(jobs).b)
  <2>1. PICK i \in 1..Len(jobs) : jobs[i].from = "sync" /\ jobs[i].b = x
    BY DEF AtDelegate
  <2> QED BY <1>1, <1>3, <2>1 DEF AtDelegate
<1> QED BY <1>1, <1>5, <1>6, <1>7, <1>8

\* A peer after a sync block was accepted.
LEMMA AfterAcceptedFacts ==
  ASSUME ChainOk(chain), NEW r, NEW working, Tracked(r, chain.known, working),
         NEW b \in Block, b \in chain.known
  PROVE  /\ Tracked(AfterAccepted(r, b), chain.known, working)
         /\ AfterAccepted(r, b).sync = r.sync
<1> DEFINE proc == r.processing \ {b}
           done == [r EXCEPT !.processing = proc, !.seen = b]
           empty == r.toGet = << >> /\ r.processing = {}
<1>1. r \in Connection
  BY DEF Tracked
<1>2. proc \in SUBSET Block /\ b \in Blocks
  BY <1>1 DEF Connection, Blocks
<1>3. /\ \/ AfterAccepted(r, b) = r
         \/ r.conn = "active" /\ AfterAccepted(r, b) = StartSynchronizing(chain, r)
         \/ r.conn = "active" /\ AfterAccepted(r, b) = FetchIds(chain, done)
         \/ r.conn = "active" /\ AfterAccepted(r, b) = done
  BY DEF AfterAccepted
<1>4. done \in Connection
  <2> HIDE DEF proc
  <2> QED BY <1>1, <1>2 DEF Connection
<1>5. /\ done.conn = r.conn /\ done.toGet = r.toGet /\ done.sync = r.sync /\ done.ids = r.ids
      /\ done.processing = proc /\ done.seen = b
  BY <1>1 DEF Connection
<1> HIDE DEF done
<1>6. Tracked(done, chain.known, working)
  BY <1>4, <1>5 DEF Tracked
<1>7. Tracked(FetchIds(chain, done), chain.known, working) /\ FetchIds(chain, done).sync = done.sync
  BY <1>6, TrackedIsReady, FetchIdsFacts
<1>8. ASSUME r.conn = "active"
      PROVE  /\ Tracked(StartSynchronizing(chain, r), chain.known, working)
             /\ StartSynchronizing(chain, r).sync = r.sync
  BY <1>1, <1>8, StartSynchronizingFacts DEF Tracked
<1> QED BY <1>3, <1>5, <1>6, <1>7, <1>8

\* The rest of send_sync_block_to_node_delegate.
LEMMA SyncBlockHandledInv ==
  ASSUME IndInv, SyncBlockHandled
  PROVE  IndInv'
<1> DEFINE job == Head(jobs)
           b == job.b
           offered(p) == peer[p].conn = "active" /\ b \in peer[p].processing
<1>1. /\ jobs # << >> /\ job.from = "sync" /\ jobs' = Tail(jobs)
      /\ peer' = [p \in Peer |->
             IF job.result = "ok" THEN AfterAccepted(peer[p], b)
             ELSE IF offered(p) THEN Disconnect(peer[p]) ELSE peer[p]]
      /\ accepted' = IF job.result = "ok" THEN accepted \cup {b} ELSE accepted
      /\ flags' = [flags EXCEPT !.backlog = TRUE]
      /\ UNCHANGED <<chain, theirs, active, received, fresh, toFetch, processed, news>>
  BY DEF SyncBlockHandled
<1>2. JobsInv /\ ChainInv
  BY DEF IndInv
<1>3. job.result = "ok" => b \in chain.known
  <2>1. Len(jobs) \in Nat /\ jobs \in Seq(Job) /\ job = jobs[1] /\ 1 \in 1..Len(jobs)
    BY <1>1, <1>2 DEF JobsInv
  <2> QED BY <1>2, <2>1 DEF JobsInv
<1>4. accepted' \subseteq chain.known
  BY <1>1, <1>2, <1>3 DEF JobsInv
<1>5. JobsInv' /\ job \in Job /\ AtDelegate \subseteq AtDelegate' \cup {b}
  BY <1>1, <1>2, <1>4, FirstJob
<1> HIDE DEF job
<1>6. b \in Block
  BY <1>5 DEF Job
<1> HIDE DEF b
<1>7. ChainInv' /\ OwnTypes'
  BY <1>1, <1>2 DEF ChainInv, OwnTypes, IndInv
<1>8. ASSUME NEW p \in Peer
      PROVE  Tracked(peer'[p], chain.known', AtDelegate') /\ peer'[p].sync = peer[p].sync
  <2>1. Tracked(peer[p], chain.known, AtDelegate)
    BY TypesFromInv
  <2>2. CASE job.result = "ok"
    <3>1. Tracked(peer[p], chain.known, AtDelegate')
      BY <1>3, <1>5, <2>1, <2>2, TrackedGrows
    <3>2. /\ Tracked(AfterAccepted(peer[p], b), chain.known, AtDelegate')
          /\ AfterAccepted(peer[p], b).sync = peer[p].sync
      BY <1>3, <1>6, <2>2, <3>1, TypesFromInv, AfterAcceptedFacts
    <3> QED BY <1>1, <2>2, <3>2
  <2>3. CASE job.result # "ok" /\ offered(p)
    <3>1. Tracked(Disconnect(peer[p]), chain.known, AtDelegate) /\ Disconnect(peer[p]).sync = peer[p].sync
      BY <2>1, TrackedIsReady, DisconnectFacts
    <3>2. Disconnect(peer[p]).conn = "closing"
      BY TypesFromInv DEF Disconnect, Connection
    <3>3. Tracked(Disconnect(peer[p]), chain.known, AtDelegate')
      BY <3>1, <3>2 DEF Tracked
    <3> QED BY <1>1, <2>3, <3>1, <3>3
  <2>4. CASE job.result # "ok" /\ ~offered(p)
    <3>1. peer[p].conn = "active" => peer[p].processing \subseteq chain.known \cup AtDelegate'
      BY <1>5, <2>1, <2>4 DEF Tracked
    <3>2. Tracked(peer[p], chain.known, AtDelegate')
      BY <2>1, <3>1 DEF Tracked
    <3> QED BY <1>1, <2>4, <3>2
  <2> QED BY <2>2, <2>3, <2>4
<1>9. peer' = [p \in Peer |-> peer'[p]]
  BY <1>1
<1> QED BY <1>1, <1>5, <1>7, <1>8, <1>9, AllPeersStep

\* The rest of process_block_during_normal_operation.
LEMMA NormalBlockHandledInv ==
  ASSUME IndInv, NormalBlockHandled
  PROVE  IndInv'
<1> DEFINE job == Head(jobs)
           p == job.from
           b == job.b
           first(q) == peer[q].conn = "active" /\ peer[q].toGet # << >> /\ Head(peer[q].toGet) = b
<1>1. /\ jobs # << >> /\ p \in Peer /\ job.result # "todo" /\ jobs' = Tail(jobs)
      /\ accepted' = IF job.result = "ok" THEN accepted \cup {b} ELSE accepted
      /\ processed' = IF job.result = "ok" THEN processed \ {b} ELSE processed
      /\ news' = IF job.result = "ok" THEN news \cup {b} ELSE news
      /\ flags' = [flags EXCEPT !.items = @ \/ Idle(peer'[p])]
      /\ UNCHANGED <<chain, theirs, active, received, fresh, toFetch>>
  BY DEF NormalBlockHandled
<1>2. /\ job.result = "ok" => peer' = SeenByAll(peer, b)
      /\ job.result = "unlinkable" => peer' = [peer EXCEPT ![p] = StartSynchronizing(chain, @)]
      /\ job.result = "rejected" =>
           peer' = [q \in Peer |-> IF q = p \/ first(q) THEN Disconnect(peer[q]) ELSE peer[q]]
  BY DEF NormalBlockHandled
<1>3. JobsInv /\ ChainInv
  BY DEF IndInv
<1>4. job.result = "ok" => b \in chain.known
  <2>1. Len(jobs) \in Nat /\ jobs \in Seq(Job) /\ job = jobs[1] /\ 1 \in 1..Len(jobs)
    BY <1>1, <1>3 DEF JobsInv
  <2> QED BY <1>3, <2>1 DEF JobsInv
<1>5. accepted' \subseteq chain.known
  BY <1>1, <1>3, <1>4 DEF JobsInv
<1>6. JobsInv' /\ job \in Job /\ AtDelegate' = AtDelegate
  <2>1. job.from # "sync"
    BY <1>1, PeersAssumption
  <2> QED BY <1>1, <1>3, <1>5, <2>1, FirstJob
<1> HIDE DEF job
<1>7. b \in Block /\ job.result \in {"ok", "unlinkable", "rejected"}
  BY <1>1, <1>6 DEF Job
<1> HIDE DEF b, p
<1>8. ChainInv'
  BY <1>1, <1>3 DEF ChainInv
<1>9. OwnTypes'
  <2>1. flags' \in Flags
    <3> DEFINE x == flags.items \/ Idle(peer'[p])
    <3>1. x \in BOOLEAN /\ flags' = [flags EXCEPT !.items = x]
      BY <1>1
    <3> HIDE DEF x
    <3> QED BY <3>1, TypesFromInv DEF Flags
  <2>2. active' \cup toFetch' \cup processed' \cup news' \subseteq Block
    BY <1>1, <1>7 DEF IndInv, OwnTypes
  <2> QED BY <1>1, <2>1, <2>2 DEF IndInv, OwnTypes, Flags
<1>10. ASSUME NEW q \in Peer
       PROVE  Tracked(peer'[q], chain.known', AtDelegate') /\ peer'[q].sync = peer[q].sync
  <2>1. Tracked(peer[q], chain.known, AtDelegate)
    BY TypesFromInv
  <2>2. CASE job.result = "ok"
    <3>1. Tracked(SeenByAll(peer, b)[q], chain.known, AtDelegate) /\ SeenByAll(peer, b)[q].sync = peer[q].sync
      BY <1>4, <1>7, <2>1, <2>2, SeenByAllFacts
    <3> QED BY <1>1, <1>2, <1>6, <2>2, <3>1
  <2>3. CASE job.result = "unlinkable"
    <3>1. CASE q = p
      <4>1. peer'[q] = StartSynchronizing(chain, peer[q])
        BY <1>2, <2>3, <3>1, TypesFromInv DEF PeersInv
      <4>2. /\ Tracked(StartSynchronizing(chain, peer[q]), chain.known, AtDelegate)
            /\ StartSynchronizing(chain, peer[q]).sync = peer[q].sync
        BY <2>1, TypesFromInv, StartSynchronizingFacts DEF Tracked
      <4> QED BY <1>1, <1>6, <4>1, <4>2
    <3>2. CASE q # p
      <4>1. peer'[q] = peer[q]
        BY <1>2, <2>3, <3>2, TypesFromInv DEF PeersInv
      <4> QED BY <1>1, <1>6, <2>1, <4>1
    <3> QED BY <3>1, <3>2
  <2>4. CASE job.result = "rejected"
    <3>1. peer'[q] = Disconnect(peer[q]) \/ peer'[q] = peer[q]
      BY <1>2, <2>4
    <3>2. Tracked(Disconnect(peer[q]), chain.known, AtDelegate) /\ Disconnect(peer[q]).sync = peer[q].sync
      BY <2>1, TrackedIsReady, DisconnectFacts
    <3> QED BY <1>1, <1>6, <2>1, <3>1, <3>2
  <2> QED BY <1>7, <2>2, <2>3, <2>4
<1>11. peer' = [q \in Peer |-> peer'[q]]
  <2>1. CASE job.result = "ok"
    BY <1>2, <2>1 DEF SeenByAll
  <2>2. CASE job.result = "unlinkable"
    BY <1>2, <2>2, TypesFromInv DEF PeersInv
  <2>3. CASE job.result = "rejected"
    BY <1>2, <2>3
  <2> QED BY <1>7, <2>1, <2>2, <2>3
<1> QED BY <1>1, <1>6, <1>8, <1>9, <1>10, <1>11, AllPeersStep

\* One element less.
LEMMA RangeOfRemoved ==
  ASSUME NEW A, NEW seq \in Seq(A), NEW i \in 1..Len(seq)
  PROVE  RemoveAt(seq, i) \in Seq(A) /\ Range(RemoveAt(seq, i)) \subseteq Range(seq)
<1> DEFINE u == SubSeq(seq, 1, i - 1)
           v == SubSeq(seq, i + 1, Len(seq))
           w == u \o v
<1>0. /\ Len(seq) \in Nat /\ i \in Nat /\ 1 \in 1..(Len(seq) + 1) /\ i - 1 \in 0..Len(seq)
      /\ i + 1 \in 1..(Len(seq) + 1) /\ Len(seq) \in 0..Len(seq) /\ 1 <= i - 1 + 1
      /\ i + 1 <= Len(seq) + 1
  OBVIOUS
<1>1. /\ u \in Seq(A) /\ Len(u) = i - 1 + 1 - 1
      /\ \A k \in 1..(i - 1 + 1 - 1) : u[k] = seq[1 + k - 1]
  BY <1>0, SubSeqFacts
<1>2. /\ v \in Seq(A) /\ Len(v) = Len(seq) + 1 - (i + 1)
      /\ \A k \in 1..(Len(seq) + 1 - (i + 1)) : v[k] = seq[i + 1 + k - 1]
  BY <1>0, SubSeqFacts
<1>3. RemoveAt(seq, i) = w
  BY DEF RemoveAt
<1> HIDE DEF u, v
<1>4. Range(u) \subseteq Range(seq)
  <2>1. \A k \in 1..Len(u) : u[k] = seq[k] /\ k \in DOMAIN seq
    BY <1>0, <1>1
  <2>2. DOMAIN u = 1..Len(u)
    BY <1>1
  <2> QED BY <2>1, <2>2 DEF Range
<1>5. Range(v) \subseteq Range(seq)
  <2>1. \A k \in 1..Len(v) : v[k] = seq[i + k] /\ i + k \in DOMAIN seq
    BY <1>0, <1>2
  <2>2. DOMAIN v = 1..Len(v)
    BY <1>2
  <2> QED BY <2>1, <2>2 DEF Range
<1>6. w \in Seq(A) /\ Range(w) = Range(u) \cup Range(v)
  <2>1. u \in Seq(A) /\ v \in Seq(A)
    BY <1>1, <1>2
  <2> QED BY <2>1, RangeOfJoin
<1> QED BY <1>3, <1>4, <1>5, <1>6

\* One more job.
LEMMA JobAdded ==
  ASSUME JobsInv, NEW b \in Block, jobs' = Append(jobs, [b |-> b, from |-> "sync", result |-> "todo"]),
         chain' = chain, accepted' = accepted
  PROVE  JobsInv' /\ AtDelegate \subseteq AtDelegate' /\ b \in AtDelegate'
<1> DEFINE j == [b |-> b, from |-> "sync", result |-> "todo"]
<1>1. j \in Job /\ j.result # "ok" /\ j.from = "sync" /\ j.b = b
  BY DEF Job
<1>2. jobs' = Append(jobs, j)
  OBVIOUS
<1> HIDE DEF j
<1>3. /\ jobs \in Seq(Job) /\ Len(jobs) \in Nat /\ jobs' \in Seq(Job) /\ Len(jobs') = Len(jobs) + 1
      /\ jobs'[Len(jobs) + 1] = j /\ \A i \in 1..Len(jobs) : jobs'[i] = jobs[i] /\ i \in 1..Len(jobs')
  BY <1>1, <1>2 DEF JobsInv
<1>4. ASSUME NEW i \in 1..Len(jobs'), jobs'[i].result = "ok" PROVE jobs'[i].b \in chain'.known
  <2>1. i \in 1..Len(jobs)
    BY <1>1, <1>3, <1>4
  <2> QED BY <1>3, <1>4, <2>1 DEF JobsInv
<1>5. JobsInv'
  BY <1>3, <1>4 DEF JobsInv
<1>6. AtDelegate \subseteq AtDelegate'
  BY <1>3 DEF AtDelegate
<1>7. Len(jobs) + 1 \in 1..Len(jobs')
  BY <1>3
<1>8. b \in AtDelegate'
  BY <1>1, <1>3, <1>7 DEF AtDelegate
<1> QED BY <1>5, <1>6, <1>8

\* A block leaves the list that it heads.
LEMMA HeadTakenFacts ==
  ASSUME NEW r, NEW known, NEW working, NEW V, NEW b \in Block, Tracked(r, known, working),
         r.toGet # << >>, Head(r.toGet) = b, working \subseteq V, b \in known \cup V,
         NEW q, q \in Connection, q.conn = r.conn, q.toGet = Tail(r.toGet), q.sync = r.sync,
         q.ids = r.ids, q.processing = r.processing \cup {b}, q.seen = r.seen
  PROVE  Tracked(q, known, V) /\ q.sync = r.sync
<1> DEFINE rest == Tail(r.toGet)
           proc == r.processing \cup {b}
<1>1. r \in Connection
  BY DEF Tracked
<1>2. rest \in Seq(Block) /\ IsBranch(rest) /\ proc \in SUBSET Block
  BY <1>1, TailBranch DEF Tracked, Connection
<1>3. Range(r.toGet) \subseteq {b} \cup Range(rest)
  <2> DEFINE s == r.toGet
  <2>1. s \in Seq(Block) /\ s # << >> /\ Head(s) = b
    BY <1>1 DEF Connection
  <2> HIDE DEF s
  <2>2. /\ Len(s) \in Nat \ {0} /\ s[1] = b /\ DOMAIN s = 1..Len(s)
        /\ Len(Tail(s)) = Len(s) - 1 /\ DOMAIN Tail(s) = 1..(Len(s) - 1)
        /\ \A k \in 1..(Len(s) - 1) : Tail(s)[k] = s[k + 1]
    BY <2>1
  <2>3. ASSUME NEW k \in 1..Len(s), k # 1 PROVE k - 1 \in 1..(Len(s) - 1) /\ Tail(s)[k - 1] = s[k]
    <3>1. k - 1 \in 1..(Len(s) - 1) /\ (k - 1) + 1 = k
      BY <2>2, <2>3
    <3> QED BY <2>2, <3>1
  <2>4. ASSUME NEW x \in Range(s) PROVE x = b \/ x \in Range(Tail(s))
    <3>1. PICK k \in 1..Len(s) : x = s[k]
      BY <2>2 DEF Range
    <3>2. k # 1 => k - 1 \in DOMAIN Tail(s) /\ Tail(s)[k - 1] = x
      BY <2>2, <2>3, <3>1
    <3> QED BY <2>2, <3>1, <3>2 DEF Range
  <2> QED BY <2>4 DEF s
<1>4. q.toGet = rest /\ q.processing = proc
  OBVIOUS
<1> HIDE DEF rest, proc
<1>7. ASSUME r.conn = "active"
      PROVE  /\ proc \subseteq known \cup V /\ r.seen \in known \cup proc
             /\ r.ids.open => Range(r.ids.synopsis) \subseteq known \cup proc \cup Range(rest)
  BY <1>3, <1>7 DEF Tracked, proc
<1>8. Tracked(q, known, V)
  BY <1>2, <1>4, <1>7 DEF Tracked
<1> QED BY <1>8

\* One turn of process_backlog_of_sync_blocks.
LEMMA BacklogTurnInv ==
  ASSUME IndInv, BacklogTurn
  PROVE  IndInv'
<1> DEFINE at == {i \in 1..Len(received) : \E p \in Peer : Heads(p, received[i])}
           i == Min(at)
           b == received[i]
           push == at # {} /\ b \notin accepted
<1>1. /\ peer' = [p \in Peer |-> IF at # {} /\ Heads(p, b)
             THEN [peer[p] EXCEPT !.toGet = Tail(@), !.processing = @ \cup {b}] ELSE peer[p]]
      /\ received' = IF push THEN RemoveAt(received, i) ELSE received
      /\ jobs' = IF push THEN Append(jobs, [b |-> b, from |-> "sync", result |-> "todo"]) ELSE jobs
      /\ UNCHANGED <<chain, accepted, theirs, active, fresh, toFetch, processed, news>>
  BY DEF BacklogTurn
<1>2. flags' \in Flags
  <2>1. \E x, y, z \in BOOLEAN :
          flags' = [flags EXCEPT !.loop = x, !.backlog = x, !.suspend = y, !.sync = z]
    <3>1. \A x, y : (x /\ y) \in BOOLEAN /\ (~x) \in BOOLEAN /\ (x \/ y) \in BOOLEAN
      OBVIOUS
    <3> QED BY <3>1 DEF BacklogTurn
  <2> QED BY <2>1, TypesFromInv DEF Flags
<1>3. received \in Seq(Block) /\ at \in SUBSET (1..Len(received)) /\ Len(received) \in Nat
  BY DEF IndInv, OwnTypes
<1>4. at # {} => i \in 1..Len(received) /\ b \in Block
  <2> HIDE DEF at
  <2>1. at # {} => i \in at
    BY <1>3, MinOfPositions
  <2>2. at # {} => i \in 1..Len(received)
    BY <1>3, <2>1
  <2> HIDE DEF i
  <2> QED BY <1>3, <2>2, SeqElement
<1> HIDE DEF at, i
<1>5. received' \in Seq(Block) /\ Range(received') \subseteq Range(received)
  BY <1>1, <1>3, <1>4, RangeOfRemoved
<1> HIDE DEF b
<1>6. JobsInv /\ accepted \subseteq chain.known
  BY DEF IndInv, JobsInv
<1>7. JobsInv' /\ AtDelegate \subseteq AtDelegate' /\ (push => b \in AtDelegate')
  <2>1. CASE push
    BY <1>1, <1>4, <1>6, <2>1, JobAdded
  <2>2. CASE ~push
    <3>1. jobs' = jobs /\ chain' = chain /\ accepted' = accepted
      BY <1>1, <2>2
    <3> QED BY <1>6, <2>2, <3>1 DEF JobsInv, AtDelegate
  <2> QED BY <2>1, <2>2
<1>8. ChainInv' /\ OwnTypes'
  BY <1>1, <1>2, <1>5 DEF ChainInv, OwnTypes, IndInv, Flags
<1>9. ASSUME NEW p \in Peer
      PROVE  Tracked(peer'[p], chain.known', AtDelegate') /\ peer'[p].sync = peer[p].sync
  <2>1. Tracked(peer[p], chain.known, AtDelegate)
    BY TypesFromInv
  <2>2. CASE at # {} /\ Heads(p, b)
    <3> DEFINE q == [peer[p] EXCEPT !.toGet = Tail(@), !.processing = @ \cup {b}]
    <3>1. peer[p].toGet # << >> /\ Head(peer[p].toGet) = b /\ b \in Block
      BY <1>4, <2>2 DEF Heads
    <3>2. b \in chain.known \cup AtDelegate'
      BY <1>6, <1>7, <2>2
    <3>3. Tracked(q, chain.known, AtDelegate') /\ q.sync = peer[p].sync
      <4> DEFINE rest == Tail(peer[p].toGet)
                 proc == peer[p].processing \cup {b}
      <4>1. peer[p] \in Connection /\ rest \in Seq(Block) /\ proc \in SUBSET Block
        BY <2>1, <3>1, TailBranch DEF Tracked, Connection
      <4>2. q = [peer[p] EXCEPT !.toGet = rest, !.processing = proc]
        OBVIOUS
      <4> HIDE DEF rest, proc, q
      <4>3. /\ q \in Connection /\ q.conn = peer[p].conn /\ q.toGet = rest /\ q.ids = peer[p].ids
            /\ q.sync = peer[p].sync /\ q.processing = proc /\ q.seen = peer[p].seen
        BY <4>1, <4>2 DEF Connection
      <4> QED BY <1>7, <2>1, <3>1, <3>2, <4>3, HeadTakenFacts DEF rest, proc
    <3>4. peer'[p] = q
      BY <1>1, <2>2
    <3> HIDE DEF q
    <3> QED BY <1>1, <3>3, <3>4
  <2>3. CASE ~(at # {} /\ Heads(p, b))
    <3>1. peer'[p] = peer[p] /\ chain' = chain
      BY <1>1, <2>3
    <3>2. Tracked(peer[p], chain.known, AtDelegate')
      BY <1>7, <2>1, TrackedGrows
    <3> QED BY <3>1, <3>2
  <2> QED BY <2>2, <2>3
<1>10. peer' = [p \in Peer |-> peer'[p]]
  BY <1>1
<1> QED BY <1>1, <1>5, <1>7, <1>8, <1>9, <1>10, AllPeersStep

-----------------------------------------------------------------------------
(* fetch_sync_items_loop                                                   *)

\* One more element at the end.
LEMMA RangeOfAppended ==
  ASSUME NEW A, NEW seq \in Seq(A), NEW b \in A
  PROVE  Append(seq, b) \in Seq(A) /\ \A x \in Range(Append(seq, b)) : x = b \/ x \in Range(seq)
<1> DEFINE t == Append(seq, b)
<1>1. /\ t \in Seq(A) /\ Len(t) = Len(seq) + 1 /\ Len(seq) \in Nat
      /\ t[Len(seq) + 1] = b /\ \A i \in 1..Len(seq) : t[i] = seq[i]
  OBVIOUS
<1> HIDE DEF t
<1>2. DOMAIN t = 1..(Len(seq) + 1) /\ DOMAIN seq = 1..Len(seq)
  BY <1>1
<1>3. ASSUME NEW x \in Range(t) PROVE x = b \/ x \in Range(seq)
  <2>1. PICK i \in 1..(Len(seq) + 1) : t[i] = x
    BY <1>2 DEF Range
  <2>2. CASE i = Len(seq) + 1
    BY <1>1, <2>1, <2>2
  <2>3. CASE i # Len(seq) + 1
    <3>1. i \in 1..Len(seq)
      BY <1>1, <2>3
    <3> QED BY <1>1, <1>2, <2>1, <3>1 DEF Range
  <2> QED BY <2>2, <2>3
<1> QED BY <1>1, <1>3 DEF t

\* A list of blocks that nobody was asked for, that are not among those of
\* taken, and that are not in the backlog.
NewTo(taken) == {w \in Seq(Block) : \A x \in Range(w) :
                   x \notin taken /\ x \notin active /\ ~HaveReceived(x)}

\* What a peer is asked for.
LEMMA WantedFacts ==
  ASSUME NEW r \in Connection, NEW taken
  PROVE  /\ Wanted(r, taken) \in NewTo(taken)
         /\ Wanted(r, taken) # << >> => r.conn = "active"
<1>0. << >> \in NewTo(taken)
  BY DEF NewTo, Range
<1>1. CASE r.conn # "active" \/ ~r.weNeed \/ ~Idle(r) \/ r.inhibit
  BY <1>0, <1>1 DEF Wanted
<1>2. CASE r.conn = "active" /\ r.weNeed /\ Idle(r) /\ ~r.inhibit
  <2>1. r.toGet \in Seq(Block)
    BY DEF Connection
  <2>2. ASSUME NEW w \in NewTo(taken), NEW b \in Block PROVE WantStep(taken, w, b) \in NewTo(taken)
    <3>1. w \in Seq(Block)
      BY DEF NewTo
    <3>2. Append(w, b) \in Seq(Block) /\ \A x \in Range(Append(w, b)) : x = b \/ x \in Range(w)
      BY <3>1, RangeOfAppended
    <3>3. CASE ~HaveReceived(b) /\ b \notin taken /\ b \notin active
      <4>1. Append(w, b) \in NewTo(taken)
        BY <3>2, <3>3 DEF NewTo
      <4> QED BY <4>1 DEF WantStep
    <3>4. CASE HaveReceived(b) \/ b \in taken \/ b \in active
      BY <3>4 DEF WantStep
    <3> QED BY <3>3, <3>4
  <2>3. W!Fold(taken, << >>, r.toGet) \in NewTo(taken)
    BY <1>0, <2>1, <2>2, W!FoldKeeps
  <2> QED BY <1>2, <2>3, WantedIsFold
<1> QED BY <1>1, <1>2

\* What the first k peers of an order are asked for.
Division(order, k) ==
    {acc \in [taken : SUBSET Block, asked : [Peer -> Seq(Block)]] :
       /\ \A p \in Peer : \A x \in Range(acc.asked[p]) : x \in acc.taken
       /\ \A x \in acc.taken : \E p \in Peer : x \in Range(acc.asked[p])
       /\ \A p, q \in Peer : \A x \in Range(acc.asked[p]) : x \in Range(acc.asked[q]) => p = q
       /\ \A x \in acc.taken : x \notin active /\ ~HaveReceived(x)
       /\ \A p \in Peer : acc.asked[p] # << >> =>
            peer[p].conn = "active" /\ \E j \in 1..k : order[j] = p}

\* Every peer comes once, and takes what nobody took before.
LEMMA DivideFacts ==
  ASSUME NEW order \in Orders, \A p \in Peer : peer[p] \in Connection
  PROVE  Divide(order) \in Division(order, Len(order))
<1> DEFINE n == Cardinality(Peer)
           B == [k \in 0..n |-> Division(order, k)]
           base == [taken |-> {}, asked |-> [p \in Peer |-> << >>]]
<1>1. n \in Nat
  BY PeersAssumption, FS_CardinalityType
<1>2. order \in [1..n -> Peer] /\ \A i, j \in 1..n : i # j => order[i] # order[j]
  BY DEF Orders, SetToSeqs
<1> HIDE DEF n
<1>3. order \in Seq(Peer) /\ Len(order) = n
  BY <1>1, <1>2
<1>4. base \in B[0]
  <2>1. base \in [taken : SUBSET Block, asked : [Peer -> Seq(Block)]] /\ Range(<< >>) = {}
    BY DEF Range
  <2>2. base.taken = {} /\ \A p \in Peer : base.asked[p] = << >>
    OBVIOUS
  <2> HIDE DEF base
  <2>3. base \in Division(order, 0)
    BY <2>1, <2>2 DEF Division
  <2> QED BY <1>1, <2>3
<1> HIDE DEF base
<1>5. ASSUME NEW k \in 1..n, NEW acc \in B[k - 1] PROVE DivideStep(0, acc, order[k]) \in B[k]
  <2> DEFINE p == order[k]
             w == Wanted(peer[p], acc.taken)
             t == acc.taken \cup Range(w)
             a == [acc.asked EXCEPT ![p] = w]
             next == [taken |-> t, asked |-> a]
  <2>1. p \in Peer /\ k - 1 \in 0..n /\ k \in 0..n /\ k \in 1..k /\ \A j \in 1..(k - 1) : j \in 1..k /\ j \in 1..n /\ j # k
    BY <1>1, <1>2
  <2>2. acc \in Division(order, k - 1)
    BY <2>1
  <2>3. w \in NewTo(acc.taken) /\ (w # << >> => peer[p].conn = "active")
    BY <2>1, WantedFacts
  <2>4. acc.asked[p] = << >>
    BY <1>2, <2>1, <2>2 DEF Division
  <2> HIDE DEF w
  <2>5. w \in Seq(Block) /\ Range(w) \subseteq Block
    BY <2>3 DEF NewTo, Range
  <2>6. acc \in [taken : SUBSET Block, asked : [Peer -> Seq(Block)]]
    BY <2>2 DEF Division
  <2>7. /\ a \in [Peer -> Seq(Block)] /\ a[p] = w /\ \A q \in Peer \ {p} : a[q] = acc.asked[q]
        /\ t \in SUBSET Block
    BY <2>1, <2>5, <2>6
  <2> HIDE DEF a, t, p
  <2>8. next \in [taken : SUBSET Block, asked : [Peer -> Seq(Block)]] /\ next.taken = t /\ next.asked = a
    BY <2>7
  <2> HIDE DEF next
  <2>9. /\ \A q \in Peer : \A x \in Range(a[q]) : x \in t
        /\ \A x \in t : \E q \in Peer : x \in Range(a[q])
    <3>1. ASSUME NEW q \in Peer, NEW x \in Range(a[q]) PROVE x \in t
      BY <2>2, <2>7, <3>1 DEF Division, t
    <3>2. ASSUME NEW x \in t PROVE \E q \in Peer : x \in Range(a[q])
      <4>1. CASE x \in Range(w)
        BY <2>1, <2>7, <4>1
      <4>2. CASE x \in acc.taken
        <5>1. PICK q \in Peer : x \in Range(acc.asked[q])
          BY <2>2, <4>2 DEF Division
        <5>2. q # p
          BY <2>4, <5>1 DEF Range
        <5> QED BY <2>7, <5>1, <5>2
      <4> QED BY <4>1, <4>2 DEF t
    <3> QED BY <3>1, <3>2
  <2>10. ASSUME NEW q \in Peer, NEW u \in Peer, NEW x \in Range(a[q]), x \in Range(a[u]) PROVE q = u
    <3>1. CASE q # p /\ u # p
      BY <2>2, <2>7, <2>10, <3>1 DEF Division
    <3>2. CASE q = p /\ u # p
      <4>1. x \in acc.taken
        BY <2>2, <2>7, <2>10, <3>2 DEF Division
      <4> QED BY <2>3, <2>7, <2>10, <3>2, <4>1 DEF NewTo
    <3>3. CASE q # p /\ u = p
      <4>1. x \in acc.taken
        BY <2>2, <2>7, <2>10, <3>3 DEF Division
      <4> QED BY <2>3, <2>7, <2>10, <3>3, <4>1 DEF NewTo
    <3> QED BY <3>1, <3>2, <3>3
  <2>11. \A x \in t : x \notin active /\ ~HaveReceived(x)
    BY <2>2, <2>3 DEF Division, NewTo, t
  <2>12. ASSUME NEW q \in Peer, a[q] # << >>
         PROVE  peer[q].conn = "active" /\ \E j \in 1..k : order[j] = q
    <3>1. CASE q = p
      BY <2>1, <2>3, <2>7, <2>12, <3>1 DEF p
    <3>2. CASE q # p
      BY <2>1, <2>2, <2>7, <2>12, <3>2 DEF Division
    <3> QED BY <3>1, <3>2
  <2>13. next \in Division(order, k)
    BY <2>8, <2>9, <2>10, <2>11, <2>12 DEF Division
  <2>14. DivideStep(0, acc, p) = next
    BY DEF DivideStep, next, a, t, w
  <2> QED BY <2>1, <2>13, <2>14 DEF p
<1>6. D!Fold(0, base, order) \in B[Len(order)]
  <2> HIDE DEF B
  <2> QED BY <1>3, <1>4, <1>5, D!FoldAlong
<1>7. Divide(order) = D!Fold(0, base, order)
  BY DivideIsFold DEF base
<1> QED BY <1>1, <1>3, <1>6, <1>7

\* A peer is asked for blocks.
LEMMA AskFacts ==
  ASSUME NEW r, NEW known, NEW working, Tracked(r, known, working),
         NEW w \in Seq(Block), w # << >> => r.conn = "active"
  PROVE  Tracked(Ask(r, w), known, working) /\ Ask(r, w).sync = r.sync \cup Range(w)
<1> DEFINE y == r.sync \cup Range(w)
           out == r.wire \o [i \in 1..Len(w) |-> Msg("block", w[i], << >>)]
           q == [r EXCEPT !.sync = y, !.wire = out]
<1>1. r \in Connection
  BY DEF Tracked
<1>2. y \in SUBSET Block
  <2>1. Range(w) \subseteq Block
    BY DEF Range
  <2> QED BY <1>1, <2>1 DEF Connection
<1>3. out \in Seq(Message)
  <2> DEFINE ms == [i \in 1..Len(w) |-> Msg("block", w[i], << >>)]
  <2>1. Len(w) \in Nat /\ \A i \in 1..Len(w) : Msg("block", w[i], << >>) \in Message
    BY MessageTypes
  <2>2. ms \in Seq(Message)
    BY <2>1
  <2>3. r.wire \in Seq(Message)
    BY <1>1 DEF Connection
  <2> HIDE DEF ms
  <2>4. r.wire \o ms \in Seq(Message)
    BY <2>2, <2>3
  <2> QED BY <2>4 DEF ms
<1>4. Ask(r, w) = q
  BY DEF Ask
<1>5. y = {} \/ r.conn # "closed"
  BY DEF Tracked, Range
<1>7. y = r.sync \cup Range(w)
  OBVIOUS
<1> HIDE DEF y, out
<1>6. /\ q \in Connection /\ q.conn = r.conn /\ q.toGet = r.toGet /\ q.ids = r.ids
      /\ q.processing = r.processing /\ q.seen = r.seen /\ q.sync = y
  BY <1>1, <1>2, <1>3 DEF Connection
<1> HIDE DEF q
<1>8. Tracked(q, known, working)
  BY <1>5, <1>6, SameTracked
<1> QED BY <1>4, <1>6, <1>7, <1>8

\* One round.
LEMMA FetchSyncItemsInv ==
  ASSUME IndInv, NEW order \in Orders, FetchSyncItems(order)
  PROVE  IndInv'
<1> DEFINE d == Divide(order)
<1>1. /\ flags' = [flags EXCEPT !.sync = FALSE]
      /\ \/ UNCHANGED <<peer, active>>
         \/ peer' = [p \in Peer |-> Ask(peer[p], d.asked[p])] /\ active' = active \cup d.taken
      /\ UNCHANGED <<chain, accepted, theirs, received, fresh, jobs, toFetch, processed, news>>
  BY DEF FetchSyncItems
<1>2. d \in Division(order, Len(order))
  BY DivideFacts, TypesFromInv
<1> HIDE DEF d
<1>3. /\ d.taken \in SUBSET Block /\ d.asked \in [Peer -> Seq(Block)]
      /\ \A p \in Peer : \A x \in Range(d.asked[p]) : x \in d.taken
      /\ \A x \in d.taken : \E p \in Peer : x \in Range(d.asked[p])
      /\ \A p, q \in Peer : \A x \in Range(d.asked[p]) : x \in Range(d.asked[q]) => p = q
      /\ \A x \in d.taken : x \notin active /\ ~HaveReceived(x)
      /\ \A p \in Peer : d.asked[p] # << >> => peer[p].conn = "active"
  BY <1>2 DEF Division
<1>4. flags' \in Flags
  BY <1>1, TypesFromInv DEF Flags
<1>5. AtDelegate' = AtDelegate /\ ChainInv' /\ JobsInv'
  BY <1>1 DEF AtDelegate, ChainInv, JobsInv, IndInv
<1>6. OwnTypes'
  BY <1>1, <1>3, <1>4 DEF OwnTypes, IndInv, Flags
<1>7. CASE UNCHANGED <<peer, active>>
  <2>1. PeersInv'
    BY <1>1, <1>5, <1>7 DEF PeersInv, IndInv
  <2>2. RequestsInv'
    BY <1>1, <1>7, SameRequests DEF IndInv
  <2> QED BY <1>5, <1>6, <2>1, <2>2 DEF IndInv
<1>8. CASE peer' = [p \in Peer |-> Ask(peer[p], d.asked[p])] /\ active' = active \cup d.taken
  <2>1. ASSUME NEW p \in Peer
        PROVE  /\ Tracked(peer'[p], chain.known, AtDelegate)
               /\ peer'[p].sync = peer[p].sync \cup Range(d.asked[p])
    <3>1. Tracked(peer[p], chain.known, AtDelegate) /\ d.asked[p] \in Seq(Block)
      BY <1>3, TypesFromInv
    <3>2. /\ Tracked(Ask(peer[p], d.asked[p]), chain.known, AtDelegate)
          /\ Ask(peer[p], d.asked[p]).sync = peer[p].sync \cup Range(d.asked[p])
      BY <1>3, <3>1, AskFacts
    <3> QED BY <1>8, <3>2
  <2>2. PeersInv'
    <3>1. \A p \in Peer : peer'[p] \in Connection
      BY <2>1 DEF Tracked
    <3>2. peer' \in [Peer -> Connection]
      BY <1>8, <3>1
    <3> QED BY <1>1, <1>5, <2>1, <3>2 DEF PeersInv
  <2>3. /\ RequestedOnce /\ RequestsOwned /\ \A p \in Peer : peer[p].sync \subseteq active
    BY DEF IndInv, RequestsInv
  <2>4. \A x : HaveReceived(x)' <=> HaveReceived(x)
    BY <1>1 DEF HaveReceived
  <2>5. ASSUME NEW p \in Peer, NEW q \in Peer, NEW b \in peer'[p].sync
        PROVE  (p # q => b \notin peer'[q].sync) /\ ~HaveReceived(b)
    <3>1. CASE b \in peer[p].sync
      <4>1. b \in active /\ ~HaveReceived(b) /\ (p # q => b \notin peer[q].sync)
        BY <2>3, <3>1 DEF RequestedOnce
      <4>2. b \notin Range(d.asked[q])
        BY <1>3, <4>1
      <4> QED BY <2>1, <4>1, <4>2
    <3>2. CASE b \in Range(d.asked[p])
      <4>1. b \in d.taken /\ b \notin active /\ ~HaveReceived(b)
        BY <1>3, <3>2
      <4>2. p # q => b \notin Range(d.asked[q])
        BY <1>3, <3>2
      <4>3. b \notin peer[q].sync
        BY <2>3, <4>1
      <4> QED BY <2>1, <4>1, <4>2, <4>3
    <3> QED BY <2>1, <2>5, <3>1, <3>2
  <2>6. RequestedOnce'
    BY <2>4, <2>5 DEF RequestedOnce, HaveReceived
  <2>7. RequestsOwned'
    <3>0. ASSUME NEW x \in Orphans PROVE x \in Orphans'
      <4>1. x \in active /\ \A p \in Peer : x \notin peer[p].sync /\ x \notin Range(d.asked[p])
        BY <1>3 DEF Orphans
      <4> QED BY <1>8, <2>1, <4>1 DEF Orphans
    <3>1. ASSUME NEW x \in Orphans' PROVE x \in Orphans
      <4>1. x \in active' /\ \A p \in Peer : x \notin peer'[p].sync
        BY DEF Orphans
      <4>2. \A p \in Peer : x \notin peer[p].sync /\ x \notin Range(d.asked[p])
        BY <2>1, <4>1
      <4>3. x \in active
        BY <1>3, <1>8, <4>1, <4>2
      <4> QED BY <4>2, <4>3 DEF Orphans
    <3> QED BY <1>1, <2>3, <3>0, <3>1 DEF RequestsOwned
  <2>8. \A p \in Peer : peer'[p].sync \subseteq active'
    BY <1>3, <1>8, <2>1, <2>3
  <2> QED BY <1>5, <1>6, <2>2, <2>6, <2>7, <2>8 DEF IndInv, RequestsInv
<1> QED BY <1>1, <1>7, <1>8

-----------------------------------------------------------------------------
(* The theorems                                                            *)

\* A node without blocks.
LEMMA InitInv == Init => IndInv
<1> SUFFICES ASSUME Init PROVE IndInv
  OBVIOUS
<1>0. PICK heads \in PeerStarts, late \in SUBSET (Peer \ Reliable) :
          /\ peer = [p \in Peer |-> IF p \in late THEN Closed ELSE Connected(p, chain)]
          /\ theirs = [p \in Peer |-> [head |-> heads[p], insync |-> FALSE,
                                      lost |-> {}, connects |-> IF p \in late THEN 0 ELSE 1]]
  BY DEF Init
<1>1. /\ chain = [head |-> Nil, known |-> {Nil}] /\ accepted = {Nil}
      /\ active = {} /\ received = << >> /\ fresh = << >> /\ jobs = << >>
      /\ toFetch = {} /\ processed = {} /\ news = {}
      /\ flags = [sync |-> FALSE, items |-> FALSE, backlog |-> FALSE, suspend |-> FALSE, loop |-> FALSE]
  BY DEF Init
<1>2. ChainInv
  <2>1. Num(Nil) = 0 /\ At(Nil, 0) = Nil
    <3>1. << >> \in Seq({}) /\ Len(<< >>) = 0
      OBVIOUS
    <3>2. SubSeq(<< >>, 1, 0) \in Seq({}) /\ Len(SubSeq(<< >>, 1, 0)) = 0
      BY <3>1
    <3>3. \A s \in Seq({}) : Len(s) = 0 => s = << >>
      OBVIOUS
    <3> QED BY <3>1, <3>2, <3>3 DEF Num, At, Nil
  <2> QED BY <1>1, <2>1 DEF ChainInv, Blocks
<1>3. JobsInv
  BY <1>1 DEF JobsInv
<1>4. OwnTypes
  <2>1. heads \in [Peer -> Blocks]
    BY BlockAssumption DEF Blocks
  <2>2. theirs \in [Peer -> [head : Blocks, insync : BOOLEAN, connects : Nat, lost : SUBSET Block]]
    BY <1>0, <2>1
  <2> QED BY <1>1, <2>2 DEF OwnTypes
<1>5. ASSUME NEW p \in Peer PROVE Tracked(peer[p], chain.known, AtDelegate) /\ peer[p].sync = {}
  <2>1. Tracked(Connected(p, chain), chain.known, AtDelegate) /\ Connected(p, chain).sync = {}
    BY <1>2, ChainIsOk, ConnectedFacts
  <2>2. Tracked(Closed, chain.known, AtDelegate) /\ Closed.sync = {}
    BY ClosedFacts
  <2> QED BY <1>0, <2>1, <2>2
<1>6. PeersInv
  <2>1. \A p \in Peer : peer[p] \in Connection
    BY <1>5 DEF Tracked
  <2>2. peer \in [Peer -> Connection]
    BY <1>0, <2>1
  <2> QED BY <1>5, <2>2 DEF PeersInv
<1>7. RequestsInv
  <2>1. \A p \in Peer : theirs[p].lost = {}
    BY <1>0
  <2>2. UNION {theirs[p].lost : p \in Peer} = {} /\ Orphans = {}
    BY <1>1, <2>1 DEF Orphans
  <2> QED BY <1>1, <1>5, <2>2 DEF RequestsInv, RequestedOnce, RequestsOwned
<1> QED BY <1>2, <1>3, <1>4, <1>6, <1>7 DEF IndInv

\* Nothing happens.
LEMMA StutterInv == IndInv /\ UNCHANGED vars => IndInv'
<1> SUFFICES ASSUME IndInv, UNCHANGED vars PROVE IndInv'
  OBVIOUS
<1>1. /\ UNCHANGED <<chain, accepted, peer, theirs, active, received, fresh, jobs, toFetch, processed,
                     news, flags>>
  BY DEF vars
<1>2. AtDelegate' = AtDelegate
  BY <1>1 DEF AtDelegate
<1>3. ChainInv' /\ JobsInv' /\ OwnTypes' /\ PeersInv'
  BY <1>1, <1>2 DEF IndInv, ChainInv, JobsInv, OwnTypes, PeersInv
<1>4. RequestsInv'
  BY <1>1, SameRequests DEF IndInv
<1> QED BY <1>3, <1>4 DEF IndInv

\* Every step keeps the invariant.
LEMMA NextInv == IndInv /\ [Next]_vars => IndInv'
<1> SUFFICES ASSUME IndInv, [Next]_vars PROVE IndInv'
  OBVIOUS
<1>1. CASE UNCHANGED vars
  BY <1>1, StutterInv
<1>2. CASE BacklogTurn
  BY <1>2, BacklogTurnInv
<1>3. ASSUME NEW order \in Orders, FetchSyncItems(order) PROVE IndInv'
  BY <1>3, FetchSyncItemsInv
<1>4. CASE ProcessBacklog
  BY <1>4, ProcessBacklogInv
<1>5. CASE DelegateHandles
  BY <1>5, DelegateHandlesInv
<1>6. CASE SyncBlockHandled
  BY <1>6, SyncBlockHandledInv
<1>7. CASE NormalBlockHandled
  BY <1>7, NormalBlockHandledInv
<1>8. CASE FetchItems
  BY <1>8, FetchItemsInv
<1>9. ASSUME NEW p \in Peer, OnItemIds(p) \/ OnBlock(p) \/ OnItemNotAvailable(p) PROVE IndInv'
  BY <1>9, OnItemIdsInv, OnBlockInv, OnItemNotAvailableInv
<1>10. ASSUME NEW p \in Peer, OnInventory(p) \/ OnFetchItemIds(p) PROVE IndInv'
  BY <1>10, OnInventoryInv, OnFetchItemIdsInv
<1>11. ASSUME NEW p \in Peer, Connect(p) \/ OnConnectionClosed(p) PROVE IndInv'
  BY <1>11, ConnectInv, OnConnectionClosedInv
<1>12. ASSUME NEW p \in Peer, RequestTimeout(p) \/ ClosingTimeout(p) PROVE IndInv'
  BY <1>12, TimeoutsInv
<1>13. ASSUME NEW p \in Peer, NEW b \in Block, PeerAdvances(p, b) PROVE IndInv'
  BY <1>13, PeerAdvancesInv
<1> QED BY <1>1, <1>2, <1>3, <1>4, <1>5, <1>6, <1>7, <1>8, <1>9, <1>10, <1>11, <1>12, <1>13 DEF Next

\* The inductive invariant holds in every state, for any number of peers, any
\* tree of blocks and any limits: the peer_connection records, the backlog
\* and the jobs of the delegate agree about which block is where.
THEOREM IndInvHolds == Spec => []IndInv
<1>1. Init => IndInv
  BY InitInv
<1>2. IndInv /\ [Next]_vars => IndInv'
  BY NextInv
<1> QED BY <1>1, <1>2, PTL DEF Spec

\* The invariant contains the types.
LEMMA TypesHold == IndInv => TypeOK
<1> SUFFICES ASSUME IndInv PROVE TypeOK
  OBVIOUS
<1>1. OwnTypes /\ ChainInv /\ PeersInv
  BY DEF IndInv
<1>2. ASSUME NEW p \in Peer PROVE PeerRecord(peer[p]) /\ theirs[p].head \in Block \cup {Nil}
  <2>1. peer[p] \in Connection /\ theirs[p].head \in Blocks
    BY <1>1 DEF PeersInv, OwnTypes
  <2>2. Range(peer[p].toGet) \subseteq Block
    <3>1. peer[p].toGet \in Seq(Block)
      BY <2>1 DEF Connection
    <3> QED BY <3>1 DEF Range
  <2> QED BY <2>1, <2>2 DEF PeerRecord, Connection, Blocks
<1>3. chain.head \in chain.known /\ chain.known \subseteq Block \cup {Nil}
  BY <1>1 DEF ChainInv, Blocks
<1>4. active \cup toFetch \cup processed \cup news \subseteq Block
  BY <1>1 DEF OwnTypes
<1>5. Range(received) \cup Range(fresh) \subseteq Block
  BY <1>1 DEF OwnTypes, Range
<1> QED BY <1>2, <1>3, <1>4, <1>5 DEF TypeOK

\* A block is asked for through the sync mechanism from one peer at a time
\* and never again while it waits in the backlog; what is in
\* _active_sync_requests is the request of a peer whose closing gives it back,
\* or what a peer refused, all of which stays there (fetch_sync_items_loop,
\* on_connection_closed, on_item_not_available_message).
THEOREM RequestsSoundHolds == Spec => []RequestsSound
<1>1. IndInv => RequestsSound
  BY TypesHold DEF IndInv, RequestsInv, RequestsSound
<1> QED BY <1>1, IndInvHolds, PTL

\* The list of a peer is a part of one branch, and the block that the next
\* synopsis starts from is one of the chain or on its way there
\* (on_blockchain_item_ids_inventory_message).
THEOREM ListsSoundHolds == Spec => []ListsSound
<1>1. IndInv => ListsSound
  <2> SUFFICES ASSUME IndInv PROVE ListsSound
    OBVIOUS
  <2>1. \A p \in Peer : Tracked(peer[p], chain.known, AtDelegate)
    BY DEF IndInv, PeersInv
  <2>2. ListsAreBranches
    BY <2>1 DEF ListsAreBranches, Tracked, IsBranch
  <2>3. SeenIsHandled
    BY <2>1 DEF SeenIsHandled, Tracked, Active
  <2> QED BY <2>2, <2>3 DEF ListsSound
<1> QED BY <1>1, IndInvHolds, PTL
=============================================================================
