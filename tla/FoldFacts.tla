----------------------------- MODULE FoldFacts -----------------------------
(***************************************************************************)
(* Least and largest elements of sets of naturals, induction over numbers  *)
(* and over finite sets in a form without an operator parameter, and what  *)
(* FoldLeft and FoldSet compute, for an operator op that is a parameter of *)
(* the module: a fold is the last of a row of values, each made from the   *)
(* one before and the next element.  The first argument of op is a context *)
(* that does not change during the fold.                                   *)
(***************************************************************************)
EXTENDS Integers, Sequences, SequencesExt, FiniteSetsExt, FiniteSetTheorems, TLAPS,
        WellFoundedInduction

CONSTANT op(_, _, _)

-----------------------------------------------------------------------------
(* Numbers and finite sets.                                                *)

\* A non-empty set of naturals has a least element: induction over the
\* naturals in a form without an operator parameter.
LEMMA SmallestOf ==
  ASSUME NEW T, T \subseteq Nat, T # {}
  PROVE  \E x \in T : \A y \in T : x <= y
<1> DEFINE R == {ss \in Nat \X Nat : ss[1] < ss[2]}
<1>1. IsWellFoundedOn(R, Nat)
  BY NatLessThanWellFounded, Zenon DEF OpToRel
<1>3. \A x \in Nat : \A y \in Nat : y < x => <<y, x>> \in R
  OBVIOUS
<1> HIDE DEF R
<1>2. \E x \in T : \A y \in T : ~(<<y, x>> \in R)
  BY <1>1, WFMin, Zenon
<1>4. PICK x \in T : \A y \in T : ~(<<y, x>> \in R)
  BY <1>2
<1>5. ASSUME NEW y \in T PROVE x <= y
  <2>1. x \in Nat /\ y \in Nat /\ ~(y < x)
     BY <1>3, <1>4
  <2> QED BY <2>1 
<1> QED BY <1>5

\* A non-empty bounded set of naturals has a largest element.
LEMMA LargestOf ==
  ASSUME NEW T, T \subseteq Nat, T # {}, NEW k \in Nat, \A y \in T : y <= k
  PROVE  \E x \in T : \A y \in T : y <= x
<1> DEFINE D == {n \in Nat : k - n \in T}
<1>1. D \subseteq Nat /\ D # {}
  <2>1. PICK y \in T : TRUE
    OBVIOUS
  <2>2. k - y \in D
    <3>1. y \in Nat /\ y <= k /\ k - y \in Nat /\ k - (k - y) = y
      OBVIOUS
    <3> QED BY <3>1
  <2> QED BY <2>2
<1>2. PICK n \in D : \A m \in D : n <= m
  BY <1>1, SmallestOf
<1>3. ASSUME NEW y \in T PROVE y <= k - n
  <2>1. y \in Nat /\ y <= k /\ k - y \in Nat /\ k - (k - y) = y
    OBVIOUS
  <2>2. k - y \in D
    BY <2>1
  <2>3. n <= k - y /\ n \in Nat
    BY <2>2, <1>2
  <2> QED BY <2>1, <2>3
<1>4. k - n \in T
  BY <1>2
<1> QED BY <1>3, <1>4

\* Induction up to n, with a set for the predicate.
LEMMA UpTo ==
  ASSUME NEW n \in Nat, NEW G, 0 \in G, \A k \in 1..n : k - 1 \in G => k \in G
  PROVE  \A k \in 0..n : k \in G
<1> DEFINE Bad == {k \in 0..n : k \notin G}
<1>1. ASSUME Bad # {} PROVE FALSE
  <2>1. Bad \subseteq Nat
    OBVIOUS
  <2>2. PICK k \in Bad : \A i \in Bad : k <= i
    <3> HIDE DEF Bad
    <3> QED BY <1>1, <2>1, SmallestOf
  <2>3. k \in 0..n /\ k # 0 /\ k \notin G
    BY <2>2
  <2>4. k \in 1..n /\ k - 1 \in 0..n /\ k - 1 \in G
    BY <2>2, <2>3
  <2> QED BY <2>3, <2>4
<1> QED BY <1>1

\* Induction over the subsets of a finite set, with a set for the predicate.
LEMMA SetInduction ==
  ASSUME NEW S, IsFiniteSet(S), NEW G,
         \A T \in SUBSET S : (\A x \in T : T \ {x} \in G) => T \in G
  PROVE  \A T \in SUBSET S : T \in G
<1> DEFINE Bad == {T \in SUBSET S : T \notin G}
           Sizes == {Cardinality(T) : T \in Bad}
<1>1. ASSUME NEW T \in SUBSET S
      PROVE  IsFiniteSet(T) /\ Cardinality(T) \in Nat
  BY FS_Subset, FS_CardinalityType
<1>2. ASSUME Bad # {} PROVE FALSE
  <2>1. Sizes \subseteq Nat /\ Sizes # {}
    BY <1>1, <1>2
  <2>2. PICK n \in Sizes : \A m \in Sizes : n <= m
    <3> HIDE DEF Sizes
    <3> QED BY <2>1, SmallestOf
  <2>3. PICK T \in Bad : n = Cardinality(T)
    BY <2>2
  <2>4. PICK x \in T : T \ {x} \notin G
    BY <2>3
  <2>5. T \in SUBSET S /\ T \ {x} \in SUBSET S
    BY <2>3
  <2>6. T \ {x} \in Bad
    BY <2>4, <2>5
  <2>7. Cardinality(T \ {x}) = Cardinality(T) - 1
    BY <1>1, <2>4, <2>5, FS_RemoveElement
  <2>8. n <= Cardinality(T \ {x}) /\ Cardinality(T) \in Nat
    BY <1>1, <2>2, <2>5, <2>6
  <2> QED BY <2>3, <2>7, <2>8
<1> QED BY <1>2

-----------------------------------------------------------------------------
(* Folds over sequences.                                                   *)

Fold(c, base, seq) == FoldLeft(LAMBDA a, e : op(c, a, e), base, seq)

\* The function that the definition of MapThenFoldSet chooses, on the subsets
\* of 1..k.
Solves(c, base, seq, k, it) ==
    it = [s \in SUBSET (1..k) |-> IF s = {} THEN base
                                  ELSE op(c, it[s \ {Max(s)}], seq[Max(s)])]

\* FoldLeft is defined as the value of that function at 1..n.
LEMMA FoldIsSolution ==
  ASSUME NEW c, NEW base, NEW seq, NEW n, DOMAIN seq = 1..n
  PROVE  Fold(c, base, seq) = (CHOOSE it : Solves(c, base, seq, n, it))[1..n]
BY DEF Fold, FoldLeft, MapThenFoldSet, Solves

\* The maximum of a set of numbers up to k is its largest element.
LEMMA MaxOfNumbers ==
  ASSUME NEW k \in Nat, NEW s \in SUBSET (1..k), s # {}
  PROVE  Max(s) \in s /\ \A y \in s : y <= Max(s)
<1>1. s \subseteq Nat /\ \A y \in s : y <= k
  OBVIOUS
<1>2. \E x \in s : \A y \in s : y <= x
  BY <1>1, LargestOf
<1> QED BY <1>2 DEF Max

\* The maximum of 1..k is k.
LEMMA MaxOfRow == ASSUME NEW k \in Nat \ {0} PROVE Max(1..k) = k
<1>0. k \in Nat /\ 1..k \in SUBSET (1..k) /\ k \in 1..k
  OBVIOUS
<1>1. Max(1..k) \in 1..k /\ \A y \in 1..k : y <= Max(1..k)
  BY <1>0, MaxOfNumbers
<1> QED BY <1>0, <1>1

\* There is such a function, for every k.
LEMMA SolutionExists ==
  ASSUME NEW c, NEW base, NEW seq, NEW n \in Nat
  PROVE  \E it : Solves(c, base, seq, n, it)
<1> DEFINE Bad == {j \in Nat : ~\E it : Solves(c, base, seq, j, it)}
<1>1. ASSUME Bad # {} PROVE FALSE
  <2>0. Bad \subseteq Nat
    OBVIOUS
  <2>1. PICK j \in Bad : \A i \in Bad : j <= i
    <3> HIDE DEF Bad
    <3> QED BY <1>1, <2>0, SmallestOf
  <2>2. j # 0
    <3> DEFINE it == [s \in SUBSET (1..0) |-> base]
    <3>1. \A s \in SUBSET (1..0) : s = {}
      OBVIOUS
    <3>2. Solves(c, base, seq, 0, it)
      BY <3>1 DEF Solves
    <3> QED BY <3>2
  <2>3. j - 1 \in Nat /\ j - 1 \notin Bad
    BY <2>1, <2>2
  <2>4. PICK g : Solves(c, base, seq, j - 1, g)
    BY <2>3
  <2> DEFINE next(s) == IF s = {} THEN base ELSE op(c, g[s \ {Max(s)}], seq[Max(s)])
             it == [s \in SUBSET (1..j) |-> next(s)]
  <2>5. ASSUME NEW s \in SUBSET (1..j), s # {} PROVE s \ {Max(s)} \in SUBSET (1..(j - 1))
    <3>1. Max(s) \in s /\ \A y \in s : y <= Max(s)
      BY <2>5, MaxOfNumbers
    <3>2. ASSUME NEW y \in s \ {Max(s)} PROVE y \in 1..(j - 1)
      <4>1. y \in 1..j /\ Max(s) \in 1..j /\ y <= Max(s) /\ y # Max(s)
        BY <3>1
      <4> QED BY <4>1
    <3> QED BY <3>2
  <2>6. ASSUME NEW u \in SUBSET (1..(j - 1)) PROVE it[u] = g[u]
    <3>1. u \in SUBSET (1..j)
      BY <2>3
    <3>2. g[u] = next(u)
      BY <2>4 DEF Solves
    <3> QED BY <3>1, <3>2
  <2>7. ASSUME NEW s \in SUBSET (1..j)
        PROVE  it[s] = IF s = {} THEN base ELSE op(c, it[s \ {Max(s)}], seq[Max(s)])
    <3>1. CASE s = {}
      BY <3>1
    <3>2. CASE s # {}
      <4>1. it[s \ {Max(s)}] = g[s \ {Max(s)}]
        BY <2>5, <2>6, <3>2
      <4>2. it[s] = op(c, g[s \ {Max(s)}], seq[Max(s)])
        BY <3>2
      <4> HIDE DEF it
      <4> QED BY <3>2, <4>1, <4>2
    <3> QED BY <3>1, <3>2
  <2>8. it = [s \in SUBSET (1..j) |-> it[s]]
    OBVIOUS
  <2>9. Solves(c, base, seq, j, it)
    <3> HIDE DEF it
    <3> QED BY <2>7, <2>8 DEF Solves
  <2> QED BY <2>1, <2>9
<1> QED BY <1>1

\* A fold is the last value of a row that starts with base.
THEOREM FoldRow ==
  ASSUME NEW c, NEW base, NEW S, NEW seq \in Seq(S)
  PROVE  \E row : /\ DOMAIN row = 0..Len(seq)
                  /\ row[0] = base
                  /\ \A k \in 1..Len(seq) : row[k] = op(c, row[k - 1], seq[k])
                  /\ row[Len(seq)] = Fold(c, base, seq)
<1> DEFINE n == Len(seq)
           it == CHOOSE g : Solves(c, base, seq, n, g)
           row == [k \in 0..n |-> it[1..k]]
<1>1. n \in Nat /\ DOMAIN seq = 1..n
  OBVIOUS
<1>2. Solves(c, base, seq, n, it)
  BY <1>1, SolutionExists
<1> HIDE DEF it
<1>3. row[0] = base
  <2>1. 1..0 \in SUBSET (1..n) /\ 1..0 = {}
    BY <1>1
  <2>2. it[1..0] = base
    BY <1>2, <2>1 DEF Solves
  <2> QED BY <1>1, <2>2
<1>4. ASSUME NEW k \in 1..n PROVE row[k] = op(c, row[k - 1], seq[k])
  <2>0. k \in Nat \ {0} /\ k \in 1..k
    BY <1>1
  <2>1. Max(1..k) = k /\ 1..k \in SUBSET (1..n) /\ 1..k # {} /\ (1..k) \ {k} = 1..(k - 1)
    <3>1. Max(1..k) = k
      BY <2>0, MaxOfRow
    <3>2. 1..k \in SUBSET (1..n) /\ (1..k) \ {k} = 1..(k - 1)
      BY <1>1, <2>0
    <3> QED BY <2>0, <3>1, <3>2
  <2>2. it[1..k] = op(c, it[1..(k - 1)], seq[k])
    BY <1>2, <2>1 DEF Solves
  <2>3. k \in 0..n /\ k - 1 \in 0..n
    BY <1>1
  <2> QED BY <2>2, <2>3
<1>5. row[n] = Fold(c, base, seq)
  <2>1. Fold(c, base, seq) = it[1..n]
    BY <1>1, FoldIsSolution DEF it
  <2> QED BY <1>1, <2>1
<1>6. DOMAIN row = 0..n
  OBVIOUS
<1> QED BY <1>3, <1>4, <1>5, <1>6

\* The fold of no element is its base.
LEMMA FoldEmpty ==
  ASSUME NEW c, NEW base
  PROVE  Fold(c, base, << >>) = base
<1>1. ASSUME NEW S, NEW seq \in Seq(S), Len(seq) = 0 PROVE Fold(c, base, seq) = base
  <2>1. \E row : /\ row[0] = base
                 /\ \A k \in 1..Len(seq) : row[k] = op(c, row[k - 1], seq[k])
                 /\ row[Len(seq)] = Fold(c, base, seq)
    BY FoldRow
  <2> QED BY <1>1, <2>1
<1>2. << >> \in Seq({}) /\ Len(<< >>) = 0
  OBVIOUS
<1> QED BY <1>1, <1>2

\* Induction along a fold, with a set of values B[k] for each k: if every
\* element leads from one to the next, the fold ends in the last.
THEOREM FoldAlong ==
  ASSUME NEW c, NEW base, NEW S, NEW seq \in Seq(S), NEW B, base \in B[0],
         \A k \in 1..Len(seq) : \A a \in B[k - 1] : op(c, a, seq[k]) \in B[k]
  PROVE  Fold(c, base, seq) \in B[Len(seq)]
<1>1. PICK row : /\ row[0] = base
                 /\ \A k \in 1..Len(seq) : row[k] = op(c, row[k - 1], seq[k])
                 /\ row[Len(seq)] = Fold(c, base, seq)
  BY FoldRow
<1> DEFINE G == {k \in 0..Len(seq) : row[k] \in B[k]}
<1>2. Len(seq) \in Nat /\ 0 \in G
  BY <1>1
<1>3. ASSUME NEW k \in 1..Len(seq), k - 1 \in G PROVE k \in G
  <2>1. row[k - 1] \in B[k - 1] /\ k \in 0..Len(seq)
    BY <1>2, <1>3
  <2> QED BY <1>1, <2>1
<1>4. \A k \in 0..Len(seq) : k \in G
  <2> HIDE DEF G
  <2> QED BY <1>2, <1>3, UpTo
<1> QED BY <1>1, <1>2, <1>4

\* What holds at the start and is kept by every element holds at the end.
THEOREM FoldKeeps ==
  ASSUME NEW c, NEW A, NEW base \in A, NEW S, NEW seq \in Seq(S),
         \A a \in A, e \in S : op(c, a, e) \in A
  PROVE  Fold(c, base, seq) \in A
<1> DEFINE B == [k \in 0..Len(seq) |-> A]
<1>1. Len(seq) \in Nat /\ base \in B[0] /\ B[Len(seq)] = A
  OBVIOUS
<1>2. ASSUME NEW k \in 1..Len(seq), NEW a \in B[k - 1] PROVE op(c, a, seq[k]) \in B[k]
  <2>1. seq[k] \in S /\ B[k - 1] = A /\ B[k] = A
    BY <1>1
  <2> QED BY <1>2, <2>1
<1>3. Fold(c, base, seq) \in B[Len(seq)]
  <2> HIDE DEF B
  <2> QED BY <1>1, <1>2, FoldAlong
<1> QED BY <1>1, <1>3

\* A fold does not depend on the context where no step of it does.
LEMMA FoldOfContext ==
  ASSUME NEW c, NEW d, NEW base, NEW S, NEW seq \in Seq(S),
         \A k \in 1..Len(seq) : \A a : op(c, a, seq[k]) = op(d, a, seq[k])
  PROVE  Fold(c, base, seq) = Fold(d, base, seq)
<1>1. PICK r : /\ r[0] = base
               /\ \A k \in 1..Len(seq) : r[k] = op(c, r[k - 1], seq[k])
               /\ r[Len(seq)] = Fold(c, base, seq)
  BY FoldRow
<1>2. PICK q : /\ q[0] = base
               /\ \A k \in 1..Len(seq) : q[k] = op(d, q[k - 1], seq[k])
               /\ q[Len(seq)] = Fold(d, base, seq)
  BY FoldRow
<1> DEFINE G == {k \in 0..Len(seq) : r[k] = q[k]}
<1>3. Len(seq) \in Nat /\ 0 \in G
  BY <1>1, <1>2
<1>4. ASSUME NEW k \in 1..Len(seq), k - 1 \in G PROVE k \in G
  <2>1. k \in 0..Len(seq) /\ r[k - 1] = q[k - 1]
    BY <1>3, <1>4
  <2> QED BY <1>1, <1>2, <2>1
<1>5. \A k \in 0..Len(seq) : k \in G
  <2> HIDE DEF G
  <2> QED BY <1>3, <1>4, UpTo
<1> QED BY <1>1, <1>2, <1>3, <1>5

\* One more element is one more step.
THEOREM FoldAppend ==
  ASSUME NEW c, NEW base, NEW S, NEW seq \in Seq(S), NEW e \in S
  PROVE  Fold(c, base, Append(seq, e)) = op(c, Fold(c, base, seq), e)
<1> DEFINE t == Append(seq, e)
           n == Len(seq)
<1>1. /\ t \in Seq(S) /\ Len(t) = n + 1 /\ n \in Nat /\ t[n + 1] = e
      /\ \A k \in 1..n : t[k] = seq[k]
  OBVIOUS
<1>2. PICK r : /\ r[0] = base
               /\ \A k \in 1..n : r[k] = op(c, r[k - 1], seq[k])
               /\ r[n] = Fold(c, base, seq)
  BY FoldRow
<1>3. PICK q : /\ q[0] = base
               /\ \A k \in 1..Len(t) : q[k] = op(c, q[k - 1], t[k])
               /\ q[Len(t)] = Fold(c, base, t)
  <2>1. t \in Seq(S)
    BY <1>1
  <2> HIDE DEF t
  <2> QED BY <2>1, FoldRow
<1> HIDE DEF t
<1> DEFINE G == {k \in 0..n : r[k] = q[k]}
<1>4. \A k \in 0..n : k \in G
  <2>1. 0 \in G
    BY <1>1, <1>2, <1>3
  <2>2. ASSUME NEW k \in 1..n, k - 1 \in G PROVE k \in G
    <3>1. k \in 1..(n + 1) /\ k \in 0..n /\ r[k - 1] = q[k - 1]
      BY <1>1, <2>2
    <3> QED BY <1>1, <1>2, <1>3, <3>1
  <2>3. n \in Nat
    BY <1>1
  <2> HIDE DEF G, n
  <2> QED BY <2>1, <2>2, <2>3, UpTo
<1>5. r[n] = q[n] /\ Len(t) \in 1..Len(t) /\ Len(t) - 1 = n /\ t[Len(t)] = e
  BY <1>1, <1>4
<1>6. q[Len(t)] = op(c, q[Len(t) - 1], t[Len(t)])
  BY <1>3, <1>5
<1>7. Fold(c, base, t) = op(c, r[n], e)
  BY <1>3, <1>5, <1>6
<1> QED BY <1>2, <1>7 DEF t

-----------------------------------------------------------------------------
(* Folds over finite sets.                                                 *)

FoldOver(c, base, S) == FoldSet(LAMBDA x, a : op(c, a, x), base, S)
First(s) == CHOOSE x \in s : TRUE

\* The function that the definition of MapThenFoldSet chooses, on the subsets
\* of S.
SolvesOver(c, base, S, it) ==
    it = [s \in SUBSET S |-> IF s = {} THEN base
                             ELSE op(c, it[s \ {First(s)}], First(s))]

LEMMA FoldOverIsSolution ==
  ASSUME NEW c, NEW base, NEW S
  PROVE  FoldOver(c, base, S) = (CHOOSE it : SolvesOver(c, base, S, it))[S]
BY DEF FoldOver, FoldSet, MapThenFoldSet, SolvesOver, First

LEMMA FirstIn == ASSUME NEW s, s # {} PROVE First(s) \in s
BY DEF First

\* Two solutions agree wherever both are defined.
LEMMA SolutionsAgree ==
  ASSUME NEW c, NEW base, NEW S, NEW T, IsFiniteSet(T), T \subseteq S, NEW f, NEW g,
         SolvesOver(c, base, S, f), SolvesOver(c, base, T, g)
  PROVE  \A u \in SUBSET T : f[u] = g[u]
<1> DEFINE G == {u \in SUBSET T : f[u] = g[u]}
<1>1. ASSUME NEW u \in SUBSET T
      PROVE  /\ f[u] = IF u = {} THEN base ELSE op(c, f[u \ {First(u)}], First(u))
             /\ g[u] = IF u = {} THEN base ELSE op(c, g[u \ {First(u)}], First(u))
  <2>1. u \in SUBSET S
    OBVIOUS
  <2> QED BY <2>1 DEF SolvesOver
<1>2. ASSUME NEW u \in SUBSET T, \A x \in u : u \ {x} \in G PROVE u \in G
  <2>1. CASE u = {}
    BY <1>1, <2>1
  <2>2. CASE u # {}
    BY <1>1, <1>2, <2>2, FirstIn
  <2> QED BY <2>1, <2>2
<1>3. \A u \in SUBSET T : u \in G
  <2> HIDE DEF G
  <2> QED BY <1>2, SetInduction
<1> QED BY <1>3

\* A solution for a set, restricted, is one for its subsets.
LEMMA SolutionRestricts ==
  ASSUME NEW c, NEW base, NEW S, NEW T, T \subseteq S, NEW f, SolvesOver(c, base, S, f)
  PROVE  \E g : SolvesOver(c, base, T, g)
<1> DEFINE g == [s \in SUBSET T |-> f[s]]
<1>1. ASSUME NEW s \in SUBSET T
      PROVE  g[s] = IF s = {} THEN base ELSE op(c, g[s \ {First(s)}], First(s))
  <2>1. f[s] = IF s = {} THEN base ELSE op(c, f[s \ {First(s)}], First(s))
    <3>1. s \in SUBSET S
      OBVIOUS
    <3> QED BY <3>1 DEF SolvesOver
  <2>2. g[s] = f[s] /\ g[s \ {First(s)}] = f[s \ {First(s)}]
    OBVIOUS
  <2> HIDE DEF g
  <2> QED BY <2>1, <2>2
<1>2. g = [s \in SUBSET T |-> g[s]]
  OBVIOUS
<1>3. SolvesOver(c, base, T, g)
  <2> HIDE DEF g
  <2> QED BY <1>1, <1>2 DEF SolvesOver
<1> QED BY <1>3

\* There is a solution for every finite set.
LEMMA SolutionOverExists ==
  ASSUME NEW c, NEW base, NEW S, IsFiniteSet(S)
  PROVE  \E it : SolvesOver(c, base, S, it)
<1> DEFINE G == {T \in SUBSET S : \E it : SolvesOver(c, base, T, it)}
           sol(T) == CHOOSE it : SolvesOver(c, base, T, it)
           val(T) == sol(T)[T]
<1>1. ASSUME NEW T \in SUBSET S, \A x \in T : T \ {x} \in G
      PROVE  T \in G
  <2> DEFINE next(s) == IF s = {} THEN base ELSE op(c, val(s \ {First(s)}), First(s))
             it == [s \in SUBSET T |-> next(s)]
  <2>1. ASSUME NEW x \in T PROVE SolvesOver(c, base, T \ {x}, sol(T \ {x}))
    BY <1>1
  <2>2. ASSUME NEW s \in SUBSET T, s # T
        PROVE  /\ IsFiniteSet(s)
               /\ \E x \in T : s \subseteq T \ {x}
               /\ SolvesOver(c, base, s, sol(s))
    <3>1. PICK x \in T : x \notin s
      BY <2>2
    <3>2. s \subseteq T \ {x}
      BY <3>1
    <3>3. \E g : SolvesOver(c, base, s, g)
      BY <2>1, <3>2, SolutionRestricts
    <3>4. IsFiniteSet(s)
      BY FS_Subset
    <3> HIDE DEF sol
    <3>5. SolvesOver(c, base, s, sol(s))
      BY <3>3 DEF sol
    <3> QED BY <3>1, <3>2, <3>4, <3>5
  <2>3. ASSUME NEW s \in SUBSET T, s # T PROVE it[s] = val(s)
    <3>1. CASE s = {}
      <4>1. sol(s)[s] = base
        <5>1. SolvesOver(c, base, s, sol(s)) /\ s \in SUBSET s
          BY <2>2, <2>3
        <5> HIDE DEF sol
        <5> QED BY <3>1, <5>1 DEF SolvesOver
      <4> QED BY <3>1, <4>1
    <3>2. CASE s # {}
      <4> DEFINE u == s \ {First(s)}
      <4>1. First(s) \in s /\ u \in SUBSET T /\ u # T /\ u \subseteq s
        BY <3>2, FirstIn
      <4>2. sol(s)[s] = op(c, sol(s)[u], First(s))
        <5>1. SolvesOver(c, base, s, sol(s)) /\ s \in SUBSET s
          BY <2>2, <2>3
        <5> HIDE DEF sol
        <5> QED BY <3>2, <5>1 DEF SolvesOver
      <4>3. sol(s)[u] = sol(u)[u]
        <5>1. SolvesOver(c, base, s, sol(s)) /\ SolvesOver(c, base, u, sol(u)) /\ IsFiniteSet(u)
          BY <2>2, <2>3, <4>1
        <5> HIDE DEF sol, u
        <5> QED BY <4>1, <5>1, SolutionsAgree
      <4>4. it[s] = op(c, val(u), First(s))
        BY <3>2
      <4> QED BY <4>2, <4>3, <4>4
    <3> QED BY <3>1, <3>2
  <2>4. ASSUME NEW s \in SUBSET T
        PROVE  it[s] = IF s = {} THEN base ELSE op(c, it[s \ {First(s)}], First(s))
    <3>1. CASE s = {}
      BY <3>1
    <3>2. CASE s # {}
      <4>1. s \ {First(s)} \in SUBSET T /\ s \ {First(s)} # T
        BY <3>2, FirstIn
      <4>2. it[s \ {First(s)}] = val(s \ {First(s)})
        BY <2>3, <4>1
      <4>3. it[s] = op(c, val(s \ {First(s)}), First(s))
        BY <3>2
      <4> HIDE DEF it
      <4> QED BY <3>2, <4>2, <4>3
    <3> QED BY <3>1, <3>2
  <2>5. it = [s \in SUBSET T |-> it[s]]
    OBVIOUS
  <2>6. SolvesOver(c, base, T, it)
    <3> HIDE DEF it
    <3> QED BY <2>4, <2>5 DEF SolvesOver
  <2> QED BY <2>6
<1>2. \A T \in SUBSET S : T \in G
  <2> HIDE DEF G
  <2> QED BY <1>1, SetInduction
<1> QED BY <1>2

\* The fold over a set is the step for its first element after the fold over
\* the others.
THEOREM FoldOverStep ==
  ASSUME NEW c, NEW base, NEW S, IsFiniteSet(S)
  PROVE  FoldOver(c, base, S) = IF S = {} THEN base
                                ELSE op(c, FoldOver(c, base, S \ {First(S)}), First(S))
<1> DEFINE sol(T) == CHOOSE it : SolvesOver(c, base, T, it)
<1>1. ASSUME NEW T \in SUBSET S
      PROVE  IsFiniteSet(T) /\ SolvesOver(c, base, T, sol(T)) /\ FoldOver(c, base, T) = sol(T)[T]
  <2>1. IsFiniteSet(T)
    BY FS_Subset
  <2>2. \E it : SolvesOver(c, base, T, it)
    BY <2>1, SolutionOverExists
  <2>3. FoldOver(c, base, T) = sol(T)[T]
    BY FoldOverIsSolution
  <2> QED BY <2>1, <2>2, <2>3
<1> HIDE DEF sol
<1>2. CASE S = {}
  BY <1>1, <1>2 DEF SolvesOver
<1>3. CASE S # {}
  <2> DEFINE u == S \ {First(S)}
  <2>1. u \in SUBSET S /\ S \in SUBSET S
    OBVIOUS
  <2>2. sol(S)[S] = op(c, sol(S)[u], First(S))
    BY <1>1, <1>3, <2>1 DEF SolvesOver
  <2>3. sol(S)[u] = sol(u)[u]
    <3> HIDE DEF u
    <3> QED BY <1>1, <2>1, SolutionsAgree
  <2> QED BY <1>1, <1>3, <2>1, <2>2, <2>3
<1> QED BY <1>2, <1>3

\* Induction along a fold over a set, with a set of values B[T] for each
\* subset T of it.
THEOREM FoldOverKeeps ==
  ASSUME NEW c, NEW base, NEW S, IsFiniteSet(S), NEW B, base \in B[{}],
         \A T \in SUBSET S : \A x \in T : \A a \in B[T \ {x}] : op(c, a, x) \in B[T]
  PROVE  FoldOver(c, base, S) \in B[S]
<1> DEFINE G == {T \in SUBSET S : FoldOver(c, base, T) \in B[T]}
<1>1. ASSUME NEW T \in SUBSET S, \A x \in T : T \ {x} \in G
      PROVE  T \in G
  <2>1. IsFiniteSet(T)
    BY FS_Subset
  <2>2. FoldOver(c, base, T) = IF T = {} THEN base
                               ELSE op(c, FoldOver(c, base, T \ {First(T)}), First(T))
    BY <2>1, FoldOverStep
  <2>3. CASE T = {}
    BY <2>2, <2>3
  <2>4. CASE T # {}
    <3>1. First(T) \in T /\ T \ {First(T)} \in G
      BY <1>1, <2>4, FirstIn
    <3>2. FoldOver(c, base, T \ {First(T)}) \in B[T \ {First(T)}]
      BY <3>1
    <3> QED BY <2>2, <2>4, <3>1, <3>2
  <2> QED BY <2>3, <2>4
<1>2. \A T \in SUBSET S : T \in G
  <2> HIDE DEF G
  <2> QED BY <1>1, SetInduction
<1> QED BY <1>2
=============================================================================
