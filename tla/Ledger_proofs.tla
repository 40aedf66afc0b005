--------------------------- MODULE Ledger_proofs ---------------------------
(***************************************************************************)
(* Proofs about Ledger, for any accounts, assets, prices and operations:   *)
(* the supplies of STEEM and SBD are always what all the places that hold  *)
(* them add up to, every request is counted and served in time, and the    *)
(* book of orders agrees with the balances and depths and is not crossed,  *)
(* and a seller whose order waits in it gets its price.                    *)
(***************************************************************************)
EXTENDS Ledger, TLAPS, FiniteSetTheorems

-----------------------------------------------------------------------------
(* Sums over finite sets                                                   *)

SumStep(f, a, x) == f[x] + a
Sums == INSTANCE FoldFacts WITH op <- SumStep

\* A sum is a fold over its indices.
LEMMA SumIsFold ==
  ASSUME NEW f, NEW D
  PROVE  SumFunctionOnSet(f, D) = Sums!FoldOver(f, 0, D)
BY DEF SumFunctionOnSet, FoldFunctionOnSet, MapThenFoldSet, Sums!FoldOver, Sums!FoldSet,
       Sums!MapThenFoldSet, SumStep

\* Finite is the same here and there.
LEMMA FiniteForSum == ASSUME NEW D, IsFiniteSet(D) PROVE Sums!IsFiniteSet(D)
BY DEF IsFiniteSet, Sums!IsFiniteSet

\* The sum of no numbers, and the sum as the first number and the others.
LEMMA SumStart ==
  ASSUME NEW f, NEW D, IsFiniteSet(D)
  PROVE  SumFunctionOnSet(f, D) =
           IF D = {} THEN 0 ELSE f[Sums!First(D)] + SumFunctionOnSet(f, D \ {Sums!First(D)})
BY SumIsFold, FiniteForSum, FS_Subset, Sums!FoldOverStep DEF SumStep

\* A sum of integers is one.
LEMMA SumIsInt ==
  ASSUME NEW f, NEW D, IsFiniteSet(D), \A x \in D : f[x] \in Int
  PROVE  SumFunctionOnSet(f, D) \in Int
<1> DEFINE G == {T \in SUBSET D : SumFunctionOnSet(f, T) \in Int}
<1>1. ASSUME NEW T \in SUBSET D, \A x \in T : T \ {x} \in G PROVE T \in G
  <2>1. IsFiniteSet(T)
    BY FS_Subset
  <2>2. CASE T = {}
    BY <2>1, <2>2, SumStart
  <2>3. CASE T # {}
    <3>1. PICK z \in T : SumFunctionOnSet(f, T) = f[z] + SumFunctionOnSet(f, T \ {z})
      BY <2>1, <2>3, SumStart, Sums!FirstIn
    <3>2. SumFunctionOnSet(f, T \ {z}) \in Int /\ f[z] \in Int
      BY <1>1
    <3> QED BY <3>1, <3>2
  <2> QED BY <2>2, <2>3
<1>2. \A T \in SUBSET D : T \in G
  <2> HIDE DEF G
  <2> QED BY <1>1, FiniteForSum, Sums!SetInduction
<1> QED BY <1>2

\* Any number of a sum can be taken first.
LEMMA SumWithout ==
  ASSUME NEW f, NEW D, IsFiniteSet(D), \A x \in D : f[x] \in Int, NEW y \in D
  PROVE  SumFunctionOnSet(f, D) = f[y] + SumFunctionOnSet(f, D \ {y})
<1> DEFINE Sum(T) == SumFunctionOnSet(f, T)
           G == {T \in SUBSET D : \A x \in T : Sum(T) = f[x] + Sum(T \ {x})}
<1>1. ASSUME NEW T \in SUBSET D, \A x \in T : T \ {x} \in G PROVE T \in G
  <2> SUFFICES ASSUME NEW x \in T PROVE Sum(T) = f[x] + Sum(T \ {x})
    OBVIOUS
  <2>0. IsFiniteSet(T)
    BY FS_Subset
  <2>1. PICK z \in T : Sum(T) = f[z] + Sum(T \ {z})
    BY <2>0, SumStart, Sums!FirstIn
  <2>2. CASE x = z
    BY <2>1, <2>2
  <2>3. CASE x # z
    <3>1. T \ {x} \in G /\ T \ {z} \in G
      BY <1>1, <2>1
    <3>2. Sum(T \ {x}) = f[z] + Sum((T \ {x}) \ {z}) /\ Sum(T \ {z}) = f[x] + Sum((T \ {z}) \ {x})
      BY <2>1, <2>3, <3>1
    <3>3. (T \ {x}) \ {z} = (T \ {z}) \ {x}
      OBVIOUS
    <3>4. Sum((T \ {z}) \ {x}) \in Int
      <4>1. IsFiniteSet((T \ {z}) \ {x})
        BY FS_Subset
      <4> QED BY <4>1, SumIsInt
    <3>5. f[x] \in Int /\ f[z] \in Int
      OBVIOUS
    <3>6. Sum(T) = f[z] + (f[x] + Sum((T \ {z}) \ {x})) /\ Sum(T \ {x}) = f[z] + Sum((T \ {z}) \ {x})
      BY <2>1, <3>2, <3>3
    <3> HIDE DEF Sum
    <3> QED BY <3>4, <3>5, <3>6
  <2> QED BY <2>2, <2>3
<1>2. \A T \in SUBSET D : T \in G
  <2> HIDE DEF G
  <2> QED BY <1>1, FiniteForSum, Sums!SetInduction
<1> QED BY <1>2

\* A sum depends on nothing but its numbers.
LEMMA SumOfSame ==
  ASSUME NEW f, NEW g, NEW D, IsFiniteSet(D), \A x \in D : f[x] = g[x]
  PROVE  SumFunctionOnSet(f, D) = SumFunctionOnSet(g, D)
<1> DEFINE G == {T \in SUBSET D : SumFunctionOnSet(f, T) = SumFunctionOnSet(g, T)}
<1>1. ASSUME NEW T \in SUBSET D, \A x \in T : T \ {x} \in G PROVE T \in G
  <2>1. IsFiniteSet(T)
    BY FS_Subset
  <2>2. CASE T = {}
    BY <2>1, <2>2, SumStart
  <2>3. CASE T # {}
    <3> DEFINE z == Sums!First(T)
    <3>1. z \in T /\ T \ {z} \in G
      BY <1>1, <2>3, Sums!FirstIn
    <3>2. /\ SumFunctionOnSet(f, T) = f[z] + SumFunctionOnSet(f, T \ {z})
          /\ SumFunctionOnSet(g, T) = g[z] + SumFunctionOnSet(g, T \ {z})
      BY <2>1, <2>3, SumStart
    <3> HIDE DEF z
    <3>3. f[z] = g[z] /\ SumFunctionOnSet(f, T \ {z}) = SumFunctionOnSet(g, T \ {z})
      BY <3>1
    <3> QED BY <3>2, <3>3
  <2> QED BY <2>2, <2>3
<1>2. \A T \in SUBSET D : T \in G
  <2> HIDE DEF G
  <2> QED BY <1>1, FiniteForSum, Sums!SetInduction
<1> QED BY <1>2

\* The sum over two sets without a common element.
LEMMA SumOfBoth ==
  ASSUME NEW f, NEW A, NEW D, IsFiniteSet(A), IsFiniteSet(D), A \cap D = {},
         \A x \in A \cup D : f[x] \in Int
  PROVE  SumFunctionOnSet(f, A \cup D) = SumFunctionOnSet(f, A) + SumFunctionOnSet(f, D)
<1> DEFINE Sum(T) == SumFunctionOnSet(f, T)
           G == {T \in SUBSET D : Sum(A \cup T) = Sum(A) + Sum(T)}
<1>0. ASSUME NEW T \in SUBSET D
      PROVE  IsFiniteSet(T) /\ IsFiniteSet(A \cup T) /\ Sum(T) \in Int /\ Sum(A \cup T) \in Int
  <2>1. IsFiniteSet(T) /\ IsFiniteSet(A \cup T)
    BY FS_Subset, FS_Union
  <2> QED BY <2>1, SumIsInt
<1>1. ASSUME NEW T \in SUBSET D, \A x \in T : T \ {x} \in G PROVE T \in G
  <2>1. CASE T = {}
    <3>1. Sum(T) = 0 /\ A \cup T = A
      BY <2>1, <1>0, SumStart
    <3>2. Sum(A) \in Int
      BY SumIsInt
    <3>3. Sum(A \cup T) = Sum(A) + Sum(T)
      <4> HIDE DEF Sum
      <4> QED BY <3>1, <3>2
    <3> QED BY <3>3
  <2>2. CASE T # {}
    <3>1. PICK x \in T : TRUE
      BY <2>2
    <3>2. T \ {x} \in SUBSET D /\ Sum(A \cup (T \ {x})) = Sum(A) + Sum(T \ {x})
      BY <1>1, <3>1
    <3>3. Sum(T) = f[x] + Sum(T \ {x})
      <4>1. IsFiniteSet(T) /\ x \in T /\ \A y \in T : f[y] \in Int
        BY <1>0, <3>1
      <4> QED BY ONLY <4>1, SumWithout
    <3>4. Sum(A \cup T) = f[x] + Sum((A \cup T) \ {x})
      <4>1. IsFiniteSet(A \cup T) /\ x \in A \cup T /\ \A y \in A \cup T : f[y] \in Int
        BY <1>0, <3>1
      <4> QED BY ONLY <4>1, SumWithout
    <3>5. (A \cup T) \ {x} = A \cup (T \ {x})
      BY <3>1
    <3>6. Sum(A) \in Int /\ Sum(T \ {x}) \in Int /\ f[x] \in Int
      BY <1>0, <3>1, <3>2, SumIsInt
    <3>7. Sum(A \cup T) = f[x] + (Sum(A) + Sum(T \ {x}))
      BY <3>2, <3>4, <3>5
    <3> HIDE DEF Sum
    <3> QED BY <3>3, <3>6, <3>7
  <2> QED BY <2>1, <2>2
<1>2. \A T \in SUBSET D : T \in G
  <2> HIDE DEF G
  <2> QED BY <1>1, FiniteForSum, Sums!SetInduction
<1> QED BY <1>2

\* The sum of the sums of two numbers.
LEMMA SumOfSums ==
  ASSUME NEW f, NEW g, NEW h, NEW D, IsFiniteSet(D),
         \A x \in D : f[x] \in Int /\ g[x] \in Int /\ h[x] = f[x] + g[x]
  PROVE  SumFunctionOnSet(h, D) = SumFunctionOnSet(f, D) + SumFunctionOnSet(g, D)
<1> DEFINE Sum(e, T) == SumFunctionOnSet(e, T)
           G == {T \in SUBSET D : Sum(h, T) = Sum(f, T) + Sum(g, T)}
<1>0. ASSUME NEW T \in SUBSET D
      PROVE  IsFiniteSet(T) /\ Sum(f, T) \in Int /\ Sum(g, T) \in Int
  <2>1. IsFiniteSet(T)
    BY FS_Subset
  <2> QED BY <2>1, SumIsInt
<1>1. ASSUME NEW T \in SUBSET D, \A x \in T : T \ {x} \in G PROVE T \in G
  <2>1. CASE T = {}
    <3>1. Sum(f, T) = 0 /\ Sum(g, T) = 0 /\ Sum(h, T) = 0
      BY <2>1, <1>0, SumStart
    <3> HIDE DEF Sum
    <3> QED BY <3>1
  <2>2. CASE T # {}
    <3>1. PICK x \in T : TRUE
      BY <2>2
    <3>2. T \ {x} \in SUBSET D /\ Sum(h, T \ {x}) = Sum(f, T \ {x}) + Sum(g, T \ {x})
      BY <1>1, <3>1
    <3>3. \A y \in T : h[y] \in Int /\ f[y] \in Int /\ g[y] \in Int
      OBVIOUS
    <3>4. /\ Sum(f, T) = f[x] + Sum(f, T \ {x})
          /\ Sum(g, T) = g[x] + Sum(g, T \ {x})
          /\ Sum(h, T) = h[x] + Sum(h, T \ {x})
      BY <1>0, <3>1, <3>3, SumWithout
    <3>5. f[x] \in Int /\ g[x] \in Int /\ h[x] = f[x] + g[x]
      BY <3>1
    <3>6. Sum(f, T \ {x}) \in Int /\ Sum(g, T \ {x}) \in Int
      BY <1>0, <3>2
    <3> HIDE DEF Sum
    <3> QED BY <3>2, <3>4, <3>5, <3>6
  <2> QED BY <2>1, <2>2
<1>2. \A T \in SUBSET D : T \in G
  <2> HIDE DEF G
  <2> QED BY <1>1, FiniteForSum, Sums!SetInduction
<1> QED BY <1>2

\* The image of a set under m.
ImageOf(m, D) == {m[x] : x \in D}

\* A finite set has a finite image, and under an injection one of its size.
LEMMA ImageIsFinite ==
  ASSUME NEW m, NEW D, IsFiniteSet(D)
  PROVE  /\ IsFiniteSet(ImageOf(m, D))
         /\ (\A x, y \in D : m[x] = m[y] => x = y) => Cardinality(ImageOf(m, D)) = Cardinality(D)
<1> DEFINE r == [x \in D |-> m[x]]
<1>1. r \in Surjection(D, ImageOf(m, D))
  BY DEF Surjection, ImageOf
<1>2. (\A x, y \in D : m[x] = m[y] => x = y) => r \in Injection(D, ImageOf(m, D))
  BY DEF Injection, IsInjective, ImageOf
<1> HIDE DEF r
<1> QED BY <1>1, <1>2, FS_Surjection

\* The sum over the image of a set under an injection m.
LEMMA SumOfImage ==
  ASSUME NEW f, NEW g, NEW m, NEW D, IsFiniteSet(D),
         \A x \in D : f[x] \in Int /\ g[m[x]] = f[x],
         \A x, y \in D : m[x] = m[y] => x = y
  PROVE  SumFunctionOnSet(g, ImageOf(m, D)) = SumFunctionOnSet(f, D)
<1> USE DEF ImageOf
<1> DEFINE img(T) == ImageOf(m, T)
           G == {T \in SUBSET D : SumFunctionOnSet(g, img(T)) = SumFunctionOnSet(f, T)}
<1>0. ASSUME NEW T \in SUBSET D
      PROVE  IsFiniteSet(T) /\ IsFiniteSet(img(T)) /\ \A z \in img(T) : g[z] \in Int
  <2>1. IsFiniteSet(T)
    BY FS_Subset
  <2>2. IsFiniteSet(img(T))
    BY <2>1, ImageIsFinite
  <2> QED BY <2>1, <2>2
<1>1. ASSUME NEW T \in SUBSET D, \A x \in T : T \ {x} \in G PROVE T \in G
  <2>1. CASE T = {}
    <3>1. img(T) = {}
      BY <2>1
    <3>2. IsFiniteSet(T) /\ IsFiniteSet({})
      BY <1>0, <2>1
    <3>3. SumFunctionOnSet(g, {}) = 0 /\ SumFunctionOnSet(f, T) = 0
      BY <2>1, <3>2, SumStart
    <3> HIDE DEF img
    <3> QED BY <3>1, <3>3
  <2>2. CASE T # {}
    <3>1. PICK x \in T : TRUE
      BY <2>2
    <3>2. SumFunctionOnSet(g, img(T \ {x})) = SumFunctionOnSet(f, T \ {x})
      BY <1>1, <3>1
    <3>3. SumFunctionOnSet(f, T) = f[x] + SumFunctionOnSet(f, T \ {x})
      <4>1. IsFiniteSet(T) /\ x \in T /\ \A y \in T : f[y] \in Int
        BY <1>0, <3>1
      <4> QED BY ONLY <4>1, SumWithout
    <3>4. m[x] \in img(T) /\ img(T) \ {m[x]} = img(T \ {x})
      BY <3>1
    <3>5. SumFunctionOnSet(g, img(T)) = g[m[x]] + SumFunctionOnSet(g, img(T) \ {m[x]})
      <4>1. IsFiniteSet(img(T)) /\ \A z \in img(T) : g[z] \in Int
        BY <1>0
      <4> HIDE DEF img
      <4> QED BY <3>4, <4>1, SumWithout
    <3>6. g[m[x]] = f[x]
      BY <3>1
    <3> HIDE DEF img
    <3>7. SumFunctionOnSet(g, img(T)) = SumFunctionOnSet(f, T)
      BY <3>2, <3>3, <3>4, <3>5, <3>6
    <3> QED BY <3>7
  <2> QED BY <2>1, <2>2
<1>2. \A T \in SUBSET D : T \in G
  <2> HIDE DEF G
  <2> QED BY <1>1, FiniteForSum, Sums!SetInduction
<1> QED BY <1>2

\* What belongs to a.
ShareOf(D, own, a) == {x \in D : own[x] = a}

\* Every number of the sum over D belongs to one a of A, and g adds up what
\* belongs to each.
Shared(f, D, own, A, g) ==
    /\ \A x \in D : own[x] \in A
    /\ \A a \in A : g[a] = SumFunctionOnSet(f, ShareOf(D, own, a))

\* The sum over A of what belongs to each.
LEMMA SumOfShares ==
  ASSUME NEW f, NEW D, IsFiniteSet(D), \A x \in D : f[x] \in Int,
         NEW A, IsFiniteSet(A), NEW own, NEW g, Shared(f, D, own, A, g)
  PROVE  SumFunctionOnSet(g, A) = SumFunctionOnSet(f, D)
<1> USE DEF Shared
<1> DEFINE of(T) == {x \in D : own[x] \in T}
           one(a) == ShareOf(D, own, a)
           G == {T \in SUBSET A : SumFunctionOnSet(g, T) = SumFunctionOnSet(f, of(T))}
<1>0. ASSUME NEW T \in SUBSET A PROVE IsFiniteSet(T) /\ IsFiniteSet(of(T))
  BY FS_Subset
<1>1. ASSUME NEW a \in A PROVE IsFiniteSet(one(a)) /\ g[a] = SumFunctionOnSet(f, one(a)) /\ g[a] \in Int
  <2>1. IsFiniteSet(one(a)) /\ \A x \in one(a) : f[x] \in Int
    BY FS_Subset DEF ShareOf
  <2>2. SumFunctionOnSet(f, one(a)) \in Int
    BY <2>1, SumIsInt
  <2> QED BY <2>1, <2>2
<1>2. ASSUME NEW T \in SUBSET A, \A x \in T : T \ {x} \in G PROVE T \in G
  <2>1. CASE T = {}
    <3>1. of(T) = {}
      BY <2>1
    <3>2. IsFiniteSet(T) /\ IsFiniteSet({})
      BY <1>0, <2>1
    <3>3. SumFunctionOnSet(g, T) = 0 /\ SumFunctionOnSet(f, {}) = 0
      BY <2>1, <3>2, SumStart
    <3> HIDE DEF of
    <3> QED BY <3>1, <3>3
  <2>2. CASE T # {}
    <3>1. PICK a \in T : TRUE
      BY <2>2
    <3>2. T \ {a} \in SUBSET A /\ SumFunctionOnSet(g, T \ {a}) = SumFunctionOnSet(f, of(T \ {a}))
      BY <1>2, <3>1
    <3>3. SumFunctionOnSet(g, T) = g[a] + SumFunctionOnSet(g, T \ {a})
      <4>1. IsFiniteSet(T) /\ a \in T /\ \A b \in T : g[b] \in Int
        BY <1>0, <1>1, <3>1
      <4> QED BY ONLY <4>1, SumWithout
    <3>4. of(T) = of(T \ {a}) \cup one(a) /\ of(T \ {a}) \cap one(a) = {}
      BY <3>1 DEF ShareOf
    <3>5. SumFunctionOnSet(f, of(T)) = SumFunctionOnSet(f, of(T \ {a})) + SumFunctionOnSet(f, one(a))
      <4>1. IsFiniteSet(of(T \ {a})) /\ IsFiniteSet(one(a))
        BY <1>0, <1>1, <3>1, <3>2
      <4>2. \A x \in of(T \ {a}) \cup one(a) : f[x] \in Int
        BY DEF ShareOf
      <4> HIDE DEF of, one
      <4>3. SumFunctionOnSet(f, of(T \ {a}) \cup one(a)) =
              SumFunctionOnSet(f, of(T \ {a})) + SumFunctionOnSet(f, one(a))
        BY <3>4, <4>1, <4>2, SumOfBoth
      <4> QED BY <3>4, <4>3
    <3>6. SumFunctionOnSet(f, of(T \ {a})) \in Int
      <4>1. IsFiniteSet(of(T \ {a})) /\ \A x \in of(T \ {a}) : f[x] \in Int
        BY <1>0, <3>2
      <4> HIDE DEF of
      <4> QED BY <4>1, SumIsInt
    <3>7. g[a] = SumFunctionOnSet(f, one(a)) /\ g[a] \in Int
      BY <1>1, <3>1
    <3> HIDE DEF of, one
    <3>8. SumFunctionOnSet(g, T) = SumFunctionOnSet(f, of(T))
      BY <3>2, <3>3, <3>5, <3>6, <3>7
    <3> QED BY <3>8
  <2> QED BY <2>1, <2>2
<1>3. \A T \in SUBSET A : T \in G
  <2> HIDE DEF G
  <2> QED BY <1>2, FiniteForSum, Sums!SetInduction
<1>4. of(A) = D
  OBVIOUS
<1> QED BY <1>3, <1>4

\* Where no number is negative, the sum is not, and no number exceeds it.
LEMMA SumOfNaturals ==
  ASSUME NEW f, NEW D, IsFiniteSet(D), \A x \in D : f[x] \in Nat
  PROVE  SumFunctionOnSet(f, D) \in Nat /\ \A x \in D : f[x] <= SumFunctionOnSet(f, D)
<1> DEFINE G == {T \in SUBSET D : SumFunctionOnSet(f, T) \in Nat}
<1>1. ASSUME NEW T \in SUBSET D, \A x \in T : T \ {x} \in G PROVE T \in G
  <2>1. IsFiniteSet(T)
    BY FS_Subset
  <2>2. CASE T = {}
    <3>1. SumFunctionOnSet(f, T) = 0
      BY <2>1, <2>2, SumStart
    <3> QED BY <3>1
  <2>3. CASE T # {}
    <3>1. PICK z \in T : SumFunctionOnSet(f, T) = f[z] + SumFunctionOnSet(f, T \ {z})
      BY <2>1, <2>3, SumStart, Sums!FirstIn
    <3>2. SumFunctionOnSet(f, T \ {z}) \in Nat /\ f[z] \in Nat
      BY <1>1
    <3> QED BY <3>1, <3>2
  <2> QED BY <2>2, <2>3
<1>2. \A T \in SUBSET D : T \in G
  <2> HIDE DEF G
  <2> QED BY <1>1, FiniteForSum, Sums!SetInduction
<1>3. ASSUME NEW x \in D PROVE f[x] <= SumFunctionOnSet(f, D)
  <2>1. SumFunctionOnSet(f, D) = f[x] + SumFunctionOnSet(f, D \ {x})
    BY SumWithout
  <2>2. SumFunctionOnSet(f, D \ {x}) \in Nat /\ f[x] \in Nat
    BY <1>2
  <2> QED BY <2>1, <2>2
<1> QED BY <1>2, <1>3

\* A sum over a set is the sum over the part of it that counts for anything.
LEMMA SumOfPart ==
  ASSUME NEW f, NEW D, IsFiniteSet(D), \A x \in D : f[x] \in Int, NEW P, P \subseteq D,
         \A x \in D \ P : f[x] = 0
  PROVE  SumFunctionOnSet(f, D) = SumFunctionOnSet(f, P)
<1> DEFINE Sum(T) == SumFunctionOnSet(f, T)
           G == {T \in SUBSET D : Sum(T) = Sum(T \cap P)}
<1>1. ASSUME NEW T \in SUBSET D, \A x \in T : T \ {x} \in G PROVE T \in G
  <2>1. IsFiniteSet(T) /\ IsFiniteSet(T \cap P)
    BY FS_Subset
  <2>2. CASE T = {}
    BY <2>2
  <2>3. CASE T # {}
    <3>1. PICK z \in T : Sum(T) = f[z] + Sum(T \ {z})
      BY <2>1, <2>3, SumStart, Sums!FirstIn
    <3>2. Sum(T \ {z}) = Sum((T \ {z}) \cap P)
      BY <1>1
    <3>3. Sum((T \ {z}) \cap P) \in Int
      <4> DEFINE U == (T \ {z}) \cap P
      <4>1. IsFiniteSet(U) /\ \A x \in U : f[x] \in Int
        BY <2>1, FS_Subset
      <4> HIDE DEF U
      <4>2. SumFunctionOnSet(f, U) \in Int
        BY <4>1, SumIsInt
      <4> QED BY <4>2 DEF U
    <3>4. CASE z \in P
      <4> DEFINE V == T \cap P
      <4>1. V \ {z} = (T \ {z}) \cap P /\ z \in V /\ IsFiniteSet(V) /\ \A x \in V : f[x] \in Int
        BY <2>1, <3>4
      <4> HIDE DEF V
      <4>2. Sum(V) = f[z] + Sum(V \ {z})
        BY <4>1, SumWithout
      <4>3. Sum(T) = Sum(V)
        BY <3>1, <3>2, <4>1, <4>2
      <4> QED BY <4>3 DEF V
    <3>5. CASE z \notin P
      <4>1. f[z] = 0 /\ (T \ {z}) \cap P = T \cap P
        BY <3>5
      <4>2. Sum(T \ {z}) = Sum(T \cap P) /\ Sum(T \ {z}) \in Int
        BY <3>2, <3>3, <4>1
      <4>3. \A n \in Int : 0 + n = n
        OBVIOUS
      <4>4. Sum(T) = Sum(T \ {z})
        BY ONLY <3>1, <4>1, <4>2, <4>3
      <4> QED BY <4>2, <4>4
    <3> QED BY <3>4, <3>5
  <2> QED BY <2>2, <2>3
<1>2. \A T \in SUBSET D : T \in G
  <2> HIDE DEF G
  <2> QED BY <1>1, FiniteForSum, Sums!SetInduction
<1>3. Sum(D) = Sum(D \cap P) /\ D \cap P = P
  BY <1>2
<1> QED BY <1>3

\* One number more.
LEMMA SumWith ==
  ASSUME NEW f, NEW D, IsFiniteSet(D), NEW y, y \notin D, \A x \in D \cup {y} : f[x] \in Int
  PROVE  SumFunctionOnSet(f, D \cup {y}) = SumFunctionOnSet(f, D) + f[y]
<1>1. IsFiniteSet(D \cup {y}) /\ y \in D \cup {y} /\ (D \cup {y}) \ {y} = D
  BY FS_AddElement
<1>2. SumFunctionOnSet(f, D \cup {y}) = f[y] + SumFunctionOnSet(f, (D \cup {y}) \ {y})
  BY <1>1, SumWithout
<1>3. f[y] \in Int /\ SumFunctionOnSet(f, D) \in Int
  BY SumIsInt
<1>4. SumFunctionOnSet(f, D \cup {y}) = f[y] + SumFunctionOnSet(f, D)
  BY ONLY <1>1, <1>2
<1> QED BY ONLY <1>3, <1>4

\* One number in the place of another.
LEMMA SumInstead ==
  ASSUME NEW f, NEW D, IsFiniteSet(D), NEW x \in D, NEW y, y \notin D \ {x},
         \A z \in D \cup {y} : f[z] \in Int
  PROVE  SumFunctionOnSet(f, (D \ {x}) \cup {y}) = SumFunctionOnSet(f, D) - f[x] + f[y]
<1>1. IsFiniteSet(D \ {x}) /\ \A z \in (D \ {x}) \cup {y} : f[z] \in Int
  BY FS_RemoveElement
<1>2. SumFunctionOnSet(f, (D \ {x}) \cup {y}) = SumFunctionOnSet(f, D \ {x}) + f[y]
  BY <1>1, SumWith
<1>3. SumFunctionOnSet(f, D) = f[x] + SumFunctionOnSet(f, D \ {x})
  <2>1. \A z \in D : f[z] \in Int
    OBVIOUS
  <2> QED BY ONLY <2>1, IsFiniteSet(D), x \in D, SumWithout
<1>4. f[x] \in Int /\ f[y] \in Int /\ SumFunctionOnSet(f, D \ {x}) \in Int
  <2>1. \A z \in D \ {x} : f[z] \in Int
    OBVIOUS
  <2> QED BY <1>1, <2>1, SumIsInt
<1> QED BY <1>2, <1>3, <1>4

\* Where the numbers of f and g differ at one place only.
LEMMA SumChanged ==
  ASSUME NEW f, NEW g, NEW D, IsFiniteSet(D), NEW y \in D,
         \A x \in D : f[x] \in Int /\ g[x] \in Int,
         \A x \in D \ {y} : g[x] = f[x]
  PROVE  SumFunctionOnSet(g, D) = SumFunctionOnSet(f, D) + (g[y] - f[y])
<1>1. IsFiniteSet(D \ {y}) /\ \A x \in D \ {y} : f[x] \in Int
  BY FS_RemoveElement
<1>2. SumFunctionOnSet(f, D) = f[y] + SumFunctionOnSet(f, D \ {y})
  <2>1. \A x \in D : f[x] \in Int
    OBVIOUS
  <2> QED BY ONLY <2>1, IsFiniteSet(D), y \in D, SumWithout
<1>3. SumFunctionOnSet(g, D) = g[y] + SumFunctionOnSet(g, D \ {y})
  <2>1. \A x \in D : g[x] \in Int
    OBVIOUS
  <2> QED BY ONLY <2>1, IsFiniteSet(D), y \in D, SumWithout
<1>4. SumFunctionOnSet(g, D \ {y}) = SumFunctionOnSet(f, D \ {y})
  BY <1>1, SumOfSame
<1>5. SumFunctionOnSet(f, D \ {y}) \in Int /\ f[y] \in Int /\ g[y] \in Int
  BY <1>1, SumIsInt
<1> QED BY <1>2, <1>3, <1>4, <1>5

-----------------------------------------------------------------------------
(* What a ledger is made of                                                *)

LimitOrder == [id : Nat, seller : Account, orderid : Nat, sym : Symbol, want : Symbol, left : Int,
               base : Positive, quote : Positive, exp : Int]
Conversion == [owner : Account, id : Nat, sym : Core, amount : Int, fee : Int, date : Int]
Withdrawal == [from : Account, to : Account, id : Nat, sym : Core, amount : Int, complete : Int]
Escrow == [from : Account, to : Account, agent : Account, id : Nat, steem : Int, sbd : Int,
           fee : Int, feesym : Core, deadline : Int, expires : Int,
           toOk : BOOLEAN, agentOk : BOOLEAN, disputed : BOOLEAN]
Ledgers == [bal : [Account -> [Symbol -> Int]], mkt : [Account -> [Symbol -> Int]],
            orders : SUBSET LimitOrder, depth : [Symbol \X Symbol -> Int \X Int],
            sav : [Account -> [Core -> Int]], reqs : [Account -> Int],
            conv : SUBSET Conversion, wd : SUBSET Withdrawal, esc : SUBSET Escrow,
            supply : [Core -> Int]]

\* A state of the ledger with finitely many objects.
Typed(d) ==
    /\ d \in Ledgers
    /\ IsFiniteSet(d.orders) /\ IsFiniteSet(d.conv) /\ IsFiniteSet(d.wd) /\ IsFiniteSet(d.esc)

\* Objects are found by their keys, so that one that is changed is not equal
\* to another one: sets can be added up.
OrdersKeyed(orders) ==
    \A o, p \in orders : (o.id = p.id \/ (o.seller = p.seller /\ o.orderid = p.orderid)) => o = p
ConversionsKeyed(conv) == \A c, x \in conv : c.owner = x.owner /\ c.id = x.id => c = x
WithdrawalsKeyed(wd) == \A w, x \in wd : w.from = x.from /\ w.id = x.id => w = x
EscrowsKeyed(esc) == \A e, x \in esc : e.from = x.from /\ e.id = x.id => e = x
Keyed(d) == OrdersKeyed(d.orders) /\ ConversionsKeyed(d.conv) /\ WithdrawalsKeyed(d.wd) /\ EscrowsKeyed(d.esc)

\* What an account and an object have of t.
AccountAmount(d, t) == [a \in Account |-> d.bal[a][t] + d.sav[a][t]]
OrderAmount(t) == [o \in LimitOrder |-> Of(t, o.sym, o.left)]
ConversionAmount(t) == [c \in Conversion |-> Of(t, c.sym, c.amount)]
WithdrawalAmount(t) == [w \in Withdrawal |-> Of(t, w.sym, w.amount)]
EscrowAmount(t) == [e \in Escrow |-> (IF t = "SBD" THEN e.sbd ELSE e.steem) + Of(t, e.feesym, e.fee)]

\* An amount is an integer.
LEMMA OfIsInt == ASSUME NEW s, NEW t, NEW n \in Int PROVE Of(s, t, n) \in Int
BY DEF Of

LEMMA AmountsAreInts ==
  ASSUME NEW t
  PROVE  /\ \A o \in LimitOrder : OrderAmount(t)[o] = Of(t, o.sym, o.left) /\ OrderAmount(t)[o] \in Int
         /\ \A c \in Conversion : ConversionAmount(t)[c] = Of(t, c.sym, c.amount) /\ ConversionAmount(t)[c] \in Int
         /\ \A w \in Withdrawal : WithdrawalAmount(t)[w] = Of(t, w.sym, w.amount) /\ WithdrawalAmount(t)[w] \in Int
         /\ \A e \in Escrow : /\ EscrowAmount(t)[e] = (IF t = "SBD" THEN e.sbd ELSE e.steem) + Of(t, e.feesym, e.fee)
                              /\ EscrowAmount(t)[e] \in Int
<1>1. ASSUME NEW o \in LimitOrder
      PROVE  OrderAmount(t)[o] = Of(t, o.sym, o.left) /\ OrderAmount(t)[o] \in Int
  <2>1. o.left \in Int
    BY DEF LimitOrder
  <2> QED BY <2>1, OfIsInt DEF OrderAmount
<1>2. ASSUME NEW c \in Conversion
      PROVE  ConversionAmount(t)[c] = Of(t, c.sym, c.amount) /\ ConversionAmount(t)[c] \in Int
  <2>1. c.amount \in Int
    BY DEF Conversion
  <2> QED BY <2>1, OfIsInt DEF ConversionAmount
<1>3. ASSUME NEW w \in Withdrawal
      PROVE  WithdrawalAmount(t)[w] = Of(t, w.sym, w.amount) /\ WithdrawalAmount(t)[w] \in Int
  <2>1. w.amount \in Int
    BY DEF Withdrawal
  <2> QED BY <2>1, OfIsInt DEF WithdrawalAmount
<1>4. ASSUME NEW e \in Escrow
      PROVE  /\ EscrowAmount(t)[e] = (IF t = "SBD" THEN e.sbd ELSE e.steem) + Of(t, e.feesym, e.fee)
             /\ EscrowAmount(t)[e] \in Int
  <2>1. e.sbd \in Int /\ e.steem \in Int /\ e.fee \in Int
    BY DEF Escrow
  <2>2. Of(t, e.feesym, e.fee) \in Int
    BY <2>1, OfIsInt
  <2> QED BY <2>1, <2>2 DEF EscrowAmount
<1> QED BY <1>1, <1>2, <1>3, <1>4

\* The parts of a total as sums of one function each.
LEMMA PartsAreSums ==
  ASSUME NEW d, Typed(d), NEW t \in Core
  PROVE  /\ InAccounts(d, t) = SumFunctionOnSet(AccountAmount(d, t), Account)
         /\ InOrders(d, t) = SumFunctionOnSet(OrderAmount(t), d.orders)
         /\ InConversions(d, t) = SumFunctionOnSet(ConversionAmount(t), d.conv)
         /\ InWithdrawals(d, t) = SumFunctionOnSet(WithdrawalAmount(t), d.wd)
         /\ InEscrows(d, t) = SumFunctionOnSet(EscrowAmount(t), d.esc)
<1>0. /\ d.orders \subseteq LimitOrder /\ d.conv \subseteq Conversion
      /\ d.wd \subseteq Withdrawal /\ d.esc \subseteq Escrow
  BY DEF Typed, Ledgers
<1>1. InAccounts(d, t) = SumFunctionOnSet(AccountAmount(d, t), Account)
  BY DEF InAccounts, SumFunction, AccountAmount
<1>2. InOrders(d, t) = SumFunctionOnSet(OrderAmount(t), d.orders)
  <2> DEFINE g == [o \in d.orders |-> Of(t, o.sym, o.left)]
  <2>1. \A o \in d.orders : g[o] = OrderAmount(t)[o]
    BY <1>0 DEF OrderAmount
  <2>2. InOrders(d, t) = SumFunctionOnSet(g, d.orders)
    BY DEF InOrders, SumFunction
  <2> HIDE DEF g
  <2> QED BY <2>1, <2>2, SumOfSame DEF Typed
<1>3. InConversions(d, t) = SumFunctionOnSet(ConversionAmount(t), d.conv)
  <2> DEFINE g == [c \in d.conv |-> Of(t, c.sym, c.amount)]
  <2>1. \A c \in d.conv : g[c] = ConversionAmount(t)[c]
    BY <1>0 DEF ConversionAmount
  <2>2. InConversions(d, t) = SumFunctionOnSet(g, d.conv)
    BY DEF InConversions, SumFunction
  <2> HIDE DEF g
  <2> QED BY <2>1, <2>2, SumOfSame DEF Typed
<1>4. InWithdrawals(d, t) = SumFunctionOnSet(WithdrawalAmount(t), d.wd)
  <2> DEFINE g == [w \in d.wd |-> Of(t, w.sym, w.amount)]
  <2>1. \A w \in d.wd : g[w] = WithdrawalAmount(t)[w]
    BY <1>0 DEF WithdrawalAmount
  <2>2. InWithdrawals(d, t) = SumFunctionOnSet(g, d.wd)
    BY DEF InWithdrawals, SumFunction
  <2> HIDE DEF g
  <2> QED BY <2>1, <2>2, SumOfSame DEF Typed
<1>5. InEscrows(d, t) = SumFunctionOnSet(EscrowAmount(t), d.esc)
  <2> DEFINE g == [e \in d.esc |-> (IF t = "SBD" THEN e.sbd ELSE e.steem) + Of(t, e.feesym, e.fee)]
  <2>1. \A e \in d.esc : g[e] = EscrowAmount(t)[e]
    BY <1>0 DEF EscrowAmount
  <2>2. InEscrows(d, t) = SumFunctionOnSet(g, d.esc)
    BY DEF InEscrows, SumFunction
  <2> HIDE DEF g
  <2> QED BY <2>1, <2>2, SumOfSame DEF Typed
<1> QED BY <1>1, <1>2, <1>3, <1>4, <1>5

\* They are integers.
LEMMA PartsAreInts ==
  ASSUME NEW d, Typed(d), NEW t \in Core
  PROVE  /\ InAccounts(d, t) \in Int /\ InOrders(d, t) \in Int /\ InConversions(d, t) \in Int
         /\ InWithdrawals(d, t) \in Int /\ InEscrows(d, t) \in Int
<1>0. /\ d.orders \subseteq LimitOrder /\ d.conv \subseteq Conversion
      /\ d.wd \subseteq Withdrawal /\ d.esc \subseteq Escrow
      /\ d.bal \in [Account -> [Symbol -> Int]] /\ d.sav \in [Account -> [Core -> Int]]
      /\ t \in Symbol
  BY DEF Typed, Ledgers, Symbol
<1>1. SumFunctionOnSet(AccountAmount(d, t), Account) \in Int
  <2>1. \A a \in Account : AccountAmount(d, t)[a] \in Int
    BY <1>0 DEF AccountAmount
  <2>2. IsFiniteSet(Account)
    BY AccountAssumption
  <2> QED BY <2>1, <2>2, SumIsInt
<1>2. SumFunctionOnSet(OrderAmount(t), d.orders) \in Int
  <2>1. \A o \in d.orders : OrderAmount(t)[o] \in Int
    BY <1>0, AmountsAreInts
  <2> QED BY <2>1, SumIsInt DEF Typed
<1>3. SumFunctionOnSet(ConversionAmount(t), d.conv) \in Int
  <2>1. \A c \in d.conv : ConversionAmount(t)[c] \in Int
    BY <1>0, AmountsAreInts
  <2> QED BY <2>1, SumIsInt DEF Typed
<1>4. SumFunctionOnSet(WithdrawalAmount(t), d.wd) \in Int
  <2>1. \A w \in d.wd : WithdrawalAmount(t)[w] \in Int
    BY <1>0, AmountsAreInts
  <2> QED BY <2>1, SumIsInt DEF Typed
<1>5. SumFunctionOnSet(EscrowAmount(t), d.esc) \in Int
  <2>1. \A e \in d.esc : EscrowAmount(t)[e] \in Int
    BY <1>0, AmountsAreInts
  <2> QED BY <2>1, SumIsInt DEF Typed
<1> QED BY <1>1, <1>2, <1>3, <1>4, <1>5, PartsAreSums

-----------------------------------------------------------------------------
(* What the operators on balances and orders do                            *)

\* The parts of a total depend on their own fields.
LEMMA PartsOfSame ==
  ASSUME NEW d, NEW e, NEW t
  PROVE  /\ e.bal = d.bal /\ e.sav = d.sav => InAccounts(e, t) = InAccounts(d, t)
         /\ e.orders = d.orders => InOrders(e, t) = InOrders(d, t)
         /\ e.conv = d.conv => InConversions(e, t) = InConversions(d, t)
         /\ e.wd = d.wd => InWithdrawals(e, t) = InWithdrawals(d, t)
         /\ e.esc = d.esc => InEscrows(e, t) = InEscrows(d, t)
BY DEF InAccounts, InOrders, InConversions, InWithdrawals, InEscrows

\* What e has in common with d when only balances differ.
SameButBalances(d, e) ==
    /\ e.mkt = d.mkt /\ e.orders = d.orders /\ e.depth = d.depth /\ e.sav = d.sav /\ e.reqs = d.reqs
    /\ e.conv = d.conv /\ e.wd = d.wd /\ e.esc = d.esc /\ e.supply = d.supply

\* A balance is changed by n.
LEMMA AdjustDoes ==
  ASSUME NEW d, Typed(d), NEW a \in Account, NEW s \in Symbol, NEW n \in Int
  PROVE  Typed(Adjust(d, a, s, n)) /\ SameButBalances(d, Adjust(d, a, s, n))
<1> DEFINE e == Adjust(d, a, s, n)
<1>1. d.bal[a][s] \in Int /\ d.bal \in [Account -> [Symbol -> Int]]
  BY DEF Typed, Ledgers
<1>2. SameButBalances(d, e)
  BY DEF Adjust, SameButBalances, Typed, Ledgers
<1>3. e.bal = [d.bal EXCEPT ![a] = [d.bal[a] EXCEPT ![s] = d.bal[a][s] + n]]
  BY DEF Adjust, Typed, Ledgers
<1>4. e.bal \in [Account -> [Symbol -> Int]]
  <2>1. d.bal[a][s] + n \in Int
    BY <1>1
  <2>2. [d.bal[a] EXCEPT ![s] = d.bal[a][s] + n] \in [Symbol -> Int]
    BY <1>1, <2>1
  <2> QED BY <1>1, <1>3, <2>2
<1>5. e \in Ledgers
  BY <1>4 DEF Adjust, Typed, Ledgers
<1> QED BY <1>2, <1>5 DEF Typed, SameButBalances

LEMMA AdjustTotal ==
  ASSUME NEW d, Typed(d), NEW a \in Account, NEW s \in Symbol, NEW n \in Int, NEW t \in Core
  PROVE  Total(Adjust(d, a, s, n), t) = Total(d, t) + Of(t, s, n)
<1> DEFINE e == Adjust(d, a, s, n)
<1>1. /\ d.bal \in [Account -> [Symbol -> Int]] /\ d.sav \in [Account -> [Core -> Int]]
      /\ t \in Symbol
  BY DEF Typed, Ledgers, Symbol
<1>2. e.bal = [d.bal EXCEPT ![a] = [d.bal[a] EXCEPT ![s] = d.bal[a][s] + n]] /\ e.sav = d.sav
  BY DEF Adjust, Typed, Ledgers
<1>3. Typed(e) /\ SameButBalances(d, e)
  BY AdjustDoes
<1> HIDE DEF e
<1>4. InAccounts(e, t) = InAccounts(d, t) + Of(t, s, n)
  <2> DEFINE f == AccountAmount(d, t)
             g == AccountAmount(e, t)
  <2>1. \A b \in Account : f[b] \in Int /\ g[b] \in Int
    <3>1. e.bal \in [Account -> [Symbol -> Int]] /\ e.sav \in [Account -> [Core -> Int]]
      BY <1>3 DEF Typed, Ledgers
    <3> QED BY <1>1, <3>1 DEF AccountAmount
  <2>2. ASSUME NEW b \in Account \ {a} PROVE g[b] = f[b]
    BY <1>1, <1>2 DEF AccountAmount
  <2>3. g[a] - f[a] = Of(t, s, n)
    <3>1. f[a] = d.bal[a][t] + d.sav[a][t] /\ g[a] = e.bal[a][t] + d.sav[a][t]
      BY <1>2 DEF AccountAmount
    <3>2. d.bal[a][t] \in Int /\ d.sav[a][t] \in Int
      BY <1>1
    <3>3. e.bal[a][t] = d.bal[a][t] + Of(t, s, n)
      BY <1>1, <1>2 DEF Of
    <3>4. Of(t, s, n) \in Int
      BY OfIsInt
    <3> QED BY <3>1, <3>2, <3>3, <3>4
  <2>4. InAccounts(d, t) = SumFunctionOnSet(f, Account) /\ InAccounts(e, t) = SumFunctionOnSet(g, Account)
    BY <1>3, PartsAreSums
  <2>5. IsFiniteSet(Account)
    BY AccountAssumption
  <2> HIDE DEF f, g
  <2>6. SumFunctionOnSet(g, Account) = SumFunctionOnSet(f, Account) + (g[a] - f[a])
    BY <2>1, <2>2, <2>5, SumChanged
  <2> QED BY <2>3, <2>4, <2>6
<1>5. /\ InOrders(e, t) = InOrders(d, t) /\ InConversions(e, t) = InConversions(d, t)
      /\ InWithdrawals(e, t) = InWithdrawals(d, t) /\ InEscrows(e, t) = InEscrows(d, t)
  BY <1>3, PartsOfSame DEF SameButBalances
<1>6. /\ InAccounts(d, t) \in Int /\ InOrders(d, t) \in Int /\ InConversions(d, t) \in Int
      /\ InWithdrawals(d, t) \in Int /\ InEscrows(d, t) \in Int /\ Of(t, s, n) \in Int
  BY PartsAreInts, OfIsInt
<1>7. Total(e, t) = Total(d, t) + Of(t, s, n)
  BY <1>4, <1>5, <1>6 DEF Total
<1> QED BY <1>7 DEF e

\* What operators on the market leave alone.
SameObjects(d, e) ==
    /\ e.sav = d.sav /\ e.reqs = d.reqs /\ e.conv = d.conv /\ e.wd = d.wd /\ e.esc = d.esc
    /\ e.supply = d.supply

\* A market balance and a depth are not part of any total.
LEMMA AdjustMarketDoes ==
  ASSUME NEW d, Typed(d), NEW a \in Account, NEW s \in Symbol, NEW n \in Int
  PROVE  /\ Typed(AdjustMarket(d, a, s, n)) /\ SameObjects(d, AdjustMarket(d, a, s, n))
         /\ AdjustMarket(d, a, s, n).bal = d.bal /\ AdjustMarket(d, a, s, n).orders = d.orders
         /\ AdjustMarket(d, a, s, n).depth = d.depth
<1> DEFINE e == AdjustMarket(d, a, s, n)
<1>1. d.mkt[a][s] \in Int /\ d.mkt \in [Account -> [Symbol -> Int]]
  BY DEF Typed, Ledgers
<1>2. SameObjects(d, e) /\ e.bal = d.bal /\ e.orders = d.orders /\ e.depth = d.depth
  BY DEF AdjustMarket, SameObjects, Typed, Ledgers
<1>3. e.mkt = [d.mkt EXCEPT ![a] = [d.mkt[a] EXCEPT ![s] = d.mkt[a][s] + n]]
  BY DEF AdjustMarket, Typed, Ledgers
<1>4. e.mkt \in [Account -> [Symbol -> Int]]
  <2>1. d.mkt[a][s] + n \in Int
    BY <1>1
  <2>2. [d.mkt[a] EXCEPT ![s] = d.mkt[a][s] + n] \in [Symbol -> Int]
    BY <1>1, <2>1
  <2> QED BY <1>1, <1>3, <2>2
<1>5. e \in Ledgers
  BY <1>4 DEF AdjustMarket, Typed, Ledgers
<1> QED BY <1>2, <1>5 DEF Typed, SameObjects

LEMMA UpdateDepthDoes ==
  ASSUME NEW d, Typed(d), NEW o \in LimitOrder, NEW b \in Int, NEW q \in Int
  PROVE  /\ Typed(UpdateDepth(d, o, b, q)) /\ SameObjects(d, UpdateDepth(d, o, b, q))
         /\ UpdateDepth(d, o, b, q).bal = d.bal /\ UpdateDepth(d, o, b, q).orders = d.orders
         /\ UpdateDepth(d, o, b, q).mkt = d.mkt
<1> DEFINE e == UpdateDepth(d, o, b, q)
           m == <<o.sym, o.want>>
<1>1. m \in Symbol \X Symbol /\ d.depth \in [Symbol \X Symbol -> Int \X Int]
  BY DEF Typed, Ledgers, LimitOrder
<1>2. SameObjects(d, e) /\ e.bal = d.bal /\ e.orders = d.orders /\ e.mkt = d.mkt
  BY DEF UpdateDepth, SameObjects, Typed, Ledgers
<1>3. e.depth = [d.depth EXCEPT ![m] = <<d.depth[m][1] + b, d.depth[m][2] + q>>]
  BY DEF UpdateDepth, Typed, Ledgers
<1>4. e.depth \in [Symbol \X Symbol -> Int \X Int]
  <2>1. <<d.depth[m][1] + b, d.depth[m][2] + q>> \in Int \X Int
    <3>1. d.depth[m] \in Int \X Int
      BY <1>1
    <3> QED BY <3>1
  <2> HIDE DEF m
  <2> QED BY <1>1, <1>3, <2>1
<1>5. e \in Ledgers
  BY <1>4 DEF UpdateDepth, Typed, Ledgers
<1> QED BY <1>2, <1>5 DEF Typed, SameObjects

\* The total of a state whose balances and orders are the same.
LEMMA TotalOfSame ==
  ASSUME NEW d, NEW e, SameObjects(d, e), e.bal = d.bal, e.orders = d.orders, NEW t
  PROVE  Total(e, t) = Total(d, t)
BY PartsOfSame DEF Total, SameObjects

\* Which orders are open.
SetOrders(d, orders) == [d EXCEPT !.orders = orders]

LEMMA SetOrdersDoes ==
  ASSUME NEW d, Typed(d), NEW orders \in SUBSET LimitOrder, IsFiniteSet(orders)
  PROVE  /\ Typed(SetOrders(d, orders)) /\ SameObjects(d, SetOrders(d, orders))
         /\ SetOrders(d, orders).bal = d.bal /\ SetOrders(d, orders).orders = orders
         /\ SetOrders(d, orders).mkt = d.mkt /\ SetOrders(d, orders).depth = d.depth
BY DEF Typed, Ledgers, SetOrders, SameObjects

LEMMA SetOrdersTotal ==
  ASSUME NEW d, Typed(d), NEW orders \in SUBSET LimitOrder, IsFiniteSet(orders), NEW t \in Core
  PROVE  Total(SetOrders(d, orders), t) =
           Total(d, t) - SumFunctionOnSet(OrderAmount(t), d.orders) + SumFunctionOnSet(OrderAmount(t), orders)
<1> DEFINE e == SetOrders(d, orders)
<1>1. Typed(e) /\ SameObjects(d, e) /\ e.bal = d.bal /\ e.orders = orders
  BY SetOrdersDoes
<1> HIDE DEF e
<1>2. /\ InOrders(d, t) = SumFunctionOnSet(OrderAmount(t), d.orders)
      /\ InOrders(e, t) = SumFunctionOnSet(OrderAmount(t), orders)
  BY <1>1, PartsAreSums
<1>3. /\ InAccounts(e, t) = InAccounts(d, t) /\ InConversions(e, t) = InConversions(d, t)
      /\ InWithdrawals(e, t) = InWithdrawals(d, t) /\ InEscrows(e, t) = InEscrows(d, t)
  BY <1>1, PartsOfSame DEF SameObjects
<1>4. /\ InAccounts(d, t) \in Int /\ InOrders(d, t) \in Int /\ InConversions(d, t) \in Int
      /\ InWithdrawals(d, t) \in Int /\ InEscrows(d, t) \in Int /\ InOrders(e, t) \in Int
  BY <1>1, PartsAreInts
<1>5. Total(e, t) = Total(d, t) - InOrders(d, t) + InOrders(e, t)
  BY <1>3, <1>4 DEF Total
<1> QED BY <1>2, <1>5 DEF e

\* An order is taken out, put in, or put in the place of another.
LEMMA WithoutOrder ==
  ASSUME NEW d, Typed(d), NEW o \in d.orders, NEW t \in Core
  PROVE  Total(SetOrders(d, d.orders \ {o}), t) = Total(d, t) - Of(t, o.sym, o.left)
<1>1. d.orders \in SUBSET LimitOrder /\ IsFiniteSet(d.orders) /\ IsFiniteSet(d.orders \ {o})
  BY FS_RemoveElement DEF Typed, Ledgers
<1>2. \A p \in d.orders : OrderAmount(t)[p] \in Int
  BY <1>1, AmountsAreInts
<1>3. SumFunctionOnSet(OrderAmount(t), d.orders) =
        OrderAmount(t)[o] + SumFunctionOnSet(OrderAmount(t), d.orders \ {o})
  BY ONLY <1>1, <1>2, o \in d.orders, SumWithout
<1>4. /\ Total(SetOrders(d, d.orders \ {o}), t) =
           Total(d, t) - SumFunctionOnSet(OrderAmount(t), d.orders)
                       + SumFunctionOnSet(OrderAmount(t), d.orders \ {o})
  BY <1>1, SetOrdersTotal
<1>5. OrderAmount(t)[o] = Of(t, o.sym, o.left) /\ OrderAmount(t)[o] \in Int
  BY <1>1, AmountsAreInts
<1>6. SumFunctionOnSet(OrderAmount(t), d.orders \ {o}) \in Int /\ Total(d, t) \in Int
  <2>1. \A p \in d.orders \ {o} : OrderAmount(t)[p] \in Int
    BY <1>2
  <2> QED BY <1>1, <2>1, SumIsInt, PartsAreInts DEF Total
<1> QED BY <1>3, <1>4, <1>5, <1>6

LEMMA WithOrder ==
  ASSUME NEW d, Typed(d), NEW o \in LimitOrder, o \notin d.orders, NEW t \in Core
  PROVE  Total(SetOrders(d, d.orders \cup {o}), t) = Total(d, t) + Of(t, o.sym, o.left)
<1>1. d.orders \in SUBSET LimitOrder /\ IsFiniteSet(d.orders) /\ IsFiniteSet(d.orders \cup {o})
  BY FS_AddElement DEF Typed, Ledgers
<1>2. \A p \in d.orders \cup {o} : OrderAmount(t)[p] \in Int
  BY <1>1, AmountsAreInts
<1>3. SumFunctionOnSet(OrderAmount(t), d.orders \cup {o}) =
        SumFunctionOnSet(OrderAmount(t), d.orders) + OrderAmount(t)[o]
  BY ONLY <1>1, <1>2, o \notin d.orders, SumWith
<1>4. /\ Total(SetOrders(d, d.orders \cup {o}), t) =
           Total(d, t) - SumFunctionOnSet(OrderAmount(t), d.orders)
                       + SumFunctionOnSet(OrderAmount(t), d.orders \cup {o})
  BY <1>1, SetOrdersTotal
<1>5. OrderAmount(t)[o] = Of(t, o.sym, o.left) /\ OrderAmount(t)[o] \in Int
  BY <1>1, AmountsAreInts
<1>6. SumFunctionOnSet(OrderAmount(t), d.orders) \in Int /\ Total(d, t) \in Int
  <2>1. \A p \in d.orders : OrderAmount(t)[p] \in Int
    BY <1>2
  <2> QED BY <1>1, <2>1, SumIsInt, PartsAreInts DEF Total
<1> QED BY <1>3, <1>4, <1>5, <1>6

LEMMA InsteadOfOrder ==
  ASSUME NEW d, Typed(d), NEW o \in d.orders, NEW r \in LimitOrder, r \notin d.orders \ {o}, NEW t \in Core
  PROVE  Total(SetOrders(d, (d.orders \ {o}) \cup {r}), t) =
           Total(d, t) - Of(t, o.sym, o.left) + Of(t, r.sym, r.left)
<1>1. /\ d.orders \in SUBSET LimitOrder /\ IsFiniteSet(d.orders)
      /\ IsFiniteSet((d.orders \ {o}) \cup {r})
  <2>1. d.orders \in SUBSET LimitOrder /\ IsFiniteSet(d.orders)
    BY DEF Typed, Ledgers
  <2>2. IsFiniteSet(d.orders \ {o})
    BY <2>1, FS_RemoveElement
  <2> QED BY <2>1, <2>2, FS_AddElement
<1>2. \A p \in d.orders \cup {r} : OrderAmount(t)[p] \in Int
  BY <1>1, AmountsAreInts
<1>3. SumFunctionOnSet(OrderAmount(t), (d.orders \ {o}) \cup {r}) =
        SumFunctionOnSet(OrderAmount(t), d.orders) - OrderAmount(t)[o] + OrderAmount(t)[r]
  BY ONLY <1>1, <1>2, o \in d.orders, r \notin d.orders \ {o}, SumInstead
<1>4. /\ Total(SetOrders(d, (d.orders \ {o}) \cup {r}), t) =
           Total(d, t) - SumFunctionOnSet(OrderAmount(t), d.orders)
                       + SumFunctionOnSet(OrderAmount(t), (d.orders \ {o}) \cup {r})
  BY <1>1, SetOrdersTotal
<1>5. /\ OrderAmount(t)[o] = Of(t, o.sym, o.left) /\ OrderAmount(t)[o] \in Int
      /\ OrderAmount(t)[r] = Of(t, r.sym, r.left) /\ OrderAmount(t)[r] \in Int
  BY <1>1, AmountsAreInts
<1>6. SumFunctionOnSet(OrderAmount(t), d.orders) \in Int /\ Total(d, t) \in Int
  <2>1. \A p \in d.orders : OrderAmount(t)[p] \in Int
    BY <1>2
  <2> QED BY <1>1, <2>1, SumIsInt, PartsAreInts DEF Total
<1> QED BY <1>3, <1>4, <1>5, <1>6

\* Products and quotients of amounts.
LEMMA QuotientIsInt ==
  ASSUME NEW a \in Int, NEW b \in Int, NEW c \in Positive
  PROVE  a * b \in Int /\ (a * b) \div c \in Int
<1>1. a * b \in Int
  OBVIOUS
<1>2. ASSUME NEW n \in Int PROVE n \div c \in Int
  BY DEF Positive
<1> QED BY <1>1, <1>2

\* Quotients of amounts: at most what the product says.
LEMMA QuotientBelow ==
  ASSUME NEW a \in Nat, NEW b \in Nat, NEW c \in Positive, a <= b * c
  PROVE  0 <= a \div c /\ a \div c <= b
<1> DEFINE q == a \div c
<1>1. c \in Nat /\ c > 0
  BY DEF Positive
<1>2. q \in Int /\ q >= 0 /\ c * q <= a
  BY <1>1
<1> HIDE DEF q
<1>3. ASSUME q > b PROVE FALSE
  <2>1. PICK k \in Nat : q = b + 1 + k
    <3>1. q - b - 1 \in Nat /\ q = b + 1 + (q - b - 1)
      BY <1>2, <1>3
    <3> QED BY <3>1
  <2>2. c * q = c * b + c + c * k
    BY <1>1, <2>1
  <2>3. c * k \in Nat /\ c * b \in Nat /\ c * b = b * c
    BY <1>1
  <2> QED BY <1>1, <1>2, <2>2, <2>3
<1>4. 0 <= q /\ q <= b
  BY <1>2, <1>3
<1> QED BY <1>4 DEF q

LEMMA QuotientAbove ==
  ASSUME NEW a \in Nat, NEW b \in Nat, NEW c \in Positive, b <= a \div c
  PROVE  b * c <= a
<1> DEFINE q == a \div c
<1>1. c \in Nat /\ c > 0
  BY DEF Positive
<1>2. q \in Int /\ q >= 0 /\ c * q <= a
  BY <1>1
<1> HIDE DEF q
<1>3. PICK k \in Nat : q = b + k
  <2>1. b <= q
    BY DEF q
  <2>2. q - b \in Nat /\ q = b + (q - b)
    BY <1>2, <2>1
  <2> QED BY <2>2
<1>4. c * q = b * c + c * k
  BY <1>1, <1>3
<1>5. c * k \in Nat /\ b * c \in Nat
  BY <1>1
<1> QED BY <1>2, <1>4, <1>5

LEMMA ReceivesIsInt == ASSUME NEW o \in LimitOrder PROVE AmountToReceive(o) \in Int
<1>1. o.left \in Int /\ o.quote \in Int /\ o.base \in Positive
  BY DEF LimitOrder, Positive
<1> QED BY <1>1, QuotientIsInt DEF AmountToReceive

-----------------------------------------------------------------------------
(* The book: market balances and depths against the orders                 *)

\* What an order is in the market balance of a for s, and in the two parts
\* of the depth of the pair m.
Held(a, s) == [o \in LimitOrder |-> IF o.seller = a THEN Of(s, o.sym, o.left) ELSE 0]
Offered(m) == [o \in LimitOrder |-> IF <<o.sym, o.want>> = m THEN o.left ELSE 0]
Asked(m) == [o \in LimitOrder |-> IF <<o.sym, o.want>> = m THEN AmountToReceive(o) ELSE 0]

\* How far the balances and depths are from what the orders add up to.
HeldGap(d, a, s) == d.mkt[a][s] - SumFunctionOnSet(Held(a, s), d.orders)
OfferedGap(d, m) == d.depth[m][1] - SumFunctionOnSet(Offered(m), d.orders)
AskedGap(d, m) == d.depth[m][2] - SumFunctionOnSet(Asked(m), d.orders)
SameGaps(d, e) ==
    /\ \A a \in Account, s \in Symbol : HeldGap(e, a, s) = HeldGap(d, a, s)
    /\ \A m \in Symbol \X Symbol : OfferedGap(e, m) = OfferedGap(d, m) /\ AskedGap(e, m) = AskedGap(d, m)

\* The market balance of the seller of o changes by n, its depth by b and q.
Moved(d, e, o, n, b, q) ==
    /\ \A a \in Account, s \in Symbol :
          e.mkt[a][s] = d.mkt[a][s] + (IF o.seller = a THEN Of(s, o.sym, n) ELSE 0)
    /\ \A m \in Symbol \X Symbol :
          /\ e.depth[m][1] = d.depth[m][1] + (IF <<o.sym, o.want>> = m THEN b ELSE 0)
          /\ e.depth[m][2] = d.depth[m][2] + (IF <<o.sym, o.want>> = m THEN q ELSE 0)

LEMMA GapOfSame ==
  ASSUME NEW d, NEW e, e.mkt = d.mkt, e.depth = d.depth, e.orders = d.orders
  PROVE  SameGaps(d, e)
BY DEF SameGaps, HeldGap, OfferedGap, AskedGap

LEMMA GapsFollow == ASSUME NEW d, NEW e, NEW g, SameGaps(d, e), SameGaps(e, g) PROVE SameGaps(d, g)
BY DEF SameGaps

\* What AdjustMarket and UpdateDepth change.
LEMMA AdjustMarketIs ==
  ASSUME NEW d, Typed(d), NEW a \in Account, NEW s \in Symbol, NEW n \in Int
  PROVE  \A b \in Account, t \in Symbol :
           AdjustMarket(d, a, s, n).mkt[b][t] = d.mkt[b][t] + (IF a = b THEN Of(t, s, n) ELSE 0)
<1>1. d.mkt \in [Account -> [Symbol -> Int]]
  BY DEF Typed, Ledgers
<1>2. AdjustMarket(d, a, s, n).mkt = [d.mkt EXCEPT ![a] = [d.mkt[a] EXCEPT ![s] = d.mkt[a][s] + n]]
  BY DEF AdjustMarket, Typed, Ledgers
<1> SUFFICES ASSUME NEW b \in Account, NEW t \in Symbol
             PROVE  AdjustMarket(d, a, s, n).mkt[b][t] = d.mkt[b][t] + (IF a = b THEN Of(t, s, n) ELSE 0)
  OBVIOUS
<1>3. d.mkt[b][t] \in Int
  BY <1>1
<1> QED BY <1>1, <1>2, <1>3 DEF Of

LEMMA UpdateDepthIs ==
  ASSUME NEW d, Typed(d), NEW o \in LimitOrder, NEW b \in Int, NEW q \in Int
  PROVE  \A m \in Symbol \X Symbol :
           /\ UpdateDepth(d, o, b, q).depth[m][1] = d.depth[m][1] + (IF <<o.sym, o.want>> = m THEN b ELSE 0)
           /\ UpdateDepth(d, o, b, q).depth[m][2] = d.depth[m][2] + (IF <<o.sym, o.want>> = m THEN q ELSE 0)
<1> DEFINE p == <<o.sym, o.want>>
<1>1. p \in Symbol \X Symbol /\ d.depth \in [Symbol \X Symbol -> Int \X Int]
  BY DEF Typed, Ledgers, LimitOrder
<1>2. UpdateDepth(d, o, b, q).depth = [d.depth EXCEPT ![p] = <<d.depth[p][1] + b, d.depth[p][2] + q>>]
  BY DEF UpdateDepth, Typed, Ledgers
<1> SUFFICES ASSUME NEW m \in Symbol \X Symbol
             PROVE  /\ UpdateDepth(d, o, b, q).depth[m][1] = d.depth[m][1] + (IF p = m THEN b ELSE 0)
                    /\ UpdateDepth(d, o, b, q).depth[m][2] = d.depth[m][2] + (IF p = m THEN q ELSE 0)
  OBVIOUS
<1>3. d.depth[m][1] \in Int /\ d.depth[m][2] \in Int
  BY <1>1
<1> HIDE DEF p
<1>4. CASE p = m
  BY <1>1, <1>2, <1>4
<1>5. CASE p # m
  BY <1>1, <1>2, <1>3, <1>5
<1> QED BY <1>4, <1>5

LEMMA MovedBoth ==
  ASSUME NEW d, Typed(d), NEW o \in LimitOrder, NEW n \in Int, NEW b \in Int, NEW q \in Int
  PROVE  Moved(d, UpdateDepth(AdjustMarket(d, o.seller, o.sym, n), o, b, q), o, n, b, q)
<1> DEFINE e1 == AdjustMarket(d, o.seller, o.sym, n)
           e2 == UpdateDepth(e1, o, b, q)
<1>1. o.seller \in Account /\ o.sym \in Symbol
  BY DEF LimitOrder
<1>2. Typed(e1) /\ e1.depth = d.depth
  BY <1>1, AdjustMarketDoes
<1>3. \A a \in Account, s \in Symbol :
        e1.mkt[a][s] = d.mkt[a][s] + (IF o.seller = a THEN Of(s, o.sym, n) ELSE 0)
  BY <1>1, AdjustMarketIs
<1> HIDE DEF e1
<1>4. e2.mkt = e1.mkt
  BY <1>2, UpdateDepthDoes
<1>5. \A m \in Symbol \X Symbol :
        /\ e2.depth[m][1] = e1.depth[m][1] + (IF <<o.sym, o.want>> = m THEN b ELSE 0)
        /\ e2.depth[m][2] = e1.depth[m][2] + (IF <<o.sym, o.want>> = m THEN q ELSE 0)
  BY <1>2, UpdateDepthIs
<1> HIDE DEF e2
<1>6. Moved(d, e2, o, n, b, q)
  BY <1>2, <1>3, <1>4, <1>5 DEF Moved
<1> QED BY <1>6 DEF e1, e2

\* What an order counts is an integer.
LEMMA BookIsInt ==
  ASSUME NEW o \in LimitOrder
  PROVE  /\ \A a, s : /\ Held(a, s)[o] = (IF o.seller = a THEN Of(s, o.sym, o.left) ELSE 0)
                      /\ Held(a, s)[o] \in Int
         /\ \A m : /\ Offered(m)[o] = (IF <<o.sym, o.want>> = m THEN o.left ELSE 0) /\ Offered(m)[o] \in Int
                   /\ Asked(m)[o] = (IF <<o.sym, o.want>> = m THEN AmountToReceive(o) ELSE 0)
                   /\ Asked(m)[o] \in Int
<1>1. o.left \in Int /\ AmountToReceive(o) \in Int
  BY ReceivesIsInt DEF LimitOrder
<1>2. \A a, s : Of(s, o.sym, o.left) \in Int
  BY <1>1, OfIsInt
<1> QED BY <1>1, <1>2 DEF Held, Offered, Asked

\* Sums over the orders, with one order taken out, put in, or put in the
\* place of another.
Weighs(f) == \A o \in LimitOrder : f[o] \in Int

LEMMA OrderSum ==
  ASSUME NEW d, Typed(d), NEW f, Weighs(f) PROVE SumFunctionOnSet(f, d.orders) \in Int
<1>1. IsFiniteSet(d.orders) /\ \A o \in d.orders : f[o] \in Int
  BY DEF Typed, Ledgers, Weighs
<1> QED BY <1>1, SumIsInt

LEMMA OrderWithout ==
  ASSUME NEW d, Typed(d), NEW f, Weighs(f), NEW o \in d.orders
  PROVE  SumFunctionOnSet(f, d.orders \ {o}) = SumFunctionOnSet(f, d.orders) - f[o]
<1> DEFINE D == d.orders \ {o}
<1>1. IsFiniteSet(d.orders) /\ \A p \in d.orders : f[p] \in Int
  BY DEF Typed, Ledgers, Weighs
<1>2. SumFunctionOnSet(f, d.orders) = f[o] + SumFunctionOnSet(f, D)
  BY ONLY <1>1, o \in d.orders, SumWithout
<1>3. IsFiniteSet(D) /\ \A p \in D : f[p] \in Int
  BY <1>1, FS_RemoveElement
<1>4. f[o] \in Int
  BY <1>1
<1> HIDE DEF D
<1>5. SumFunctionOnSet(f, D) \in Int
  BY <1>3, SumIsInt
<1>6. SumFunctionOnSet(f, D) = SumFunctionOnSet(f, d.orders) - f[o]
  BY ONLY <1>2, <1>4, <1>5
<1> QED BY ONLY <1>6 DEF D

LEMMA OrderWith ==
  ASSUME NEW d, Typed(d), NEW f, Weighs(f), NEW r \in LimitOrder, r \notin d.orders
  PROVE  SumFunctionOnSet(f, d.orders \cup {r}) = SumFunctionOnSet(f, d.orders) + f[r]
<1>1. IsFiniteSet(d.orders)
  BY DEF Typed
<1>2. \A p \in d.orders \cup {r} : f[p] \in Int
  BY DEF Typed, Ledgers, Weighs
<1> QED BY ONLY <1>1, <1>2, r \notin d.orders, SumWith

LEMMA OrderInstead ==
  ASSUME NEW d, Typed(d), NEW f, Weighs(f), NEW o \in d.orders, NEW r \in LimitOrder, r \notin d.orders \ {o}
  PROVE  SumFunctionOnSet(f, (d.orders \ {o}) \cup {r}) = SumFunctionOnSet(f, d.orders) - f[o] + f[r]
<1> DEFINE D == d.orders \ {o}
<1>1. IsFiniteSet(D)
  BY FS_RemoveElement DEF Typed
<1>2. r \notin D /\ \A p \in D \cup {r} : f[p] \in Int
  BY DEF Typed, Ledgers, Weighs
<1>3. SumFunctionOnSet(f, D) = SumFunctionOnSet(f, d.orders) - f[o]
  BY OrderWithout
<1> HIDE DEF D
<1>4. SumFunctionOnSet(f, D \cup {r}) = SumFunctionOnSet(f, D) + f[r]
  BY ONLY <1>1, <1>2, SumWith
<1> QED BY ONLY <1>3, <1>4 DEF D

\* The gaps stay when the balance and the depth follow the order.
LEMMA GapsWithout ==
  ASSUME NEW d, Typed(d), NEW e, NEW o \in d.orders, e.orders = d.orders \ {o},
         Moved(d, e, o, -o.left, -o.left, -AmountToReceive(o))
  PROVE  SameGaps(d, e)
<1>1. o \in LimitOrder /\ o.left \in Int /\ AmountToReceive(o) \in Int
  BY ReceivesIsInt DEF Typed, Ledgers, LimitOrder
<1>2. ASSUME NEW a \in Account, NEW s \in Symbol PROVE HeldGap(e, a, s) = HeldGap(d, a, s)
  <2> DEFINE f == Held(a, s)
             n == IF o.seller = a THEN Of(s, o.sym, o.left) ELSE 0
  <2>1. f[o] = n /\ n \in Int /\ Weighs(f)
    <3>1. f[o] = n
      BY <1>1, BookIsInt
    <3>2. n \in Int
      BY <1>1 DEF Of
    <3>3. Weighs(f)
      BY BookIsInt DEF Weighs
    <3> QED BY <3>1, <3>2, <3>3
  <2>2. e.mkt[a][s] = d.mkt[a][s] - n /\ d.mkt[a][s] \in Int
    <3>1. e.mkt[a][s] = d.mkt[a][s] + (IF o.seller = a THEN Of(s, o.sym, -o.left) ELSE 0)
      BY DEF Moved
    <3>2. d.mkt[a][s] \in Int
      BY DEF Typed, Ledgers
    <3> QED BY <1>1, <3>1, <3>2 DEF Of
  <2> HIDE DEF f, n
  <2>3. /\ SumFunctionOnSet(f, d.orders) \in Int
        /\ SumFunctionOnSet(f, d.orders \ {o}) = SumFunctionOnSet(f, d.orders) - f[o]
    BY <2>1, OrderSum, OrderWithout
  <2>4. e.mkt[a][s] - SumFunctionOnSet(f, e.orders) = d.mkt[a][s] - SumFunctionOnSet(f, d.orders)
    BY <2>1, <2>2, <2>3
  <2> QED BY <2>4 DEF HeldGap, f
<1>3. ASSUME NEW m \in Symbol \X Symbol
      PROVE  OfferedGap(e, m) = OfferedGap(d, m) /\ AskedGap(e, m) = AskedGap(d, m)
  <2> DEFINE f == Offered(m)
             g == Asked(m)
  <2>1. /\ f[o] = (IF <<o.sym, o.want>> = m THEN o.left ELSE 0)
        /\ g[o] = (IF <<o.sym, o.want>> = m THEN AmountToReceive(o) ELSE 0)
        /\ f[o] \in Int /\ g[o] \in Int /\ Weighs(f) /\ Weighs(g)
    BY <1>1, BookIsInt DEF Weighs
  <2>2. d.depth[m][1] \in Int /\ d.depth[m][2] \in Int
    <3>1. d.depth[m] \in Int \X Int
      BY DEF Typed, Ledgers
    <3> QED BY <3>1
  <2> HIDE DEF f, g
  <2>3. e.depth[m][1] = d.depth[m][1] - f[o] /\ e.depth[m][2] = d.depth[m][2] - g[o]
    BY <1>1, <2>1, <2>2 DEF Moved
  <2>4. /\ SumFunctionOnSet(f, d.orders) \in Int
        /\ SumFunctionOnSet(f, d.orders \ {o}) = SumFunctionOnSet(f, d.orders) - f[o]
    BY <2>1, OrderSum, OrderWithout
  <2>5. /\ SumFunctionOnSet(g, d.orders) \in Int
        /\ SumFunctionOnSet(g, d.orders \ {o}) = SumFunctionOnSet(g, d.orders) - g[o]
    BY <2>1, OrderSum, OrderWithout
  <2>6. /\ e.depth[m][1] - SumFunctionOnSet(f, e.orders) = d.depth[m][1] - SumFunctionOnSet(f, d.orders)
        /\ e.depth[m][2] - SumFunctionOnSet(g, e.orders) = d.depth[m][2] - SumFunctionOnSet(g, d.orders)
    BY <2>1, <2>2, <2>3, <2>4, <2>5
  <2> QED BY <2>6 DEF OfferedGap, AskedGap, f, g
<1> QED BY <1>2, <1>3 DEF SameGaps

LEMMA GapsInstead ==
  ASSUME NEW d, Typed(d), NEW e, NEW o \in d.orders, NEW r \in LimitOrder, r \notin d.orders \ {o},
         r.seller = o.seller, r.sym = o.sym, r.want = o.want, e.orders = (d.orders \ {o}) \cup {r},
         Moved(d, e, o, r.left - o.left, r.left - o.left, AmountToReceive(r) - AmountToReceive(o))
  PROVE  SameGaps(d, e)
<1>1. /\ o \in LimitOrder /\ o.left \in Int /\ AmountToReceive(o) \in Int
      /\ r.left \in Int /\ AmountToReceive(r) \in Int
  BY ReceivesIsInt DEF Typed, Ledgers, LimitOrder
<1>2. ASSUME NEW a \in Account, NEW s \in Symbol PROVE HeldGap(e, a, s) = HeldGap(d, a, s)
  <2> DEFINE f == Held(a, s)
  <2>1. /\ f[o] = (IF o.seller = a THEN Of(s, o.sym, o.left) ELSE 0)
        /\ f[r] = (IF o.seller = a THEN Of(s, o.sym, r.left) ELSE 0)
        /\ f[o] \in Int /\ f[r] \in Int /\ Weighs(f)
    BY <1>1, BookIsInt DEF Weighs
  <2> HIDE DEF f
  <2>2. e.mkt[a][s] = d.mkt[a][s] - f[o] + f[r] /\ d.mkt[a][s] \in Int
    <3>1. e.mkt[a][s] = d.mkt[a][s] + (IF o.seller = a THEN Of(s, o.sym, r.left - o.left) ELSE 0)
      BY DEF Moved
    <3>2. d.mkt[a][s] \in Int
      BY DEF Typed, Ledgers
    <3> QED BY <1>1, <2>1, <3>1, <3>2 DEF Of
  <2>3. /\ SumFunctionOnSet(f, d.orders) \in Int
        /\ SumFunctionOnSet(f, (d.orders \ {o}) \cup {r}) = SumFunctionOnSet(f, d.orders) - f[o] + f[r]
    BY <2>1, OrderSum, OrderInstead
  <2>4. e.mkt[a][s] - SumFunctionOnSet(f, e.orders) = d.mkt[a][s] - SumFunctionOnSet(f, d.orders)
    BY <2>1, <2>2, <2>3
  <2> QED BY <2>4 DEF HeldGap, f
<1>3. ASSUME NEW m \in Symbol \X Symbol
      PROVE  OfferedGap(e, m) = OfferedGap(d, m) /\ AskedGap(e, m) = AskedGap(d, m)
  <2> DEFINE f == Offered(m)
             g == Asked(m)
  <2>1. /\ f[o] = (IF <<o.sym, o.want>> = m THEN o.left ELSE 0)
        /\ f[r] = (IF <<o.sym, o.want>> = m THEN r.left ELSE 0)
        /\ g[o] = (IF <<o.sym, o.want>> = m THEN AmountToReceive(o) ELSE 0)
        /\ g[r] = (IF <<o.sym, o.want>> = m THEN AmountToReceive(r) ELSE 0)
    BY <1>1, BookIsInt DEF Weighs
  <2>2. /\ f[o] \in Int /\ g[o] \in Int /\ f[r] \in Int /\ g[r] \in Int
        /\ Weighs(f) /\ Weighs(g)
    BY <1>1, BookIsInt DEF Weighs
  <2>3. d.depth[m][1] \in Int /\ d.depth[m][2] \in Int
    <3>1. d.depth[m] \in Int \X Int
      BY DEF Typed, Ledgers
    <3> QED BY <3>1
  <2> HIDE DEF f, g
  <2>4. e.depth[m][1] = d.depth[m][1] - f[o] + f[r] /\ e.depth[m][2] = d.depth[m][2] - g[o] + g[r]
    BY <1>1, <2>1, <2>3 DEF Moved
  <2>5. /\ SumFunctionOnSet(f, d.orders) \in Int
        /\ SumFunctionOnSet(f, (d.orders \ {o}) \cup {r}) = SumFunctionOnSet(f, d.orders) - f[o] + f[r]
    BY <2>2, OrderSum, OrderInstead
  <2>6. /\ SumFunctionOnSet(g, d.orders) \in Int
        /\ SumFunctionOnSet(g, (d.orders \ {o}) \cup {r}) = SumFunctionOnSet(g, d.orders) - g[o] + g[r]
    BY <2>2, OrderSum, OrderInstead
  <2>7. /\ e.depth[m][1] - SumFunctionOnSet(f, e.orders) = d.depth[m][1] - SumFunctionOnSet(f, d.orders)
        /\ e.depth[m][2] - SumFunctionOnSet(g, e.orders) = d.depth[m][2] - SumFunctionOnSet(g, d.orders)
    BY <2>2, <2>3, <2>4, <2>5, <2>6
  <2> QED BY <2>7 DEF OfferedGap, AskedGap, f, g
<1> QED BY <1>2, <1>3 DEF SameGaps

\* Nothing is owed: no balance is negative, and every order has something to
\* sell and sells it for something.
InBlack(d) == \A a \in Account, s \in Symbol : d.bal[a][s] >= 0
Sells(o) == o.left > 0 /\ AmountToReceive(o) > 0
Solvent(d) == InBlack(d) /\ \A o \in d.orders : Sells(o)

LEMMA AdjustIs ==
  ASSUME NEW d, Typed(d), NEW a \in Account, NEW s \in Symbol, NEW n \in Int
  PROVE  \A b \in Account, t \in Symbol :
           Adjust(d, a, s, n).bal[b][t] = d.bal[b][t] + (IF a = b THEN Of(t, s, n) ELSE 0)
<1>1. d.bal \in [Account -> [Symbol -> Int]]
  BY DEF Typed, Ledgers
<1>2. Adjust(d, a, s, n).bal = [d.bal EXCEPT ![a] = [d.bal[a] EXCEPT ![s] = d.bal[a][s] + n]]
  BY DEF Adjust, Typed, Ledgers
<1> SUFFICES ASSUME NEW b \in Account, NEW t \in Symbol
             PROVE  Adjust(d, a, s, n).bal[b][t] = d.bal[b][t] + (IF a = b THEN Of(t, s, n) ELSE 0)
  OBVIOUS
<1>3. d.bal[b][t] \in Int
  BY <1>1
<1> QED BY <1>1, <1>2, <1>3 DEF Of

\* A balance that is high enough can be reduced.
LEMMA AdjustInBlack ==
  ASSUME NEW d, Typed(d), InBlack(d), NEW a \in Account, NEW s \in Symbol, NEW n \in Int, d.bal[a][s] + n >= 0
  PROVE  InBlack(Adjust(d, a, s, n))
<1> SUFFICES ASSUME NEW b \in Account, NEW t \in Symbol PROVE Adjust(d, a, s, n).bal[b][t] >= 0
  BY DEF InBlack
<1>1. Adjust(d, a, s, n).bal[b][t] = d.bal[b][t] + (IF a = b THEN Of(t, s, n) ELSE 0)
  BY AdjustIs
<1>2. d.bal[b][t] \in Int /\ d.bal[b][t] >= 0
  BY DEF Typed, Ledgers, InBlack
<1> QED BY <1>1, <1>2 DEF Of

-----------------------------------------------------------------------------
(* Cancelling and filling an order                                         *)

\* An order is taken out of the book and its rest is given back (cancel_order).
LEMMA CancelOrderDoes ==
  ASSUME NEW d, Typed(d), NEW o \in d.orders
  PROVE  /\ Typed(CancelOrder(d, o)) /\ SameObjects(d, CancelOrder(d, o))
         /\ CancelOrder(d, o).orders = d.orders \ {o}
         /\ \A t \in Core : Total(CancelOrder(d, o), t) = Total(d, t)
<1> DEFINE e1 == Adjust(d, o.seller, o.sym, o.left)
           e2 == AdjustMarket(e1, o.seller, o.sym, -o.left)
           e3 == UpdateDepth(e2, o, -o.left, -AmountToReceive(o))
           e4 == SetOrders(e3, d.orders \ {o})
<1>0. /\ o \in LimitOrder /\ o.seller \in Account /\ o.sym \in Symbol /\ o.left \in Int /\ -o.left \in Int
      /\ AmountToReceive(o) \in Int /\ -AmountToReceive(o) \in Int
  <2>1. o \in LimitOrder
    BY DEF Typed, Ledgers
  <2>2. AmountToReceive(o) \in Int
    BY <2>1, ReceivesIsInt
  <2> QED BY <2>1, <2>2 DEF LimitOrder
<1>1. Typed(e1) /\ SameButBalances(d, e1)
  BY <1>0, AdjustDoes
<1>2. ASSUME NEW t \in Core PROVE Total(e1, t) = Total(d, t) + Of(t, o.sym, o.left)
  BY <1>0, AdjustTotal
<1> HIDE DEF e1
<1>3. Typed(e2) /\ SameObjects(e1, e2) /\ e2.bal = e1.bal /\ e2.orders = e1.orders
  BY <1>0, <1>1, AdjustMarketDoes
<1> HIDE DEF e2
<1>4. Typed(e3) /\ SameObjects(e2, e3) /\ e3.bal = e2.bal /\ e3.orders = e2.orders
  BY <1>0, <1>3, UpdateDepthDoes
<1>5. CancelOrder(d, o) = [e3 EXCEPT !.orders = @ \ {o}]
  BY DEF CancelOrder, e1, e2
<1> HIDE DEF e3
<1>6. e3.orders = d.orders /\ SameObjects(d, e3)
  BY <1>1, <1>3, <1>4 DEF SameButBalances, SameObjects
<1>7. d.orders \ {o} \in SUBSET LimitOrder /\ IsFiniteSet(d.orders \ {o})
  BY FS_RemoveElement DEF Typed, Ledgers
<1>8. Typed(e4) /\ SameObjects(e3, e4) /\ e4.orders = d.orders \ {o}
  BY <1>4, <1>6, <1>7, SetOrdersDoes
<1>9. ASSUME NEW t \in Core PROVE Total(e4, t) = Total(d, t)
  <2>1. Total(e3, t) = Total(e2, t) /\ Total(e2, t) = Total(e1, t)
    BY <1>3, <1>4, TotalOfSame
  <2>2. Total(e4, t) = Total(e3, t) - Of(t, o.sym, o.left)
    BY <1>4, <1>6, WithoutOrder
  <2>3. Of(t, o.sym, o.left) \in Int /\ Total(d, t) \in Int
    BY <1>0, OfIsInt, PartsAreInts DEF Total
  <2> QED BY <1>2, <2>1, <2>2, <2>3
<1>10. SameObjects(d, e4)
  BY <1>6, <1>8 DEF SameObjects
<1>11. CancelOrder(d, o) = e4
  BY <1>5, <1>6 DEF SetOrders
<1> QED BY <1>8, <1>9, <1>10, <1>11

LEMMA CancelOrderBook ==
  ASSUME NEW d, Typed(d), NEW o \in d.orders
  PROVE  /\ SameGaps(d, CancelOrder(d, o))
         /\ InBlack(d) /\ o.left >= 0 => InBlack(CancelOrder(d, o))
<1> DEFINE e1 == Adjust(d, o.seller, o.sym, o.left)
           e3 == UpdateDepth(AdjustMarket(e1, o.seller, o.sym, -o.left), o, -o.left, -AmountToReceive(o))
           e == CancelOrder(d, o)
<1>0. /\ o \in LimitOrder /\ o.seller \in Account /\ o.sym \in Symbol /\ o.left \in Int /\ -o.left \in Int
      /\ -AmountToReceive(o) \in Int
  <2>1. o \in LimitOrder
    BY DEF Typed, Ledgers
  <2>2. AmountToReceive(o) \in Int
    BY <2>1, ReceivesIsInt
  <2> QED BY <2>1, <2>2 DEF LimitOrder
<1>1. Typed(e1) /\ SameButBalances(d, e1)
  BY <1>0, AdjustDoes
<1>2. InBlack(d) /\ o.left >= 0 => InBlack(e1)
  <2> SUFFICES ASSUME InBlack(d), o.left >= 0 PROVE InBlack(e1)
    OBVIOUS
  <2>1. d.bal[o.seller][o.sym] \in Int /\ d.bal[o.seller][o.sym] >= 0
    BY <1>0 DEF InBlack, Typed, Ledgers
  <2> QED BY <1>0, <2>1, AdjustInBlack
<1>3. e = [e3 EXCEPT !.orders = @ \ {o}]
  BY DEF CancelOrder
<1> HIDE DEF e1
<1>4. Moved(e1, e3, o, -o.left, -o.left, -AmountToReceive(o))
  BY <1>0, <1>1, MovedBoth
<1>5. e3 \in Ledgers /\ e3.bal = e1.bal
  <2> DEFINE e2 == AdjustMarket(e1, o.seller, o.sym, -o.left)
  <2>1. Typed(e2) /\ e2.bal = e1.bal
    BY <1>0, <1>1, AdjustMarketDoes
  <2> HIDE DEF e2
  <2>2. LET x == UpdateDepth(e2, o, -o.left, -AmountToReceive(o)) IN Typed(x) /\ x.bal = e1.bal
    BY <1>0, <2>1, UpdateDepthDoes
  <2> QED BY <2>2 DEF Typed, e2
<1> HIDE DEF e3
<1>6. e.bal = e1.bal /\ e.mkt = e3.mkt /\ e.depth = e3.depth
  BY <1>3, <1>5 DEF Ledgers
<1>7. e.orders = d.orders \ {o}
  BY CancelOrderDoes
<1> HIDE DEF e
<1>8. Moved(d, e, o, -o.left, -o.left, -AmountToReceive(o))
  BY <1>1, <1>4, <1>6 DEF Moved, SameButBalances
<1>9. SameGaps(d, e)
  BY <1>7, <1>8, GapsWithout
<1>10. InBlack(d) /\ o.left >= 0 => InBlack(e)
  BY <1>2, <1>6 DEF InBlack
<1> QED BY <1>9, <1>10 DEF e

\* The same order with another rest; the orders of R are orders of S or
\* what is left of them.
SameOrder(o, r) ==
    /\ r.id = o.id /\ r.seller = o.seller /\ r.orderid = o.orderid /\ r.exp = o.exp
    /\ r.sym = o.sym /\ r.want = o.want /\ r.base = o.base /\ r.quote = o.quote
Descend(S, R) == \A r \in R : \E o \in S : SameOrder(o, r)

\* An order pays and receives (fill_order): the others stay.
LEMMA FillOrderDoes ==
  ASSUME NEW d, Typed(d), OrdersKeyed(d.orders), NEW o \in d.orders, NEW pays \in Int, NEW receives \in Int
  PROVE  /\ Typed(FillOrder(d, o, pays, receives)) /\ SameObjects(d, FillOrder(d, o, pays, receives))
         /\ OrdersKeyed(FillOrder(d, o, pays, receives).orders)
         /\ Descend(d.orders, FillOrder(d, o, pays, receives).orders)
         /\ d.orders \ {o} \subseteq FillOrder(d, o, pays, receives).orders
         /\ \A t \in Core : Total(FillOrder(d, o, pays, receives), t) =
                              Total(d, t) + Of(t, o.want, receives) - Of(t, o.sym, pays)
<1> DEFINE rest == [o EXCEPT !.left = @ - pays]
           e1 == Adjust(d, o.seller, o.want, receives)
           e2 == AdjustMarket(e1, o.seller, o.sym, -pays)
           e3 == UpdateDepth(e2, o, -pays, AmountToReceive(rest) - AmountToReceive(o))
           gone == SetOrders(e3, d.orders \ {o})
           left == SetOrders(e3, (d.orders \ {o}) \cup {rest})
           e == FillOrder(d, o, pays, receives)
<1>0. /\ o \in LimitOrder /\ o.seller \in Account /\ o.sym \in Symbol /\ o.want \in Symbol /\ o.left \in Int
      /\ -pays \in Int /\ rest \in LimitOrder /\ rest.left = o.left - pays /\ SameOrder(o, rest)
      /\ AmountToReceive(rest) - AmountToReceive(o) \in Int /\ d.orders \in SUBSET LimitOrder
      /\ IsFiniteSet(d.orders)
  <2>1. o \in LimitOrder /\ d.orders \in SUBSET LimitOrder /\ IsFiniteSet(d.orders)
    BY DEF Typed, Ledgers
  <2>2. rest \in LimitOrder /\ rest.left = o.left - pays /\ SameOrder(o, rest)
    BY <2>1 DEF LimitOrder, SameOrder
  <2>3. AmountToReceive(o) \in Int /\ AmountToReceive(rest) \in Int
    BY <2>1, <2>2, ReceivesIsInt
  <2> QED BY <2>1, <2>2, <2>3 DEF LimitOrder
<1>1. Typed(e1) /\ SameButBalances(d, e1)
  BY <1>0, AdjustDoes
<1>2. ASSUME NEW t \in Core PROVE Total(e1, t) = Total(d, t) + Of(t, o.want, receives)
  BY <1>0, AdjustTotal
<1>3. e = IF pays = o.left THEN [e3 EXCEPT !.orders = @ \ {o}]
          ELSE IF AmountToReceive(rest) = 0
               THEN CancelOrder([e3 EXCEPT !.orders = (@ \ {o}) \cup {rest}], rest)
               ELSE [e3 EXCEPT !.orders = (@ \ {o}) \cup {rest}]
  BY DEF FillOrder
<1> HIDE DEF e1
<1>4. Typed(e2) /\ SameObjects(e1, e2) /\ e2.bal = e1.bal /\ e2.orders = e1.orders
  <2>1. Typed(e1) /\ o.seller \in Account /\ o.sym \in Symbol /\ -pays \in Int
    BY <1>0, <1>1
  <2> QED BY ONLY <2>1, AdjustMarketDoes
<1> HIDE DEF e2, rest
<1>5. Typed(e3) /\ SameObjects(e2, e3) /\ e3.bal = e2.bal /\ e3.orders = e2.orders
  BY <1>0, <1>4, UpdateDepthDoes
<1> HIDE DEF e3, e
<1>6. e3.orders = d.orders /\ SameObjects(d, e3)
  BY <1>1, <1>4, <1>5 DEF SameButBalances, SameObjects
<1>7. e = IF pays = o.left THEN gone ELSE IF AmountToReceive(rest) = 0 THEN CancelOrder(left, rest) ELSE left
  BY <1>3, <1>6 DEF SetOrders
<1>8. ASSUME NEW t \in Core
      PROVE  /\ Total(e3, t) = Total(d, t) + Of(t, o.want, receives)
             /\ Total(d, t) \in Int /\ Of(t, o.want, receives) \in Int
             /\ Of(t, o.sym, pays) \in Int /\ Of(t, o.sym, o.left) \in Int
             /\ Of(t, o.sym, rest.left) = Of(t, o.sym, o.left) - Of(t, o.sym, pays)
  <2>1. Total(e3, t) = Total(e2, t) /\ Total(e2, t) = Total(e1, t)
    BY <1>4, <1>5, TotalOfSame
  <2>2. /\ Total(d, t) \in Int /\ Of(t, o.want, receives) \in Int
        /\ Of(t, o.sym, pays) \in Int /\ Of(t, o.sym, o.left) \in Int
    BY <1>0, OfIsInt, PartsAreInts DEF Total
  <2>3. Of(t, o.sym, rest.left) = Of(t, o.sym, o.left) - Of(t, o.sym, pays)
    BY <1>0 DEF Of
  <2> QED BY <1>2, <2>1, <2>2, <2>3
<1>9. rest \notin d.orders \ {o}
  BY <1>0 DEF OrdersKeyed, SameOrder
<1>10. /\ d.orders \ {o} \in SUBSET LimitOrder /\ IsFiniteSet(d.orders \ {o})
       /\ (d.orders \ {o}) \cup {rest} \in SUBSET LimitOrder /\ IsFiniteSet((d.orders \ {o}) \cup {rest})
  BY <1>0, FS_RemoveElement, FS_AddElement
<1>11. OrdersKeyed(d.orders \ {o}) /\ OrdersKeyed((d.orders \ {o}) \cup {rest})
  BY <1>0 DEF OrdersKeyed, SameOrder
<1>12. Descend(d.orders, d.orders \ {o}) /\ Descend(d.orders, (d.orders \ {o}) \cup {rest})
  BY <1>0 DEF Descend, SameOrder
<1>13. CASE pays = o.left
  <2>1. e = gone
    BY <1>7, <1>13
  <2>2. Typed(gone) /\ SameObjects(e3, gone) /\ gone.orders = d.orders \ {o}
    BY <1>5, <1>10, SetOrdersDoes
  <2>3. ASSUME NEW t \in Core
        PROVE  Total(gone, t) = Total(d, t) + Of(t, o.want, receives) - Of(t, o.sym, pays)
    <3>1. Total(gone, t) = Total(e3, t) - Of(t, o.sym, o.left)
      BY <1>5, <1>6, WithoutOrder
    <3> QED BY <1>8, <1>13, <3>1
  <2>4. SameObjects(d, gone)
    BY <1>6, <2>2 DEF SameObjects
  <2> QED BY <1>11, <1>12, <2>1, <2>2, <2>3, <2>4 DEF e
<1>14. CASE pays # o.left
  <2>1. Typed(left) /\ SameObjects(e3, left) /\ left.orders = (d.orders \ {o}) \cup {rest}
    <3> DEFINE R == (d.orders \ {o}) \cup {rest}
    <3>1. Typed(e3) /\ R \in SUBSET LimitOrder /\ IsFiniteSet(R)
      BY <1>5, <1>10
    <3>2. left = SetOrders(e3, R)
      OBVIOUS
    <3> HIDE DEF R, left
    <3>3. Typed(left) /\ SameObjects(e3, left) /\ left.orders = R
      BY ONLY <3>1, <3>2, SetOrdersDoes
    <3> QED BY <3>3 DEF R
  <2>2. ASSUME NEW t \in Core
        PROVE  Total(left, t) = Total(d, t) + Of(t, o.want, receives) - Of(t, o.sym, pays)
    <3>1. Total(left, t) = Total(e3, t) - Of(t, o.sym, o.left) + Of(t, rest.sym, rest.left)
      BY <1>0, <1>5, <1>6, <1>9, InsteadOfOrder
    <3>2. rest.sym = o.sym
      BY <1>0 DEF SameOrder
    <3> QED BY <1>8, <3>1, <3>2
  <2>3. SameObjects(d, left)
    BY <1>6, <2>1 DEF SameObjects
  <2> HIDE DEF left
  <2>4. CASE AmountToReceive(rest) # 0
    <3>1. e = left
      BY <1>7, <1>14, <2>4
    <3> QED BY <1>11, <1>12, <2>1, <2>2, <2>3, <3>1 DEF e
  <2>5. CASE AmountToReceive(rest) = 0
    <3> DEFINE last == CancelOrder(left, rest)
    <3>1. e = last
      BY <1>7, <1>14, <2>5
    <3>2. rest \in left.orders
      BY <2>1
    <3>3. /\ Typed(last) /\ SameObjects(left, last) /\ last.orders = left.orders \ {rest}
          /\ \A t \in Core : Total(last, t) = Total(left, t)
      BY <2>1, <3>2, CancelOrderDoes
    <3> HIDE DEF last
    <3>4. last.orders = d.orders \ {o}
      BY <1>9, <2>1, <3>3
    <3>5. SameObjects(d, last)
      BY <2>3, <3>3 DEF SameObjects
    <3> QED BY <1>11, <1>12, <2>2, <3>1, <3>3, <3>4, <3>5 DEF e
  <2> QED BY <2>4, <2>5
<1> QED BY <1>13, <1>14

\* What is left of an order, and the state in which it has paid and received.
Rest(o, pays) == [o EXCEPT !.left = @ - pays]
Paid(d, o, pays, receives) ==
    UpdateDepth(AdjustMarket(Adjust(d, o.seller, o.want, receives), o.seller, o.sym, -pays),
                o, -pays, AmountToReceive(Rest(o, pays)) - AmountToReceive(o))

LEMMA FillOrderIs ==
  ASSUME NEW d, NEW o, NEW pays, NEW receives
  PROVE  FillOrder(d, o, pays, receives) =
           IF pays = o.left
           THEN [Paid(d, o, pays, receives) EXCEPT !.orders = @ \ {o}]
           ELSE LET modified == [Paid(d, o, pays, receives) EXCEPT !.orders = (@ \ {o}) \cup {Rest(o, pays)}]
                IN IF AmountToReceive(Rest(o, pays)) = 0 THEN CancelOrder(modified, Rest(o, pays)) ELSE modified
BY DEF FillOrder, Paid, Rest

LEMMA RestIs ==
  ASSUME NEW o \in LimitOrder, NEW pays \in Int
  PROVE  /\ Rest(o, pays) \in LimitOrder /\ Rest(o, pays).left = o.left - pays /\ SameOrder(o, Rest(o, pays))
         /\ pays = o.left => AmountToReceive(Rest(o, pays)) = 0
<1> DEFINE r == Rest(o, pays)
<1>1. r \in LimitOrder /\ r.left = o.left - pays /\ SameOrder(o, r)
  BY DEF Rest, LimitOrder, SameOrder
<1>2. ASSUME pays = o.left PROVE AmountToReceive(r) = 0
  <2>1. r.left = 0 /\ r.quote \in Int /\ r.base \in Positive
    BY <1>1, <1>2 DEF LimitOrder, Positive
  <2> HIDE DEF r
  <2>2. r.left * r.quote = 0
    BY <2>1
  <2>3. 0 \div r.base = 0
    BY <2>1 DEF Positive
  <2> QED BY <2>2, <2>3 DEF AmountToReceive
<1> QED BY <1>1, <1>2

LEMMA PaidIs ==
  ASSUME NEW d, Typed(d), NEW o \in d.orders, NEW pays \in Int, NEW receives \in Int
  PROVE  /\ Typed(Paid(d, o, pays, receives)) /\ Paid(d, o, pays, receives).orders = d.orders
         /\ Paid(d, o, pays, receives).bal = Adjust(d, o.seller, o.want, receives).bal
         /\ Moved(d, Paid(d, o, pays, receives), o, -pays, -pays,
                  AmountToReceive(Rest(o, pays)) - AmountToReceive(o))
<1> DEFINE q == AmountToReceive(Rest(o, pays)) - AmountToReceive(o)
           e1 == Adjust(d, o.seller, o.want, receives)
           e2 == AdjustMarket(e1, o.seller, o.sym, -pays)
           e3 == UpdateDepth(e2, o, -pays, q)
<1>1. o \in LimitOrder /\ o.seller \in Account /\ o.sym \in Symbol /\ o.want \in Symbol /\ -pays \in Int
  BY DEF Typed, Ledgers, LimitOrder
<1>2. q \in Int
  BY <1>1, RestIs, ReceivesIsInt
<1>3. e3 = Paid(d, o, pays, receives)
  BY DEF Paid
<1>4. Typed(e1) /\ SameButBalances(d, e1)
  BY <1>1, AdjustDoes
<1> HIDE DEF q
<1>5. Moved(e1, e3, o, -pays, -pays, q)
  <2> HIDE DEF e1
  <2> QED BY <1>1, <1>2, <1>4, MovedBoth
<1>6. Typed(e2) /\ e2.bal = e1.bal /\ e2.orders = d.orders
  <2> HIDE DEF e1
  <2> QED BY <1>1, <1>4, AdjustMarketDoes DEF SameButBalances
<1>7. Typed(e3) /\ e3.bal = e1.bal /\ e3.orders = d.orders
  <2> HIDE DEF e1, e2
  <2>1. -pays \in Int /\ -q \in Int /\ q \in Int
    BY <1>1, <1>2
  <2>2. Typed(e3) /\ e3.bal = e2.bal /\ e3.orders = e2.orders
    BY <1>1, <1>6, <2>1, UpdateDepthDoes
  <2> HIDE DEF e3
  <2> QED BY <1>6, <2>2
<1>8. Moved(d, e3, o, -pays, -pays, q)
  <2> HIDE DEF e1, e3
  <2> QED BY <1>4, <1>5 DEF Moved, SameButBalances
<1> QED BY <1>3, <1>7, <1>8 DEF q

\* Filling an order leaves the gaps, and takes away an order that paid all.
LEMMA FillOrderGaps ==
  ASSUME NEW d, Typed(d), OrdersKeyed(d.orders), NEW o \in d.orders, NEW pays \in Int, NEW receives \in Int
  PROVE  /\ SameGaps(d, FillOrder(d, o, pays, receives))
         /\ pays = o.left => FillOrder(d, o, pays, receives).orders = d.orders \ {o}
<1> DEFINE r == Rest(o, pays)
           g == Paid(d, o, pays, receives)
           R == (d.orders \ {o}) \cup {r}
           left == SetOrders(g, R)
           e == FillOrder(d, o, pays, receives)
<1>1. /\ o \in LimitOrder /\ d.orders \in SUBSET LimitOrder /\ IsFiniteSet(d.orders) /\ o.left \in Int
      /\ AmountToReceive(o) \in Int
  BY ReceivesIsInt DEF Typed, Ledgers, LimitOrder
<1>2. /\ r \in LimitOrder /\ r.left = o.left - pays /\ SameOrder(o, r)
      /\ pays = o.left => AmountToReceive(r) = 0
  BY <1>1, RestIs
<1>3. Typed(g) /\ g.orders = d.orders /\ Moved(d, g, o, -pays, -pays, AmountToReceive(r) - AmountToReceive(o))
  BY PaidIs
<1>4. e = IF pays = o.left THEN [g EXCEPT !.orders = @ \ {o}]
          ELSE IF AmountToReceive(r) = 0 THEN CancelOrder([g EXCEPT !.orders = (@ \ {o}) \cup {r}], r)
               ELSE [g EXCEPT !.orders = (@ \ {o}) \cup {r}]
  BY FillOrderIs
<1> HIDE DEF r, g, e
<1>5. r \notin d.orders \ {o}
  BY <1>1, <1>2 DEF OrdersKeyed, SameOrder
<1>6. CASE pays = o.left
  <2>1. e = SetOrders(g, d.orders \ {o}) /\ g \in Ledgers
    BY <1>3, <1>4, <1>6 DEF SetOrders, Typed
  <2>2. e.orders = d.orders \ {o} /\ e.mkt = g.mkt /\ e.depth = g.depth
    BY <2>1 DEF SetOrders, Ledgers
  <2>3. Moved(d, e, o, -o.left, -o.left, -AmountToReceive(o))
    <3>1. -pays = -o.left /\ AmountToReceive(r) - AmountToReceive(o) = -AmountToReceive(o)
      BY <1>1, <1>2, <1>6
    <3> QED BY <1>3, <2>2, <3>1 DEF Moved
  <2>4. SameGaps(d, e)
    BY <2>2, <2>3, GapsWithout
  <2> QED BY <2>2, <2>4 DEF e
<1>7. CASE pays # o.left
  <2>1. R \in SUBSET LimitOrder /\ IsFiniteSet(R)
    BY <1>1, <1>2, FS_RemoveElement, FS_AddElement
  <2>2. Typed(left) /\ left.orders = R /\ left.mkt = g.mkt /\ left.depth = g.depth
    <3> HIDE DEF R
    <3> QED BY <1>3, <2>1, SetOrdersDoes
  <2>3. e = IF AmountToReceive(r) = 0 THEN CancelOrder(left, r) ELSE left
    BY <1>3, <1>4, <1>7 DEF SetOrders
  <2> HIDE DEF left
  <2>4. Moved(d, left, o, r.left - o.left, r.left - o.left, AmountToReceive(r) - AmountToReceive(o))
    <3>1. r.left - o.left = -pays
      BY <1>1, <1>2
    <3> QED BY <1>3, <2>2, <3>1 DEF Moved
  <2>5. SameGaps(d, left)
    <3>1. r.seller = o.seller /\ r.sym = o.sym /\ r.want = o.want
      BY <1>2 DEF SameOrder
    <3> QED BY <1>2, <1>5, <2>2, <2>4, <3>1, GapsInstead
  <2>6. SameGaps(left, CancelOrder(left, r))
    BY <2>2, CancelOrderBook
  <2>7. SameGaps(d, e)
    BY <2>3, <2>5, <2>6, GapsFollow
  <2> QED BY <1>7, <2>7 DEF e
<1> QED BY <1>6, <1>7

LEMMA ReceivesIsNat ==
  ASSUME NEW o \in LimitOrder, o.left >= 0 PROVE AmountToReceive(o) >= 0
<1>1. o.left \in Nat /\ o.quote \in Nat /\ o.base \in Positive
  BY DEF LimitOrder, Positive
<1>2. o.left * o.quote \in Nat
  BY <1>1
<1>3. ASSUME NEW n \in Nat PROVE n \div o.base >= 0
  BY <1>1 DEF Positive
<1> QED BY <1>2, <1>3 DEF AmountToReceive

\* It costs nobody what he does not have.
LEMMA FillOrderSolvent ==
  ASSUME NEW d, Typed(d), OrdersKeyed(d.orders), NEW o \in d.orders, NEW pays \in Int, NEW receives \in Int,
         Solvent(d), 0 <= pays, pays <= o.left, 0 <= receives
  PROVE  Solvent(FillOrder(d, o, pays, receives))
<1> DEFINE r == Rest(o, pays)
           g == Paid(d, o, pays, receives)
           R == (d.orders \ {o}) \cup {r}
           left == SetOrders(g, R)
           e == FillOrder(d, o, pays, receives)
<1>1. /\ o \in LimitOrder /\ d.orders \in SUBSET LimitOrder /\ IsFiniteSet(d.orders) /\ o.left \in Int
      /\ o.seller \in Account /\ o.want \in Symbol
  BY DEF Typed, Ledgers, LimitOrder
<1>2. r \in LimitOrder /\ r.left = o.left - pays /\ SameOrder(o, r)
  BY <1>1, RestIs
<1>3. Typed(g) /\ g.orders = d.orders /\ g.bal = Adjust(d, o.seller, o.want, receives).bal
  BY PaidIs
<1>4. e = IF pays = o.left THEN [g EXCEPT !.orders = @ \ {o}]
          ELSE IF AmountToReceive(r) = 0 THEN CancelOrder([g EXCEPT !.orders = (@ \ {o}) \cup {r}], r)
               ELSE [g EXCEPT !.orders = (@ \ {o}) \cup {r}]
  BY FillOrderIs
<1> HIDE DEF r, g, e
<1>5. InBlack(g)
  <2>1. d.bal[o.seller][o.want] \in Int /\ d.bal[o.seller][o.want] >= 0
    BY <1>1 DEF Typed, Ledgers, Solvent, InBlack
  <2>2. InBlack(Adjust(d, o.seller, o.want, receives))
    BY <1>1, <2>1, AdjustInBlack DEF Solvent
  <2> QED BY <1>3, <2>2 DEF InBlack
<1>6. \A p \in d.orders : Sells(p)
  BY DEF Solvent
<1>7. CASE pays = o.left
  <2>1. e = SetOrders(g, d.orders \ {o}) /\ g \in Ledgers
    BY <1>3, <1>4, <1>7 DEF SetOrders, Typed
  <2>2. e.orders = d.orders \ {o} /\ e.bal = g.bal
    BY <2>1 DEF SetOrders, Ledgers
  <2>3. Solvent(e)
    BY <1>5, <1>6, <2>2 DEF Solvent, InBlack
  <2> QED BY <2>3 DEF e
<1>8. CASE pays # o.left
  <2>1. R \in SUBSET LimitOrder /\ IsFiniteSet(R)
    BY <1>1, <1>2, FS_RemoveElement, FS_AddElement
  <2>2. Typed(left) /\ left.orders = R /\ left.bal = g.bal
    <3> HIDE DEF R
    <3> QED BY <1>3, <2>1, SetOrdersDoes
  <2>3. e = IF AmountToReceive(r) = 0 THEN CancelOrder(left, r) ELSE left
    BY <1>3, <1>4, <1>8 DEF SetOrders
  <2> HIDE DEF left
  <2>4. InBlack(left)
    BY <1>5, <2>2 DEF InBlack
  <2>5. r.left \in Int /\ r.left > 0
    BY <1>1, <1>2, <1>8
  <2>6. AmountToReceive(r) \in Int /\ AmountToReceive(r) >= 0
    BY <1>2, <2>5, ReceivesIsInt, ReceivesIsNat
  <2>7. CASE AmountToReceive(r) = 0
    <3>1. r \in left.orders /\ r.left >= 0
      BY <2>2, <2>5
    <3>2. InBlack(CancelOrder(left, r))
      BY <2>2, <2>4, <3>1, CancelOrderBook
    <3>3. CancelOrder(left, r).orders = left.orders \ {r}
      BY <2>2, <3>1, CancelOrderDoes
    <3>4. Solvent(e)
      BY <1>6, <2>2, <2>3, <2>7, <3>2, <3>3 DEF Solvent
    <3> QED BY <3>4 DEF e
  <2>8. CASE AmountToReceive(r) # 0
    <3>1. Sells(r)
      BY <2>5, <2>6, <2>8 DEF Sells
    <3>2. Solvent(e)
      BY <1>6, <2>2, <2>3, <2>4, <2>8, <3>1 DEF Solvent
    <3> QED BY <3>2 DEF e
  <2> QED BY <2>7, <2>8
<1> QED BY <1>7, <1>8

-----------------------------------------------------------------------------
(* Matching                                                                *)

\* The rates of fees, in hundredths of a percent.
FeeRates == 0..10000

LEMMA FeesAreRates == FeePercent \in [Asset -> FeeRates]
BY AssetAssumption, SMTT(30) DEF FeeRates

LEMMA CreatorIsAccount == ASSUME NEW s \in Symbol, s \notin Core PROVE Creator[s] \in Account
<1>1. s \in Asset
  BY DEF Symbol
<1>2. Creator \in [Asset -> Account]
  BY AssetAssumption
<1> QED BY ONLY <1>1, <1>2

\* The fee of a trade is an amount, and there is none in STEEM or SBD.
LEMMA TradeFeeIsInt ==
  ASSUME NEW s \in Symbol, NEW n \in Int
  PROVE  TradeFee(s, n) \in Int /\ (s \in Core => TradeFee(s, n) = 0)
<1>1. CASE s \in Core
  BY <1>1 DEF TradeFee
<1>2. CASE s \notin Core
  <2> DEFINE q == (n * FeePercent[s]) \div 10000
  <2>1. FeePercent[s] \in Int
    <3>1. s \in Asset
      BY ONLY <1>2, s \in Symbol DEF Symbol
    <3>2. FeePercent \in [Asset -> FeeRates]
      BY FeesAreRates
    <3>3. FeePercent[s] \in FeeRates
      BY ONLY <3>1, <3>2
    <3>4. \A r \in FeeRates : r \in Int
      BY DEF FeeRates
    <3> QED BY ONLY <3>3, <3>4
  <2>2. q \in Int
    <3>1. 10000 \in Positive
      BY DEF Positive
    <3> QED BY <2>1, <3>1, QuotientIsInt
  <2>3. TradeFee(s, n) = 0 \/ TradeFee(s, n) = Max({1, q})
    BY <1>2 DEF TradeFee
  <2> HIDE DEF q
  <2>4. Max({1, q}) \in Int
    <3>1. \E x \in {1, q} : \A y \in {1, q} : x >= y
      BY <2>2
    <3>2. Max({1, q}) \in {1, q}
      BY <3>1 DEF Max
    <3> QED BY <2>2, <3>2
  <2> QED BY <1>2, <2>3, <2>4
<1> QED BY <1>1, <1>2

\* The issuer takes the fee of its own asset only.
LEMMA PayFeeDoes ==
  ASSUME NEW d, Typed(d), NEW s \in Symbol, NEW n \in Int
  PROVE  /\ Typed(PayFee(d, s, n)) /\ SameButBalances(d, PayFee(d, s, n))
         /\ \A t \in Core : Total(PayFee(d, s, n), t) = Total(d, t)
<1>1. CASE s \in Core
  BY <1>1 DEF PayFee, SameButBalances
<1>2. CASE s \notin Core
  <2>1. Creator[s] \in Account /\ TradeFee(s, n) \in Int
    BY <1>2, CreatorIsAccount, TradeFeeIsInt
  <2>2. PayFee(d, s, n) = Adjust(d, Creator[s], s, TradeFee(s, n))
    BY <1>2 DEF PayFee
  <2>3. Typed(PayFee(d, s, n)) /\ SameButBalances(d, PayFee(d, s, n))
    BY <2>1, <2>2, AdjustDoes
  <2>4. ASSUME NEW t \in Core PROVE Total(PayFee(d, s, n), t) = Total(d, t)
    <3>1. Total(PayFee(d, s, n), t) = Total(d, t) + Of(t, s, TradeFee(s, n))
      BY <2>1, <2>2, AdjustTotal
    <3>2. Of(t, s, TradeFee(s, n)) = 0
      BY <1>2 DEF Of
    <3>3. Total(d, t) \in Int
      BY PartsAreInts DEF Total
    <3> QED BY <3>1, <3>2, <3>3
  <2> QED BY <2>3, <2>4
<1> QED BY <1>1, <1>2

\* A trade gives to each of the two what the other one pays, without the
\* fees (match): no STEEM and no SBD appears or disappears.
LEMMA MatchDoes ==
  ASSUME NEW d, Typed(d), OrdersKeyed(d.orders), NEW o \in d.orders, NEW p \in d.orders, p # o,
         o.sym = p.want, o.want = p.sym
  PROVE  /\ Typed(Match(d, o, p)) /\ SameObjects(d, Match(d, o, p))
         /\ OrdersKeyed(Match(d, o, p).orders) /\ Descend(d.orders, Match(d, o, p).orders)
         /\ d.orders \ {o, p} \subseteq Match(d, o, p).orders
         /\ \A t \in Core : Total(Match(d, o, p), t) = Total(d, t)
<1> DEFINE all == o.left <= (p.left * p.quote) \div p.base
           oPays == IF all THEN o.left ELSE (p.left * p.quote) \div p.base
           pPays == IF all THEN (o.left * p.base) \div p.quote ELSE p.left
           fee == PayFee(d, o.want, pPays)
           fees == PayFee(fee, p.want, oPays)
           oGets == pPays - TradeFee(o.want, pPays)
           pGets == oPays - TradeFee(p.want, oPays)
           filled == FillOrder(fees, o, oPays, oGets)
           e == FillOrder(filled, p, pPays, pGets)
<1>0. /\ o \in LimitOrder /\ p \in LimitOrder /\ o.want \in Symbol /\ p.want \in Symbol
      /\ o.left \in Int /\ p.left \in Int /\ p.base \in Positive /\ p.quote \in Positive
  BY DEF Typed, Ledgers, LimitOrder
<1>1. oPays \in Int /\ pPays \in Int
  <2>1. p.base \in Int /\ p.quote \in Int
    BY <1>0 DEF Positive
  <2>2. (p.left * p.quote) \div p.base \in Int /\ (o.left * p.base) \div p.quote \in Int
    BY <1>0, <2>1, QuotientIsInt
  <2> QED BY <1>0, <2>2
<1>2. Match(d, o, p) = e
  BY DEF Match
<1> HIDE DEF all, oPays, pPays
<1>3. /\ TradeFee(o.want, pPays) \in Int /\ TradeFee(p.want, oPays) \in Int
      /\ oGets \in Int /\ pGets \in Int
      /\ \A t \in Core : Of(t, o.want, oGets) = Of(t, o.want, pPays) /\ Of(t, p.want, pGets) = Of(t, p.want, oPays)
  <2>1. /\ TradeFee(o.want, pPays) \in Int /\ (o.want \in Core => TradeFee(o.want, pPays) = 0)
        /\ TradeFee(p.want, oPays) \in Int /\ (p.want \in Core => TradeFee(p.want, oPays) = 0)
    BY <1>0, <1>1, TradeFeeIsInt
  <2>2. oGets \in Int /\ pGets \in Int
    BY <1>1, <2>1
  <2>3. ASSUME NEW t \in Core
        PROVE  Of(t, o.want, oGets) = Of(t, o.want, pPays) /\ Of(t, p.want, pGets) = Of(t, p.want, oPays)
    <3>1. o.want = t => oGets = pPays
      BY <1>1, <2>1
    <3>2. p.want = t => pGets = oPays
      BY <1>1, <2>1
    <3> QED BY <3>1, <3>2 DEF Of
  <2> QED BY <2>1, <2>2, <2>3
<1> HIDE DEF oGets, pGets
<1>4. Typed(fee) /\ SameButBalances(d, fee) /\ \A t \in Core : Total(fee, t) = Total(d, t)
  BY <1>0, <1>1, PayFeeDoes
<1> HIDE DEF fee
<1>5. Typed(fees) /\ SameButBalances(fee, fees) /\ \A t \in Core : Total(fees, t) = Total(fee, t)
  BY <1>0, <1>1, <1>4, PayFeeDoes
<1> HIDE DEF fees
<1>6. fees.orders = d.orders /\ SameObjects(d, fees)
  BY <1>4, <1>5 DEF SameButBalances, SameObjects
<1>7. /\ Typed(filled) /\ SameObjects(fees, filled) /\ OrdersKeyed(filled.orders)
      /\ Descend(d.orders, filled.orders) /\ d.orders \ {o} \subseteq filled.orders
      /\ \A t \in Core : Total(filled, t) = Total(fees, t) + Of(t, o.want, oGets) - Of(t, o.sym, oPays)
  <2>1. o \in fees.orders /\ OrdersKeyed(fees.orders)
    BY <1>6
  <2>2. /\ Typed(filled) /\ SameObjects(fees, filled) /\ OrdersKeyed(filled.orders)
        /\ Descend(fees.orders, filled.orders) /\ fees.orders \ {o} \subseteq filled.orders
        /\ \A t \in Core : Total(filled, t) = Total(fees, t) + Of(t, o.want, oGets) - Of(t, o.sym, oPays)
    BY <1>1, <1>3, <1>5, <2>1, FillOrderDoes
  <2> QED BY <1>6, <2>2
<1> HIDE DEF filled
<1>8. /\ Typed(e) /\ SameObjects(filled, e) /\ OrdersKeyed(e.orders)
      /\ Descend(filled.orders, e.orders) /\ filled.orders \ {p} \subseteq e.orders
      /\ \A t \in Core : Total(e, t) = Total(filled, t) + Of(t, p.want, pGets) - Of(t, p.sym, pPays)
  <2>1. p \in filled.orders
    BY <1>7
  <2> QED BY <1>1, <1>3, <1>7, <2>1, FillOrderDoes
<1> HIDE DEF e
<1>9. SameObjects(d, e) /\ Descend(d.orders, e.orders) /\ d.orders \ {o, p} \subseteq e.orders
  <2>1. SameObjects(d, e)
    BY <1>6, <1>7, <1>8 DEF SameObjects
  <2>2. Descend(d.orders, e.orders)
    BY <1>7, <1>8 DEF Descend, SameOrder
  <2> QED BY <1>7, <1>8, <2>1, <2>2
<1>10. ASSUME NEW t \in Core PROVE Total(e, t) = Total(d, t)
  <2>1. /\ Total(e, t) = Total(filled, t) + Of(t, p.want, pGets) - Of(t, p.sym, pPays)
        /\ Total(filled, t) = Total(fees, t) + Of(t, o.want, oGets) - Of(t, o.sym, oPays)
        /\ Total(fees, t) = Total(d, t)
    BY <1>4, <1>5, <1>7, <1>8
  <2>2. Of(t, o.want, oGets) = Of(t, p.sym, pPays) /\ Of(t, p.want, pGets) = Of(t, o.sym, oPays)
    BY <1>3
  <2>3. Of(t, p.sym, pPays) \in Int /\ Of(t, o.sym, oPays) \in Int /\ Total(d, t) \in Int
    BY <1>1, OfIsInt, PartsAreInts DEF Total
  <2> QED BY <2>1, <2>2, <2>3
<1> QED BY <1>2, <1>8, <1>9, <1>10

\* A part of an amount is no more than the amount.
LEMMA PercentBelow ==
  ASSUME NEW n \in Nat, NEW p \in Nat, p <= 10000
  PROVE  /\ Percent(n, p) \in Int /\ 0 <= Percent(n, p) /\ Percent(n, p) <= n
         /\ n > 0 /\ p < 10000 => Percent(n, p) < n
<1> DEFINE q == (n * p) \div 10000
<1>1. PICK k \in Nat : 10000 = p + k
  <2>1. 10000 - p \in Nat /\ 10000 = p + (10000 - p)
    OBVIOUS
  <2> QED BY <2>1
<1>2. n * 10000 = n * p + n * k /\ n * k \in Nat /\ n * p \in Nat
  BY <1>1
<1>3. 10000 \in Positive /\ n * p <= n * 10000
  BY <1>2 DEF Positive
<1>4. q \in Int
  BY <1>3, QuotientIsInt
<1>5. 0 <= q /\ q <= n
  BY <1>2, <1>3, QuotientBelow
<1>6. ASSUME n > 0, p < 10000, n <= q PROVE FALSE
  <2>1. n * 10000 <= n * p
    BY <1>2, <1>3, <1>6, QuotientAbove
  <2>2. PICK j \in Nat : k = j + 1
    <3>1. k - 1 \in Nat /\ k = (k - 1) + 1
      BY <1>1, <1>6
    <3> QED BY <3>1
  <2>3. n * k = n * j + n /\ n * j \in Nat
    BY <2>2
  <2> QED BY <1>2, <1>6, <2>1, <2>3
<1> HIDE DEF q
<1>7. n > 0 /\ p < 10000 => q < n
  BY <1>4, <1>6
<1> QED BY <1>4, <1>5, <1>7 DEF Percent, q

\* A fee is no more than what it is taken from.
LEMMA TradeFeeBelow ==
  ASSUME NEW s \in Symbol, NEW n \in Nat
  PROVE  0 <= TradeFee(s, n) /\ TradeFee(s, n) <= n
<1>1. CASE s \in Core \/ n = 0
  BY <1>1 DEF TradeFee
<1>2. CASE s \notin Core /\ n # 0
  <2>1. PICK r \in FeeRates : r = FeePercent[s]
    <3>1. s \in Asset
      BY ONLY <1>2, s \in Symbol DEF Symbol
    <3>2. FeePercent \in [Asset -> FeeRates]
      BY FeesAreRates
    <3> QED BY ONLY <3>1, <3>2
  <2>2. r \in Nat /\ r <= 10000
    BY DEF FeeRates
  <2> DEFINE q == Percent(n, r)
  <2>3. 0 <= q /\ q <= n /\ q \in Int
    BY <2>2, PercentBelow
  <2>4. TradeFee(s, n) = 0 \/ TradeFee(s, n) = Max({1, q})
    BY <1>2, <2>1 DEF TradeFee, Percent
  <2> HIDE DEF q
  <2>5. Max({1, q}) \in {1, q}
    <3>1. \E x \in {1, q} : \A y \in {1, q} : x >= y
      BY <2>3
    <3> QED BY <3>1 DEF Max
  <2> QED BY <1>2, <2>3, <2>4, <2>5
<1> QED BY <1>1, <1>2

\* A fee leaves the book alone and takes nothing away.
LEMMA PayFeeBook ==
  ASSUME NEW d, Typed(d), NEW s \in Symbol, NEW n \in Nat
  PROVE  /\ SameGaps(d, PayFee(d, s, n))
         /\ Solvent(d) => Solvent(PayFee(d, s, n))
<1> DEFINE e == PayFee(d, s, n)
<1>1. Typed(e) /\ SameButBalances(d, e)
  BY PayFeeDoes
<1>2. SameGaps(d, e)
  <2> HIDE DEF e
  <2> QED BY <1>1, GapOfSame DEF SameButBalances
<1>3. ASSUME InBlack(d) PROVE InBlack(e)
  <2>1. CASE s \in Core
    BY <1>3, <2>1 DEF PayFee
  <2>2. CASE s \notin Core
    <3>1. Creator[s] \in Account /\ TradeFee(s, n) \in Int /\ TradeFee(s, n) >= 0
      BY <2>2, CreatorIsAccount, TradeFeeIsInt, TradeFeeBelow
    <3>2. e = Adjust(d, Creator[s], s, TradeFee(s, n))
      BY <2>2 DEF PayFee
    <3>3. d.bal[Creator[s]][s] \in Int /\ d.bal[Creator[s]][s] >= 0
      BY <1>3, <3>1 DEF Typed, Ledgers, InBlack
    <3> HIDE DEF e
    <3> QED BY <1>3, <3>1, <3>2, <3>3, AdjustInBlack
  <2> QED BY <2>1, <2>2
<1> HIDE DEF e
<1>4. Solvent(d) => Solvent(e)
  BY <1>1, <1>3 DEF Solvent, SameButBalances
<1> QED BY <1>2, <1>4 DEF e

\* No order of e has the number i any more.
Gone(e, i) == \A r \in e.orders : r.id # i

\* What the two pay is what they have at most, and one of them pays it all.
LEMMA PaysBelow ==
  ASSUME NEW o \in LimitOrder, NEW p \in LimitOrder, o.left >= 0, p.left >= 0,
         NEW oPays, NEW pPays,
         oPays = IF o.left <= (p.left * p.quote) \div p.base THEN o.left ELSE (p.left * p.quote) \div p.base,
         pPays = IF o.left <= (p.left * p.quote) \div p.base THEN (o.left * p.base) \div p.quote ELSE p.left
  PROVE  /\ oPays \in Nat /\ oPays <= o.left /\ pPays \in Nat /\ pPays <= p.left
<1> DEFINE v == (p.left * p.quote) \div p.base
           w == (o.left * p.base) \div p.quote
<1>1. /\ o.left \in Nat /\ p.left \in Nat /\ p.base \in Positive /\ p.quote \in Positive
      /\ p.base \in Nat /\ p.quote \in Nat
  BY DEF LimitOrder, Positive
<1>2. p.left * p.quote \in Nat /\ o.left * p.base \in Nat
  BY <1>1
<1>3. v \in Int /\ w \in Int
  BY <1>1, QuotientIsInt
<1>4. v >= 0
  BY <1>1, <1>2 DEF Positive
<1>5. ASSUME o.left <= v PROVE w \in Nat /\ w <= p.left
  <2>1. o.left * p.base <= p.left * p.quote
    BY <1>1, <1>2, <1>5, QuotientAbove
  <2>2. 0 <= w /\ w <= p.left
    BY <1>1, <1>2, <2>1, QuotientBelow
  <2> QED BY <1>3, <2>2
<1> HIDE DEF v, w
<1>6. /\ oPays = IF o.left <= v THEN o.left ELSE v
      /\ pPays = IF o.left <= v THEN w ELSE p.left
  BY DEF v, w
<1> QED BY <1>1, <1>3, <1>4, <1>5, <1>6

\* A trade keeps the book in order and uses up one of the two.
LEMMA MatchBook ==
  ASSUME NEW d, Typed(d), OrdersKeyed(d.orders), NEW o \in d.orders, NEW p \in d.orders, p # o,
         o.sym = p.want, o.want = p.sym, Solvent(d)
  PROVE  /\ SameGaps(d, Match(d, o, p)) /\ Solvent(Match(d, o, p))
         /\ Gone(Match(d, o, p), o.id) \/ Gone(Match(d, o, p), p.id)
<1> DEFINE all == o.left <= (p.left * p.quote) \div p.base
           oPays == IF all THEN o.left ELSE (p.left * p.quote) \div p.base
           pPays == IF all THEN (o.left * p.base) \div p.quote ELSE p.left
           fee == PayFee(d, o.want, pPays)
           fees == PayFee(fee, p.want, oPays)
           oGets == pPays - TradeFee(o.want, pPays)
           pGets == oPays - TradeFee(p.want, oPays)
           filled == FillOrder(fees, o, oPays, oGets)
           e == FillOrder(filled, p, pPays, pGets)
<1>0. /\ o \in LimitOrder /\ p \in LimitOrder /\ o.want \in Symbol /\ p.want \in Symbol
      /\ o.left \in Int /\ p.left \in Int
  BY DEF Typed, Ledgers, LimitOrder
<1>1. oPays \in Nat /\ oPays <= o.left /\ pPays \in Nat /\ pPays <= p.left
  <2>1. o.left >= 0 /\ p.left >= 0
    BY <1>0 DEF Solvent, Sells
  <2>2. /\ oPays = IF o.left <= (p.left * p.quote) \div p.base THEN o.left ELSE (p.left * p.quote) \div p.base
        /\ pPays = IF o.left <= (p.left * p.quote) \div p.base THEN (o.left * p.base) \div p.quote ELSE p.left
    OBVIOUS
  <2> HIDE DEF all, oPays, pPays
  <2> QED BY ONLY <1>0, <2>1, <2>2, PaysBelow
<1>2. Match(d, o, p) = e /\ (oPays = o.left \/ pPays = p.left)
  BY DEF Match
<1> HIDE DEF all, oPays, pPays
<1>3. oGets \in Nat /\ pGets \in Nat
  <2>1. TradeFee(o.want, pPays) \in Int /\ TradeFee(p.want, oPays) \in Int
    BY <1>0, <1>1, TradeFeeIsInt
  <2>2. TradeFee(o.want, pPays) <= pPays /\ TradeFee(p.want, oPays) <= oPays
    BY <1>0, <1>1, TradeFeeBelow
  <2> QED BY <1>1, <2>1, <2>2
<1> HIDE DEF oGets, pGets
<1>4. Typed(fee) /\ fee.orders = d.orders /\ SameGaps(d, fee) /\ Solvent(fee)
  <2>1. Typed(fee) /\ SameButBalances(d, fee)
    BY <1>0, <1>1, PayFeeDoes
  <2>2. SameGaps(d, fee) /\ Solvent(fee)
    BY <1>0, <1>1, PayFeeBook
  <2> QED BY <2>1, <2>2 DEF SameButBalances
<1> HIDE DEF fee
<1>5. Typed(fees) /\ fees.orders = d.orders /\ SameGaps(fee, fees) /\ Solvent(fees)
  <2>1. Typed(fees) /\ SameButBalances(fee, fees)
    BY <1>0, <1>1, <1>4, PayFeeDoes
  <2>2. SameGaps(fee, fees) /\ Solvent(fees)
    BY <1>0, <1>1, <1>4, PayFeeBook
  <2> QED BY <1>4, <2>1, <2>2 DEF SameButBalances
<1> HIDE DEF fees
<1>6. o \in fees.orders /\ OrdersKeyed(fees.orders) /\ oPays \in Int /\ oGets \in Int /\ pPays \in Int /\ pGets \in Int
  BY <1>1, <1>3, <1>5
<1>7. /\ Typed(filled) /\ OrdersKeyed(filled.orders)
      /\ Descend(d.orders, filled.orders) /\ d.orders \ {o} \subseteq filled.orders
  BY <1>5, <1>6, FillOrderDoes
<1>8. SameGaps(fees, filled) /\ (oPays = o.left => filled.orders = d.orders \ {o})
  BY <1>5, <1>6, FillOrderGaps
<1>9. Solvent(filled)
  BY <1>1, <1>3, <1>5, <1>6, FillOrderSolvent
<1> HIDE DEF filled
<1>10. p \in filled.orders
  BY <1>7
<1>11. Descend(filled.orders, e.orders)
  BY <1>6, <1>7, <1>10, FillOrderDoes
<1>12. SameGaps(filled, e) /\ (pPays = p.left => e.orders = filled.orders \ {p})
  BY <1>6, <1>7, <1>10, FillOrderGaps
<1>13. Solvent(e)
  BY <1>1, <1>3, <1>6, <1>7, <1>9, <1>10, FillOrderSolvent
<1> HIDE DEF e
<1>14. SameGaps(d, e)
  <2>1. SameGaps(d, fees)
    BY <1>4, <1>5, GapsFollow
  <2>2. SameGaps(d, filled)
    BY <1>8, <2>1, GapsFollow
  <2> QED BY <1>12, <2>2, GapsFollow
<1>15. ASSUME oPays = o.left PROVE Gone(e, o.id)
  <2> SUFFICES ASSUME NEW r \in e.orders, r.id = o.id PROVE FALSE
    BY DEF Gone
  <2>1. PICK x \in filled.orders : SameOrder(x, r)
    BY <1>11 DEF Descend
  <2>2. x \in d.orders /\ x # o
    BY <1>8, <1>15
  <2> QED BY <2>1, <2>2 DEF SameOrder, OrdersKeyed
<1>16. ASSUME pPays = p.left PROVE Gone(e, p.id)
  <2> SUFFICES ASSUME NEW r \in e.orders, r.id = p.id PROVE FALSE
    BY DEF Gone
  <2> QED BY <1>7, <1>10, <1>12, <1>16 DEF OrdersKeyed
<1>17. Gone(e, o.id) \/ Gone(e, p.id)
  BY <1>2, <1>15, <1>16
<1> QED BY <1>2, <1>13, <1>14, <1>17

\* Matching goes through the orders that were found.
Matches == INSTANCE FoldFacts WITH op <- MatchNext
LEMMA ApplyOrderIsFold ==
  ASSUME NEW d, NEW o, NEW found
  PROVE  ApplyOrder(d, o, found) = Matches!Fold(o, d, found)
BY DEF ApplyOrder, FoldLeft, MapThenFoldSet, Max, Matches!Fold, Matches!FoldLeft, Matches!MapThenFoldSet,
       Matches!Max

\* e comes from d by trades and nothing else.
TradedFrom(d, e) ==
    /\ Typed(e) /\ SameObjects(d, e) /\ OrdersKeyed(e.orders) /\ Descend(d.orders, e.orders)
    /\ \A t \in Core : Total(e, t) = Total(d, t)
    /\ Solvent(d) => SameGaps(d, e) /\ Solvent(e)

\* The new order or the first k of the orders that were found are used up.
UsedUp(e, o, found, k) == Gone(e, o.id) \/ \A j \in 1..k : Gone(e, found[j].id)

LEMMA GoneStays ==
  ASSUME NEW d, NEW e, Descend(d.orders, e.orders), NEW i, Gone(d, i) PROVE Gone(e, i)
BY DEF Descend, Gone, SameOrder

\* What has come of d when the first k of the orders that were found have been
\* tried: the others are still open, so that no order is used up twice.
Applied(d, e, o, found, k) ==
    /\ e \in Ledgers /\ TradedFrom(d, e)
    /\ \A j \in 1..Len(found) : j > k => found[j] \in e.orders
    /\ Solvent(d) => UsedUp(e, o, found, k)

\* The next of them is tried.
LEMMA MatchNextDoes ==
  ASSUME NEW d, Typed(d), OrdersKeyed(d.orders), NEW o \in d.orders,
         NEW S \in SUBSET (d.orders \ {o}), \A p \in S : o.sym = p.want /\ o.want = p.sym,
         NEW found \in Seq(S), \A i, j \in 1..Len(found) : i # j => found[i] # found[j],
         NEW k \in 1..Len(found), NEW e, Applied(d, e, o, found, k - 1)
  PROVE  /\ Applied(d, MatchNext(o, e, found[k]), o, found, k)
         /\ \/ MatchNext(o, e, found[k]) = e
            \/ \E x \in e.orders : /\ SameOrder(o, x) /\ x # found[k]
                                   /\ MatchNext(o, e, found[k]) = Match(e, x, found[k])
<1> DEFINE p == found[k]
           n == Len(found)
           new == {x \in e.orders : x.id = o.id}
           next == MatchNext(o, e, p)
<1>0. n \in Nat /\ \A j \in 1..n : found[j] \in S
  OBVIOUS
<1>1. /\ k - 1 \in 0..n /\ k \in 0..n
      /\ e \in Ledgers /\ TradedFrom(d, e) /\ \A j \in 1..n : j > k - 1 => found[j] \in e.orders
      /\ Solvent(d) => UsedUp(e, o, found, k - 1)
  BY <1>0 DEF Applied
<1>2. p \in e.orders /\ p \in S /\ p \in d.orders /\ p # o /\ o.sym = p.want /\ o.want = p.sym
  BY <1>0, <1>1
<1>3. \A j \in 1..n : j > k => found[j] \in e.orders /\ found[j] # p /\ found[j] \in S
  BY <1>0, <1>1
<1>4. CASE new = {}
  <2>1. next = e
    BY <1>4 DEF MatchNext
  <2>2. UsedUp(e, o, found, k)
    BY <1>4 DEF UsedUp, Gone
  <2> HIDE DEF next
  <2>3. Applied(d, e, o, found, k)
    BY <1>1, <1>3, <2>2 DEF Applied
  <2>4. Applied(d, next, o, found, k)
    BY <2>1, <2>3
  <2> QED BY <2>1, <2>4 DEF next
<1>5. CASE new # {}
  <2> DEFINE x == CHOOSE x \in new : TRUE
  <2>1. x \in e.orders /\ x.id = o.id
    BY <1>5
  <2>2. next = Match(e, x, p)
    BY <1>5 DEF MatchNext
  <2> HIDE DEF x, next
  <2>3. SameOrder(o, x)
    <3>1. PICK q \in d.orders : SameOrder(q, x)
      BY <1>1, <2>1 DEF TradedFrom, Descend
    <3>2. q = o
      BY <2>1, <3>1 DEF OrdersKeyed, SameOrder
    <3> QED BY <3>1, <3>2
  <2>4. ASSUME NEW q \in d.orders \ {o} PROVE q # x
    BY <2>1 DEF OrdersKeyed
  <2>5. x.sym = p.want /\ x.want = p.sym /\ p # x
    BY <1>2, <2>3, <2>4 DEF SameOrder
  <2>6. /\ Typed(next) /\ SameObjects(e, next) /\ OrdersKeyed(next.orders)
        /\ Descend(e.orders, next.orders) /\ e.orders \ {x, p} \subseteq next.orders
        /\ \A t \in Core : Total(next, t) = Total(e, t)
    BY <1>1, <1>2, <2>1, <2>2, <2>5, MatchDoes DEF TradedFrom
  <2>7. TradedFrom(d, next)
    <3>1. SameObjects(d, next)
      BY <1>1, <2>6 DEF TradedFrom, SameObjects
    <3>2. Descend(d.orders, next.orders)
      BY <1>1, <2>6 DEF TradedFrom, Descend, SameOrder
    <3>3. ASSUME Solvent(d) PROVE SameGaps(d, next) /\ Solvent(next)
      <4>1. SameGaps(d, e) /\ Solvent(e)
        BY <1>1, <3>3 DEF TradedFrom
      <4>2. SameGaps(e, next) /\ Solvent(next)
        BY <1>1, <1>2, <2>1, <2>2, <2>5, <4>1, MatchBook DEF TradedFrom
      <4> QED BY <4>1, <4>2, GapsFollow
    <3> QED BY <1>1, <2>6, <3>1, <3>2, <3>3 DEF TradedFrom
  <2>8. \A j \in 1..n : j > k => found[j] \in next.orders
    BY <1>3, <2>4, <2>6
  <2>9. next \in Ledgers
    BY <2>6 DEF Typed
  <2>10. ASSUME Solvent(d) PROVE UsedUp(next, o, found, k)
    <3>1. Solvent(e)
      BY <1>1, <2>10 DEF TradedFrom
    <3>2. Gone(next, x.id) \/ Gone(next, p.id)
      BY <1>1, <1>2, <2>1, <2>2, <2>5, <3>1, MatchBook DEF TradedFrom
    <3>3. CASE Gone(next, x.id)
      BY <2>1, <3>3 DEF UsedUp
    <3>4. CASE Gone(next, p.id)
      <4>1. \A j \in 1..(k - 1) : Gone(e, found[j].id)
        BY <1>1, <2>1, <2>10 DEF UsedUp, Gone
      <4>2. ASSUME NEW j \in 1..k PROVE Gone(next, found[j].id)
        <5>1. CASE j = k
          BY <3>4, <5>1
        <5>2. CASE j # k
          <6>1. Gone(e, found[j].id)
            BY <1>0, <4>1, <5>2
          <6> QED BY <2>6, <6>1, GoneStays
        <5> QED BY <5>1, <5>2
      <4> QED BY <4>2 DEF UsedUp
    <3> QED BY <3>2, <3>3, <3>4
  <2>11. Applied(d, next, o, found, k)
    BY <2>7, <2>8, <2>9, <2>10 DEF Applied
  <2>12. \E y \in e.orders : SameOrder(o, y) /\ y # p /\ next = Match(e, y, p)
    BY <2>1, <2>2, <2>3, <2>5
  <2> QED BY <2>11, <2>12 DEF next
<1> QED BY <1>4, <1>5

\* A new order is matched with all of them (apply_order).
LEMMA ApplyOrderDoes ==
  ASSUME NEW d, Typed(d), OrdersKeyed(d.orders), NEW o \in d.orders,
         NEW S \in SUBSET (d.orders \ {o}), \A p \in S : o.sym = p.want /\ o.want = p.sym,
         NEW found \in Seq(S), \A i, j \in 1..Len(found) : i # j => found[i] # found[j]
  PROVE  /\ TradedFrom(d, ApplyOrder(d, o, found))
         /\ Solvent(d) => UsedUp(ApplyOrder(d, o, found), o, found, Len(found))
<1> DEFINE n == Len(found)
           B == [k \in 0..n |-> {e \in Ledgers : Applied(d, e, o, found, k)}]
<1>1. n \in Nat /\ \A j \in 1..n : found[j] \in S
  OBVIOUS
<1>2. Applied(d, d, o, found, 0)
  <2>1. TradedFrom(d, d)
    BY GapOfSame DEF TradedFrom, SameObjects, Descend, SameOrder
  <2>2. UsedUp(d, o, found, 0)
    BY DEF UsedUp
  <2> QED BY <1>1, <2>1, <2>2 DEF Applied, Typed
<1>3. d \in B[0]
  BY <1>1, <1>2 DEF Applied
<1>4. ASSUME NEW k \in 1..n, NEW e \in B[k - 1] PROVE MatchNext(o, e, found[k]) \in B[k]
  <2>1. Applied(d, e, o, found, k - 1) /\ k \in 0..n
    BY <1>1
  <2>2. Applied(d, MatchNext(o, e, found[k]), o, found, k)
    BY <2>1, MatchNextDoes
  <2> QED BY <2>1, <2>2 DEF Applied
<1>5. Matches!Fold(o, d, found) \in B[n]
  <2> HIDE DEF B
  <2> QED BY <1>3, <1>4, Matches!FoldAlong
<1> QED BY <1>1, <1>5, ApplyOrderIsFold DEF Applied

\* A finite set of numbers has a largest one.
LEMMA FiniteHasMax ==
  ASSUME NEW S, IsFiniteSet(S), S \subseteq Nat, S # {}
  PROVE  Max(S) \in S /\ \A y \in S : Max(S) >= y
<1> DEFINE G == {T \in SUBSET S : T = {} \/ \E x \in T : \A y \in T : x >= y}
<1>1. ASSUME NEW T \in SUBSET S, \A x \in T : T \ {x} \in G PROVE T \in G
  <2>1. CASE T = {}
    BY <2>1
  <2>2. CASE T # {}
    <3>1. PICK z \in T : TRUE
      BY <2>2
    <3>2. z \in Nat /\ \A y \in T : y \in Nat
      BY <3>1
    <3>3. CASE T \ {z} = {}
      <4>1. \A y \in T : z >= y
        BY <3>2, <3>3
      <4> QED BY <3>1, <4>1
    <3>4. CASE T \ {z} # {}
      <4>1. PICK x \in T \ {z} : \A y \in T \ {z} : x >= y
        BY <1>1, <3>1, <3>4
      <4>2. CASE x >= z
        <5>1. \A y \in T : x >= y
          BY <4>1, <4>2
        <5> QED BY <4>1, <5>1
      <4>3. CASE ~(x >= z)
        <5>1. ASSUME NEW y \in T PROVE z >= y
          <6>1. y = z \/ x >= y
            BY <4>1
          <6> QED BY <3>2, <4>1, <4>3, <6>1
        <5> QED BY <3>1, <5>1
      <4> QED BY <4>2, <4>3
    <3> QED BY <3>3, <3>4
  <2> QED BY <2>1, <2>2
<1>2. \A T \in SUBSET S : T \in G
  <2> HIDE DEF G
  <2> QED BY <1>1, FiniteForSum, Sums!SetInduction
<1>3. \E x \in S : \A y \in S : x >= y
  BY <1>2
<1> QED BY <1>3 DEF Max

\* A new order has a number of its own.
LEMMA NewOrderIs ==
  ASSUME NEW d, Typed(d), NEW x \in OrderOps
  PROVE  /\ NewOrder(d, x) \in LimitOrder
         /\ NewOrder(d, x).seller = x.seller /\ NewOrder(d, x).orderid = x.orderid
         /\ NewOrder(d, x).sym = x.sym /\ NewOrder(d, x).want = x.want
         /\ NewOrder(d, x).left = x.amount /\ NewOrder(d, x).exp = x.exp
         /\ \A p \in d.orders : p.id # NewOrder(d, x).id
<1> DEFINE ids == {o.id : o \in d.orders}
           all == {0} \cup ids
<1>1. d.orders \subseteq LimitOrder /\ IsFiniteSet(d.orders)
  BY DEF Typed, Ledgers
<1>2. ids \subseteq Nat
  BY <1>1 DEF LimitOrder
<1>3. IsFiniteSet(ids)
  <2> DEFINE r == [o \in d.orders |-> o.id]
  <2>1. r \in Surjection(d.orders, ids)
    BY DEF Surjection
  <2> QED BY <1>1, <2>1, FS_Surjection
<1>4. all \subseteq Nat /\ all # {}
  BY <1>2
<1>5. IsFiniteSet(all)
  <2>1. IsFiniteSet({0})
    BY FS_Singleton
  <2> QED BY <1>3, <2>1, FS_Union
<1>6. Max(all) \in Nat /\ \A y \in all : Max(all) >= y
  <2> HIDE DEF all
  <2> QED BY <1>4, <1>5, FiniteHasMax
<1>7. NewOrder(d, x).id = 1 + Max(all)
  BY DEF NewOrder
<1>8. ASSUME NEW p \in d.orders PROVE p.id # NewOrder(d, x).id
  <2>1. p.id \in all /\ p.id \in Nat
    BY <1>2
  <2> QED BY <1>6, <1>7, <2>1
<1>9. /\ x.seller \in Account /\ x.orderid \in Nat /\ x.sym \in Symbol /\ x.want \in Symbol
      /\ x.amount \in Int /\ x.base \in Positive /\ x.quote \in Positive /\ x.exp \in Int
  BY InputAssumption DEF Positive
<1>10. 1 + Max(all) \in Nat
  BY <1>6
<1>11. NewOrder(d, x) \in LimitOrder
  BY <1>9, <1>10 DEF NewOrder, LimitOrder
<1> QED BY <1>8, <1>11 DEF NewOrder

\* The orders that are found are all that cross the new one, each once.
LEMMA FoundAre ==
  ASSUME NEW S, IsFiniteSet(S), NEW found \in BestFirst(S)
  PROVE  /\ found \in Seq(S) /\ \A i, j \in 1..Len(found) : i # j => found[i] # found[j]
         /\ \A p \in S : \E j \in 1..Len(found) : found[j] = p
<1> DEFINE D == 1..Cardinality(S)
<1>1. Cardinality(S) \in Nat
  BY FS_CardinalityType
<1>2. found \in [D -> S] /\ \A i, j \in D : i # j => found[i] # found[j]
  BY DEF BestFirst, SetToSeqs
<1>3. found \in Seq(S) /\ Len(found) = Cardinality(S)
  BY <1>1, <1>2
<1>4. found \in Injection(D, S)
  BY <1>2 DEF Injection, IsInjective
<1>5. IsFiniteSet(D) /\ Cardinality(D) = Cardinality(S)
  BY <1>1, FS_Interval
<1>6. found \in Surjection(D, S)
  <2> HIDE DEF D
  <2> QED BY <1>4, <1>5, FS_Injection
<1>7. \A p \in S : \E j \in D : found[j] = p
  BY <1>6 DEF Surjection
<1> QED BY <1>2, <1>3, <1>7

\* The state in which a new order is in the book and nothing is matched yet.
Entered(d, x) ==
    SetOrders(AdjustMarket(Adjust(d, x.seller, x.sym, -x.amount), x.seller, x.sym, x.amount),
              d.orders \cup {NewOrder(d, x)})

LEMMA EnteredIs ==
  ASSUME NEW d, Typed(d), NEW x \in OrderOps
  PROVE  /\ Typed(Entered(d, x)) /\ SameObjects(d, Entered(d, x))
         /\ Entered(d, x).orders = d.orders \cup {NewOrder(d, x)}
         /\ Entered(d, x).depth = d.depth
         /\ Entered(d, x).bal = Adjust(d, x.seller, x.sym, -x.amount).bal
         /\ \A a \in Account, s \in Symbol : Entered(d, x).mkt[a][s] =
               d.mkt[a][s] + (IF x.seller = a THEN Of(s, x.sym, x.amount) ELSE 0)
         /\ \A t \in Core : Total(Entered(d, x), t) = Total(d, t)
         /\ \A found : Created(d, x, found) =
               UpdateDepth(ApplyOrder(Entered(d, x), NewOrder(d, x), found), NewOrder(d, x),
                           x.amount, AmountToReceive(NewOrder(d, x)))
<1> DEFINE o == NewOrder(d, x)
           e1 == Adjust(d, x.seller, x.sym, -x.amount)
           e2 == AdjustMarket(e1, x.seller, x.sym, x.amount)
           R == d.orders \cup {o}
           e3 == SetOrders(e2, R)
<1>1. x.seller \in Account /\ x.sym \in Symbol /\ x.amount \in Int /\ -x.amount \in Int
  <2>1. x.seller \in Account /\ x.sym \in Symbol /\ x.amount \in Int
    BY InputAssumption DEF Positive
  <2> QED BY <2>1
<1>2. o \in LimitOrder /\ o.sym = x.sym /\ o.left = x.amount /\ \A p \in d.orders : p.id # o.id
  BY NewOrderIs
<1>3. R \in SUBSET LimitOrder /\ IsFiniteSet(R) /\ o \notin d.orders
  BY <1>2, FS_AddElement DEF Typed, Ledgers
<1>4. Entered(d, x) = e3
  BY DEF Entered
<1>5. \A found : Created(d, x, found) =
         UpdateDepth(ApplyOrder([e2 EXCEPT !.orders = @ \cup {o}], o, found), o, x.amount, AmountToReceive(o))
  BY DEF Created
<1>6. Typed(e1) /\ SameButBalances(d, e1)
  BY <1>1, AdjustDoes
<1>7. ASSUME NEW t \in Core PROVE Total(e1, t) = Total(d, t) + Of(t, x.sym, -x.amount)
  BY <1>1, AdjustTotal
<1> HIDE DEF o, e1
<1>8. Typed(e2) /\ SameObjects(e1, e2) /\ e2.bal = e1.bal /\ e2.orders = e1.orders /\ e2.depth = e1.depth
  BY <1>1, <1>6, AdjustMarketDoes
<1>9. \A a \in Account, s \in Symbol :
         e2.mkt[a][s] = e1.mkt[a][s] + (IF x.seller = a THEN Of(s, x.sym, x.amount) ELSE 0)
  BY <1>1, <1>6, AdjustMarketIs
<1> HIDE DEF e2
<1>10. e2.orders = d.orders
  BY <1>6, <1>8 DEF SameButBalances
<1>11. e3 = [e2 EXCEPT !.orders = @ \cup {o}]
  BY <1>10 DEF SetOrders
<1>12. Typed(e3) /\ SameObjects(e2, e3) /\ e3.orders = R /\ e3.bal = e2.bal /\ e3.mkt = e2.mkt /\ e3.depth = e2.depth
  <2> HIDE DEF R
  <2> QED BY <1>3, <1>8, SetOrdersDoes
<1>13. ASSUME NEW t \in Core PROVE Total(e3, t) = Total(d, t)
  <2>1. Total(e3, t) = Total(e2, t) + Of(t, o.sym, o.left)
    BY <1>2, <1>3, <1>8, <1>10, WithOrder
  <2>2. Total(e2, t) = Total(e1, t)
    BY <1>8, TotalOfSame
  <2>3. Of(t, x.sym, -x.amount) = -Of(t, x.sym, x.amount)
    BY <1>1 DEF Of
  <2>4. Of(t, x.sym, x.amount) \in Int /\ Total(d, t) \in Int
    BY <1>1, OfIsInt, PartsAreInts DEF Total
  <2> QED BY <1>2, <1>7, <2>1, <2>2, <2>3, <2>4
<1> HIDE DEF e3
<1>14. SameObjects(d, e3) /\ e3.depth = d.depth /\ e3.bal = e1.bal
  BY <1>6, <1>8, <1>12 DEF SameObjects, SameButBalances
<1>15. \A a \in Account, s \in Symbol :
         e3.mkt[a][s] = d.mkt[a][s] + (IF x.seller = a THEN Of(s, x.sym, x.amount) ELSE 0)
  BY <1>6, <1>9, <1>12 DEF SameButBalances
<1>16. \A found : Created(d, x, found) = UpdateDepth(ApplyOrder(e3, o, found), o, x.amount, AmountToReceive(o))
  BY <1>5, <1>11
<1> QED BY <1>4, <1>12, <1>13, <1>14, <1>15, <1>16 DEF o, e1

\* What limit_order_create leaves: the book is as before or holds the new
\* order too, with what trades left of both.
LEMMA CreatedDoes ==
  ASSUME NEW d, Typed(d), OrdersKeyed(d.orders), NEW x \in OrderOps,
         ~ \E o \in d.orders : o.seller = x.seller /\ o.orderid = x.orderid,
         NEW found \in Against(d, NewOrder(d, x))
  PROVE  /\ Typed(Created(d, x, found)) /\ SameObjects(d, Created(d, x, found))
         /\ OrdersKeyed(Created(d, x, found).orders)
         /\ \A r \in Created(d, x, found).orders : r.exp = x.exp \/ \E o \in d.orders : r.exp = o.exp
         /\ \A t \in Core : Total(Created(d, x, found), t) = Total(d, t)
         /\ LET o == NewOrder(d, x)
                e3 == Entered(d, x)
                e4 == ApplyOrder(e3, o, found)
                e == Created(d, x, found)
            IN /\ OrdersKeyed(e3.orders) /\ TradedFrom(e3, e4) /\ e = UpdateDepth(e4, o, x.amount, AmountToReceive(o))
               /\ e.bal = e4.bal /\ e.orders = e4.orders /\ e.mkt = e4.mkt
               /\ Solvent(e3) => UsedUp(e4, o, found, Len(found))
<1> DEFINE o == NewOrder(d, x)
           e3 == Entered(d, x)
           e4 == ApplyOrder(e3, o, found)
           e == UpdateDepth(e4, o, x.amount, AmountToReceive(o))
           S == {p \in d.orders : Crosses(o, p)}
<1>1. x.amount \in Int
  BY InputAssumption DEF Positive
<1>2. /\ o \in LimitOrder /\ o.seller = x.seller /\ o.orderid = x.orderid /\ o.exp = x.exp
      /\ \A p \in d.orders : p.id # o.id
  BY NewOrderIs
<1>3. o \notin d.orders
  BY <1>2
<1>4. found \in Seq(S) /\ \A i, j \in 1..Len(found) : i # j => found[i] # found[j]
  <2>1. found \in BestFirst(S)
    BY DEF Against
  <2>2. IsFiniteSet(S)
    BY FS_Subset DEF Typed
  <2> HIDE DEF S
  <2> QED BY <2>1, <2>2, FoundAre
<1>5. e = Created(d, x, found)
  BY EnteredIs
<1>6. Typed(e3) /\ SameObjects(d, e3) /\ e3.orders = d.orders \cup {o} /\ \A t \in Core : Total(e3, t) = Total(d, t)
  BY EnteredIs
<1> HIDE DEF o, e3
<1>7. OrdersKeyed(e3.orders)
  BY <1>2, <1>6 DEF OrdersKeyed
<1>8. TradedFrom(e3, e4) /\ (Solvent(e3) => UsedUp(e4, o, found, Len(found)))
  <2>1. o \in e3.orders /\ S \in SUBSET (e3.orders \ {o})
    BY <1>3, <1>6
  <2>2. \A p \in S : o.sym = p.want /\ o.want = p.sym
    BY DEF Crosses
  <2> HIDE DEF S
  <2> QED BY <1>4, <1>6, <1>7, <2>1, <2>2, ApplyOrderDoes
<1> HIDE DEF e4
<1>9. Typed(e) /\ SameObjects(e4, e) /\ e.bal = e4.bal /\ e.orders = e4.orders /\ e.mkt = e4.mkt
  <2>1. AmountToReceive(o) \in Int /\ Typed(e4)
    BY <1>2, <1>8, ReceivesIsInt DEF TradedFrom
  <2> QED BY <1>1, <1>2, <2>1, UpdateDepthDoes
<1>10. e = UpdateDepth(e4, o, x.amount, AmountToReceive(o))
  OBVIOUS
<1> HIDE DEF e
<1>11. SameObjects(d, e)
  BY <1>6, <1>8, <1>9 DEF SameObjects, TradedFrom
<1>12. ASSUME NEW r \in e.orders PROVE r.exp = x.exp \/ \E p \in d.orders : r.exp = p.exp
  <2>1. PICK p \in d.orders \cup {o} : SameOrder(p, r)
    BY <1>6, <1>8, <1>9 DEF TradedFrom, Descend
  <2> QED BY <1>2, <2>1 DEF SameOrder
<1>13. ASSUME NEW t \in Core PROVE Total(e, t) = Total(d, t)
  BY <1>6, <1>8, <1>9, TotalOfSame DEF TradedFrom
<1>14. OrdersKeyed(e.orders)
  BY <1>8, <1>9 DEF TradedFrom
<1> QED BY <1>5, <1>7, <1>8, <1>9, <1>10, <1>11, <1>12, <1>13, <1>14 DEF e4, e3, o

\* No two orders could trade with each other.
Uncrossed(orders) == \A o, p \in orders : ~Crosses(o, p)

LEMMA CrossesBack == ASSUME NEW o \in LimitOrder, NEW p \in LimitOrder, Crosses(o, p) PROVE Crosses(p, o)
<1>1. o.base \in Int /\ o.quote \in Int /\ p.base \in Int /\ p.quote \in Int
  BY DEF LimitOrder, Positive
<1>2. p.base * o.base = o.base * p.base /\ p.quote * o.quote = o.quote * p.quote
  BY <1>1
<1> QED BY <1>2 DEF Crosses

LEMMA CrossesAsBefore ==
  ASSUME NEW o, NEW p, NEW q, NEW r, SameOrder(o, q), SameOrder(p, r), Crosses(q, r) PROVE Crosses(o, p)
BY DEF SameOrder, Crosses

\* Matching goes on until nothing crosses the new order.
LEMMA CreatedUncrossed ==
  ASSUME NEW d, Typed(d), OrdersKeyed(d.orders), NEW x \in OrderOps,
         ~ \E o \in d.orders : o.seller = x.seller /\ o.orderid = x.orderid,
         NEW found \in Against(d, NewOrder(d, x)), Solvent(Entered(d, x)), Uncrossed(d.orders)
  PROVE  Uncrossed(Created(d, x, found).orders)
<1> DEFINE o == NewOrder(d, x)
           e3 == Entered(d, x)
           e4 == ApplyOrder(e3, o, found)
           S == {p \in d.orders : Crosses(o, p)}
<1>1. o \in LimitOrder /\ o.sym = x.sym /\ o.want = x.want /\ x.sym # x.want /\ d.orders \in SUBSET LimitOrder
  <2>1. x.sym # x.want
    BY InputAssumption
  <2> QED BY <2>1, NewOrderIs DEF Typed, Ledgers
<1>2. e3.orders = d.orders \cup {o}
  BY EnteredIs
<1>3. /\ Created(d, x, found).orders = e4.orders /\ TradedFrom(e3, e4)
      /\ UsedUp(e4, o, found, Len(found))
  BY CreatedDoes
<1>4. \A p \in S : \E j \in 1..Len(found) : found[j] = p
  <2>1. found \in BestFirst(S)
    BY DEF Against
  <2>2. IsFiniteSet(S)
    BY FS_Subset DEF Typed
  <2> HIDE DEF S
  <2> QED BY <2>1, <2>2, FoundAre
<1> HIDE DEF o, e3, e4
<1>5. ASSUME NEW q \in e4.orders, NEW r \in e4.orders, q.id = o.id, NEW p \in d.orders, Crosses(o, p), r.id = p.id
      PROVE  FALSE
  <2>1. PICK j \in 1..Len(found) : found[j] = p
    BY <1>4, <1>5
  <2>2. ~Gone(e4, o.id) /\ ~Gone(e4, p.id)
    BY <1>5 DEF Gone
  <2> QED BY <1>3, <2>1, <2>2 DEF UsedUp
<1>6. ASSUME NEW q \in e4.orders, NEW r \in e4.orders, Crosses(q, r) PROVE FALSE
  <2>1. PICK a \in d.orders \cup {o} : SameOrder(a, q)
    BY <1>2, <1>3 DEF TradedFrom, Descend
  <2>2. PICK b \in d.orders \cup {o} : SameOrder(b, r)
    BY <1>2, <1>3 DEF TradedFrom, Descend
  <2>3. Crosses(a, b)
    BY <1>6, <2>1, <2>2, CrossesAsBefore
  <2>4. q.id = a.id /\ r.id = b.id
    BY <2>1, <2>2 DEF SameOrder
  <2>5. CASE a \in d.orders /\ b \in d.orders
    BY <2>3, <2>5 DEF Uncrossed
  <2>6. CASE a = o /\ b \in d.orders
    BY <1>5, <2>3, <2>4, <2>6
  <2>7. CASE a \in d.orders /\ b = o
    <3>1. Crosses(o, a)
      BY <1>1, <2>3, <2>7, CrossesBack
    <3> QED BY <1>5, <2>4, <2>7, <3>1
  <2>8. CASE a = o /\ b = o
    BY <1>1, <2>3, <2>8 DEF Crosses
  <2> QED BY <2>5, <2>6, <2>7, <2>8
<1> QED BY <1>3, <1>6 DEF Uncrossed

\* A new order is paid for by its seller.
LEMMA EnteredSolvent ==
  ASSUME NEW d, Typed(d), NEW x \in OrderOps, Solvent(d), d.bal[x.seller][x.sym] >= x.amount,
         AmountToReceive(NewOrder(d, x)) > 0
  PROVE  Solvent(Entered(d, x))
<1>1. x.seller \in Account /\ x.sym \in Symbol /\ x.amount \in Int /\ x.amount > 0 /\ -x.amount \in Int
  <2>1. x.seller \in Account /\ x.sym \in Symbol /\ x.amount \in Int /\ x.amount > 0
    BY InputAssumption DEF Positive
  <2> QED BY <2>1
<1>2. d.bal[x.seller][x.sym] + (-x.amount) >= 0
  <2>1. d.bal[x.seller][x.sym] \in Int
    BY <1>1 DEF Typed, Ledgers
  <2> QED BY <1>1, <2>1
<1>3. InBlack(Adjust(d, x.seller, x.sym, -x.amount))
  BY <1>1, <1>2, AdjustInBlack DEF Solvent
<1>4. /\ Entered(d, x).orders = d.orders \cup {NewOrder(d, x)}
      /\ Entered(d, x).bal = Adjust(d, x.seller, x.sym, -x.amount).bal
  BY EnteredIs
<1>5. Sells(NewOrder(d, x))
  <2>1. NewOrder(d, x).left = x.amount
    BY NewOrderIs
  <2> QED BY <1>1, <2>1 DEF Sells
<1> QED BY <1>3, <1>4, <1>5 DEF Solvent, InBlack

\* The depth that a new order is worth is added after it traded, and what it
\* sold was taken off before: the gaps open and close again.
LEMMA CreatedGaps ==
  ASSUME NEW d, Typed(d), OrdersKeyed(d.orders), NEW x \in OrderOps,
         ~ \E o \in d.orders : o.seller = x.seller /\ o.orderid = x.orderid,
         NEW found \in Against(d, NewOrder(d, x)), Solvent(Entered(d, x))
  PROVE  SameGaps(d, Created(d, x, found))
<1> DEFINE o == NewOrder(d, x)
           e3 == Entered(d, x)
           e4 == ApplyOrder(e3, o, found)
           e == Created(d, x, found)
<1>1. /\ o \in LimitOrder /\ o \notin d.orders /\ o.seller = x.seller /\ o.sym = x.sym /\ o.left = x.amount
      /\ x.amount \in Int /\ AmountToReceive(o) \in Int
  <2>1. o \in LimitOrder /\ o.seller = x.seller /\ o.sym = x.sym /\ o.left = x.amount /\ o \notin d.orders
    BY NewOrderIs
  <2> QED BY <2>1, ReceivesIsInt DEF LimitOrder
<1>2. /\ Typed(e3) /\ e3.orders = d.orders \cup {o} /\ e3.depth = d.depth
      /\ \A a \in Account, s \in Symbol :
            e3.mkt[a][s] = d.mkt[a][s] + (IF x.seller = a THEN Of(s, x.sym, x.amount) ELSE 0)
  BY EnteredIs
<1>3. /\ e = UpdateDepth(e4, o, x.amount, AmountToReceive(o))
      /\ e.orders = e4.orders /\ e.mkt = e4.mkt /\ TradedFrom(e3, e4)
  BY CreatedDoes
<1> HIDE DEF o, e3, e4, e
<1>4. Typed(e4) /\ SameGaps(e3, e4)
  BY <1>3 DEF TradedFrom, e3
<1>5. \A m \in Symbol \X Symbol :
        /\ e.depth[m][1] = e4.depth[m][1] + (IF <<o.sym, o.want>> = m THEN x.amount ELSE 0)
        /\ e.depth[m][2] = e4.depth[m][2] + (IF <<o.sym, o.want>> = m THEN AmountToReceive(o) ELSE 0)
  BY <1>1, <1>3, <1>4, UpdateDepthIs
<1>6. ASSUME NEW a \in Account, NEW s \in Symbol PROVE HeldGap(e, a, s) = HeldGap(d, a, s)
  <2> DEFINE f == Held(a, s)
  <2>1. f[o] = (IF x.seller = a THEN Of(s, x.sym, x.amount) ELSE 0) /\ f[o] \in Int /\ Weighs(f)
    BY <1>1, BookIsInt DEF Weighs
  <2> HIDE DEF f
  <2>2. e3.mkt[a][s] = d.mkt[a][s] + f[o] /\ d.mkt[a][s] \in Int
    BY <1>2, <2>1 DEF Typed, Ledgers
  <2>3. /\ SumFunctionOnSet(f, d.orders) \in Int
        /\ SumFunctionOnSet(f, e3.orders) = SumFunctionOnSet(f, d.orders) + f[o]
    BY <1>1, <1>2, <2>1, OrderSum, OrderWith
  <2>4. e3.mkt[a][s] - SumFunctionOnSet(f, e3.orders) = d.mkt[a][s] - SumFunctionOnSet(f, d.orders)
    BY <2>1, <2>2, <2>3
  <2>5. HeldGap(e3, a, s) = HeldGap(d, a, s)
    BY <2>4 DEF HeldGap, f
  <2>6. HeldGap(e, a, s) = HeldGap(e4, a, s)
    BY <1>3 DEF HeldGap
  <2> QED BY <1>4, <2>5, <2>6 DEF SameGaps
<1>7. ASSUME NEW m \in Symbol \X Symbol, NEW n \in {1, 2}, NEW f, Weighs(f),
             f[o] = (IF <<o.sym, o.want>> = m THEN (IF n = 1 THEN x.amount ELSE AmountToReceive(o)) ELSE 0),
             e4.depth[m][n] - SumFunctionOnSet(f, e4.orders) = e3.depth[m][n] - SumFunctionOnSet(f, e3.orders)
      PROVE  e.depth[m][n] - SumFunctionOnSet(f, e.orders) = d.depth[m][n] - SumFunctionOnSet(f, d.orders)
  <2>1. f[o] \in Int
    BY <1>1, <1>7 DEF Weighs
  <2>2. d.depth[m][n] \in Int /\ e4.depth[m][n] \in Int
    <3>1. d.depth[m] \in Int \X Int /\ e4.depth[m] \in Int \X Int
      BY <1>4 DEF Typed, Ledgers
    <3> QED BY <3>1
  <2>3. e.depth[m][n] = e4.depth[m][n] + f[o]
    BY <1>5, <1>7
  <2>4. SumFunctionOnSet(f, d.orders) \in Int /\ SumFunctionOnSet(f, e4.orders) \in Int
    BY <1>4, <1>7, OrderSum
  <2>5. SumFunctionOnSet(f, e3.orders) = SumFunctionOnSet(f, d.orders) + f[o]
    BY <1>1, <1>2, <1>7, OrderWith
  <2>6. e3.depth[m][n] = d.depth[m][n] /\ e.orders = e4.orders
    BY <1>2, <1>3
  <2> QED BY <1>7, <2>1, <2>2, <2>3, <2>4, <2>5, <2>6
<1>8. ASSUME NEW m \in Symbol \X Symbol
      PROVE  OfferedGap(e, m) = OfferedGap(d, m) /\ AskedGap(e, m) = AskedGap(d, m)
  <2> DEFINE f == Offered(m)
             g == Asked(m)
  <2>1. /\ f[o] = (IF <<o.sym, o.want>> = m THEN x.amount ELSE 0) /\ Weighs(f)
        /\ g[o] = (IF <<o.sym, o.want>> = m THEN AmountToReceive(o) ELSE 0) /\ Weighs(g)
    BY <1>1, BookIsInt DEF Weighs
  <2>2. /\ e4.depth[m][1] - SumFunctionOnSet(f, e4.orders) = e3.depth[m][1] - SumFunctionOnSet(f, e3.orders)
        /\ e4.depth[m][2] - SumFunctionOnSet(g, e4.orders) = e3.depth[m][2] - SumFunctionOnSet(g, e3.orders)
    BY <1>4 DEF SameGaps, OfferedGap, AskedGap
  <2> HIDE DEF f, g
  <2>3. e.depth[m][1] - SumFunctionOnSet(f, e.orders) = d.depth[m][1] - SumFunctionOnSet(f, d.orders)
    BY <1>7, <2>1, <2>2
  <2>4. e.depth[m][2] - SumFunctionOnSet(g, e.orders) = d.depth[m][2] - SumFunctionOnSet(g, d.orders)
    BY <1>7, <2>1, <2>2
  <2> QED BY <2>3, <2>4 DEF OfferedGap, AskedGap, f, g
<1>9. SameGaps(d, e)
  BY <1>6, <1>8 DEF SameGaps
<1> QED BY <1>9 DEF e

\* The loops that cancel orders, and what they leave.
CancelStep(c, d, o) == CancelOrder(d, o)
Cancels == INSTANCE FoldFacts WITH op <- CancelStep

LEMMA CancelOrdersIsFold ==
  ASSUME NEW d, NEW S
  PROVE  CancelOrders(d, S) = Cancels!FoldOver(0, d, S)
BY DEF CancelOrders, FoldSet, MapThenFoldSet, Cancels!FoldOver, Cancels!FoldSet, Cancels!MapThenFoldSet,
       CancelStep

LEMMA FiniteForCancels == ASSUME NEW D, IsFiniteSet(D) PROVE Cancels!IsFiniteSet(D)
BY DEF IsFiniteSet, Cancels!IsFiniteSet

LEMMA CancelOrdersDoes ==
  ASSUME NEW d, Typed(d), NEW S \in SUBSET d.orders
  PROVE  /\ Typed(CancelOrders(d, S)) /\ SameObjects(d, CancelOrders(d, S))
         /\ CancelOrders(d, S).orders = d.orders \ S
         /\ \A t \in Core : Total(CancelOrders(d, S), t) = Total(d, t)
         /\ SameGaps(d, CancelOrders(d, S)) /\ (Solvent(d) => Solvent(CancelOrders(d, S)))
<1> DEFINE B == [T \in SUBSET S |-> {e \in Ledgers : /\ Typed(e) /\ SameObjects(d, e) /\ e.orders = d.orders \ T
                                                     /\ \A t \in Core : Total(e, t) = Total(d, t)
                                                     /\ SameGaps(d, e) /\ (Solvent(d) => Solvent(e))}]
<1>1. IsFiniteSet(S)
  BY FS_Subset DEF Typed
<1>2. d \in B[{}]
  BY GapOfSame DEF Typed, SameObjects
<1>3. ASSUME NEW T \in SUBSET S, NEW o \in T, NEW e \in B[T \ {o}]
      PROVE  CancelOrder(e, o) \in B[T]
  <2> DEFINE next == CancelOrder(e, o)
  <2>1. T \ {o} \in SUBSET S
    OBVIOUS
  <2>2. /\ Typed(e) /\ SameObjects(d, e) /\ e.orders = d.orders \ (T \ {o}) /\ \A t \in Core : Total(e, t) = Total(d, t)
        /\ SameGaps(d, e) /\ (Solvent(d) => Solvent(e))
    BY <2>1
  <2>3. o \in e.orders /\ e.orders \ {o} = d.orders \ T
    BY <2>2
  <2>4. /\ Typed(next) /\ SameObjects(e, next) /\ next.orders = e.orders \ {o}
        /\ \A t \in Core : Total(next, t) = Total(e, t)
    BY <2>2, <2>3, CancelOrderDoes
  <2>5. SameGaps(d, next)
    <3>1. SameGaps(e, next)
      BY <2>2, <2>3, CancelOrderBook
    <3> QED BY <2>2, <3>1, GapsFollow
  <2>6. ASSUME Solvent(e) PROVE Solvent(next)
    <3>1. o.left >= 0
      <4>1. o.left \in Int /\ o.left > 0
        BY <2>2, <2>3, <2>6 DEF Typed, Ledgers, LimitOrder, Solvent, Sells
      <4> QED BY <4>1
    <3>2. InBlack(next)
      BY <2>2, <2>3, <2>6, <3>1, CancelOrderBook DEF Solvent
    <3> HIDE DEF next
    <3> QED BY <2>4, <2>6, <3>2 DEF Solvent
  <2> HIDE DEF next
  <2>7. SameObjects(d, next)
    BY <2>2, <2>4 DEF SameObjects
  <2>8. next \in Ledgers
    BY <2>4 DEF Typed
  <2>9. next \in B[T]
    BY <2>2, <2>3, <2>4, <2>7, <2>8, <2>5, <2>6
  <2> QED BY <2>9 DEF next
<1>4. Cancels!FoldOver(0, d, S) \in B[S]
  <2>1. \A T \in SUBSET S : \A o \in T : \A e \in B[T \ {o}] : CancelStep(0, e, o) \in B[T]
    BY <1>3 DEF CancelStep
  <2> HIDE DEF B
  <2> QED BY <1>1, <1>2, <2>1, FiniteForCancels, Cancels!FoldOverKeeps
<1> QED BY <1>4, CancelOrdersIsFold

-----------------------------------------------------------------------------
(* Escrows                                                                 *)

SetEscrows(d, esc) == [d EXCEPT !.esc = esc]

\* What operators on escrows leave alone.
SameButEscrows(d, e) ==
    /\ e.orders = d.orders /\ e.sav = d.sav /\ e.reqs = d.reqs /\ e.conv = d.conv /\ e.wd = d.wd
    /\ e.supply = d.supply

LEMMA SetEscrowsDoes ==
  ASSUME NEW d, Typed(d), NEW esc \in SUBSET Escrow, IsFiniteSet(esc)
  PROVE  /\ Typed(SetEscrows(d, esc)) /\ SameButEscrows(d, SetEscrows(d, esc))
         /\ SetEscrows(d, esc).bal = d.bal /\ SetEscrows(d, esc).esc = esc
BY DEF Typed, Ledgers, SetEscrows, SameButEscrows

LEMMA SetEscrowsTotal ==
  ASSUME NEW d, Typed(d), NEW esc \in SUBSET Escrow, IsFiniteSet(esc), NEW t \in Core
  PROVE  /\ Total(d, t) \in Int /\ SumFunctionOnSet(EscrowAmount(t), d.esc) \in Int
         /\ SumFunctionOnSet(EscrowAmount(t), esc) \in Int
         /\ Total(SetEscrows(d, esc), t) =
              Total(d, t) - SumFunctionOnSet(EscrowAmount(t), d.esc) + SumFunctionOnSet(EscrowAmount(t), esc)
<1> DEFINE e == SetEscrows(d, esc)
<1>1. Typed(e) /\ SameButEscrows(d, e) /\ e.bal = d.bal /\ e.esc = esc
  BY SetEscrowsDoes
<1> HIDE DEF e
<1>2. /\ InEscrows(d, t) = SumFunctionOnSet(EscrowAmount(t), d.esc)
      /\ InEscrows(e, t) = SumFunctionOnSet(EscrowAmount(t), esc)
  BY <1>1, PartsAreSums
<1>3. /\ InAccounts(e, t) = InAccounts(d, t) /\ InConversions(e, t) = InConversions(d, t)
      /\ InWithdrawals(e, t) = InWithdrawals(d, t) /\ InOrders(e, t) = InOrders(d, t)
  BY <1>1, PartsOfSame DEF SameButEscrows
<1>4. /\ InAccounts(d, t) \in Int /\ InOrders(d, t) \in Int /\ InConversions(d, t) \in Int
      /\ InWithdrawals(d, t) \in Int /\ InEscrows(d, t) \in Int /\ InEscrows(e, t) \in Int
  BY <1>1, PartsAreInts
<1>5. Total(e, t) = Total(d, t) - InEscrows(d, t) + InEscrows(e, t) /\ Total(d, t) \in Int
  BY <1>3, <1>4 DEF Total
<1> QED BY <1>2, <1>4, <1>5 DEF e

\* What the escrow e holds of t.
EscrowHolds(e, t) == (IF t = "SBD" THEN e.sbd ELSE e.steem) + Of(t, e.feesym, e.fee)

\* An escrow is taken out, put in, or put in the place of another.
LEMMA WithoutEscrow ==
  ASSUME NEW d, Typed(d), NEW e \in d.esc, NEW t \in Core
  PROVE  Total(SetEscrows(d, d.esc \ {e}), t) = Total(d, t) - EscrowHolds(e, t)
<1>1. d.esc \in SUBSET Escrow /\ IsFiniteSet(d.esc) /\ IsFiniteSet(d.esc \ {e})
  BY FS_RemoveElement DEF Typed, Ledgers
<1>2. \A x \in d.esc : EscrowAmount(t)[x] \in Int /\ EscrowAmount(t)[x] = EscrowHolds(x, t)
  BY <1>1, AmountsAreInts DEF EscrowHolds
<1>3. SumFunctionOnSet(EscrowAmount(t), d.esc) =
        EscrowAmount(t)[e] + SumFunctionOnSet(EscrowAmount(t), d.esc \ {e})
  BY ONLY <1>1, <1>2, e \in d.esc, SumWithout
<1>4. /\ Total(d, t) \in Int /\ SumFunctionOnSet(EscrowAmount(t), d.esc \ {e}) \in Int
      /\ Total(SetEscrows(d, d.esc \ {e}), t) =
           Total(d, t) - SumFunctionOnSet(EscrowAmount(t), d.esc)
                       + SumFunctionOnSet(EscrowAmount(t), d.esc \ {e})
  BY <1>1, SetEscrowsTotal
<1> QED BY <1>2, <1>3, <1>4

LEMMA WithEscrow ==
  ASSUME NEW d, Typed(d), NEW e \in Escrow, e \notin d.esc, NEW t \in Core
  PROVE  Total(SetEscrows(d, d.esc \cup {e}), t) = Total(d, t) + EscrowHolds(e, t)
<1>1. d.esc \cup {e} \in SUBSET Escrow /\ IsFiniteSet(d.esc) /\ IsFiniteSet(d.esc \cup {e})
  BY FS_AddElement DEF Typed, Ledgers
<1>2. \A x \in d.esc \cup {e} : EscrowAmount(t)[x] \in Int /\ EscrowAmount(t)[x] = EscrowHolds(x, t)
  BY <1>1, AmountsAreInts DEF EscrowHolds
<1>3. SumFunctionOnSet(EscrowAmount(t), d.esc \cup {e}) =
        SumFunctionOnSet(EscrowAmount(t), d.esc) + EscrowAmount(t)[e]
  BY ONLY <1>1, <1>2, e \notin d.esc, SumWith
<1>4. /\ Total(d, t) \in Int /\ SumFunctionOnSet(EscrowAmount(t), d.esc) \in Int
      /\ Total(SetEscrows(d, d.esc \cup {e}), t) =
           Total(d, t) - SumFunctionOnSet(EscrowAmount(t), d.esc)
                       + SumFunctionOnSet(EscrowAmount(t), d.esc \cup {e})
  BY <1>1, SetEscrowsTotal
<1> QED BY <1>2, <1>3, <1>4

LEMMA InsteadOfEscrow ==
  ASSUME NEW d, Typed(d), NEW e \in d.esc, NEW r \in Escrow, r \notin d.esc \ {e}, NEW t \in Core
  PROVE  Total(SetEscrows(d, (d.esc \ {e}) \cup {r}), t) =
           Total(d, t) - EscrowHolds(e, t) + EscrowHolds(r, t)
<1>0. d.esc \in SUBSET Escrow /\ IsFiniteSet(d.esc) /\ (d.esc \ {e}) \cup {r} \in SUBSET Escrow
  BY DEF Typed, Ledgers
<1>1. IsFiniteSet((d.esc \ {e}) \cup {r})
  BY <1>0, FS_RemoveElement, FS_AddElement
<1>2. \A x \in d.esc \cup {r} : EscrowAmount(t)[x] \in Int /\ EscrowAmount(t)[x] = EscrowHolds(x, t)
  BY <1>0, AmountsAreInts DEF EscrowHolds
<1>3. SumFunctionOnSet(EscrowAmount(t), (d.esc \ {e}) \cup {r}) =
        SumFunctionOnSet(EscrowAmount(t), d.esc) - EscrowAmount(t)[e] + EscrowAmount(t)[r]
  <2> DEFINE f == EscrowAmount(t)
  <2>1. \A x \in d.esc \cup {r} : f[x] \in Int
    BY <1>2
  <2> HIDE DEF f
  <2>2. SumFunctionOnSet(f, (d.esc \ {e}) \cup {r}) = SumFunctionOnSet(f, d.esc) - f[e] + f[r]
    BY ONLY <1>0, <2>1, e \in d.esc, r \notin d.esc \ {e}, SumInstead
  <2> QED BY <2>2 DEF f
<1>4. /\ Total(d, t) \in Int /\ SumFunctionOnSet(EscrowAmount(t), d.esc) \in Int
      /\ Total(SetEscrows(d, (d.esc \ {e}) \cup {r}), t) =
           Total(d, t) - SumFunctionOnSet(EscrowAmount(t), d.esc)
                       + SumFunctionOnSet(EscrowAmount(t), (d.esc \ {e}) \cup {r})
  BY <1>0, <1>1, SetEscrowsTotal
<1> QED BY <1>2, <1>3, <1>4

\* Two symbols of core are all there are.
LEMMA OfCore ==
  ASSUME NEW t \in Core, NEW m \in Int, NEW n \in Int
  PROVE  /\ Of(t, "STEEM", m) + Of(t, "SBD", n) = IF t = "SBD" THEN n ELSE m
         /\ Of(t, "STEEM", m) \in Int /\ Of(t, "SBD", n) \in Int
BY DEF Of, Core

\* STEEM and SBD are added to the balances of a.
LEMMA AdjustBoth ==
  ASSUME NEW d, Typed(d), NEW a \in Account, NEW m \in Int, NEW n \in Int
  PROVE  LET e == Adjust(Adjust(d, a, "STEEM", m), a, "SBD", n)
         IN  /\ Typed(e) /\ SameButBalances(d, e)
             /\ \A t \in Core : Total(e, t) = Total(d, t) + (IF t = "SBD" THEN n ELSE m)
<1> DEFINE e1 == Adjust(d, a, "STEEM", m)
           e == Adjust(e1, a, "SBD", n)
<1>0. "STEEM" \in Symbol /\ "SBD" \in Symbol
  BY DEF Symbol, Core
<1>1. Typed(e1) /\ SameButBalances(d, e1) /\ \A t \in Core : Total(e1, t) = Total(d, t) + Of(t, "STEEM", m)
  BY <1>0, AdjustDoes, AdjustTotal
<1> HIDE DEF e1
<1>2. Typed(e) /\ SameButBalances(e1, e) /\ \A t \in Core : Total(e, t) = Total(e1, t) + Of(t, "SBD", n)
  BY <1>0, <1>1, AdjustDoes, AdjustTotal
<1> HIDE DEF e
<1>3. SameButBalances(d, e)
  BY <1>1, <1>2 DEF SameButBalances
<1>4. ASSUME NEW t \in Core PROVE Total(e, t) = Total(d, t) + (IF t = "SBD" THEN n ELSE m)
  <2>1. Total(d, t) \in Int
    BY PartsAreInts DEF Total
  <2>2. /\ Of(t, "STEEM", m) + Of(t, "SBD", n) = IF t = "SBD" THEN n ELSE m
        /\ Of(t, "STEEM", m) \in Int /\ Of(t, "SBD", n) \in Int
    BY OfCore
  <2>3. Total(e, t) = (Total(d, t) + Of(t, "STEEM", m)) + Of(t, "SBD", n)
    BY <1>1, <1>2
  <2> QED BY <2>1, <2>2, <2>3
<1> QED BY <1>2, <1>3, <1>4 DEF e, e1

\* An escrow goes back to from.
LEMMA RefundDoes ==
  ASSUME NEW d, Typed(d), NEW e \in d.esc
  PROVE  /\ Typed(Refund(d, e)) /\ SameButEscrows(d, Refund(d, e))
         /\ Refund(d, e).esc = d.esc \ {e}
         /\ \A t \in Core : Total(Refund(d, e), t) = Total(d, t)
<1> DEFINE e1 == Adjust(Adjust(d, e.from, "STEEM", e.steem), e.from, "SBD", e.sbd)
           e2 == Adjust(e1, e.from, e.feesym, e.fee)
           e3 == SetEscrows(e2, d.esc \ {e})
<1>0. /\ e \in Escrow /\ e.from \in Account /\ e.steem \in Int /\ e.sbd \in Int /\ e.fee \in Int
      /\ e.feesym \in Symbol /\ d.esc \ {e} \in SUBSET Escrow /\ IsFiniteSet(d.esc \ {e})
  BY FS_RemoveElement DEF Typed, Ledgers, Escrow, Symbol
<1>1. Refund(d, e) = [e2 EXCEPT !.esc = @ \ {e}]
  BY DEF Refund
<1>2. /\ Typed(e1) /\ SameButBalances(d, e1)
      /\ \A t \in Core : Total(e1, t) = Total(d, t) + (IF t = "SBD" THEN e.sbd ELSE e.steem)
  BY <1>0, AdjustBoth
<1> HIDE DEF e1
<1>3. /\ Typed(e2) /\ SameButBalances(e1, e2)
      /\ \A t \in Core : Total(e2, t) = Total(e1, t) + Of(t, e.feesym, e.fee)
  BY <1>0, <1>2, AdjustDoes, AdjustTotal
<1> HIDE DEF e2
<1>4. e2.esc = d.esc /\ SameButEscrows(d, e2)
  BY <1>2, <1>3 DEF SameButBalances, SameButEscrows
<1>5. Refund(d, e) = e3
  BY <1>1, <1>4 DEF SetEscrows
<1>6. Typed(e3) /\ SameButEscrows(e2, e3) /\ e3.esc = d.esc \ {e}
  BY <1>0, <1>3, SetEscrowsDoes
<1>7. ASSUME NEW t \in Core PROVE Total(e3, t) = Total(d, t)
  <2>1. Total(e3, t) = Total(e2, t) - EscrowHolds(e, t)
    BY <1>3, <1>4, WithoutEscrow
  <2>2. EscrowHolds(e, t) = (IF t = "SBD" THEN e.sbd ELSE e.steem) + Of(t, e.feesym, e.fee)
    BY DEF EscrowHolds
  <2>3. Total(d, t) \in Int /\ Of(t, e.feesym, e.fee) \in Int
    BY <1>0, OfIsInt, PartsAreInts DEF Total
  <2> QED BY <1>0, <1>2, <1>3, <2>1, <2>2, <2>3
<1>8. SameButEscrows(d, e3)
  BY <1>4, <1>6 DEF SameButEscrows
<1> QED BY <1>5, <1>6, <1>7, <1>8

\* Escrows that were not ratified in time.
RefundStep(c, d, e) == Refund(d, e)
Refunds == INSTANCE FoldFacts WITH op <- RefundStep

LEMMA ExpireIsFold ==
  ASSUME NEW d, NEW t
  PROVE  ExpireEscrowRatification(d, t) =
           Refunds!FoldOver(0, d, {e \in d.esc : ~Approved(e) /\ e.deadline <= t})
BY DEF ExpireEscrowRatification, FoldSet, MapThenFoldSet, Refunds!FoldOver, Refunds!FoldSet,
       Refunds!MapThenFoldSet, RefundStep

LEMMA FiniteForRefunds == ASSUME NEW D, IsFiniteSet(D) PROVE Refunds!IsFiniteSet(D)
BY DEF IsFiniteSet, Refunds!IsFiniteSet

LEMMA ExpireDoes ==
  ASSUME NEW d, Typed(d), NEW t
  PROVE  /\ Typed(ExpireEscrowRatification(d, t)) /\ SameButEscrows(d, ExpireEscrowRatification(d, t))
         /\ ExpireEscrowRatification(d, t).esc = d.esc \ {e \in d.esc : ~Approved(e) /\ e.deadline <= t}
         /\ \A s \in Core : Total(ExpireEscrowRatification(d, t), s) = Total(d, s)
<1> DEFINE S == {e \in d.esc : ~Approved(e) /\ e.deadline <= t}
           B == [T \in SUBSET S |-> {x \in Ledgers : /\ Typed(x) /\ SameButEscrows(d, x) /\ x.esc = d.esc \ T
                                                     /\ \A s \in Core : Total(x, s) = Total(d, s)}]
<1>1. IsFiniteSet(S) /\ S \subseteq d.esc
  BY FS_Subset DEF Typed
<1>2. ExpireEscrowRatification(d, t) = Refunds!FoldOver(0, d, S)
  BY ExpireIsFold
<1> HIDE DEF S
<1>3. d \in B[{}]
  BY DEF Typed, SameButEscrows
<1>4. ASSUME NEW T \in SUBSET S, NEW e \in T, NEW x \in B[T \ {e}]
      PROVE  Refund(x, e) \in B[T]
  <2> DEFINE next == Refund(x, e)
  <2>1. T \ {e} \in SUBSET S
    OBVIOUS
  <2>2. Typed(x) /\ SameButEscrows(d, x) /\ x.esc = d.esc \ (T \ {e}) /\ \A s \in Core : Total(x, s) = Total(d, s)
    BY <2>1
  <2>3. e \in x.esc /\ x.esc \ {e} = d.esc \ T
    BY <1>1, <2>2
  <2>4. /\ Typed(next) /\ SameButEscrows(x, next) /\ next.esc = x.esc \ {e}
        /\ \A s \in Core : Total(next, s) = Total(x, s)
    BY <2>2, <2>3, RefundDoes
  <2> HIDE DEF next
  <2>5. SameButEscrows(d, next)
    BY <2>2, <2>4 DEF SameButEscrows
  <2>6. next \in Ledgers
    BY <2>4 DEF Typed
  <2>7. next \in B[T]
    BY <2>2, <2>3, <2>4, <2>5, <2>6
  <2> QED BY <2>7 DEF next
<1>5. Refunds!FoldOver(0, d, S) \in B[S]
  <2>1. \A T \in SUBSET S : \A e \in T : \A x \in B[T \ {e}] : RefundStep(0, x, e) \in B[T]
    BY <1>4 DEF RefundStep
  <2> HIDE DEF B
  <2> QED BY <1>1, <1>3, <2>1, FiniteForRefunds, Refunds!FoldOverKeeps
<1> QED BY <1>2, <1>5 DEF S

-----------------------------------------------------------------------------
(* Savings, conversions and withdrawals                                    *)

\* Savings are changed by n.
AdjustSavings(d, a, s, n) == [d EXCEPT !.sav[a][s] = @ + n]

SameButSavings(d, e) ==
    /\ e.bal = d.bal /\ e.mkt = d.mkt /\ e.orders = d.orders /\ e.depth = d.depth /\ e.reqs = d.reqs
    /\ e.conv = d.conv /\ e.wd = d.wd /\ e.esc = d.esc /\ e.supply = d.supply

LEMMA AdjustSavingsDoes ==
  ASSUME NEW d, Typed(d), NEW a \in Account, NEW s \in Core, NEW n \in Int
  PROVE  /\ Typed(AdjustSavings(d, a, s, n)) /\ SameButSavings(d, AdjustSavings(d, a, s, n))
         /\ \A t \in Core : Total(AdjustSavings(d, a, s, n), t) = Total(d, t) + Of(t, s, n)
<1> DEFINE e == AdjustSavings(d, a, s, n)
<1>1. /\ d.sav[a][s] \in Int /\ d.sav \in [Account -> [Core -> Int]]
      /\ d.bal \in [Account -> [Symbol -> Int]] /\ Core \subseteq Symbol
  BY DEF Typed, Ledgers, Symbol
<1>2. SameButSavings(d, e)
  BY DEF AdjustSavings, SameButSavings, Typed, Ledgers
<1>3. e.sav = [d.sav EXCEPT ![a] = [d.sav[a] EXCEPT ![s] = d.sav[a][s] + n]]
  BY DEF AdjustSavings, Typed, Ledgers
<1>4. e.sav \in [Account -> [Core -> Int]]
  <2>1. d.sav[a][s] + n \in Int
    BY <1>1
  <2>2. [d.sav[a] EXCEPT ![s] = d.sav[a][s] + n] \in [Core -> Int]
    BY <1>1, <2>1
  <2> QED BY <1>1, <1>3, <2>2
<1>5. e \in Ledgers
  BY <1>4 DEF AdjustSavings, Typed, Ledgers
<1>6. Typed(e)
  BY <1>2, <1>5 DEF Typed, SameButSavings
<1> HIDE DEF e
<1>7. ASSUME NEW t \in Core PROVE InAccounts(e, t) = InAccounts(d, t) + Of(t, s, n)
  <2> DEFINE f == AccountAmount(d, t)
             g == AccountAmount(e, t)
  <2>0. e.bal = d.bal
    BY <1>2 DEF SameButSavings
  <2>1. \A b \in Account : f[b] \in Int /\ g[b] \in Int
    BY <1>1, <1>4, <2>0 DEF AccountAmount
  <2>2. ASSUME NEW b \in Account \ {a} PROVE g[b] = f[b]
    BY <1>1, <1>3, <2>0 DEF AccountAmount
  <2>3. g[a] - f[a] = Of(t, s, n)
    <3>1. f[a] = d.bal[a][t] + d.sav[a][t] /\ g[a] = d.bal[a][t] + e.sav[a][t]
      BY <2>0 DEF AccountAmount
    <3>2. d.bal[a][t] \in Int /\ d.sav[a][t] \in Int
      BY <1>1
    <3>3. e.sav[a][t] = d.sav[a][t] + Of(t, s, n)
      BY <1>1, <1>3 DEF Of
    <3>4. Of(t, s, n) \in Int
      BY OfIsInt
    <3> QED BY <3>1, <3>2, <3>3, <3>4
  <2>4. InAccounts(d, t) = SumFunctionOnSet(f, Account) /\ InAccounts(e, t) = SumFunctionOnSet(g, Account)
    BY <1>6, PartsAreSums
  <2>5. IsFiniteSet(Account)
    BY AccountAssumption
  <2> HIDE DEF f, g
  <2>6. SumFunctionOnSet(g, Account) = SumFunctionOnSet(f, Account) + (g[a] - f[a])
    BY <2>1, <2>2, <2>5, SumChanged
  <2> QED BY <2>3, <2>4, <2>6
<1>8. ASSUME NEW t \in Core PROVE Total(e, t) = Total(d, t) + Of(t, s, n)
  <2>1. /\ InOrders(e, t) = InOrders(d, t) /\ InConversions(e, t) = InConversions(d, t)
        /\ InWithdrawals(e, t) = InWithdrawals(d, t) /\ InEscrows(e, t) = InEscrows(d, t)
    BY <1>2, PartsOfSame DEF SameButSavings
  <2>2. /\ InAccounts(d, t) \in Int /\ InOrders(d, t) \in Int /\ InConversions(d, t) \in Int
        /\ InWithdrawals(d, t) \in Int /\ InEscrows(d, t) \in Int /\ Of(t, s, n) \in Int
    BY PartsAreInts, OfIsInt
  <2>3. InAccounts(e, t) = InAccounts(d, t) + Of(t, s, n)
    BY <1>7
  <2> QED BY <2>1, <2>2, <2>3 DEF Total
<1> QED BY <1>2, <1>6, <1>8 DEF e

\* Which conversions are open.
SetConversions(d, conv) == [d EXCEPT !.conv = conv]

LEMMA WithConversion ==
  ASSUME NEW d, Typed(d), NEW c \in Conversion, c \notin d.conv
  PROVE  LET e == SetConversions(d, d.conv \cup {c})
         IN  /\ Typed(e) /\ e.conv = d.conv \cup {c} /\ e.bal = d.bal /\ e.sav = d.sav /\ e.orders = d.orders
             /\ e.wd = d.wd /\ e.reqs = d.reqs /\ e.esc = d.esc /\ e.supply = d.supply
             /\ \A t \in Core : Total(e, t) = Total(d, t) + Of(t, c.sym, c.amount)
<1> DEFINE e == SetConversions(d, d.conv \cup {c})
<1>1. d.conv \subseteq Conversion /\ IsFiniteSet(d.conv) /\ IsFiniteSet(d.conv \cup {c})
  BY FS_AddElement DEF Typed, Ledgers
<1>2. /\ Typed(e) /\ e.conv = d.conv \cup {c} /\ e.bal = d.bal /\ e.sav = d.sav /\ e.orders = d.orders
      /\ e.wd = d.wd /\ e.reqs = d.reqs /\ e.esc = d.esc /\ e.supply = d.supply
  BY <1>1 DEF Typed, Ledgers, SetConversions
<1> HIDE DEF e
<1>3. ASSUME NEW t \in Core PROVE Total(e, t) = Total(d, t) + Of(t, c.sym, c.amount)
  <2> DEFINE f == ConversionAmount(t)
  <2>1. \A x \in d.conv \cup {c} : f[x] \in Int /\ f[x] = Of(t, x.sym, x.amount)
    BY <1>1, AmountsAreInts
  <2>2. /\ InConversions(d, t) = SumFunctionOnSet(f, d.conv)
        /\ InConversions(e, t) = SumFunctionOnSet(f, d.conv \cup {c})
    BY <1>2, PartsAreSums
  <2> HIDE DEF f
  <2>3. SumFunctionOnSet(f, d.conv \cup {c}) = SumFunctionOnSet(f, d.conv) + f[c]
    BY ONLY <1>1, <2>1, c \notin d.conv, SumWith
  <2>4. /\ InOrders(e, t) = InOrders(d, t) /\ InAccounts(e, t) = InAccounts(d, t)
        /\ InWithdrawals(e, t) = InWithdrawals(d, t) /\ InEscrows(e, t) = InEscrows(d, t)
    BY <1>2, PartsOfSame
  <2>5. /\ InAccounts(d, t) \in Int /\ InOrders(d, t) \in Int /\ InConversions(d, t) \in Int
        /\ InWithdrawals(d, t) \in Int /\ InEscrows(d, t) \in Int /\ f[c] \in Int
    BY <2>1, PartsAreInts
  <2>6. InConversions(e, t) = InConversions(d, t) + f[c]
    BY <2>2, <2>3
  <2>7. Total(e, t) = Total(d, t) + f[c]
    BY <2>4, <2>5, <2>6 DEF Total
  <2> QED BY <2>1, <2>7
<1> QED BY <1>2, <1>3 DEF e

\* Which withdrawals wait, and how many of every account.
SetWithdrawals(d, wd, reqs) == [d EXCEPT !.wd = wd, !.reqs = reqs]

SameButWithdrawals(d, e) ==
    /\ e.bal = d.bal /\ e.sav = d.sav /\ e.orders = d.orders /\ e.conv = d.conv /\ e.esc = d.esc
    /\ e.supply = d.supply

LEMMA SetWithdrawalsDoes ==
  ASSUME NEW d, Typed(d), NEW wd \in SUBSET Withdrawal, IsFiniteSet(wd), NEW reqs \in [Account -> Int]
  PROVE  LET e == SetWithdrawals(d, wd, reqs)
         IN  /\ Typed(e) /\ SameButWithdrawals(d, e) /\ e.wd = wd /\ e.reqs = reqs
             /\ \A t \in Core : /\ Total(d, t) \in Int
                                /\ SumFunctionOnSet(WithdrawalAmount(t), d.wd) \in Int
                                /\ SumFunctionOnSet(WithdrawalAmount(t), wd) \in Int
                                /\ Total(e, t) = Total(d, t) - SumFunctionOnSet(WithdrawalAmount(t), d.wd)
                                                   + SumFunctionOnSet(WithdrawalAmount(t), wd)
<1> DEFINE e == SetWithdrawals(d, wd, reqs)
<1>1. Typed(e) /\ SameButWithdrawals(d, e) /\ e.wd = wd /\ e.reqs = reqs
  BY DEF Typed, Ledgers, SetWithdrawals, SameButWithdrawals
<1> HIDE DEF e
<1>2. ASSUME NEW t \in Core
      PROVE  /\ Total(d, t) \in Int
             /\ SumFunctionOnSet(WithdrawalAmount(t), d.wd) \in Int
             /\ SumFunctionOnSet(WithdrawalAmount(t), wd) \in Int
             /\ Total(e, t) = Total(d, t) - SumFunctionOnSet(WithdrawalAmount(t), d.wd)
                                          + SumFunctionOnSet(WithdrawalAmount(t), wd)
  <2>1. /\ InWithdrawals(d, t) = SumFunctionOnSet(WithdrawalAmount(t), d.wd)
        /\ InWithdrawals(e, t) = SumFunctionOnSet(WithdrawalAmount(t), wd)
    BY <1>1, PartsAreSums
  <2>2. /\ InOrders(e, t) = InOrders(d, t) /\ InAccounts(e, t) = InAccounts(d, t)
        /\ InConversions(e, t) = InConversions(d, t) /\ InEscrows(e, t) = InEscrows(d, t)
    BY <1>1, PartsOfSame DEF SameButWithdrawals
  <2>3. /\ InAccounts(d, t) \in Int /\ InOrders(d, t) \in Int /\ InConversions(d, t) \in Int
        /\ InWithdrawals(d, t) \in Int /\ InEscrows(d, t) \in Int /\ InWithdrawals(e, t) \in Int
    BY <1>1, PartsAreInts
  <2>4. Total(e, t) = Total(d, t) - InWithdrawals(d, t) + InWithdrawals(e, t) /\ Total(d, t) \in Int
    BY <2>2, <2>3 DEF Total
  <2> QED BY <2>1, <2>3, <2>4
<1> QED BY <1>1, <1>2 DEF e

LEMMA WithWithdrawal ==
  ASSUME NEW d, Typed(d), NEW w \in Withdrawal, w \notin d.wd, NEW reqs \in [Account -> Int]
  PROVE  LET e == SetWithdrawals(d, d.wd \cup {w}, reqs)
         IN  /\ Typed(e) /\ SameButWithdrawals(d, e) /\ e.wd = d.wd \cup {w} /\ e.reqs = reqs
             /\ \A t \in Core : Total(e, t) = Total(d, t) + Of(t, w.sym, w.amount)
<1> DEFINE wd == d.wd \cup {w}
           e == SetWithdrawals(d, wd, reqs)
<1>1. d.wd \subseteq Withdrawal /\ IsFiniteSet(d.wd) /\ wd \in SUBSET Withdrawal /\ IsFiniteSet(wd)
  BY FS_AddElement DEF Typed, Ledgers
<1>2. ASSUME NEW t \in Core
      PROVE  /\ SumFunctionOnSet(WithdrawalAmount(t), wd) =
                  SumFunctionOnSet(WithdrawalAmount(t), d.wd) + WithdrawalAmount(t)[w]
             /\ WithdrawalAmount(t)[w] = Of(t, w.sym, w.amount) /\ WithdrawalAmount(t)[w] \in Int
  <2> DEFINE f == WithdrawalAmount(t)
  <2>1. \A x \in d.wd \cup {w} : f[x] \in Int /\ f[x] = Of(t, x.sym, x.amount)
    BY <1>1, AmountsAreInts
  <2> HIDE DEF f
  <2>2. SumFunctionOnSet(f, d.wd \cup {w}) = SumFunctionOnSet(f, d.wd) + f[w]
    BY ONLY <1>1, <2>1, w \notin d.wd, SumWith
  <2> QED BY <2>1, <2>2 DEF f
<1> HIDE DEF wd
<1>3. /\ Typed(e) /\ SameButWithdrawals(d, e) /\ e.wd = wd /\ e.reqs = reqs
      /\ \A t \in Core : /\ Total(d, t) \in Int
                         /\ SumFunctionOnSet(WithdrawalAmount(t), d.wd) \in Int
                         /\ SumFunctionOnSet(WithdrawalAmount(t), wd) \in Int
                         /\ Total(e, t) = Total(d, t) - SumFunctionOnSet(WithdrawalAmount(t), d.wd)
                                            + SumFunctionOnSet(WithdrawalAmount(t), wd)
  BY <1>1, SetWithdrawalsDoes
<1> HIDE DEF e
<1>4. ASSUME NEW t \in Core PROVE Total(e, t) = Total(d, t) + Of(t, w.sym, w.amount)
  BY <1>2, <1>3
<1> QED BY <1>3, <1>4 DEF e, wd

DropWithdrawal(d, w, reqs) == SetWithdrawals(d, d.wd \ {w}, reqs)

LEMMA WithoutWithdrawal ==
  ASSUME NEW d, Typed(d), NEW w \in d.wd, NEW reqs \in [Account -> Int]
  PROVE  LET e == DropWithdrawal(d, w, reqs)
         IN  /\ Typed(e) /\ SameButWithdrawals(d, e) /\ e.wd = d.wd \ {w} /\ e.reqs = reqs
             /\ \A t \in Core : Total(e, t) = Total(d, t) - Of(t, w.sym, w.amount)
<1> DEFINE wd == d.wd \ {w}
           e == SetWithdrawals(d, wd, reqs)
<1>0. DropWithdrawal(d, w, reqs) = e
  BY DEF DropWithdrawal
<1>1. d.wd \subseteq Withdrawal /\ IsFiniteSet(d.wd) /\ wd \in SUBSET Withdrawal /\ IsFiniteSet(wd)
  BY FS_RemoveElement DEF Typed, Ledgers
<1>2. ASSUME NEW t \in Core
      PROVE  /\ SumFunctionOnSet(WithdrawalAmount(t), d.wd) =
                  WithdrawalAmount(t)[w] + SumFunctionOnSet(WithdrawalAmount(t), wd)
             /\ WithdrawalAmount(t)[w] = Of(t, w.sym, w.amount) /\ WithdrawalAmount(t)[w] \in Int
  <2> DEFINE f == WithdrawalAmount(t)
  <2>1. \A x \in d.wd : f[x] \in Int /\ f[x] = Of(t, x.sym, x.amount)
    BY <1>1, AmountsAreInts
  <2> HIDE DEF f
  <2>2. SumFunctionOnSet(f, d.wd) = f[w] + SumFunctionOnSet(f, d.wd \ {w})
    BY ONLY <1>1, <2>1, w \in d.wd, SumWithout
  <2> QED BY <2>1, <2>2 DEF f
<1> HIDE DEF wd
<1>3. /\ Typed(e) /\ SameButWithdrawals(d, e) /\ e.wd = wd /\ e.reqs = reqs
      /\ \A t \in Core : /\ Total(d, t) \in Int
                         /\ SumFunctionOnSet(WithdrawalAmount(t), d.wd) \in Int
                         /\ SumFunctionOnSet(WithdrawalAmount(t), wd) \in Int
                         /\ Total(e, t) = Total(d, t) - SumFunctionOnSet(WithdrawalAmount(t), d.wd)
                                            + SumFunctionOnSet(WithdrawalAmount(t), wd)
  BY <1>1, SetWithdrawalsDoes
<1> HIDE DEF e
<1>4. ASSUME NEW t \in Core PROVE Total(e, t) = Total(d, t) - Of(t, w.sym, w.amount)
  BY <1>2, <1>3
<1>5. DropWithdrawal(d, w, reqs) = e
  BY <1>0 DEF e, wd
<1> HIDE DEF wd, e
<1> QED BY <1>3, <1>4, <1>5 DEF wd

-----------------------------------------------------------------------------
(* The inductive invariant                                                 *)

\* The last approval pays the fee: an approved escrow holds none.
FeesPaid(esc) == \A e \in esc : Approved(e) => e.fee = 0
Mine(wd, a) == {w \in wd : w.from = a}
Counted(d) == \A a \in Account : d.reqs[a] = Cardinality(Mine(d.wd, a))
Balanced(d) == \A s \in Core : d.supply[s] = Total(d, s)
Sound(d) == Typed(d) /\ Keyed(d) /\ FeesPaid(d.esc) /\ Counted(d) /\ Balanced(d)

OnTime(d, t) ==
    /\ \A o \in d.orders : o.exp >= t
    /\ \A c \in d.conv : c.date > t
    /\ \A w \in d.wd : w.complete > t
    /\ \A e \in d.esc : ~Approved(e) => e.deadline > t

IInv == now \in Nat /\ Sound(db) /\ OnTime(db, now)

\* It implies what it is for.
LEMMA IInvImplies == IInv => ValidateInvariants /\ RequestsServed
BY DEF IInv, Sound, Balanced, Counted, OnTime, ValidateInvariants, RequestsServed, RequestsCounted, NothingOverdue, Mine

\* An operation that leaves a sound ledger keeps the invariant.
LEMMA OperationKeeps ==
  ASSUME IInv, NEW e, Sound(e), OnTime(e, now), db' = e, now' = now
  PROVE  IInv'
BY DEF IInv

\* The operators on the market and on escrows keep a ledger sound.
LEMMA MarketKeeps ==
  ASSUME NEW d, Sound(d), NEW e, Typed(e), SameObjects(d, e), OrdersKeyed(e.orders),
         \A t \in Core : Total(e, t) = Total(d, t)
  PROVE  Sound(e)
BY DEF Sound, SameObjects, Keyed, Counted, Balanced

LEMMA EscrowsKeep ==
  ASSUME NEW d, Sound(d), NEW e, Typed(e), SameButEscrows(d, e), EscrowsKeyed(e.esc), FeesPaid(e.esc),
         \A t \in Core : Total(e, t) = Total(d, t)
  PROVE  Sound(e)
BY DEF Sound, SameButEscrows, Keyed, Counted, Balanced

LEMMA LimitOrderCreateKeeps ==
  ASSUME IInv, NEW x \in OrderOps, LimitOrderCreate(x) PROVE IInv'
<1>1. PICK found \in Against(db, NewOrder(db, x)) : db' = Created(db, x, found)
  BY DEF LimitOrderCreate
<1> DEFINE e == Created(db, x, found)
<1>2. Typed(db) /\ OrdersKeyed(db.orders) /\ now' = now /\ x.exp > now
      /\ ~ \E o \in db.orders : o.seller = x.seller /\ o.orderid = x.orderid
  BY DEF IInv, Sound, Keyed, LimitOrderCreate, CanCreate, Operation
<1>3. /\ Typed(e) /\ SameObjects(db, e) /\ OrdersKeyed(e.orders)
      /\ \A r \in e.orders : r.exp = x.exp \/ \E o \in db.orders : r.exp = o.exp
      /\ \A t \in Core : Total(e, t) = Total(db, t)
  BY <1>2, CreatedDoes
<1> HIDE DEF e
<1>4. Sound(e)
  BY <1>3, MarketKeeps DEF IInv
<1>5. OnTime(e, now)
  <2>1. \A o \in db.orders : o.exp >= now
    BY DEF IInv, OnTime
  <2>2. x.exp \in Int /\ now \in Int
    BY InputAssumption DEF IInv
  <2>3. \A r \in e.orders : r.exp >= now
    BY <1>2, <1>3, <2>1, <2>2
  <2>4. e.conv = db.conv /\ e.wd = db.wd /\ e.esc = db.esc
    BY <1>3 DEF SameObjects
  <2> QED BY <2>3, <2>4 DEF IInv, OnTime
<1>6. db' = e
  BY <1>1 DEF e
<1> QED BY <1>2, <1>4, <1>5, <1>6, OperationKeeps

LEMMA LimitOrderCancelKeeps ==
  ASSUME IInv, NEW o \in db.orders, LimitOrderCancel(o) PROVE IInv'
<1> DEFINE e == CancelOrder(db, o)
<1>1. db' = e /\ now' = now /\ Typed(db) /\ OrdersKeyed(db.orders)
  BY DEF LimitOrderCancel, Operation, IInv, Sound, Keyed
<1>2. /\ Typed(e) /\ SameObjects(db, e) /\ e.orders = db.orders \ {o}
      /\ \A t \in Core : Total(e, t) = Total(db, t)
  BY <1>1, CancelOrderDoes
<1> HIDE DEF e
<1>3. OrdersKeyed(e.orders)
  BY <1>1, <1>2 DEF OrdersKeyed
<1>4. Sound(e)
  BY <1>2, <1>3, MarketKeeps DEF IInv
<1>5. OnTime(e, now)
  BY <1>2 DEF IInv, OnTime, SameObjects
<1> QED BY <1>1, <1>4, <1>5, OperationKeeps

\* Cancelling a part of the book.
LEMMA CancelOrdersKeep ==
  ASSUME NEW d, Sound(d), NEW S \in SUBSET d.orders
  PROVE  Sound(CancelOrders(d, S))
<1> DEFINE e == CancelOrders(d, S)
<1>1. /\ Typed(e) /\ SameObjects(d, e) /\ e.orders = d.orders \ S
      /\ \A t \in Core : Total(e, t) = Total(d, t)
  BY CancelOrdersDoes DEF Sound
<1> HIDE DEF e
<1>2. OrdersKeyed(e.orders)
  BY <1>1 DEF OrdersKeyed, Sound, Keyed
<1>3. Sound(e)
  BY <1>1, <1>2, MarketKeeps
<1> QED BY <1>3 DEF e

LEMMA LimitOrderCancelExKeeps ==
  ASSUME IInv, NEW a, NEW base, NEW quote, NEW reverse, LimitOrderCancelEx(a, base, quote, reverse)
  PROVE  IInv'
<1> DEFINE S == OfPair(db, a, base, quote, reverse)
           e == CancelOrders(db, S)
<1>1. db' = e /\ now' = now /\ S \in SUBSET db.orders
  BY DEF LimitOrderCancelEx, Operation, OfPair
<1> HIDE DEF S
<1>2. Sound(e) /\ SameObjects(db, e) /\ e.orders = db.orders \ S
  BY <1>1, CancelOrdersKeep, CancelOrdersDoes DEF IInv, Sound
<1> HIDE DEF e
<1>3. OnTime(e, now)
  BY <1>2 DEF IInv, OnTime, SameObjects
<1> QED BY <1>1, <1>2, <1>3, OperationKeeps

\* A part and a fee are amounts.
LEMMA PercentIsInt == ASSUME NEW n \in Int, NEW p \in Int PROVE Percent(n, p) \in Int
<1>1. 10000 \in Positive
  BY DEF Positive
<1> QED BY <1>1, QuotientIsInt DEF Percent

LEMMA ConvertFeeIsRate == ConvertFee \in Nat /\ ConvertFee <= 10000
<1>1. ASSUME NEW r \in FeeRates PROVE r \in Nat /\ r <= 10000
  BY DEF FeeRates
<1>2. ConvertFee \in FeeRates
  BY RateAssumption, SMTT(30) DEF FeeRates
<1> QED BY ONLY <1>1, <1>2

LEMMA RatesAreInts == ConvertFee \in Int /\ DebtRate \in Int
<1>1. ASSUME NEW r \in 0..10000 PROVE r \in Int
  OBVIOUS
<1>2. ASSUME NEW r \in 0..9999 PROVE r \in Int
  OBVIOUS
<1> QED BY <1>1, <1>2, RateAssumption

LEMMA ConvertKeeps ==
  ASSUME IInv, NEW x \in ConvertOps, Convert(x) PROVE IInv'
<1> DEFINE fee == IF x.sym = "STEEM" THEN Percent(x.amount, ConvertFee) ELSE 0
           c == [owner |-> x.owner, id |-> x.id, sym |-> x.sym,
                 amount |-> x.amount, fee |-> fee, date |-> now + ConversionDelay]
           e1 == Adjust(db, x.owner, x.sym, -x.amount)
           e == SetConversions(e1, db.conv \cup {c})
<1>1. /\ now' = now /\ db' = [e1 EXCEPT !.conv = @ \cup {c}]
      /\ ~ \E y \in db.conv : y.owner = x.owner /\ y.id = x.id
  BY DEF Convert, Operation
<1>2. /\ x.owner \in Account /\ x.id \in Nat /\ x.sym \in Core /\ x.sym \in Symbol
      /\ x.amount \in Int /\ -x.amount \in Int
  <2>1. x.owner \in Account /\ x.id \in Nat /\ x.sym \in Core /\ x.amount \in Int
    BY InputAssumption DEF Positive
  <2> QED BY <2>1 DEF Symbol
<1>3. fee \in Int
  <2>1. Percent(x.amount, ConvertFee) \in Int
    BY <1>2, RatesAreInts, PercentIsInt
  <2> QED BY <2>1
<1>4. now + ConversionDelay \in Int /\ now + ConversionDelay > now
  <2>1. ConversionDelay \in Nat /\ ConversionDelay # 0 /\ now \in Nat
    BY TimeAssumption DEF IInv
  <2> QED BY <2>1
<1> HIDE DEF fee
<1>5. c \in Conversion /\ c.owner = x.owner /\ c.id = x.id /\ c.sym = x.sym /\ c.amount = x.amount
      /\ c.date > now
  BY <1>2, <1>3, <1>4 DEF Conversion
<1> HIDE DEF c
<1>6. Typed(db) /\ Sound(db) /\ c \notin db.conv
  BY <1>1, <1>5 DEF IInv, Sound
<1>7. /\ Typed(e1) /\ SameButBalances(db, e1)
      /\ \A t \in Core : Total(e1, t) = Total(db, t) + Of(t, x.sym, -x.amount)
  BY <1>2, <1>6, AdjustDoes, AdjustTotal
<1> HIDE DEF e1
<1>8. e1.conv = db.conv
  BY <1>7 DEF SameButBalances
<1>9. db' = e
  BY <1>1, <1>8 DEF SetConversions
<1>10. /\ Typed(e) /\ e.conv = db.conv \cup {c} /\ e.bal = e1.bal /\ e.sav = e1.sav /\ e.orders = e1.orders
       /\ e.wd = e1.wd /\ e.reqs = e1.reqs /\ e.esc = e1.esc /\ e.supply = e1.supply
       /\ \A t \in Core : Total(e, t) = Total(e1, t) + Of(t, c.sym, c.amount)
  BY <1>5, <1>6, <1>7, <1>8, WithConversion
<1> HIDE DEF e
<1>11. /\ e.orders = db.orders /\ e.wd = db.wd /\ e.reqs = db.reqs /\ e.esc = db.esc /\ e.supply = db.supply
  BY <1>7, <1>10 DEF SameButBalances
<1>12. ConversionsKeyed(e.conv)
  BY <1>1, <1>5, <1>6, <1>10 DEF ConversionsKeyed, Sound, Keyed
<1>13. ASSUME NEW t \in Core PROVE Total(e, t) = Total(db, t)
  <2>1. Of(t, x.sym, -x.amount) = -Of(t, x.sym, x.amount) /\ Of(t, x.sym, x.amount) \in Int
    BY <1>2 DEF Of
  <2>2. Total(db, t) \in Int
    BY <1>6, PartsAreInts DEF Total
  <2> QED BY <1>5, <1>7, <1>10, <2>1, <2>2
<1>14. Sound(e)
  BY <1>6, <1>10, <1>11, <1>12, <1>13 DEF Sound, Keyed, Counted, Balanced
<1>15. OnTime(e, now)
  BY <1>5, <1>10, <1>11 DEF IInv, OnTime
<1> QED BY <1>1, <1>9, <1>14, <1>15, OperationKeeps

LEMMA TransferToSavingsKeeps ==
  ASSUME IInv, NEW x \in SavingsOps, TransferToSavings(x) PROVE IInv'
<1> DEFINE e1 == Adjust(db, x.from, x.sym, -x.amount)
           e == AdjustSavings(e1, x.to, x.sym, x.amount)
<1>1. now' = now /\ db' = e
  BY DEF TransferToSavings, Operation, AdjustSavings
<1>2. /\ x.from \in Account /\ x.to \in Account /\ x.sym \in Core /\ x.sym \in Symbol
      /\ x.amount \in Int /\ -x.amount \in Int
  <2>1. x.from \in Account /\ x.to \in Account /\ x.sym \in Core /\ x.amount \in Int
    BY InputAssumption DEF Positive
  <2> QED BY <2>1 DEF Symbol
<1>3. Typed(db) /\ Sound(db)
  BY DEF IInv, Sound
<1>4. /\ Typed(e1) /\ SameButBalances(db, e1)
      /\ \A t \in Core : Total(e1, t) = Total(db, t) + Of(t, x.sym, -x.amount)
  BY <1>2, <1>3, AdjustDoes, AdjustTotal
<1> HIDE DEF e1
<1>5. /\ Typed(e) /\ SameButSavings(e1, e)
      /\ \A t \in Core : Total(e, t) = Total(e1, t) + Of(t, x.sym, x.amount)
  BY <1>2, <1>4, AdjustSavingsDoes
<1> HIDE DEF e
<1>6. /\ e.orders = db.orders /\ e.wd = db.wd /\ e.reqs = db.reqs /\ e.esc = db.esc /\ e.supply = db.supply
      /\ e.conv = db.conv
  BY <1>4, <1>5 DEF SameButBalances, SameButSavings
<1>7. ASSUME NEW t \in Core PROVE Total(e, t) = Total(db, t)
  <2>1. Of(t, x.sym, -x.amount) = -Of(t, x.sym, x.amount) /\ Of(t, x.sym, x.amount) \in Int
    BY <1>2 DEF Of
  <2>2. Total(db, t) \in Int
    BY <1>3, PartsAreInts DEF Total
  <2> QED BY <1>4, <1>5, <2>1, <2>2
<1>8. Sound(e)
  BY <1>3, <1>5, <1>6, <1>7 DEF Sound, Keyed, Counted, Balanced
<1>9. OnTime(e, now)
  BY <1>6 DEF IInv, OnTime
<1> QED BY <1>1, <1>8, <1>9, OperationKeeps

\* One more withdrawal of an account.
LEMMA CountWith ==
  ASSUME NEW wd, IsFiniteSet(wd), NEW w, w \notin wd, NEW a
  PROVE  /\ Cardinality(Mine(wd, a)) \in Nat
         /\ Cardinality(Mine(wd \cup {w}, a)) = Cardinality(Mine(wd, a)) + (IF w.from = a THEN 1 ELSE 0)
<1>1. IsFiniteSet(Mine(wd, a)) /\ Cardinality(Mine(wd, a)) \in Nat
  <2>1. Mine(wd, a) \subseteq wd
    BY DEF Mine
  <2> QED BY <2>1, FS_Subset, FS_CardinalityType
<1>2. CASE w.from = a
  <2>1. Mine(wd \cup {w}, a) = Mine(wd, a) \cup {w} /\ w \notin Mine(wd, a)
    BY <1>2 DEF Mine
  <2>2. Cardinality(Mine(wd \cup {w}, a)) = Cardinality(Mine(wd, a)) + 1
    BY <1>1, <2>1, FS_AddElement
  <2> QED BY <1>1, <1>2, <2>2
<1>3. CASE w.from # a
  <2>1. Mine(wd \cup {w}, a) = Mine(wd, a)
    BY <1>3 DEF Mine
  <2> QED BY <1>1, <1>3, <2>1
<1> QED BY <1>2, <1>3

LEMMA TransferFromSavingsKeeps ==
  ASSUME IInv, NEW x \in WithdrawOps, TransferFromSavings(x) PROVE IInv'
<1> DEFINE w == [from |-> x.from, to |-> x.to, id |-> x.id, sym |-> x.sym,
                 amount |-> x.amount, complete |-> now + WithdrawTime]
           reqs == [db.reqs EXCEPT ![x.from] = @ + 1]
           e1 == AdjustSavings(db, x.from, x.sym, -x.amount)
           e == SetWithdrawals(e1, db.wd \cup {w}, reqs)
<1>1. /\ now' = now
      /\ db' = [db EXCEPT !.sav[x.from][x.sym] = @ - x.amount, !.wd = @ \cup {w}, !.reqs[x.from] = @ + 1]
      /\ ~ \E y \in db.wd : y.from = x.from /\ y.id = x.id
  BY DEF TransferFromSavings, Operation
<1>2. /\ x.from \in Account /\ x.to \in Account /\ x.id \in Nat /\ x.sym \in Core
      /\ x.amount \in Int /\ -x.amount \in Int
  <2>1. x.from \in Account /\ x.to \in Account /\ x.id \in Nat /\ x.sym \in Core /\ x.amount \in Int
    BY InputAssumption DEF Positive
  <2> QED BY <2>1
<1>3. now + WithdrawTime \in Int /\ now + WithdrawTime > now
  <2>1. WithdrawTime \in Nat /\ WithdrawTime # 0 /\ now \in Nat
    BY TimeAssumption DEF IInv
  <2> QED BY <2>1
<1>4. /\ w \in Withdrawal /\ w.from = x.from /\ w.id = x.id /\ w.sym = x.sym /\ w.amount = x.amount
      /\ w.complete > now
  BY <1>2, <1>3 DEF Withdrawal
<1> HIDE DEF w
<1>5. Typed(db) /\ Sound(db) /\ w \notin db.wd
  BY <1>1, <1>4 DEF IInv, Sound
<1>6. reqs \in [Account -> Int]
  <2>1. db.reqs \in [Account -> Int]
    BY <1>5 DEF Typed, Ledgers
  <2>2. db.reqs[x.from] + 1 \in Int
    BY <1>2, <2>1
  <2> QED BY <2>1, <2>2
<1>7. db' = e
  <2>1. db.sav[x.from][x.sym] \in Int
    BY <1>2, <1>5 DEF Typed, Ledgers
  <2>2. db.sav[x.from][x.sym] - x.amount = db.sav[x.from][x.sym] + (-x.amount)
    BY <1>2, <2>1
  <2>3. e1 = [db EXCEPT !.sav[x.from][x.sym] = @ - x.amount]
    BY <2>2, <1>5 DEF AdjustSavings, Typed, Ledgers
  <2>4. [db EXCEPT !.sav[x.from][x.sym] = @ - x.amount, !.wd = @ \cup {w}, !.reqs[x.from] = @ + 1]
          = [[db EXCEPT !.sav[x.from][x.sym] = @ - x.amount] EXCEPT !.wd = db.wd \cup {w}, !.reqs = reqs]
    BY <1>5 DEF Typed, Ledgers
  <2> QED BY <1>1, <2>3, <2>4 DEF SetWithdrawals
<1> HIDE DEF reqs
<1>8. /\ Typed(e1) /\ SameButSavings(db, e1)
      /\ \A t \in Core : Total(e1, t) = Total(db, t) + Of(t, x.sym, -x.amount)
  BY <1>2, <1>5, AdjustSavingsDoes
<1> HIDE DEF e1
<1>9. e1.wd = db.wd
  BY <1>8 DEF SameButSavings
<1>10. /\ Typed(e) /\ SameButWithdrawals(e1, e) /\ e.wd = db.wd \cup {w} /\ e.reqs = reqs
       /\ \A t \in Core : Total(e, t) = Total(e1, t) + Of(t, w.sym, w.amount)
  <2> DEFINE z == SetWithdrawals(e1, e1.wd \cup {w}, reqs)
  <2>1. w \notin e1.wd
    BY <1>5, <1>9
  <2>2. /\ Typed(z) /\ SameButWithdrawals(e1, z) /\ z.wd = e1.wd \cup {w} /\ z.reqs = reqs
        /\ \A t \in Core : Total(z, t) = Total(e1, t) + Of(t, w.sym, w.amount)
    BY <1>4, <1>6, <1>8, <2>1, WithWithdrawal
  <2>3. z = e
    BY <1>9
  <2> HIDE DEF z, e
  <2> QED BY <1>9, <2>2, <2>3
<1> HIDE DEF e
<1>11. /\ e.orders = db.orders /\ e.esc = db.esc /\ e.supply = db.supply /\ e.conv = db.conv
  BY <1>8, <1>10 DEF SameButSavings, SameButWithdrawals
<1>12. WithdrawalsKeyed(e.wd)
  BY <1>1, <1>4, <1>5, <1>10 DEF WithdrawalsKeyed, Sound, Keyed
<1>13. ASSUME NEW t \in Core PROVE Total(e, t) = Total(db, t)
  <2>1. Of(t, x.sym, -x.amount) = -Of(t, x.sym, x.amount) /\ Of(t, x.sym, x.amount) \in Int
    BY <1>2 DEF Of
  <2>2. Total(db, t) \in Int
    BY <1>5, PartsAreInts DEF Total
  <2> QED BY <1>4, <1>8, <1>10, <2>1, <2>2
<1>14. ASSUME NEW a \in Account PROVE e.reqs[a] = Cardinality(Mine(e.wd, a))
  <2>1. IsFiniteSet(db.wd) /\ db.reqs \in [Account -> Int]
    BY <1>5 DEF Typed, Ledgers
  <2>2. /\ Cardinality(Mine(db.wd, a)) \in Nat
        /\ Cardinality(Mine(db.wd \cup {w}, a)) =
             Cardinality(Mine(db.wd, a)) + (IF w.from = a THEN 1 ELSE 0)
    BY <1>5, <2>1, CountWith
  <2>3. db.reqs[a] = Cardinality(Mine(db.wd, a))
    BY <1>5 DEF Sound, Counted
  <2>4. reqs[a] = db.reqs[a] + (IF w.from = a THEN 1 ELSE 0)
    BY <1>2, <1>4, <2>1 DEF reqs
  <2> QED BY <1>10, <2>2, <2>3, <2>4
<1>15. Sound(e)
  BY <1>5, <1>10, <1>11, <1>12, <1>13, <1>14 DEF Sound, Keyed, Counted, Balanced
<1>16. OnTime(e, now)
  BY <1>4, <1>10, <1>11 DEF IInv, OnTime
<1> QED BY <1>1, <1>7, <1>15, <1>16, OperationKeeps

LEMMA CancelTransferFromSavingsKeeps ==
  ASSUME IInv, NEW w \in db.wd, CancelTransferFromSavings(w) PROVE IInv'
<1> DEFINE reqs == [db.reqs EXCEPT ![w.from] = @ - 1]
           e1 == AdjustSavings(db, w.from, w.sym, w.amount)
           e == SetWithdrawals(e1, db.wd \ {w}, reqs)
<1>1. /\ now' = now
      /\ db' = [db EXCEPT !.sav[w.from][w.sym] = @ + w.amount, !.wd = @ \ {w}, !.reqs[w.from] = @ - 1]
  BY DEF CancelTransferFromSavings, Operation
<1>2. Typed(db) /\ Sound(db)
  BY DEF IInv, Sound
<1>3. w \in Withdrawal /\ w.from \in Account /\ w.sym \in Core /\ w.amount \in Int
  BY <1>2 DEF Typed, Ledgers, Withdrawal
<1>4. reqs \in [Account -> Int]
  <2>1. db.reqs \in [Account -> Int]
    BY <1>2 DEF Typed, Ledgers
  <2>2. db.reqs[w.from] - 1 \in Int
    BY <1>3, <2>1
  <2> QED BY <2>1, <2>2
<1>5. db' = e
  <2>1. [db EXCEPT !.sav[w.from][w.sym] = @ + w.amount, !.wd = @ \ {w}, !.reqs[w.from] = @ - 1]
          = [[db EXCEPT !.sav[w.from][w.sym] = @ + w.amount] EXCEPT !.wd = db.wd \ {w}, !.reqs = reqs]
    BY <1>2 DEF Typed, Ledgers
  <2> QED BY <1>1, <2>1 DEF SetWithdrawals, AdjustSavings
<1> HIDE DEF reqs
<1>6. /\ Typed(e1) /\ SameButSavings(db, e1)
      /\ \A t \in Core : Total(e1, t) = Total(db, t) + Of(t, w.sym, w.amount)
  BY <1>2, <1>3, AdjustSavingsDoes
<1> HIDE DEF e1
<1>7. e1.wd = db.wd
  BY <1>6 DEF SameButSavings
<1>8. /\ Typed(e) /\ SameButWithdrawals(e1, e) /\ e.wd = db.wd \ {w} /\ e.reqs = reqs
      /\ \A t \in Core : Total(e, t) = Total(e1, t) - Of(t, w.sym, w.amount)
  <2> DEFINE z == DropWithdrawal(e1, w, reqs)
  <2>1. w \in e1.wd
    BY <1>7
  <2>2. /\ Typed(z) /\ SameButWithdrawals(e1, z) /\ z.wd = e1.wd \ {w} /\ z.reqs = reqs
        /\ \A t \in Core : Total(z, t) = Total(e1, t) - Of(t, w.sym, w.amount)
    BY ONLY <1>4, <1>6, <2>1, WithoutWithdrawal
  <2>3. z = e
    BY <1>7 DEF DropWithdrawal
  <2> HIDE DEF z, e
  <2> QED BY <1>7, <2>2, <2>3
<1> HIDE DEF e
<1>9. /\ e.orders = db.orders /\ e.esc = db.esc /\ e.supply = db.supply /\ e.conv = db.conv
  BY <1>6, <1>8 DEF SameButSavings, SameButWithdrawals
<1>10. WithdrawalsKeyed(e.wd)
  BY <1>2, <1>8 DEF WithdrawalsKeyed, Sound, Keyed
<1>11. ASSUME NEW t \in Core PROVE Total(e, t) = Total(db, t)
  <2>1. Of(t, w.sym, w.amount) \in Int /\ Total(db, t) \in Int
    BY <1>2, <1>3, OfIsInt, PartsAreInts DEF Total
  <2> QED BY <1>6, <1>8, <2>1
<1>12. ASSUME NEW a \in Account PROVE e.reqs[a] = Cardinality(Mine(e.wd, a))
  <2>1. IsFiniteSet(e.wd) /\ db.reqs \in [Account -> Int] /\ w \notin e.wd /\ e.wd \cup {w} = db.wd
    BY <1>2, <1>8 DEF Typed, Ledgers
  <2>2. /\ Cardinality(Mine(e.wd, a)) \in Nat
        /\ Cardinality(Mine(e.wd \cup {w}, a)) =
             Cardinality(Mine(e.wd, a)) + (IF w.from = a THEN 1 ELSE 0)
    BY <2>1, CountWith
  <2>3. db.reqs[a] = Cardinality(Mine(e.wd \cup {w}, a))
    BY <1>2, <2>1 DEF Sound, Counted
  <2>4. reqs[a] = db.reqs[a] - (IF w.from = a THEN 1 ELSE 0)
    BY <1>3, <2>1 DEF reqs
  <2> QED BY <1>8, <2>2, <2>3, <2>4
<1>13. Sound(e)
  BY <1>2, <1>8, <1>9, <1>10, <1>11, <1>12 DEF Sound, Keyed, Counted, Balanced
<1>14. OnTime(e, now)
  BY <1>8, <1>9 DEF IInv, OnTime
<1> QED BY <1>1, <1>5, <1>13, <1>14, OperationKeeps

LEMMA HoldsIsInt == ASSUME NEW e \in Escrow, NEW t PROVE EscrowHolds(e, t) \in Int
BY AmountsAreInts DEF EscrowHolds

\* One escrow in the place of another that has its key.
LEMMA EscrowInstead ==
  ASSUME NEW d, Typed(d), EscrowsKeyed(d.esc), NEW e \in d.esc, NEW r \in Escrow, r.from = e.from, r.id = e.id
  PROVE  /\ r \notin d.esc \ {e} /\ EscrowsKeyed((d.esc \ {e}) \cup {r}) /\ EscrowsKeyed(d.esc \ {e})
         /\ (d.esc \ {e}) \cup {r} \in SUBSET Escrow /\ IsFiniteSet((d.esc \ {e}) \cup {r})
         /\ d.esc \ {e} \in SUBSET Escrow /\ IsFiniteSet(d.esc \ {e})
<1>1. d.esc \in SUBSET Escrow /\ IsFiniteSet(d.esc)
  BY DEF Typed, Ledgers
<1>2. IsFiniteSet(d.esc \ {e})
  BY <1>1, FS_RemoveElement
<1>3. IsFiniteSet((d.esc \ {e}) \cup {r})
  BY <1>2, FS_AddElement
<1>4. r \notin d.esc \ {e} /\ EscrowsKeyed((d.esc \ {e}) \cup {r}) /\ EscrowsKeyed(d.esc \ {e})
  BY DEF EscrowsKeyed
<1> QED BY <1>1, <1>2, <1>3, <1>4

LEMMA EscrowsOnTime ==
  ASSUME NEW d, NEW t, OnTime(d, t), NEW e, SameButEscrows(d, e),
         \A x \in e.esc : ~Approved(x) => x.deadline > t
  PROVE  OnTime(e, t)
BY DEF OnTime, SameButEscrows

LEMMA EscrowTransferKeeps ==
  ASSUME IInv, NEW x \in EscrowOps, EscrowTransfer(x) PROVE IInv'
<1> DEFINE n == [from |-> x.from, to |-> x.to, agent |-> x.agent,
                 id |-> x.id, steem |-> x.steem, sbd |-> x.sbd, fee |-> x.fee, feesym |-> x.feesym,
                 deadline |-> x.deadline, expires |-> x.expires,
                 toOk |-> FALSE, agentOk |-> FALSE, disputed |-> FALSE]
           steem == x.steem + Of("STEEM", x.feesym, x.fee)
           sbd == x.sbd + Of("SBD", x.feesym, x.fee)
           e1 == Adjust(Adjust(db, x.from, "STEEM", -steem), x.from, "SBD", -sbd)
           e == SetEscrows(e1, db.esc \cup {n})
<1>1. /\ now' = now /\ db' = [e1 EXCEPT !.esc = @ \cup {n}] /\ x.deadline > now
      /\ ~ \E y \in db.esc : y.from = x.from /\ y.id = x.id
  BY DEF EscrowTransfer, Operation
<1>2. /\ x.from \in Account /\ x.to \in Account /\ x.agent \in Account /\ x.id \in Nat /\ x.steem \in Int
      /\ x.sbd \in Int /\ x.fee \in Int /\ x.feesym \in Core /\ x.deadline \in Int /\ x.expires \in Int
  BY InputAssumption
<1>3. steem \in Int /\ sbd \in Int /\ -steem \in Int /\ -sbd \in Int
  <2>1. Of("STEEM", x.feesym, x.fee) \in Int /\ Of("SBD", x.feesym, x.fee) \in Int
    BY <1>2, OfIsInt
  <2> QED BY <1>2, <2>1
<1>4. ASSUME NEW t \in Core
      PROVE  EscrowHolds(n, t) = IF t = "SBD" THEN sbd ELSE steem
  BY <1>2 DEF EscrowHolds, Of, Core
<1> HIDE DEF steem, sbd
<1>5. /\ n \in Escrow /\ n.from = x.from /\ n.id = x.id /\ n.deadline = x.deadline /\ ~Approved(n)
  BY <1>2 DEF Escrow, Approved
<1> HIDE DEF n
<1>6. Typed(db) /\ Sound(db) /\ n \notin db.esc /\ db.esc \in SUBSET Escrow /\ IsFiniteSet(db.esc)
  BY <1>1, <1>5 DEF IInv, Sound, Typed, Ledgers
<1>7. /\ Typed(e1) /\ SameButBalances(db, e1)
      /\ \A t \in Core : Total(e1, t) = Total(db, t) + (IF t = "SBD" THEN -sbd ELSE -steem)
  BY <1>2, <1>3, <1>6, AdjustBoth
<1> HIDE DEF e1
<1>8. e1.esc = db.esc /\ SameButEscrows(db, e1)
  BY <1>7 DEF SameButBalances, SameButEscrows
<1>9. db' = e
  BY <1>1, <1>8 DEF SetEscrows
<1>10. db.esc \cup {n} \in SUBSET Escrow /\ IsFiniteSet(db.esc \cup {n})
  BY <1>5, <1>6, FS_AddElement
<1>11. Typed(e) /\ SameButEscrows(e1, e) /\ e.esc = db.esc \cup {n}
  BY <1>7, <1>10, SetEscrowsDoes
<1>12. ASSUME NEW t \in Core PROVE Total(e, t) = Total(db, t)
  <2>1. Total(e, t) = Total(e1, t) + EscrowHolds(n, t)
    BY <1>5, <1>6, <1>7, <1>8, WithEscrow
  <2>2. Total(db, t) \in Int
    BY <1>6, PartsAreInts DEF Total
  <2> QED BY <1>3, <1>4, <1>7, <2>1, <2>2
<1> HIDE DEF e
<1>13. SameButEscrows(db, e)
  BY <1>8, <1>11 DEF SameButEscrows
<1>14. EscrowsKeyed(e.esc) /\ FeesPaid(e.esc)
  BY <1>1, <1>5, <1>6, <1>11 DEF EscrowsKeyed, FeesPaid, Sound, Keyed
<1>15. Sound(e)
  BY <1>6, <1>11, <1>12, <1>13, <1>14, EscrowsKeep
<1>16. OnTime(e, now)
  <2>1. \A y \in e.esc : ~Approved(y) => y.deadline > now
    BY <1>1, <1>5, <1>11 DEF IInv, OnTime
  <2> QED BY <1>13, <2>1, EscrowsOnTime DEF IInv
<1> QED BY <1>1, <1>9, <1>15, <1>16, OperationKeeps

\* An escrow that is changed without touching what it holds.
LEMMA EscrowChangedKeeps ==
  ASSUME NEW d, Sound(d), NEW e \in d.esc, NEW r \in Escrow, r.from = e.from, r.id = e.id,
         r.steem = e.steem, r.sbd = e.sbd, r.fee = e.fee, r.feesym = e.feesym, Approved(r) => r.fee = 0
  PROVE  LET x == SetEscrows(d, (d.esc \ {e}) \cup {r})
         IN  Sound(x) /\ SameButEscrows(d, x) /\ x.esc = (d.esc \ {e}) \cup {r}
<1> DEFINE esc == (d.esc \ {e}) \cup {r}
           x == SetEscrows(d, esc)
<1>1. Typed(d) /\ EscrowsKeyed(d.esc) /\ FeesPaid(d.esc)
  BY DEF Sound, Keyed
<1>2. /\ r \notin d.esc \ {e} /\ EscrowsKeyed(esc) /\ esc \in SUBSET Escrow /\ IsFiniteSet(esc)
  BY <1>1, EscrowInstead
<1>3. FeesPaid(esc)
  BY <1>1 DEF FeesPaid
<1>4. ASSUME NEW t \in Core PROVE Total(x, t) = Total(d, t)
  <2>1. Total(x, t) = Total(d, t) - EscrowHolds(e, t) + EscrowHolds(r, t)
    BY <1>1, <1>2, InsteadOfEscrow
  <2>2. EscrowHolds(r, t) = EscrowHolds(e, t)
    BY DEF EscrowHolds
  <2>3. EscrowHolds(e, t) \in Int /\ Total(d, t) \in Int
    <3>1. e \in Escrow
      BY <1>1 DEF Typed, Ledgers
    <3>2. EscrowHolds(e, t) \in Int
      BY <3>1, HoldsIsInt
    <3>3. Total(d, t) \in Int
      BY <1>1, PartsAreInts DEF Total
    <3> QED BY <3>2, <3>3
  <2> QED BY <2>1, <2>2, <2>3
<1> HIDE DEF esc
<1>5. Typed(x) /\ SameButEscrows(d, x) /\ x.esc = esc
  BY <1>1, <1>2, SetEscrowsDoes
<1> HIDE DEF x
<1>6. Sound(x)
  BY <1>2, <1>3, <1>4, <1>5, EscrowsKeep
<1> QED BY <1>5, <1>6 DEF x, esc

LEMMA EscrowDisputeKeeps ==
  ASSUME IInv, NEW e \in db.esc, EscrowDispute(e) PROVE IInv'
<1> DEFINE r == [e EXCEPT !.disputed = TRUE]
           x == SetEscrows(db, (db.esc \ {e}) \cup {r})
<1>1. now' = now /\ db' = x /\ Approved(e)
  BY DEF EscrowDispute, Operation, SetEscrows
<1>2. Sound(db) /\ e \in Escrow
  BY DEF IInv, Sound, Typed, Ledgers
<1>3. /\ r \in Escrow /\ r.from = e.from /\ r.id = e.id /\ r.steem = e.steem /\ r.sbd = e.sbd
      /\ r.fee = e.fee /\ r.feesym = e.feesym /\ Approved(r)
  BY <1>1, <1>2 DEF Escrow, Approved
<1>4. e.fee = 0
  BY <1>1, <1>2 DEF Sound, FeesPaid
<1> HIDE DEF r
<1>5. Sound(x) /\ SameButEscrows(db, x) /\ x.esc = (db.esc \ {e}) \cup {r}
  BY <1>2, <1>3, <1>4, EscrowChangedKeeps
<1> HIDE DEF x
<1>6. OnTime(x, now)
  <2>1. \A y \in x.esc : ~Approved(y) => y.deadline > now
    BY <1>3, <1>5 DEF IInv, OnTime
  <2> QED BY <1>5, <2>1, EscrowsOnTime DEF IInv
<1> QED BY <1>1, <1>5, <1>6, OperationKeeps

\* The approvals: the agent gets the fee with the last one.
LEMMA ApproveKeeps ==
  ASSUME Sound(db), NEW e \in db.esc, NEW who
  PROVE  /\ Sound(Approve(e, who)) /\ SameButEscrows(db, Approve(e, who))
         /\ \A y \in Approve(e, who).esc : y \in db.esc \/ (y.deadline = e.deadline /\ (Approved(e) => Approved(y)))
<1> DEFINE ok == [e EXCEPT !.toOk = @ \/ who = e.to, !.agentOk = @ \/ who = e.agent]
           paid == [ok EXCEPT !.fee = 0]
           e1 == Adjust(db, e.agent, e.feesym, e.fee)
           x == SetEscrows(e1, (db.esc \ {e}) \cup {paid})
           y == SetEscrows(db, (db.esc \ {e}) \cup {ok})
<1>1. /\ e \in Escrow /\ e.agent \in Account /\ e.feesym \in Symbol /\ e.fee \in Int
      /\ Typed(db) /\ EscrowsKeyed(db.esc) /\ FeesPaid(db.esc)
  BY DEF Sound, Keyed, Typed, Ledgers, Escrow, Symbol
<1>2. /\ ok \in Escrow /\ ok.from = e.from /\ ok.id = e.id /\ ok.steem = e.steem /\ ok.sbd = e.sbd
      /\ ok.fee = e.fee /\ ok.feesym = e.feesym /\ ok.deadline = e.deadline /\ (Approved(e) => Approved(ok))
  BY <1>1 DEF Escrow, Approved
<1>3. Approve(e, who) = IF Approved(ok) THEN [e1 EXCEPT !.esc = (@ \ {e}) \cup {paid}]
                        ELSE [db EXCEPT !.esc = (@ \ {e}) \cup {ok}]
  BY DEF Approve
<1> HIDE DEF ok
<1>4. CASE ~Approved(ok)
  <2>1. Approve(e, who) = y
    BY <1>3, <1>4 DEF SetEscrows
  <2>2. Sound(y) /\ SameButEscrows(db, y) /\ y.esc = (db.esc \ {e}) \cup {ok}
    BY <1>1, <1>2, <1>4, EscrowChangedKeeps
  <2> HIDE DEF y
  <2> QED BY <1>2, <2>1, <2>2
<1>5. CASE Approved(ok)
  <2>1. /\ paid \in Escrow /\ paid.from = e.from /\ paid.id = e.id /\ paid.steem = e.steem /\ paid.sbd = e.sbd
        /\ paid.fee = 0 /\ paid.feesym = e.feesym /\ paid.deadline = e.deadline /\ Approved(paid)
    BY <1>2, <1>5 DEF Escrow, Approved
  <2> HIDE DEF paid
  <2>2. /\ Typed(e1) /\ SameButBalances(db, e1)
        /\ \A t \in Core : Total(e1, t) = Total(db, t) + Of(t, e.feesym, e.fee)
    BY <1>1, AdjustDoes, AdjustTotal
  <2> HIDE DEF e1
  <2>3. e1.esc = db.esc /\ SameButEscrows(db, e1)
    BY <2>2 DEF SameButBalances, SameButEscrows
  <2>4. Approve(e, who) = x
    BY <1>3, <1>5, <2>3 DEF SetEscrows
  <2>5. /\ paid \notin db.esc \ {e} /\ EscrowsKeyed((db.esc \ {e}) \cup {paid})
        /\ (db.esc \ {e}) \cup {paid} \in SUBSET Escrow /\ IsFiniteSet((db.esc \ {e}) \cup {paid})
    BY <1>1, <2>1, EscrowInstead
  <2>6. Typed(x) /\ SameButEscrows(e1, x) /\ x.esc = (db.esc \ {e}) \cup {paid}
    BY <2>2, <2>5, SetEscrowsDoes
  <2>7. ASSUME NEW t \in Core PROVE Total(x, t) = Total(db, t)
    <3>1. Total(x, t) = Total(e1, t) - EscrowHolds(e, t) + EscrowHolds(paid, t)
      BY <2>1, <2>2, <2>3, <2>5, InsteadOfEscrow
    <3>2. EscrowHolds(e, t) = EscrowHolds(paid, t) + Of(t, e.feesym, e.fee)
      <4>1. e.sbd \in Int /\ e.steem \in Int
        BY <1>1 DEF Escrow
      <4>2. EscrowHolds(paid, t) = IF t = "SBD" THEN e.sbd ELSE e.steem
        BY <2>1, <4>1 DEF EscrowHolds, Of
      <4> QED BY <4>2 DEF EscrowHolds
    <3>3. EscrowHolds(paid, t) \in Int /\ Of(t, e.feesym, e.fee) \in Int /\ Total(db, t) \in Int
      <4>1. EscrowHolds(paid, t) \in Int
        BY <2>1, HoldsIsInt
      <4> QED BY <1>1, <4>1, OfIsInt, PartsAreInts DEF Total
    <3> QED BY <2>2, <3>1, <3>2, <3>3
  <2> HIDE DEF x
  <2>8. SameButEscrows(db, x)
    BY <2>3, <2>6 DEF SameButEscrows
  <2>9. EscrowsKeyed(x.esc) /\ FeesPaid(x.esc)
    BY <1>1, <2>1, <2>5, <2>6 DEF FeesPaid
  <2>10. Sound(x)
    BY <2>6, <2>7, <2>8, <2>9, EscrowsKeep
  <2> QED BY <2>1, <2>4, <2>6, <2>8, <2>10
<1> QED BY <1>4, <1>5

LEMMA EscrowApproveKeeps ==
  ASSUME IInv, NEW e \in db.esc, NEW who, NEW approve, EscrowApprove(e, who, approve) PROVE IInv'
<1>1. /\ now' = now /\ db' = IF approve THEN Approve(e, who) ELSE Refund(db, e)
      /\ Sound(db) /\ OnTime(db, now)
  BY DEF EscrowApprove, Operation, IInv
<1>2. CASE approve
  <2> DEFINE x == Approve(e, who)
  <2>1. /\ Sound(x) /\ SameButEscrows(db, x)
        /\ \A y \in x.esc : y \in db.esc \/ (y.deadline = e.deadline /\ (Approved(e) => Approved(y)))
    BY <1>1, ApproveKeeps
  <2>2. db' = x
    BY <1>1, <1>2
  <2> HIDE DEF x
  <2>3. OnTime(x, now)
    <3>1. \A y \in x.esc : ~Approved(y) => y.deadline > now
      BY <1>1, <2>1 DEF OnTime
    <3> QED BY <1>1, <2>1, <3>1, EscrowsOnTime
  <2> QED BY <1>1, <2>1, <2>2, <2>3, OperationKeeps
<1>3. CASE ~approve
  <2> DEFINE x == Refund(db, e)
  <2>1. /\ Typed(x) /\ SameButEscrows(db, x) /\ x.esc = db.esc \ {e}
        /\ \A t \in Core : Total(x, t) = Total(db, t)
    BY <1>1, RefundDoes DEF Sound
  <2>2. db' = x
    BY <1>1, <1>3
  <2> HIDE DEF x
  <2>3. EscrowsKeyed(x.esc) /\ FeesPaid(x.esc)
    BY <1>1, <2>1 DEF EscrowsKeyed, FeesPaid, Sound, Keyed
  <2>4. Sound(x)
    BY <1>1, <2>1, <2>3, EscrowsKeep
  <2>5. OnTime(x, now)
    <3>1. \A y \in x.esc : ~Approved(y) => y.deadline > now
      BY <1>1, <2>1 DEF OnTime
    <3> QED BY <1>1, <2>1, <3>1, EscrowsOnTime
  <2> QED BY <1>1, <2>2, <2>4, <2>5, OperationKeeps
<1> QED BY <1>2, <1>3

\* What an approved escrow holds is what its parties may still release.
LEMMA EscrowReleaseKeeps ==
  ASSUME IInv, NEW e \in db.esc, NEW who, NEW receiver \in {e.from, e.to},
         NEW steem \in 0..e.steem, NEW sbd \in 0..e.sbd, EscrowRelease(e, who, receiver, steem, sbd)
  PROVE  IInv'
<1> DEFINE rest == [e EXCEPT !.steem = @ - steem, !.sbd = @ - sbd]
           e1 == Adjust(Adjust(db, receiver, "STEEM", steem), receiver, "SBD", sbd)
           none == SetEscrows(e1, db.esc \ {e})
           some == SetEscrows(e1, (db.esc \ {e}) \cup {rest})
<1>1. /\ now' = now /\ Approved(e) /\ Sound(db) /\ OnTime(db, now)
      /\ db' = [e1 EXCEPT !.esc = (@ \ {e}) \cup (IF rest.steem = 0 /\ rest.sbd = 0 THEN {} ELSE {rest})]
  BY DEF EscrowRelease, Operation, IInv
<1>2. /\ e \in Escrow /\ receiver \in Account /\ e.steem \in Int /\ e.sbd \in Int /\ e.fee = 0
      /\ Typed(db) /\ EscrowsKeyed(db.esc) /\ FeesPaid(db.esc)
  BY <1>1 DEF Sound, Keyed, Typed, Ledgers, Escrow, FeesPaid
<1>3. steem \in Int /\ sbd \in Int
  BY <1>2
<1>4. /\ rest \in Escrow /\ rest.from = e.from /\ rest.id = e.id /\ rest.steem = e.steem - steem
      /\ rest.sbd = e.sbd - sbd /\ rest.fee = 0 /\ rest.feesym = e.feesym /\ Approved(rest)
  <2>1. e.steem - steem \in Int /\ e.sbd - sbd \in Int
    BY <1>2, <1>3
  <2>2. rest = [[e EXCEPT !.steem = e.steem - steem] EXCEPT !.sbd = e.sbd - sbd]
    BY <1>2 DEF Escrow
  <2>3. rest \in Escrow
    BY <1>2, <2>1, <2>2 DEF Escrow
  <2>4. /\ rest.from = e.from /\ rest.id = e.id /\ rest.fee = e.fee /\ rest.feesym = e.feesym
        /\ rest.toOk = e.toOk /\ rest.agentOk = e.agentOk
        /\ rest.steem = e.steem - steem /\ rest.sbd = e.sbd - sbd
    BY <1>2, <2>2 DEF Escrow
  <2> HIDE DEF rest
  <2> QED BY <1>1, <1>2, <2>3, <2>4 DEF Approved
<1> HIDE DEF rest
<1>5. /\ Typed(e1) /\ SameButBalances(db, e1)
      /\ \A t \in Core : Total(e1, t) = Total(db, t) + (IF t = "SBD" THEN sbd ELSE steem)
  BY <1>2, <1>3, AdjustBoth
<1> HIDE DEF e1
<1>6. e1.esc = db.esc /\ SameButEscrows(db, e1)
  BY <1>5 DEF SameButBalances, SameButEscrows
<1>7. /\ rest \notin db.esc \ {e} /\ EscrowsKeyed((db.esc \ {e}) \cup {rest}) /\ EscrowsKeyed(db.esc \ {e})
      /\ (db.esc \ {e}) \cup {rest} \in SUBSET Escrow /\ IsFiniteSet((db.esc \ {e}) \cup {rest})
      /\ db.esc \ {e} \in SUBSET Escrow /\ IsFiniteSet(db.esc \ {e})
  BY <1>2, <1>4, EscrowInstead
<1>8. ASSUME NEW t \in Core
      PROVE  /\ EscrowHolds(e, t) = IF t = "SBD" THEN e.sbd ELSE e.steem
             /\ EscrowHolds(rest, t) = EscrowHolds(e, t) - (IF t = "SBD" THEN sbd ELSE steem)
             /\ EscrowHolds(e, t) \in Int /\ Total(db, t) \in Int
  <2>1. EscrowHolds(e, t) = IF t = "SBD" THEN e.sbd ELSE e.steem
    BY <1>2 DEF EscrowHolds, Of
  <2>2. EscrowHolds(rest, t) = EscrowHolds(e, t) - (IF t = "SBD" THEN sbd ELSE steem)
    BY <1>2, <1>3, <1>4, <2>1 DEF EscrowHolds, Of
  <2>3. Total(db, t) \in Int
    BY <1>2, PartsAreInts DEF Total
  <2> QED BY <1>2, <2>1, <2>2, <2>3
<1>9. CASE rest.steem = 0 /\ rest.sbd = 0
  <2>1. db' = none
    BY <1>1, <1>6, <1>9 DEF SetEscrows
  <2>2. Typed(none) /\ SameButEscrows(e1, none) /\ none.esc = db.esc \ {e}
    BY <1>5, <1>7, SetEscrowsDoes
  <2>3. ASSUME NEW t \in Core PROVE Total(none, t) = Total(db, t)
    <3>1. Total(none, t) = Total(e1, t) - EscrowHolds(e, t)
      BY <1>5, <1>6, WithoutEscrow
    <3>2. EscrowHolds(e, t) = IF t = "SBD" THEN sbd ELSE steem
      BY <1>2, <1>3, <1>4, <1>8, <1>9
    <3> QED BY <1>5, <1>8, <3>1, <3>2
  <2> HIDE DEF none
  <2>4. SameButEscrows(db, none)
    BY <1>6, <2>2 DEF SameButEscrows
  <2>5. FeesPaid(none.esc)
    BY <1>2, <2>2 DEF FeesPaid
  <2>6. Sound(none)
    BY <1>1, <1>7, <2>2, <2>3, <2>4, <2>5, EscrowsKeep
  <2>7. OnTime(none, now)
    <3>1. \A y \in none.esc : ~Approved(y) => y.deadline > now
      BY <1>1, <2>2 DEF OnTime
    <3> QED BY <1>1, <2>4, <3>1, EscrowsOnTime
  <2> QED BY <1>1, <2>1, <2>6, <2>7, OperationKeeps
<1>10. CASE ~(rest.steem = 0 /\ rest.sbd = 0)
  <2>1. db' = some
    BY <1>1, <1>6, <1>10 DEF SetEscrows
  <2>2. Typed(some) /\ SameButEscrows(e1, some) /\ some.esc = (db.esc \ {e}) \cup {rest}
    BY <1>5, <1>7, SetEscrowsDoes
  <2>3. ASSUME NEW t \in Core PROVE Total(some, t) = Total(db, t)
    <3>1. Total(some, t) = Total(e1, t) - EscrowHolds(e, t) + EscrowHolds(rest, t)
      BY <1>4, <1>5, <1>6, <1>7, InsteadOfEscrow
    <3> QED BY <1>3, <1>5, <1>8, <3>1
  <2> HIDE DEF some
  <2>4. SameButEscrows(db, some)
    BY <1>6, <2>2 DEF SameButEscrows
  <2>5. FeesPaid(some.esc)
    BY <1>2, <1>4, <2>2 DEF FeesPaid
  <2>6. Sound(some)
    BY <1>1, <1>7, <2>2, <2>3, <2>4, <2>5, EscrowsKeep
  <2>7. OnTime(some, now)
    <3>1. \A y \in some.esc : ~Approved(y) => y.deadline > now
      BY <1>1, <1>4, <2>2 DEF OnTime
    <3> QED BY <1>1, <2>4, <3>1, EscrowsOnTime
  <2> QED BY <1>1, <2>1, <2>6, <2>7, OperationKeeps
<1> QED BY <1>9, <1>10

-----------------------------------------------------------------------------
(* The steps of a block                                                    *)

\* Every account gets its share of the amounts of S: bal is what it has then.
Pays(d, S, own, amt, share, bal) ==
    /\ \A x \in S : own[x] \in Account
    /\ \A s \in Symbol : \A x \in S : amt[s][x] \in Int
    /\ \A a \in Account : \A s \in Symbol : share[a][s] = SumFunctionOnSet(amt[s], ShareOf(S, own, a))
    /\ bal = [a \in Account |-> [s \in Symbol |-> d.bal[a][s] + share[a][s]]]

\* All accounts together get all of it.
LEMMA PaidOut ==
  ASSUME NEW d, Typed(d), NEW S, IsFiniteSet(S), NEW own, NEW amt, NEW share, NEW bal,
         Pays(d, S, own, amt, share, bal)
  PROVE  /\ bal \in [Account -> [Symbol -> Int]]
         /\ \A t \in Core : SumFunctionOnSet([a \in Account |-> bal[a][t] + d.sav[a][t]], Account)
                              = InAccounts(d, t) + SumFunctionOnSet(amt[t], S)
<1> USE DEF Pays
<1>0. IsFiniteSet(Account) /\ d.bal \in [Account -> [Symbol -> Int]] /\ d.sav \in [Account -> [Core -> Int]]
  BY AccountAssumption DEF Typed, Ledgers
<1>1. ASSUME NEW a \in Account, NEW s \in Symbol PROVE share[a][s] \in Int
  <2> DEFINE T == ShareOf(S, own, a)
  <2>1. IsFiniteSet(T) /\ \A x \in T : amt[s][x] \in Int
    BY FS_Subset DEF ShareOf
  <2>2. share[a][s] = SumFunctionOnSet(amt[s], T)
    OBVIOUS
  <2> HIDE DEF T
  <2> QED BY <2>1, <2>2, SumIsInt
<1>2. ASSUME NEW a \in Account PROVE [s \in Symbol |-> d.bal[a][s] + share[a][s]] \in [Symbol -> Int]
  <2>1. ASSUME NEW s \in Symbol PROVE d.bal[a][s] + share[a][s] \in Int
    <3>1. d.bal[a][s] \in Int /\ share[a][s] \in Int
      BY <1>0, <1>1
    <3> QED BY <3>1
  <2> QED BY <2>1
<1>3. bal \in [Account -> [Symbol -> Int]]
  BY <1>2
<1>4. ASSUME NEW t \in Core
      PROVE  SumFunctionOnSet([a \in Account |-> bal[a][t] + d.sav[a][t]], Account)
               = InAccounts(d, t) + SumFunctionOnSet(amt[t], S)
  <2> DEFINE f == AccountAmount(d, t)
             g == [a \in Account |-> share[a][t]]
             h == [a \in Account |-> bal[a][t] + d.sav[a][t]]
  <2>0. t \in Symbol
    BY DEF Symbol
  <2>1. ASSUME NEW a \in Account PROVE f[a] \in Int /\ g[a] \in Int /\ h[a] = f[a] + g[a]
    <3>1. d.bal[a][t] \in Int /\ d.sav[a][t] \in Int /\ share[a][t] \in Int
      BY <1>0, <1>1, <2>0
    <3>2. f[a] = d.bal[a][t] + d.sav[a][t]
      BY DEF AccountAmount
    <3>3. h[a] = (d.bal[a][t] + share[a][t]) + d.sav[a][t]
      BY <2>0
    <3> QED BY <3>1, <3>2, <3>3
  <2>2. ASSUME NEW a \in Account PROVE g[a] = SumFunctionOnSet(amt[t], ShareOf(S, own, a))
    BY <2>0
  <2>3. \A x \in S : amt[t][x] \in Int
    BY <2>0
  <2>4. InAccounts(d, t) = SumFunctionOnSet(f, Account)
    BY PartsAreSums
  <2> HIDE DEF f, g, h
  <2>5. SumFunctionOnSet(h, Account) = SumFunctionOnSet(f, Account) + SumFunctionOnSet(g, Account)
    BY ONLY <1>0, <2>1, SumOfSums
  <2>6. SumFunctionOnSet(g, Account) = SumFunctionOnSet(amt[t], S)
    <3> DEFINE m == amt[t]
    <3>1. \A x \in S : m[x] \in Int
      BY <2>3
    <3>2. \A a \in Account : g[a] = SumFunctionOnSet(m, ShareOf(S, own, a))
      BY <2>2
    <3> HIDE DEF m
    <3>3. Shared(m, S, own, Account, g)
      BY <3>2 DEF Shared
    <3>4. SumFunctionOnSet(g, Account) = SumFunctionOnSet(m, S)
      BY ONLY <1>0, <3>1, <3>3, IsFiniteSet(S), SumOfShares
    <3> QED BY <3>4 DEF m
  <2>7. SumFunctionOnSet(h, Account) = InAccounts(d, t) + SumFunctionOnSet(amt[t], S)
    BY <2>4, <2>5, <2>6
  <2> QED BY <2>7 DEF h
<1> QED BY <1>3, <1>4

\* Withdrawals of an account that are left when some go.
LEMMA CountWithout ==
  ASSUME NEW wd, IsFiniteSet(wd), NEW due \in SUBSET wd, NEW a
  PROVE  /\ Cardinality(Mine(wd, a)) = Cardinality(Mine(wd \ due, a)) + Cardinality(Mine(due, a))
         /\ Cardinality(Mine(wd \ due, a)) \in Nat /\ Cardinality(Mine(due, a)) \in Nat
<1> DEFINE A == Mine(wd \ due, a)
           D == Mine(due, a)
<1>1. A \subseteq wd /\ D \subseteq wd /\ A \cap D = {} /\ Mine(wd, a) = A \cup D
  BY DEF Mine
<1>2. IsFiniteSet(A) /\ IsFiniteSet(D)
  BY <1>1, FS_Subset
<1>3. Cardinality(A) \in Nat /\ Cardinality(D) \in Nat /\ Cardinality(A \cap D) = 0
  BY <1>1, <1>2, FS_CardinalityType, FS_EmptySet
<1>4. Cardinality(A \cup D) = Cardinality(A) + Cardinality(D) - Cardinality(A \cap D)
  BY <1>2, FS_Union
<1> HIDE DEF A, D
<1>5. Cardinality(Mine(wd, a)) = Cardinality(A) + Cardinality(D)
  BY <1>1, <1>3, <1>4
<1> QED BY <1>3, <1>5 DEF A, D
\* What is due is paid to its receivers and no longer counted.
LEMMA WithdrawsDo ==
  ASSUME NEW d, Sound(d), NEW t
  PROVE  LET e == ProcessSavingsWithdraws(d, t)
         IN  /\ Sound(e) /\ e.orders = d.orders /\ e.conv = d.conv /\ e.esc = d.esc
             /\ e.wd = d.wd \ {w \in d.wd : w.complete <= t}
<1> DEFINE due == {w \in d.wd : w.complete <= t}
           rest == d.wd \ due
           own == [w \in due |-> w.to]
           amt == [s \in Symbol |-> WithdrawalAmount(s)]
           part(a, s) == SumFunction([w \in {w \in due : w.to = a} |-> Of(s, w.sym, w.amount)])
           share == [a \in Account |-> [s \in Symbol |-> part(a, s)]]
           bal == [a \in Account |-> [s \in Symbol |-> d.bal[a][s] + share[a][s]]]
           reqs == [a \in Account |-> d.reqs[a] - Cardinality(Mine(due, a))]
           e == ProcessSavingsWithdraws(d, t)
<1>0. /\ Typed(d) /\ Keyed(d) /\ FeesPaid(d.esc) /\ Counted(d) /\ Balanced(d)
      /\ d \in Ledgers /\ d.wd \subseteq Withdrawal /\ IsFiniteSet(d.wd) /\ d.reqs \in [Account -> Int]
  BY DEF Sound, Typed, Ledgers
<1>1. due \in SUBSET d.wd /\ due \subseteq Withdrawal /\ IsFiniteSet(due) /\ IsFiniteSet(rest)
  BY <1>0, FS_Subset
<1>2. e = [d EXCEPT !.bal = bal, !.reqs = reqs, !.wd = rest]
  BY <1>0 DEF ProcessSavingsWithdraws, Mine, Ledgers
<1>3. ASSUME NEW a \in Account, NEW s \in Symbol
      PROVE  share[a][s] = SumFunctionOnSet(amt[s], ShareOf(due, own, a))
  <2> DEFINE T == {w \in due : w.to = a}
             f == [w \in T |-> Of(s, w.sym, w.amount)]
  <2>1. ShareOf(due, own, a) = T /\ IsFiniteSet(T) /\ T \subseteq Withdrawal
    BY <1>1, FS_Subset DEF ShareOf
  <2>2. share[a][s] = SumFunctionOnSet(f, T)
    BY DEF SumFunction
  <2>3. \A w \in T : f[w] = amt[s][w]
    BY <2>1, AmountsAreInts
  <2>4. SumFunctionOnSet(f, T) = SumFunctionOnSet(amt[s], T)
    <3> DEFINE g == amt[s]
    <3>1. \A w \in T : f[w] = g[w]
      BY <2>3
    <3> HIDE DEF f, g, T
    <3>2. SumFunctionOnSet(f, T) = SumFunctionOnSet(g, T)
      BY <2>1, <3>1, SumOfSame
    <3> QED BY <3>2 DEF g
  <2> HIDE DEF T, f, share, amt, own, due
  <2> QED BY <2>1, <2>2, <2>4
<1>4. \A s \in Symbol : \A w \in due : amt[s][w] \in Int
  BY <1>1, AmountsAreInts
<1>5. \A w \in due : own[w] \in Account
  BY <1>1 DEF Withdrawal
<1>6. /\ bal \in [Account -> [Symbol -> Int]]
      /\ \A s \in Core : SumFunctionOnSet([a \in Account |-> bal[a][s] + d.sav[a][s]], Account)
                           = InAccounts(d, s) + SumFunctionOnSet(amt[s], due)
  <2>1. Pays(d, due, own, amt, share, bal)
    <3>1. bal = [a \in Account |-> [s \in Symbol |-> d.bal[a][s] + share[a][s]]]
      OBVIOUS
    <3> HIDE DEF bal, share, amt, own, due
    <3> QED BY <1>3, <1>4, <1>5, <3>1 DEF Pays
  <2> HIDE DEF bal, share, amt, own, due
  <2> QED BY <1>0, <1>1, <2>1, PaidOut
<1> HIDE DEF bal, share, own
<1>7. reqs \in [Account -> Int] /\ \A a \in Account : reqs[a] = Cardinality(Mine(rest, a))
  <2>1. ASSUME NEW a \in Account
        PROVE  /\ d.reqs[a] - Cardinality(Mine(due, a)) = Cardinality(Mine(rest, a))
               /\ Cardinality(Mine(rest, a)) \in Int
    <3>1. d.reqs[a] = Cardinality(Mine(d.wd, a))
      BY <1>0 DEF Counted
    <3>2. /\ Cardinality(Mine(d.wd, a)) = Cardinality(Mine(rest, a)) + Cardinality(Mine(due, a))
          /\ Cardinality(Mine(rest, a)) \in Nat /\ Cardinality(Mine(due, a)) \in Nat
      BY <1>0, <1>1, CountWithout
    <3> HIDE DEF rest, due
    <3> QED BY <3>1, <3>2
  <2> HIDE DEF rest, due
  <2> QED BY <2>1
<1>8. /\ e.bal = bal /\ e.reqs = reqs /\ e.wd = rest /\ e.mkt = d.mkt /\ e.orders = d.orders
      /\ e.depth = d.depth /\ e.sav = d.sav /\ e.conv = d.conv /\ e.esc = d.esc /\ e.supply = d.supply
  <2> HIDE DEF e, reqs, rest, due
  <2> QED BY <1>0, <1>2 DEF Ledgers
<1>9. Typed(e)
  <2>1. e \in Ledgers
    <3>1. rest \in SUBSET Withdrawal
      BY <1>0
    <3> HIDE DEF e, reqs, rest, due
    <3> QED BY <1>0, <1>2, <1>6, <1>7, <3>1 DEF Ledgers
  <2> HIDE DEF e, rest
  <2> QED BY <1>0, <1>1, <1>8, <2>1 DEF Typed
<1>10. Keyed(e)
  BY <1>0, <1>8 DEF Keyed, WithdrawalsKeyed
<1> HIDE DEF e, reqs
<1>11. Counted(e)
  <2> HIDE DEF rest
  <2> QED BY <1>7, <1>8 DEF Counted
<1>12. ASSUME NEW s \in Core PROVE Total(e, s) = Total(d, s)
  <2> DEFINE f == WithdrawalAmount(s)
  <2>1. InAccounts(e, s) = InAccounts(d, s) + SumFunctionOnSet(f, due)
    <3>1. AccountAmount(e, s) = [a \in Account |-> bal[a][s] + d.sav[a][s]]
      BY <1>8 DEF AccountAmount
    <3>2. InAccounts(e, s) = SumFunctionOnSet(AccountAmount(e, s), Account)
      BY <1>9, PartsAreSums
    <3>3. amt[s] = f
      BY DEF Symbol
    <3> HIDE DEF amt, due, f
    <3>4. SumFunctionOnSet(AccountAmount(e, s), Account) = InAccounts(d, s) + SumFunctionOnSet(amt[s], due)
      BY <1>6, <3>1
    <3> QED BY <3>2, <3>3, <3>4
  <2>2. SumFunctionOnSet(f, d.wd) = SumFunctionOnSet(f, rest) + SumFunctionOnSet(f, due)
    <3>1. rest \cup due = d.wd /\ rest \cap due = {}
      BY <1>1
    <3>2. \A w \in rest \cup due : f[w] \in Int
      BY <1>0, <3>1, AmountsAreInts
    <3> HIDE DEF rest, due, f
    <3>3. SumFunctionOnSet(f, rest \cup due) = SumFunctionOnSet(f, rest) + SumFunctionOnSet(f, due)
      BY <1>1, <3>1, <3>2, SumOfBoth
    <3> QED BY <3>1, <3>3
  <2>3. InWithdrawals(d, s) = SumFunctionOnSet(f, d.wd) /\ InWithdrawals(e, s) = SumFunctionOnSet(f, rest)
    BY <1>0, <1>8, <1>9, PartsAreSums
  <2>4. /\ InOrders(e, s) = InOrders(d, s) /\ InConversions(e, s) = InConversions(d, s)
        /\ InEscrows(e, s) = InEscrows(d, s)
    BY <1>8, PartsOfSame
  <2>5. /\ InAccounts(d, s) \in Int /\ InOrders(d, s) \in Int /\ InConversions(d, s) \in Int
        /\ InWithdrawals(d, s) \in Int /\ InEscrows(d, s) \in Int
    BY <1>0, PartsAreInts
  <2>6. SumFunctionOnSet(f, due) \in Int /\ SumFunctionOnSet(f, rest) \in Int
    <3>1. \A w \in d.wd : f[w] \in Int
      BY <1>0, AmountsAreInts
    <3>2. (\A w \in due : f[w] \in Int) /\ \A w \in rest : f[w] \in Int
      BY <1>1, <3>1
    <3> HIDE DEF f, due, rest
    <3> QED BY <1>1, <3>2, SumIsInt
  <2> HIDE DEF f, due, rest
  <2> QED BY <2>1, <2>2, <2>3, <2>4, <2>5, <2>6 DEF Total
<1>13. Sound(e)
  BY <1>0, <1>8, <1>9, <1>10, <1>11, <1>12 DEF Sound, Balanced
<1> QED BY <1>8, <1>13 DEF e
\* A price is two positive amounts.
Price == [sbd : Positive, steem : Positive]

LEMMA WorthIsInt ==
  ASSUME NEW n \in Int, NEW s, NEW price \in Price
  PROVE  Worth(n, s, price) \in Int
<1>1. price.sbd \in Positive /\ price.steem \in Positive
  BY DEF Price
<1>2. /\ price.sbd \in Nat \ {0} /\ price.steem \in Nat \ {0}
      /\ n * price.steem \in Int /\ n * price.sbd \in Int
  BY <1>1 DEF Positive
<1> QED BY <1>2, QuotientIsInt DEF Worth

\* What is due is paid in the other symbol, and the supplies follow.
LEMMA ConversionsDo ==
  ASSUME NEW d, Sound(d), NEW f, f.current \in Price, NEW t
  PROVE  LET e == ProcessConversions(d, f, t)
         IN  /\ Sound(e) /\ e.orders = d.orders /\ e.wd = d.wd /\ e.esc = d.esc
             /\ e.conv = d.conv \ {c \in d.conv : c.date <= t}
<1> DEFINE due == {c \in d.conv : c.date <= t}
           rest == d.conv \ due
           issue(c) == Worth(c.amount - c.fee, c.sym, f.current)
           own == [c \in due |-> c.owner]
           gives(s) == [c \in due |-> Of(s, Other(c.sym), issue(c))]
           takes(s) == [c \in due |-> Of(s, c.sym, c.amount)]
           amt == [s \in Symbol |-> gives(s)]
           part(a, s) == SumFunction([c \in {c \in due : c.owner = a} |-> Of(s, Other(c.sym), issue(c))])
           share == [a \in Account |-> [s \in Symbol |-> part(a, s)]]
           bal == [a \in Account |-> [s \in Symbol |-> d.bal[a][s] + share[a][s]]]
           supply == [s \in Core |-> d.supply[s] + SumFunction(gives(s)) - SumFunction(takes(s))]
           e == ProcessConversions(d, f, t)
<1>0. /\ Typed(d) /\ Keyed(d) /\ FeesPaid(d.esc) /\ Counted(d) /\ Balanced(d)
      /\ d \in Ledgers /\ d.conv \subseteq Conversion /\ IsFiniteSet(d.conv) /\ d.supply \in [Core -> Int]
  BY DEF Sound, Typed, Ledgers
<1>1. due \in SUBSET d.conv /\ due \subseteq Conversion /\ IsFiniteSet(due) /\ IsFiniteSet(rest)
  BY <1>0, FS_Subset
<1>2. e = [d EXCEPT !.bal = bal, !.conv = rest, !.supply = supply]
  BY <1>0 DEF ProcessConversions, Ledgers
<1>3. ASSUME NEW c \in due PROVE issue(c) \in Int
  <2>1. c.amount \in Int /\ c.fee \in Int
    BY <1>1 DEF Conversion
  <2>2. c.amount - c.fee \in Int
    BY <2>1
  <2> QED BY <2>2, WorthIsInt
<1>4. ASSUME NEW s
      PROVE  /\ \A c \in due : gives(s)[c] = Of(s, Other(c.sym), issue(c)) /\ gives(s)[c] \in Int
             /\ \A c \in due : takes(s)[c] = ConversionAmount(s)[c] /\ takes(s)[c] \in Int
  <2>1. ASSUME NEW c \in due
        PROVE  gives(s)[c] = Of(s, Other(c.sym), issue(c)) /\ gives(s)[c] \in Int
    <3>1. issue(c) \in Int
      BY <1>3
    <3>2. gives(s)[c] = Of(s, Other(c.sym), issue(c))
      OBVIOUS
    <3> HIDE DEF issue
    <3>3. Of(s, Other(c.sym), issue(c)) \in Int
      BY <3>1, OfIsInt
    <3> QED BY <3>2, <3>3
  <2>2. ASSUME NEW c \in due
        PROVE  takes(s)[c] = ConversionAmount(s)[c] /\ takes(s)[c] \in Int
    BY <1>1, AmountsAreInts
  <2> QED BY <2>1, <2>2
<1>5. ASSUME NEW a \in Account, NEW s \in Symbol
      PROVE  share[a][s] = SumFunctionOnSet(amt[s], ShareOf(due, own, a))
  <2> DEFINE T == {c \in due : c.owner = a}
             g == [c \in T |-> Of(s, Other(c.sym), issue(c))]
             h == gives(s)
  <2>1. ShareOf(due, own, a) = T /\ IsFiniteSet(T) /\ T \subseteq due
    BY <1>1, FS_Subset DEF ShareOf
  <2>2. share[a][s] = SumFunctionOnSet(g, T)
    BY DEF SumFunction
  <2>3. \A c \in T : g[c] = h[c]
    BY <2>1
  <2>4. amt[s] = h
    OBVIOUS
  <2> HIDE DEF T, g, h, share, amt, own, due
  <2>5. SumFunctionOnSet(g, T) = SumFunctionOnSet(h, T)
    BY <2>1, <2>3, SumOfSame
  <2> QED BY <2>1, <2>2, <2>4, <2>5
<1>6. Pays(d, due, own, amt, share, bal)
  <2>1. \A c \in due : own[c] \in Account
    BY <1>1 DEF Conversion
  <2>2. ASSUME NEW s \in Symbol, NEW c \in due PROVE amt[s][c] \in Int
    <3>1. amt[s] = gives(s)
      OBVIOUS
    <3>2. gives(s)[c] \in Int
      BY <1>4
    <3> HIDE DEF amt, gives
    <3> QED BY <3>1, <3>2
  <2>3. bal = [a \in Account |-> [s \in Symbol |-> d.bal[a][s] + share[a][s]]]
    OBVIOUS
  <2> HIDE DEF bal, share, amt, own, due, issue, gives
  <2> QED BY <1>5, <2>1, <2>2, <2>3 DEF Pays
<1> HIDE DEF bal, share, own, issue
<1>7. /\ bal \in [Account -> [Symbol -> Int]]
      /\ \A s \in Core : SumFunctionOnSet([a \in Account |-> bal[a][s] + d.sav[a][s]], Account)
                           = InAccounts(d, s) + SumFunctionOnSet(amt[s], due)
  <2> HIDE DEF amt, due
  <2> QED BY <1>0, <1>1, <1>6, PaidOut
<1>8. ASSUME NEW s \in Core
      PROVE  /\ SumFunctionOnSet(gives(s), due) \in Int
             /\ SumFunctionOnSet(takes(s), due) = SumFunctionOnSet(ConversionAmount(s), due)
             /\ SumFunctionOnSet(takes(s), due) \in Int
             /\ d.supply[s] + SumFunction(gives(s)) - SumFunction(takes(s))
                  = d.supply[s] + SumFunctionOnSet(gives(s), due) - SumFunctionOnSet(takes(s), due)
             /\ d.supply[s] \in Int
  <2> DEFINE g == gives(s)
             h == takes(s)
             k == ConversionAmount(s)
  <2>1. /\ \A c \in due : g[c] \in Int
        /\ \A c \in due : h[c] = k[c]
        /\ \A c \in due : h[c] \in Int
    BY <1>4
  <2>2. SumFunction(g) = SumFunctionOnSet(g, due) /\ SumFunction(h) = SumFunctionOnSet(h, due)
    BY DEF SumFunction
  <2> HIDE DEF g, h, k, due
  <2>3. SumFunctionOnSet(g, due) \in Int /\ SumFunctionOnSet(h, due) \in Int
    BY <1>1, <2>1, SumIsInt
  <2>4. SumFunctionOnSet(h, due) = SumFunctionOnSet(k, due)
    BY <1>1, <2>1, SumOfSame
  <2> QED BY <1>0, <2>2, <2>3, <2>4 DEF g, h, k
<1>9. /\ supply \in [Core -> Int]
      /\ \A s \in Core : supply[s] = d.supply[s] + SumFunctionOnSet(gives(s), due)
                                       - SumFunctionOnSet(takes(s), due)
  <2> HIDE DEF gives, takes, due
  <2>1. ASSUME NEW s \in Core
        PROVE  d.supply[s] + SumFunction(gives(s)) - SumFunction(takes(s)) \in Int
    BY <1>8
  <2> QED BY <1>8, <2>1
<1> HIDE DEF supply
<1>10. /\ e.bal = bal /\ e.reqs = d.reqs /\ e.wd = d.wd /\ e.mkt = d.mkt /\ e.orders = d.orders
       /\ e.depth = d.depth /\ e.sav = d.sav /\ e.conv = rest /\ e.esc = d.esc /\ e.supply = supply
  <2> HIDE DEF e, rest, due
  <2> QED BY <1>0, <1>2 DEF Ledgers
<1>11. Typed(e)
  <2>1. e \in Ledgers
    <3>1. rest \in SUBSET Conversion
      BY <1>0
    <3> HIDE DEF e, rest, due
    <3> QED BY <1>0, <1>2, <1>7, <1>9, <3>1 DEF Ledgers
  <2> HIDE DEF e, rest
  <2> QED BY <1>0, <1>1, <1>10, <2>1 DEF Typed
<1>12. Keyed(e) /\ Counted(e)
  BY <1>0, <1>10 DEF Keyed, ConversionsKeyed, Counted
<1> HIDE DEF e
<1>13. ASSUME NEW s \in Core PROVE supply[s] = Total(e, s)
  <2> DEFINE k == ConversionAmount(s)
             g == gives(s)
             h == takes(s)
  <2>1. InAccounts(e, s) = InAccounts(d, s) + SumFunctionOnSet(g, due)
    <3>1. AccountAmount(e, s) = [a \in Account |-> bal[a][s] + d.sav[a][s]]
      BY <1>10 DEF AccountAmount
    <3>2. InAccounts(e, s) = SumFunctionOnSet(AccountAmount(e, s), Account)
      BY <1>11, PartsAreSums
    <3>3. amt[s] = g
      BY DEF Symbol
    <3> HIDE DEF amt, due, g
    <3>4. SumFunctionOnSet(AccountAmount(e, s), Account) = InAccounts(d, s) + SumFunctionOnSet(amt[s], due)
      BY <1>7, <3>1
    <3> QED BY <3>2, <3>3, <3>4
  <2>2. /\ SumFunctionOnSet(k, d.conv) = SumFunctionOnSet(k, rest) + SumFunctionOnSet(k, due)
        /\ SumFunctionOnSet(k, rest) \in Int
    <3>1. rest \cup due = d.conv /\ rest \cap due = {}
      BY <1>1
    <3>2. (\A c \in rest \cup due : k[c] \in Int) /\ \A c \in rest : k[c] \in Int
      BY <1>0, <3>1, AmountsAreInts
    <3> HIDE DEF rest, due, k
    <3>3. SumFunctionOnSet(k, rest \cup due) = SumFunctionOnSet(k, rest) + SumFunctionOnSet(k, due)
      BY <1>1, <3>1, <3>2, SumOfBoth
    <3>4. SumFunctionOnSet(k, rest) \in Int
      BY <1>1, <3>2, SumIsInt
    <3> QED BY <3>1, <3>3, <3>4
  <2>3. InConversions(d, s) = SumFunctionOnSet(k, d.conv) /\ InConversions(e, s) = SumFunctionOnSet(k, rest)
    BY <1>0, <1>10, <1>11, PartsAreSums
  <2>4. /\ InOrders(e, s) = InOrders(d, s) /\ InWithdrawals(e, s) = InWithdrawals(d, s)
        /\ InEscrows(e, s) = InEscrows(d, s)
    BY <1>10, PartsOfSame
  <2>5. /\ InAccounts(d, s) \in Int /\ InOrders(d, s) \in Int /\ InConversions(d, s) \in Int
        /\ InWithdrawals(d, s) \in Int /\ InEscrows(d, s) \in Int
    BY <1>0, PartsAreInts
  <2>6. /\ SumFunctionOnSet(g, due) \in Int /\ SumFunctionOnSet(h, due) \in Int
        /\ SumFunctionOnSet(h, due) = SumFunctionOnSet(k, due)
        /\ supply[s] = d.supply[s] + SumFunctionOnSet(g, due) - SumFunctionOnSet(h, due)
        /\ d.supply[s] = Total(d, s)
    BY <1>0, <1>8, <1>9 DEF Balanced
  <2> HIDE DEF k, g, h, due, rest
  <2> QED BY <2>1, <2>2, <2>3, <2>4, <2>5, <2>6 DEF Total
<1>14. Sound(e)
  BY <1>0, <1>10, <1>11, <1>12, <1>13 DEF Sound, Balanced
<1> QED BY <1>10, <1>14 DEF e
\* The feed gives a price: where it is corrected there are SBD and STEEM.
LEMMA FeedIsPrice ==
  ASSUME NEW d, Typed(d), d.supply["STEEM"] > 0, NEW p \in Feeds
  PROVE  MedianFeed(d, p).current \in Price
<1> DEFINE m == 10 * d.supply["SBD"]
           n == d.supply["STEEM"]
<1>1. p \in Price
  BY InputAssumption DEF Price
<1>2. /\ p.sbd \in Int /\ p.steem \in Int /\ p.sbd > 0 /\ p.steem > 0
      /\ d.supply["SBD"] \in Int /\ n \in Int /\ n > 0
  BY <1>1 DEF Price, Positive, Typed, Ledgers, Core
<1>3. m \in Int
  BY <1>2
<1> HIDE DEF m, n
<1>4. MedianFeed(d, p).current = IF m * p.steem > p.sbd * n THEN [sbd |-> m, steem |-> n] ELSE p
  BY DEF MedianFeed, m, n
<1>5. ASSUME m * p.steem > p.sbd * n PROVE [sbd |-> m, steem |-> n] \in Price
  <2>1. ASSUME NEW i \in Int, NEW j \in Int, NEW x \in Int, NEW y \in Int,
               x > 0, y > 0, j > 0, i * y > x * j
        PROVE  i > 0
    <3>1. x * j \in Int /\ x * j > 0
      BY <2>1
    <3>2. i * y > 0
      BY <2>1, <3>1
    <3>3. ASSUME i <= 0 PROVE i * y <= 0
      BY <2>1, <3>3
    <3> QED BY <2>1, <3>2, <3>3
  <2>2. m > 0
    BY <1>2, <1>3, <1>5, <2>1
  <2> QED BY <1>2, <1>3, <2>2 DEF Price, Positive
<1> QED BY <1>1, <1>4, <1>5

-----------------------------------------------------------------------------
(* The forced conversion of SBD                                            *)

\* What a part of SBD is, and what it becomes.
LEMMA PartIsInt ==
  ASSUME NEW n \in Int
  PROVE  Part(n) \in Int
BY PercentIsInt, RatesAreInts DEF Part

\* Nothing has no part.
LEMMA PartOfNothing == Part(0) = 0
<1>1. 0 * DebtRate = 0
  BY RatesAreInts
<1> QED BY <1>1 DEF Part, Percent

\* What it becomes is an integer.
LEMMA InSteemIsInt ==
  ASSUME NEW f, f.current \in Price, NEW n \in Int
  PROVE  InSteem(f, n) \in Int
BY PartIsInt, WorthIsInt DEF InSteem

\* An escrow keeps everything but its amounts.
LEMMA EscrowAfterIs ==
  ASSUME NEW f, f.current \in Price, NEW e \in Escrow
  PROVE  LET r == EscrowAfter(f, e)
         IN  /\ r \in Escrow
             /\ r.from = e.from /\ r.id = e.id /\ r.deadline = e.deadline /\ (Approved(r) <=> Approved(e))
             /\ e.fee = 0 => r.fee = 0
             /\ EscrowHolds(e, "SBD") = EscrowHolds(r, "SBD") + (Part(e.sbd) + Part(FeeInSbd(e)))
             /\ EscrowHolds(r, "STEEM") = EscrowHolds(e, "STEEM") + InSteem(f, e.sbd)
<1> DEFINE b == e.sbd - Part(e.sbd)
           s == e.steem + InSteem(f, e.sbd)
           n == e.fee - Part(FeeInSbd(e))
           r == EscrowAfter(f, e)
<1>1. /\ e.sbd \in Int /\ e.steem \in Int /\ e.fee \in Int /\ e.feesym \in Core
      /\ FeeInSbd(e) = IF e.feesym = "SBD" THEN e.fee ELSE 0
  BY DEF Escrow, FeeInSbd, Of
<1>2. Part(e.sbd) \in Int /\ InSteem(f, e.sbd) \in Int /\ Part(FeeInSbd(e)) \in Int
  BY <1>1, PartIsInt, InSteemIsInt
<1>3. b \in Int /\ s \in Int /\ n \in Int
  BY <1>1, <1>2
<1>4. e.feesym # "SBD" => Part(FeeInSbd(e)) = 0
  BY <1>1, PartOfNothing
<1>5. e.fee = 0 => n = 0
  BY <1>1, PartOfNothing
<1>6. r = [[[e EXCEPT !.sbd = b] EXCEPT !.steem = s] EXCEPT !.fee = n]
  BY DEF Escrow, EscrowAfter
<1>7. r \in Escrow
  <2> HIDE DEF b, s, n
  <2> QED BY <1>3, <1>6 DEF Escrow
<1>8. /\ r.from = e.from /\ r.id = e.id /\ r.deadline = e.deadline /\ r.toOk = e.toOk /\ r.agentOk = e.agentOk
      /\ r.feesym = e.feesym /\ r.sbd = b /\ r.steem = s /\ r.fee = n
  <2> HIDE DEF b, s, n
  <2> QED BY <1>6 DEF Escrow
<1>9. EscrowHolds(e, "SBD") = EscrowHolds(r, "SBD") + (Part(e.sbd) + Part(FeeInSbd(e)))
  <2>1. EscrowHolds(e, "SBD") = e.sbd + FeeInSbd(e)
    BY DEF EscrowHolds, FeeInSbd
  <2>2. EscrowHolds(r, "SBD") = b + (IF e.feesym = "SBD" THEN n ELSE 0)
    <3> HIDE DEF r, b, n
    <3> QED BY <1>8 DEF EscrowHolds, Of
  <2> QED BY <1>1, <1>2, <1>4, <2>1, <2>2
<1>10. EscrowHolds(r, "STEEM") = EscrowHolds(e, "STEEM") + InSteem(f, e.sbd)
  <2>1. EscrowHolds(e, "STEEM") = e.steem + (IF e.feesym = "SBD" THEN 0 ELSE e.fee)
    BY <1>1 DEF EscrowHolds, Of, Core
  <2>2. EscrowHolds(r, "STEEM") = s + (IF e.feesym = "SBD" THEN 0 ELSE n)
    <3> HIDE DEF r, s, n
    <3> QED BY <1>1, <1>8 DEF EscrowHolds, Of, Core
  <2> QED BY <1>1, <1>2, <1>4, <2>1, <2>2
<1> HIDE DEF r
<1> QED BY <1>5, <1>7, <1>8, <1>9, <1>10 DEF Approved, r

\* A withdrawal keeps everything but its amount.
LEMMA WithdrawalAfterIs ==
  ASSUME NEW w \in Withdrawal
  PROVE  LET r == WithdrawalAfter(w)
         IN  /\ r \in Withdrawal
             /\ r.from = w.from /\ r.id = w.id /\ r.complete = w.complete
             /\ Of("SBD", w.sym, w.amount) = Of("SBD", r.sym, r.amount) + Of("SBD", w.sym, Part(w.amount))
             /\ Of("STEEM", r.sym, r.amount) = Of("STEEM", w.sym, w.amount)
             /\ Of("SBD", w.sym, Part(w.amount)) \in Int
<1> DEFINE n == w.amount - Part(w.amount)
           r == WithdrawalAfter(w)
<1>1. w.amount \in Int /\ Part(w.amount) \in Int /\ n \in Int
  BY PartIsInt DEF Withdrawal
<1>2. r = IF w.sym = "SBD" THEN [w EXCEPT !.amount = n] ELSE w
  BY DEF WithdrawalAfter, Withdrawal
<1>3. r \in Withdrawal
  <2> HIDE DEF n, r
  <2> QED BY <1>1, <1>2 DEF Withdrawal
<1>4. /\ r.from = w.from /\ r.id = w.id /\ r.complete = w.complete /\ r.sym = w.sym
      /\ r.amount = IF w.sym = "SBD" THEN n ELSE w.amount
  <2> HIDE DEF n, r
  <2> QED BY <1>2 DEF Withdrawal
<1> HIDE DEF r
<1>5. /\ Of("SBD", w.sym, w.amount) = Of("SBD", r.sym, r.amount) + Of("SBD", w.sym, Part(w.amount))
      /\ Of("STEEM", r.sym, r.amount) = Of("STEEM", w.sym, w.amount)
      /\ Of("SBD", w.sym, Part(w.amount)) \in Int
  BY <1>1, <1>4 DEF Of
<1> QED BY <1>3, <1>4, <1>5 DEF r
EscrowsAfter(f, esc) == {EscrowAfter(f, e) : e \in esc}
WithdrawalsAfter(wd) == {WithdrawalAfter(w) : w \in wd}

\* What escrows lose of SBD and get of STEEM.
EscrowsGive(esc) == [e \in esc |-> Part(e.sbd) + Part(FeeInSbd(e))]
EscrowsGet(f, esc) == [e \in esc |-> InSteem(f, e.sbd)]
WithdrawalsGive(wd) == [w \in wd |-> Of("SBD", w.sym, Part(w.amount))]

\* The escrows together.
LEMMA EscrowsAfterAre ==
  ASSUME NEW f, f.current \in Price, NEW esc \in SUBSET Escrow, IsFiniteSet(esc),
         EscrowsKeyed(esc), FeesPaid(esc)
  PROVE  LET after == EscrowsAfter(f, esc)
             Sum(g, D) == SumFunctionOnSet(g, D)
         IN  /\ after \in SUBSET Escrow /\ IsFiniteSet(after) /\ EscrowsKeyed(after) /\ FeesPaid(after)
             /\ \A r \in after : \E e \in esc : r.deadline = e.deadline /\ (Approved(r) <=> Approved(e))
             /\ Sum(EscrowAmount("SBD"), esc) = Sum(EscrowAmount("SBD"), after) + Sum(EscrowsGive(esc), esc)
             /\ Sum(EscrowAmount("STEEM"), after) = Sum(EscrowAmount("STEEM"), esc) + Sum(EscrowsGet(f, esc), esc)
             /\ Sum(EscrowsGive(esc), esc) \in Int /\ Sum(EscrowsGet(f, esc), esc) \in Int
<1> DEFINE after == EscrowsAfter(f, esc)
           m == [e \in esc |-> EscrowAfter(f, e)]
           Sum(g, D) == SumFunctionOnSet(g, D)
<1>1. ASSUME NEW e \in esc
      PROVE  /\ m[e] \in Escrow /\ m[e].from = e.from /\ m[e].id = e.id /\ m[e].deadline = e.deadline
             /\ Approved(m[e]) <=> Approved(e)
             /\ e.fee = 0 => m[e].fee = 0
             /\ EscrowAmount("SBD")[e] =
                  EscrowAmount("SBD")[m[e]] + EscrowsGive(esc)[e]
             /\ EscrowAmount("STEEM")[m[e]] = EscrowAmount("STEEM")[e] + EscrowsGet(f, esc)[e]
             /\ EscrowsGive(esc)[e] \in Int /\ EscrowsGet(f, esc)[e] \in Int
             /\ \A t : EscrowAmount(t)[e] \in Int /\ EscrowAmount(t)[m[e]] \in Int
  <2> DEFINE r == EscrowAfter(f, e)
  <2>1. m[e] = r /\ e \in Escrow
    OBVIOUS
  <2>2. /\ r \in Escrow
        /\ r.from = e.from /\ r.id = e.id /\ r.deadline = e.deadline /\ (Approved(r) <=> Approved(e))
        /\ e.fee = 0 => r.fee = 0
        /\ EscrowHolds(e, "SBD") = EscrowHolds(r, "SBD") + (Part(e.sbd) + Part(FeeInSbd(e)))
        /\ EscrowHolds(r, "STEEM") = EscrowHolds(e, "STEEM") + InSteem(f, e.sbd)
    BY <2>1, EscrowAfterIs
  <2>3. EscrowsGive(esc)[e] = Part(e.sbd) + Part(FeeInSbd(e)) /\ EscrowsGet(f, esc)[e] = InSteem(f, e.sbd)
    BY DEF EscrowsGive, EscrowsGet
  <2>4. Part(e.sbd) + Part(FeeInSbd(e)) \in Int /\ InSteem(f, e.sbd) \in Int
    <3>1. e.sbd \in Int /\ e.fee \in Int
      BY DEF Escrow
    <3>2. FeeInSbd(e) \in Int
      BY <3>1, OfIsInt DEF FeeInSbd
    <3>3. Part(e.sbd) \in Int /\ Part(FeeInSbd(e)) \in Int /\ InSteem(f, e.sbd) \in Int
      BY <3>1, <3>2, PartIsInt, InSteemIsInt
    <3> QED BY <3>3
  <2> HIDE DEF r, m
  <2>5. ASSUME NEW t, NEW x \in Escrow PROVE EscrowAmount(t)[x] = EscrowHolds(x, t) /\ EscrowAmount(t)[x] \in Int
    BY AmountsAreInts DEF EscrowHolds
  <2> QED BY <2>1, <2>2, <2>3, <2>4, <2>5
<1>2. after = ImageOf(m, esc)
  BY DEF EscrowsAfter, ImageOf
<1> HIDE DEF m
<1>3. \A r \in after : \E e \in esc : r = m[e]
  BY <1>2 DEF ImageOf
<1>4. \A x, y \in esc : m[x] = m[y] => x = y
  BY <1>1 DEF EscrowsKeyed
<1>5. IsFiniteSet(after)
  BY <1>2, ImageIsFinite
<1> HIDE DEF after
<1>6. after \in SUBSET Escrow /\ EscrowsKeyed(after) /\ FeesPaid(after)
  BY <1>1, <1>3 DEF EscrowsKeyed, FeesPaid
<1>7. \A r \in after : \E e \in esc : r.deadline = e.deadline /\ (Approved(r) <=> Approved(e))
  BY <1>1, <1>3
<1>8. ASSUME NEW t, NEW n, n = [e \in esc |-> EscrowAmount(t)[m[e]]]
      PROVE  Sum(EscrowAmount(t), after) = Sum(n, esc)
  <2> DEFINE g == EscrowAmount(t)
  <2>1. \A e \in esc : n[e] \in Int /\ g[m[e]] = n[e]
    BY <1>1, <1>8
  <2> HIDE DEF g
  <2>2. SumFunctionOnSet(g, ImageOf(m, esc)) = SumFunctionOnSet(n, esc)
    BY ONLY <1>4, <2>1, IsFiniteSet(esc), SumOfImage
  <2> QED BY <1>2, <2>2 DEF g
<1>9. Sum(EscrowAmount("SBD"), esc) = Sum(EscrowAmount("SBD"), after) + Sum(EscrowsGive(esc), esc)
  <2> DEFINE h == EscrowAmount("SBD")
             n == [e \in esc |-> EscrowAmount("SBD")[m[e]]]
             g == EscrowsGive(esc)
  <2>1. \A e \in esc : n[e] \in Int /\ g[e] \in Int /\ h[e] = n[e] + g[e]
    BY <1>1
  <2>2. Sum(EscrowAmount("SBD"), after) = Sum(n, esc)
    BY <1>8
  <2> HIDE DEF h, n, g
  <2>3. Sum(h, esc) = Sum(n, esc) + Sum(g, esc)
    BY ONLY <2>1, IsFiniteSet(esc), SumOfSums
  <2> QED BY <2>2, <2>3 DEF h, g
<1>10. Sum(EscrowAmount("STEEM"), after) = Sum(EscrowAmount("STEEM"), esc) + Sum(EscrowsGet(f, esc), esc)
  <2> DEFINE h == EscrowAmount("STEEM")
             n == [e \in esc |-> EscrowAmount("STEEM")[m[e]]]
             g == EscrowsGet(f, esc)
  <2>1. \A e \in esc : h[e] \in Int /\ g[e] \in Int /\ n[e] = h[e] + g[e]
    BY <1>1
  <2>2. Sum(EscrowAmount("STEEM"), after) = Sum(n, esc)
    BY <1>8
  <2> HIDE DEF h, n, g
  <2>3. Sum(n, esc) = Sum(h, esc) + Sum(g, esc)
    BY ONLY <2>1, IsFiniteSet(esc), SumOfSums
  <2> QED BY <2>2, <2>3 DEF h, g
<1>11. Sum(EscrowsGive(esc), esc) \in Int /\ Sum(EscrowsGet(f, esc), esc) \in Int
  BY <1>1, SumIsInt
<1> QED BY <1>5, <1>6, <1>7, <1>9, <1>10, <1>11 DEF after

\* The withdrawals together.
LEMMA WithdrawalsAfterAre ==
  ASSUME NEW wd \in SUBSET Withdrawal, IsFiniteSet(wd), WithdrawalsKeyed(wd)
  PROVE  LET after == WithdrawalsAfter(wd)
             Sum(g, D) == SumFunctionOnSet(g, D)
         IN  /\ after \in SUBSET Withdrawal /\ IsFiniteSet(after) /\ WithdrawalsKeyed(after)
             /\ \A r \in after : \E w \in wd : r.complete = w.complete
             /\ \A a : Cardinality(Mine(after, a)) = Cardinality(Mine(wd, a))
             /\ Sum(WithdrawalAmount("SBD"), wd) = Sum(WithdrawalAmount("SBD"), after) + Sum(WithdrawalsGive(wd), wd)
             /\ Sum(WithdrawalAmount("STEEM"), after) = Sum(WithdrawalAmount("STEEM"), wd)
             /\ Sum(WithdrawalsGive(wd), wd) \in Int
<1> DEFINE after == WithdrawalsAfter(wd)
           m == [w \in wd |-> WithdrawalAfter(w)]
           Sum(g, D) == SumFunctionOnSet(g, D)
<1>1. ASSUME NEW w \in wd
      PROVE  /\ m[w] \in Withdrawal /\ m[w].from = w.from /\ m[w].id = w.id /\ m[w].complete = w.complete
             /\ WithdrawalAmount("SBD")[w] = WithdrawalAmount("SBD")[m[w]] + WithdrawalsGive(wd)[w]
             /\ WithdrawalAmount("STEEM")[m[w]] = WithdrawalAmount("STEEM")[w]
             /\ WithdrawalsGive(wd)[w] \in Int
             /\ \A t : WithdrawalAmount(t)[w] \in Int /\ WithdrawalAmount(t)[m[w]] \in Int
  <2> DEFINE r == WithdrawalAfter(w)
  <2>1. m[w] = r /\ w \in Withdrawal
    OBVIOUS
  <2>2. /\ r \in Withdrawal
        /\ r.from = w.from /\ r.id = w.id /\ r.complete = w.complete
        /\ Of("SBD", w.sym, w.amount) = Of("SBD", r.sym, r.amount) + Of("SBD", w.sym, Part(w.amount))
        /\ Of("STEEM", r.sym, r.amount) = Of("STEEM", w.sym, w.amount)
        /\ Of("SBD", w.sym, Part(w.amount)) \in Int
    BY <2>1, WithdrawalAfterIs
  <2>3. WithdrawalsGive(wd)[w] = Of("SBD", w.sym, Part(w.amount))
    BY DEF WithdrawalsGive
  <2> HIDE DEF r, m
  <2>4. ASSUME NEW t, NEW x \in Withdrawal
        PROVE  WithdrawalAmount(t)[x] = Of(t, x.sym, x.amount) /\ WithdrawalAmount(t)[x] \in Int
    BY AmountsAreInts
  <2> QED BY <2>1, <2>2, <2>3, <2>4
<1>2. after = ImageOf(m, wd)
  BY DEF WithdrawalsAfter, ImageOf
<1> HIDE DEF m
<1>3. \A r \in after : \E w \in wd : r = m[w]
  BY <1>2 DEF ImageOf
<1>4. \A x, y \in wd : m[x] = m[y] => x = y
  BY <1>1 DEF WithdrawalsKeyed
<1>5. IsFiniteSet(after)
  BY <1>2, ImageIsFinite
<1>6. ASSUME NEW a PROVE Cardinality(Mine(after, a)) = Cardinality(Mine(wd, a))
  <2>1. Mine(after, a) = ImageOf(m, Mine(wd, a))
    BY <1>1, <1>2 DEF Mine, ImageOf
  <2>2. Mine(wd, a) \subseteq wd
    BY DEF Mine
  <2>3. IsFiniteSet(Mine(wd, a)) /\ \A x, y \in Mine(wd, a) : m[x] = m[y] => x = y
    BY <1>4, <2>2, FS_Subset
  <2> QED BY <2>1, <2>3, ImageIsFinite
<1> HIDE DEF after
<1>7. after \in SUBSET Withdrawal /\ WithdrawalsKeyed(after)
  BY <1>1, <1>3 DEF WithdrawalsKeyed
<1>8. \A r \in after : \E w \in wd : r.complete = w.complete
  BY <1>1, <1>3
<1>9. ASSUME NEW t, NEW n, n = [w \in wd |-> WithdrawalAmount(t)[m[w]]]
      PROVE  Sum(WithdrawalAmount(t), after) = Sum(n, wd)
  <2> DEFINE g == WithdrawalAmount(t)
  <2>1. \A w \in wd : n[w] \in Int /\ g[m[w]] = n[w]
    BY <1>1, <1>9
  <2> HIDE DEF g
  <2>2. SumFunctionOnSet(g, ImageOf(m, wd)) = SumFunctionOnSet(n, wd)
    BY ONLY <1>4, <2>1, IsFiniteSet(wd), SumOfImage
  <2> QED BY <1>2, <2>2 DEF g
<1>10. Sum(WithdrawalAmount("SBD"), wd) = Sum(WithdrawalAmount("SBD"), after) + Sum(WithdrawalsGive(wd), wd)
  <2> DEFINE h == WithdrawalAmount("SBD")
             n == [w \in wd |-> WithdrawalAmount("SBD")[m[w]]]
             g == WithdrawalsGive(wd)
  <2>1. \A w \in wd : n[w] \in Int /\ g[w] \in Int /\ h[w] = n[w] + g[w]
    BY <1>1
  <2>2. Sum(WithdrawalAmount("SBD"), after) = Sum(n, wd)
    BY <1>9
  <2> HIDE DEF h, n, g
  <2>3. Sum(h, wd) = Sum(n, wd) + Sum(g, wd)
    BY ONLY <2>1, IsFiniteSet(wd), SumOfSums
  <2> QED BY <2>2, <2>3 DEF h, g
<1>11. Sum(WithdrawalAmount("STEEM"), after) = Sum(WithdrawalAmount("STEEM"), wd)
  <2> DEFINE h == WithdrawalAmount("STEEM")
             n == [w \in wd |-> WithdrawalAmount("STEEM")[m[w]]]
  <2>1. \A w \in wd : n[w] = h[w]
    BY <1>1
  <2>2. Sum(WithdrawalAmount("STEEM"), after) = Sum(n, wd)
    BY <1>9
  <2> HIDE DEF h, n
  <2>3. Sum(n, wd) = Sum(h, wd)
    BY ONLY <2>1, IsFiniteSet(wd), SumOfSame
  <2> QED BY <2>2, <2>3 DEF h
<1>12. Sum(WithdrawalsGive(wd), wd) \in Int
  BY <1>1, SumIsInt
<1> QED BY <1>5, <1>6, <1>7, <1>8, <1>10, <1>11, <1>12 DEF after

\* Balances and savings after the conversion, what accounts lose and get.
BalanceAfter(c, f) ==
    [a \in Account |-> [c.bal[a] EXCEPT
        !["SBD"] = @ - Part(@),
        !["STEEM"] = @ + InSteem(f, c.bal[a]["SBD"]) + ToAgent(c, f, a) + ToReceiver(c, f, a)]]
SavingsAfter(c, f) ==
    [a \in Account |-> [s \in Core |->
        IF s = "SBD" THEN c.sav[a][s] - Part(c.sav[a][s]) ELSE c.sav[a][s] + InSteem(f, c.sav[a]["SBD"])]]
AccountsGive(c) == [a \in Account |-> Part(c.bal[a]["SBD"]) + Part(c.sav[a]["SBD"])]
AccountsGet(c, f) ==
    [a \in Account |-> InSteem(f, c.bal[a]["SBD"]) + InSteem(f, c.sav[a]["SBD"])
                         + ToAgent(c, f, a) + ToReceiver(c, f, a)]

\* The shares are integers.
LEMMA SharesAreInts ==
  ASSUME NEW c, Typed(c), NEW f, f.current \in Price, NEW a
  PROVE  ToAgent(c, f, a) \in Int /\ ToReceiver(c, f, a) \in Int
<1> DEFINE E == {e \in c.esc : e.agent = a}
           W == {w \in c.wd : w.to = a}
           g == [e \in E |-> InSteem(f, FeeInSbd(e))]
           h == [w \in W |-> Of("SBD", w.sym, InSteem(f, w.amount))]
<1>1. c.esc \subseteq Escrow /\ c.wd \subseteq Withdrawal /\ IsFiniteSet(E) /\ IsFiniteSet(W)
  BY FS_Subset DEF Typed, Ledgers
<1>2. ASSUME NEW e \in E PROVE g[e] \in Int
  <2>1. e.fee \in Int
    BY <1>1 DEF Escrow
  <2>2. FeeInSbd(e) \in Int
    BY <2>1, OfIsInt DEF FeeInSbd
  <2>3. InSteem(f, FeeInSbd(e)) \in Int
    BY <2>2, InSteemIsInt
  <2> QED BY <2>3
<1>3. ASSUME NEW w \in W PROVE h[w] \in Int
  <2>1. w.amount \in Int
    BY <1>1 DEF Withdrawal
  <2>2. InSteem(f, w.amount) \in Int
    BY <2>1, InSteemIsInt
  <2> QED BY <2>2, OfIsInt
<1>4. ToAgent(c, f, a) = SumFunctionOnSet(g, E) /\ ToReceiver(c, f, a) = SumFunctionOnSet(h, W)
  BY DEF ToAgent, ToReceiver, SumFunction
<1> HIDE DEF E, W, g, h
<1> QED BY <1>1, <1>2, <1>3, <1>4, SumIsInt

\* The accounts together.
LEMMA AccountsAfterAre ==
  ASSUME NEW c, Typed(c), NEW f, f.current \in Price,
         NEW e, e.bal = BalanceAfter(c, f), e.sav = SavingsAfter(c, f)
  PROVE  LET Sum(g) == SumFunctionOnSet(g, Account)
         IN  /\ e.bal \in [Account -> [Symbol -> Int]] /\ e.sav \in [Account -> [Core -> Int]]
             /\ Sum(AccountAmount(c, "SBD")) = Sum(AccountAmount(e, "SBD")) + Sum(AccountsGive(c))
             /\ Sum(AccountAmount(e, "STEEM")) = Sum(AccountAmount(c, "STEEM")) + Sum(AccountsGet(c, f))
             /\ Sum(AccountsGive(c)) \in Int /\ Sum(AccountsGet(c, f)) \in Int
<1> DEFINE Sum(g) == SumFunctionOnSet(g, Account)
<1>0. /\ c.bal \in [Account -> [Symbol -> Int]] /\ c.sav \in [Account -> [Core -> Int]]
      /\ "SBD" \in Symbol /\ "STEEM" \in Symbol /\ Core = {"STEEM", "SBD"}
      /\ IsFiniteSet(Account)
  <2>1. c.bal \in [Account -> [Symbol -> Int]] /\ c.sav \in [Account -> [Core -> Int]]
    BY DEF Typed, Ledgers
  <2>2. "SBD" \in Symbol /\ "STEEM" \in Symbol /\ Core = {"STEEM", "SBD"}
    BY DEF Symbol, Core
  <2> QED BY <2>1, <2>2, AccountAssumption
<1>1. ASSUME NEW a \in Account
      PROVE  /\ e.bal[a] \in [Symbol -> Int] /\ e.sav[a] \in [Core -> Int]
             /\ AccountAmount(c, "SBD")[a] = AccountAmount(e, "SBD")[a] + AccountsGive(c)[a]
             /\ AccountAmount(e, "STEEM")[a] = AccountAmount(c, "STEEM")[a] + AccountsGet(c, f)[a]
             /\ AccountAmount(c, "STEEM")[a] \in Int /\ AccountAmount(e, "SBD")[a] \in Int
             /\ AccountsGive(c)[a] \in Int /\ AccountsGet(c, f)[a] \in Int
  <2> DEFINE b == c.bal[a]["SBD"]
             v == c.sav[a]["SBD"]
             more == InSteem(f, b) + ToAgent(c, f, a) + ToReceiver(c, f, a)
  <2>1. b \in Int /\ v \in Int /\ c.bal[a]["STEEM"] \in Int /\ c.sav[a]["STEEM"] \in Int
    BY <1>0
  <2>2. /\ Part(b) \in Int /\ Part(v) \in Int /\ InSteem(f, b) \in Int /\ InSteem(f, v) \in Int
        /\ ToAgent(c, f, a) \in Int /\ ToReceiver(c, f, a) \in Int
    BY <2>1, PartIsInt, InSteemIsInt, SharesAreInts
  <2>3. e.bal[a] = [[c.bal[a] EXCEPT !["SBD"] = b - Part(b)] EXCEPT !["STEEM"] =
                       c.bal[a]["STEEM"] + InSteem(f, b) + ToAgent(c, f, a) + ToReceiver(c, f, a)]
    BY <1>0 DEF BalanceAfter
  <2>4. e.sav[a] = [s \in Core |-> IF s = "SBD" THEN c.sav[a][s] - Part(c.sav[a][s])
                                   ELSE c.sav[a][s] + InSteem(f, c.sav[a]["SBD"])]
    BY DEF SavingsAfter
  <2>5. /\ e.bal[a]["SBD"] = b - Part(b)
        /\ e.bal[a]["STEEM"] = c.bal[a]["STEEM"] + InSteem(f, b) + ToAgent(c, f, a) + ToReceiver(c, f, a)
        /\ e.sav[a]["SBD"] = v - Part(v)
        /\ e.sav[a]["STEEM"] = c.sav[a]["STEEM"] + InSteem(f, v)
    BY <1>0, <2>3, <2>4
  <2>6. e.bal[a] \in [Symbol -> Int] /\ e.sav[a] \in [Core -> Int]
    <3>1. /\ b - Part(b) \in Int
          /\ c.bal[a]["STEEM"] + InSteem(f, b) + ToAgent(c, f, a) + ToReceiver(c, f, a) \in Int
      BY <2>1, <2>2
    <3>2. v - Part(v) \in Int /\ c.sav[a]["STEEM"] + InSteem(f, v) \in Int
      BY <2>1, <2>2
    <3>3. e.bal[a] \in [Symbol -> Int]
      BY <1>0, <2>3, <3>1
    <3>4. ASSUME NEW s \in Core PROVE e.sav[a][s] \in Int
      BY <1>0, <2>5, <3>2
    <3> QED BY <2>4, <3>3, <3>4
  <2>7. /\ AccountAmount(c, "SBD")[a] = b + v
        /\ AccountAmount(e, "SBD")[a] = e.bal[a]["SBD"] + e.sav[a]["SBD"]
        /\ AccountAmount(c, "STEEM")[a] = c.bal[a]["STEEM"] + c.sav[a]["STEEM"]
        /\ AccountAmount(e, "STEEM")[a] = e.bal[a]["STEEM"] + e.sav[a]["STEEM"]
        /\ AccountsGive(c)[a] = Part(b) + Part(v)
        /\ AccountsGet(c, f)[a] = InSteem(f, b) + InSteem(f, v) + ToAgent(c, f, a) + ToReceiver(c, f, a)
    BY DEF AccountAmount, AccountsGive, AccountsGet
  <2> HIDE DEF b, v
  <2> QED BY <2>1, <2>2, <2>5, <2>6, <2>7
<1>2. e.bal \in [Account -> [Symbol -> Int]] /\ e.sav \in [Account -> [Core -> Int]]
  BY <1>1 DEF BalanceAfter, SavingsAfter
<1>3. Sum(AccountAmount(c, "SBD")) = Sum(AccountAmount(e, "SBD")) + Sum(AccountsGive(c))
  <2> DEFINE h == AccountAmount(c, "SBD")
             g == AccountAmount(e, "SBD")
             k == AccountsGive(c)
  <2>1. \A a \in Account : g[a] \in Int /\ k[a] \in Int /\ h[a] = g[a] + k[a]
    BY <1>1
  <2> HIDE DEF h, g, k
  <2>2. Sum(h) = Sum(g) + Sum(k)
    BY ONLY <1>0, <2>1, SumOfSums
  <2> QED BY <2>2 DEF h, g, k
<1>4. Sum(AccountAmount(e, "STEEM")) = Sum(AccountAmount(c, "STEEM")) + Sum(AccountsGet(c, f))
  <2> DEFINE h == AccountAmount(e, "STEEM")
             g == AccountAmount(c, "STEEM")
             k == AccountsGet(c, f)
  <2>1. \A a \in Account : g[a] \in Int /\ k[a] \in Int /\ h[a] = g[a] + k[a]
    BY <1>1
  <2> HIDE DEF h, g, k
  <2>2. Sum(h) = Sum(g) + Sum(k)
    BY ONLY <1>0, <2>1, SumOfSums
  <2> QED BY <2>2 DEF h, g, k
<1>5. Sum(AccountsGive(c)) \in Int /\ Sum(AccountsGet(c, f)) \in Int
  BY <1>0, <1>1, SumIsInt
<1> QED BY <1>2, <1>3, <1>4, <1>5

\* What accounts, savings, escrows and withdrawals lose of SBD leaves the
\* supply, and what they get of STEEM is added to it.
LEMMA DebtDoes ==
  ASSUME NEW d, Sound(d), NEW f, f.current \in Price
  PROVE  LET e == ConvertDebt(d, f)
         IN  /\ Sound(e) /\ e.orders \subseteq d.orders /\ e.conv = d.conv
             /\ \A r \in e.wd : \E w \in d.wd : r.complete = w.complete
             /\ \A r \in e.esc : \E x \in d.esc : r.deadline = x.deadline /\ (Approved(r) <=> Approved(x))
<1> DEFINE S == {o \in d.orders : o.sym = "SBD"}
           c == CancelOrders(d, S)
           e == ConvertDebt(d, f)
           Sum(g, D) == SumFunctionOnSet(g, D)
           taken == Sum(AccountsGive(c), Account) + Sum(EscrowsGive(c.esc), c.esc)
                      + Sum(WithdrawalsGive(c.wd), c.wd)
           given == Sum(AccountsGet(c, f), Account) + Sum(EscrowsGet(f, c.esc), c.esc)
           supply == [s \in Core |-> IF s = "SBD" THEN c.supply[s] - taken ELSE c.supply[s] + given]
<1>0. e = Converted(c, f)
  BY DEF ConvertDebt
<1>1. Sound(c) /\ SameObjects(d, c) /\ c.orders \subseteq d.orders
  <2>1. S \in SUBSET d.orders
    OBVIOUS
  <2> HIDE DEF S
  <2> QED BY <2>1, CancelOrdersKeep, CancelOrdersDoes DEF Sound
<1> HIDE DEF c, e
<1>2. e = [c EXCEPT !.bal = BalanceAfter(c, f), !.sav = SavingsAfter(c, f),
                    !.esc = EscrowsAfter(f, c.esc), !.wd = WithdrawalsAfter(c.wd), !.supply = supply]
  BY <1>0 DEF Converted, SumFunction, AccountsGive, EscrowsGive, WithdrawalsGive, AccountsGet, EscrowsGet,
              BalanceAfter, SavingsAfter, EscrowsAfter, WithdrawalsAfter
<1>3. /\ e.bal = BalanceAfter(c, f) /\ e.sav = SavingsAfter(c, f) /\ e.esc = EscrowsAfter(f, c.esc)
      /\ e.wd = WithdrawalsAfter(c.wd) /\ e.supply = supply
      /\ e.mkt = c.mkt /\ e.orders = c.orders /\ e.depth = c.depth /\ e.reqs = c.reqs /\ e.conv = c.conv
  <2>1. c \in Ledgers
    BY <1>1 DEF Sound, Typed
  <2> HIDE DEF supply
  <2> QED BY <1>2, <2>1 DEF Ledgers
<1>4. /\ Typed(c) /\ Keyed(c) /\ FeesPaid(c.esc) /\ Counted(c) /\ Balanced(c) /\ c \in Ledgers
      /\ c.esc \in SUBSET Escrow /\ IsFiniteSet(c.esc) /\ EscrowsKeyed(c.esc)
      /\ c.wd \in SUBSET Withdrawal /\ IsFiniteSet(c.wd) /\ WithdrawalsKeyed(c.wd)
      /\ c.supply["SBD"] \in Int /\ c.supply["STEEM"] \in Int /\ Core = {"STEEM", "SBD"}
  BY <1>1 DEF Sound, Typed, Ledgers, Keyed, Core
<1>5. /\ e.esc \in SUBSET Escrow /\ IsFiniteSet(e.esc) /\ EscrowsKeyed(e.esc) /\ FeesPaid(e.esc)
      /\ \A r \in e.esc : \E x \in c.esc : r.deadline = x.deadline /\ (Approved(r) <=> Approved(x))
      /\ Sum(EscrowAmount("SBD"), c.esc) = Sum(EscrowAmount("SBD"), e.esc) + Sum(EscrowsGive(c.esc), c.esc)
      /\ Sum(EscrowAmount("STEEM"), e.esc) = Sum(EscrowAmount("STEEM"), c.esc) + Sum(EscrowsGet(f, c.esc), c.esc)
      /\ Sum(EscrowsGive(c.esc), c.esc) \in Int /\ Sum(EscrowsGet(f, c.esc), c.esc) \in Int
  BY <1>3, <1>4, EscrowsAfterAre
<1>6. /\ e.wd \in SUBSET Withdrawal /\ IsFiniteSet(e.wd) /\ WithdrawalsKeyed(e.wd)
      /\ \A r \in e.wd : \E w \in c.wd : r.complete = w.complete
      /\ \A a : Cardinality(Mine(e.wd, a)) = Cardinality(Mine(c.wd, a))
      /\ Sum(WithdrawalAmount("SBD"), c.wd) = Sum(WithdrawalAmount("SBD"), e.wd) + Sum(WithdrawalsGive(c.wd), c.wd)
      /\ Sum(WithdrawalAmount("STEEM"), e.wd) = Sum(WithdrawalAmount("STEEM"), c.wd)
      /\ Sum(WithdrawalsGive(c.wd), c.wd) \in Int
  BY <1>3, <1>4, WithdrawalsAfterAre
<1>7. /\ e.bal \in [Account -> [Symbol -> Int]] /\ e.sav \in [Account -> [Core -> Int]]
      /\ Sum(AccountAmount(c, "SBD"), Account) = Sum(AccountAmount(e, "SBD"), Account) + Sum(AccountsGive(c), Account)
      /\ Sum(AccountAmount(e, "STEEM"), Account) = Sum(AccountAmount(c, "STEEM"), Account) + Sum(AccountsGet(c, f), Account)
      /\ Sum(AccountsGive(c), Account) \in Int /\ Sum(AccountsGet(c, f), Account) \in Int
  BY <1>3, <1>4, AccountsAfterAre
<1>8. taken \in Int /\ given \in Int
  BY <1>5, <1>6, <1>7
<1>9. /\ supply \in [Core -> Int] /\ supply["SBD"] = c.supply["SBD"] - taken
      /\ supply["STEEM"] = c.supply["STEEM"] + given
  <2> HIDE DEF taken, given
  <2> QED BY <1>4, <1>8
<1> HIDE DEF supply
<1>10. Typed(e)
  <2>1. e \in Ledgers
    BY <1>2, <1>3, <1>4, <1>5, <1>6, <1>7, <1>9 DEF Ledgers
  <2> QED BY <1>3, <1>4, <1>5, <1>6, <2>1 DEF Typed
<1>11. Keyed(e) /\ FeesPaid(e.esc) /\ Counted(e)
  BY <1>3, <1>4, <1>5, <1>6 DEF Keyed, Counted
<1>12. ASSUME NEW s \in Core
       PROVE  /\ InOrders(e, s) = InOrders(c, s) /\ InConversions(e, s) = InConversions(c, s)
              /\ InAccounts(c, s) = Sum(AccountAmount(c, s), Account)
              /\ InAccounts(e, s) = Sum(AccountAmount(e, s), Account)
              /\ InWithdrawals(c, s) = Sum(WithdrawalAmount(s), c.wd)
              /\ InWithdrawals(e, s) = Sum(WithdrawalAmount(s), e.wd)
              /\ InEscrows(c, s) = Sum(EscrowAmount(s), c.esc)
              /\ InEscrows(e, s) = Sum(EscrowAmount(s), e.esc)
              /\ InAccounts(c, s) \in Int /\ InWithdrawals(c, s) \in Int /\ InEscrows(c, s) \in Int
              /\ InAccounts(e, s) \in Int /\ InWithdrawals(e, s) \in Int /\ InEscrows(e, s) \in Int
              /\ InOrders(c, s) \in Int /\ InConversions(c, s) \in Int
              /\ c.supply[s] = Total(c, s)
  <2>1. InOrders(e, s) = InOrders(c, s) /\ InConversions(e, s) = InConversions(c, s)
    BY <1>3, PartsOfSame
  <2>2. c.supply[s] = Total(c, s)
    BY <1>4 DEF Balanced
  <2> QED BY <1>4, <1>10, <2>1, <2>2, PartsAreSums, PartsAreInts
<1>13. Total(e, "SBD") = Total(c, "SBD") - taken
  <2> DEFINE gA == Sum(AccountsGive(c), Account)
             gE == Sum(EscrowsGive(c.esc), c.esc)
             gW == Sum(WithdrawalsGive(c.wd), c.wd)
  <2>0. "SBD" \in Core
    BY <1>4
  <2>1. /\ InAccounts(c, "SBD") = InAccounts(e, "SBD") + gA
        /\ InEscrows(c, "SBD") = InEscrows(e, "SBD") + gE
        /\ InWithdrawals(c, "SBD") = InWithdrawals(e, "SBD") + gW
        /\ gA \in Int /\ gE \in Int /\ gW \in Int
    BY <2>0, <1>5, <1>6, <1>7, <1>12
  <2> HIDE DEF gA, gE, gW
  <2>2. Total(e, "SBD") = Total(c, "SBD") - (gA + gE + gW)
    BY <1>12, <2>0, <2>1 DEF Total
  <2> QED BY <2>2 DEF gA, gE, gW
<1>14. Total(e, "STEEM") = Total(c, "STEEM") + given
  <2> DEFINE gA == Sum(AccountsGet(c, f), Account)
             gE == Sum(EscrowsGet(f, c.esc), c.esc)
  <2>0. "STEEM" \in Core
    BY <1>4
  <2>1. /\ InAccounts(e, "STEEM") = InAccounts(c, "STEEM") + gA
        /\ InEscrows(e, "STEEM") = InEscrows(c, "STEEM") + gE
        /\ InWithdrawals(e, "STEEM") = InWithdrawals(c, "STEEM")
        /\ gA \in Int /\ gE \in Int
    BY <2>0, <1>5, <1>6, <1>7, <1>12
  <2> HIDE DEF gA, gE
  <2>2. Total(e, "STEEM") = Total(c, "STEEM") + (gA + gE)
    BY <1>12, <2>0, <2>1 DEF Total
  <2> QED BY <2>2 DEF gA, gE
<1>15. Balanced(e)
  <2> HIDE DEF taken, given
  <2> QED BY <1>3, <1>4, <1>9, <1>12, <1>13, <1>14 DEF Balanced
<1>16. Sound(e)
  BY <1>10, <1>11, <1>15 DEF Sound
<1>17. d.wd = c.wd /\ d.esc = c.esc /\ d.conv = c.conv
  BY <1>1 DEF SameObjects
<1> QED BY <1>1, <1>3, <1>5, <1>6, <1>16, <1>17 DEF e

-----------------------------------------------------------------------------
(* A block, and all steps                                                  *)

\* Refunds of escrows that were not ratified keep a ledger sound.
LEMMA ExpireKeeps ==
  ASSUME NEW d, Sound(d), NEW t
  PROVE  Sound(ExpireEscrowRatification(d, t))
<1> DEFINE e == ExpireEscrowRatification(d, t)
<1>1. /\ Typed(e) /\ SameButEscrows(d, e) /\ e.esc \subseteq d.esc
      /\ \A s \in Core : Total(e, s) = Total(d, s)
  BY ExpireDoes DEF Sound
<1> HIDE DEF e
<1>2. EscrowsKeyed(e.esc) /\ FeesPaid(e.esc)
  BY <1>1 DEF Sound, Keyed, EscrowsKeyed, FeesPaid
<1>3. Sound(e)
  BY <1>1, <1>2, EscrowsKeep
<1> QED BY <1>3 DEF e

\* Every step of the maintenance keeps the ledger sound, and after the last
\* nothing is overdue.
LEMMA MaintainedDoes ==
  ASSUME Sound(db), NEW f, f.current \in Price, NEW t \in Nat
  PROVE  Sound(Maintained(f, t)) /\ OnTime(Maintained(f, t), t)
<1> DEFINE d1 == ClearExpiredOrders(db, t)
           d2 == ProcessConversions(d1, f, t)
           d3 == ProcessDebt(d2, d1, f, t)
           d4 == ProcessSavingsWithdraws(d3, t)
           d5 == ExpireEscrowRatification(d4, t)
<1>0. Maintained(f, t) = d5
  BY DEF Maintained
<1>1. Sound(d1) /\ d1.orders = db.orders \ ExpiredOrders(db, t)
  <2>1. ExpiredOrders(db, t) \in SUBSET db.orders
    BY DEF ExpiredOrders
  <2> QED BY <2>1, CancelOrdersKeep, CancelOrdersDoes DEF ClearExpiredOrders, Sound
<1> HIDE DEF d1
<1>2. /\ Sound(d2) /\ d2.orders = d1.orders /\ d2.wd = d1.wd /\ d2.esc = d1.esc
      /\ d2.conv = d1.conv \ {c \in d1.conv : c.date <= t}
  BY <1>1, ConversionsDo
<1> HIDE DEF d2
<1>3. Sound(d3) /\ d3.orders \subseteq d2.orders /\ d3.conv = d2.conv
  BY <1>2, DebtDoes DEF ProcessDebt
<1> HIDE DEF d3
<1>4. /\ Sound(d4) /\ d4.orders = d3.orders /\ d4.conv = d3.conv /\ d4.esc = d3.esc
      /\ d4.wd = d3.wd \ {w \in d3.wd : w.complete <= t}
  BY <1>3, WithdrawsDo
<1> HIDE DEF d4
<1>5. /\ Sound(d5) /\ SameButEscrows(d4, d5)
      /\ d5.esc = d4.esc \ {e \in d4.esc : ~Approved(e) /\ e.deadline <= t}
  BY <1>4, ExpireKeeps, ExpireDoes DEF Sound
<1> HIDE DEF d5
<1>6. /\ db.orders \subseteq LimitOrder /\ d1.conv \subseteq Conversion
      /\ d3.wd \subseteq Withdrawal /\ d4.esc \subseteq Escrow
  BY <1>1, <1>3, <1>4 DEF Sound, Typed, Ledgers
<1>7. \A o \in d5.orders : o.exp >= t
  <2>1. ASSUME NEW o \in db.orders, o \notin ExpiredOrders(db, t) PROVE o.exp >= t
    BY <1>6, <2>1 DEF ExpiredOrders, LimitOrder
  <2>2. d5.orders \subseteq db.orders \ ExpiredOrders(db, t)
    BY <1>1, <1>2, <1>3, <1>4, <1>5 DEF SameButEscrows
  <2> QED BY <2>1, <2>2
<1>8. \A c \in d5.conv : c.date > t
  <2>1. ASSUME NEW c \in d1.conv, ~(c.date <= t) PROVE c.date > t
    BY <1>6, <2>1 DEF Conversion
  <2>2. d5.conv = d1.conv \ {c \in d1.conv : c.date <= t}
    BY <1>2, <1>3, <1>4, <1>5 DEF SameButEscrows
  <2> QED BY <2>1, <2>2
<1>9. \A w \in d5.wd : w.complete > t
  <2>1. ASSUME NEW w \in d3.wd, ~(w.complete <= t) PROVE w.complete > t
    BY <1>6, <2>1 DEF Withdrawal
  <2>2. d5.wd = d3.wd \ {w \in d3.wd : w.complete <= t}
    BY <1>4, <1>5 DEF SameButEscrows
  <2> QED BY <2>1, <2>2
<1>10. \A e \in d5.esc : ~Approved(e) => e.deadline > t
  <2>1. ASSUME NEW e \in d4.esc, ~(e.deadline <= t) PROVE e.deadline > t
    BY <1>6, <2>1 DEF Escrow
  <2> QED BY <1>5, <2>1
<1> QED BY <1>0, <1>5, <1>7, <1>8, <1>9, <1>10 DEF OnTime

\* A block keeps the invariant.
LEMMA ApplyBlockKeeps ==
  ASSUME IInv, NEW p \in Feeds, ApplyBlock(p) PROVE IInv'
<1>1. /\ Sound(db) /\ now \in Nat /\ db.supply["STEEM"] > 0
      /\ now' = now + 1 /\ feed' = MedianFeed(db, p) /\ db' = Maintained(feed', now')
  BY DEF IInv, ApplyBlock
<1>2. feed'.current \in Price
  BY <1>1, FeedIsPrice DEF Sound
<1>3. now' \in Nat
  BY <1>1
<1>4. Sound(Maintained(feed', now')) /\ OnTime(Maintained(feed', now'), now')
  BY <1>1, <1>2, <1>3, MaintainedDoes
<1> QED BY <1>1, <1>3, <1>4 DEF IInv

\* At the start all there is is in the accounts.
LEMMA InitKeeps == Init => IInv
<1> SUFFICES ASSUME Init PROVE IInv
  OBVIOUS
<1>1. /\ db = [bal |-> Balance,
               mkt |-> [a \in Account |-> [s \in Symbol |-> 0]],
               orders |-> {},
               depth |-> [m \in Symbol \X Symbol |-> <<0, 0>>],
               sav |-> [a \in Account |-> [s \in Core |-> 0]],
               reqs |-> [a \in Account |-> 0],
               conv |-> {}, wd |-> {}, esc |-> {},
               supply |-> [s \in Core |-> SumFunction([a \in Account |-> Balance[a][s]])]]
      /\ now = 1
  BY DEF Init
<1>2. /\ db.bal = Balance /\ db.mkt = [a \in Account |-> [s \in Symbol |-> 0]] /\ db.orders = {}
      /\ db.depth = [m \in Symbol \X Symbol |-> <<0, 0>>]
      /\ db.sav = [a \in Account |-> [s \in Core |-> 0]] /\ db.reqs = [a \in Account |-> 0]
      /\ db.conv = {} /\ db.wd = {} /\ db.esc = {}
      /\ db.supply = [s \in Core |-> SumFunction([a \in Account |-> Balance[a][s]])]
  BY <1>1
<1>3. Balance \in [Account -> [Symbol -> Int]] /\ IsFiniteSet(Account) /\ IsFiniteSet({})
  BY BalanceAssumption, AccountAssumption, FS_EmptySet
<1>4. ASSUME NEW s \in Core
      PROVE  SumFunction([a \in Account |-> Balance[a][s]]) = InAccounts(db, s) /\ InAccounts(db, s) \in Int
  <2> DEFINE g == [a \in Account |-> Balance[a][s]]
             h == AccountAmount(db, s)
  <2>1. \A a \in Account : g[a] = h[a] /\ g[a] \in Int
    BY <1>2, <1>3 DEF AccountAmount, Symbol
  <2>2. SumFunction(g) = SumFunctionOnSet(g, Account) /\ InAccounts(db, s) = SumFunctionOnSet(h, Account)
    BY DEF SumFunction, InAccounts, AccountAmount
  <2> HIDE DEF g, h
  <2> QED BY <1>3, <2>1, <2>2, SumOfSame, SumIsInt DEF g
<1>5. db.supply \in [Core -> Int]
  BY <1>2, <1>4
<1>6. Typed(db)
  <2>1. /\ db.mkt \in [Account -> [Symbol -> Int]] /\ db.depth \in [Symbol \X Symbol -> Int \X Int]
        /\ db.sav \in [Account -> [Core -> Int]] /\ db.reqs \in [Account -> Int]
    BY <1>2
  <2>2. db \in Ledgers
    <3>1. db = [bal |-> db.bal, mkt |-> db.mkt, orders |-> {}, depth |-> db.depth, sav |-> db.sav,
                reqs |-> db.reqs, conv |-> {}, wd |-> {}, esc |-> {}, supply |-> db.supply]
      BY <1>1
    <3>2. db.bal \in [Account -> [Symbol -> Int]]
      BY <1>2, <1>3
    <3> QED BY <2>1, <3>1, <3>2, <1>5 DEF Ledgers
  <2> QED BY <1>2, <1>3, <2>2 DEF Typed
<1>7. Keyed(db) /\ FeesPaid(db.esc) /\ OnTime(db, now)
  BY <1>2 DEF Keyed, OrdersKeyed, ConversionsKeyed, WithdrawalsKeyed, EscrowsKeyed, FeesPaid, OnTime
<1>8. Counted(db)
  <2>1. ASSUME NEW a \in Account PROVE db.reqs[a] = Cardinality(Mine(db.wd, a))
    <3>1. Mine(db.wd, a) = {}
      BY <1>2 DEF Mine
    <3>2. Cardinality({}) = 0
      BY FS_EmptySet
    <3>3. db.reqs[a] = 0
      BY <1>2
    <3>4. Cardinality(Mine(db.wd, a)) = 0
      BY ONLY <3>1, <3>2
    <3> QED BY ONLY <3>3, <3>4
  <2> QED BY <2>1 DEF Counted
<1>9. Balanced(db)
  <2>1. ASSUME NEW s \in Core PROVE db.supply[s] = Total(db, s)
    <3>1. ASSUME NEW g PROVE SumFunctionOnSet(g, {}) = 0
      BY <1>3, SumStart
    <3>2. /\ InOrders(db, s) = 0 /\ InConversions(db, s) = 0 /\ InWithdrawals(db, s) = 0
          /\ InEscrows(db, s) = 0
      <4>1. /\ InOrders(db, s) = SumFunctionOnSet(OrderAmount(s), db.orders)
            /\ InConversions(db, s) = SumFunctionOnSet(ConversionAmount(s), db.conv)
            /\ InWithdrawals(db, s) = SumFunctionOnSet(WithdrawalAmount(s), db.wd)
            /\ InEscrows(db, s) = SumFunctionOnSet(EscrowAmount(s), db.esc)
        BY <1>6, PartsAreSums
      <4>2. db.orders = {} /\ db.conv = {} /\ db.wd = {} /\ db.esc = {}
        BY <1>2
      <4> QED BY ONLY <3>1, <4>1, <4>2
    <3> QED BY <1>2, <1>4, <3>2 DEF Total
  <2> QED BY <2>1 DEF Balanced
<1> QED BY <1>1, <1>6, <1>7, <1>8, <1>9 DEF IInv, Sound

\* Every step keeps it.
LEMMA NextKeeps == IInv /\ [Next]_vars => IInv'
<1> SUFFICES ASSUME IInv, [Next]_vars PROVE IInv'
  OBVIOUS
<1>1. CASE \E x \in OrderOps : LimitOrderCreate(x)
  BY <1>1, LimitOrderCreateKeeps
<1>2. CASE \E o \in db.orders : LimitOrderCancel(o)
  BY <1>2, LimitOrderCancelKeeps
<1>3. CASE \E a \in Account, r \in BOOLEAN : LimitOrderCancelEx(a, "SBD", AnySymbol, r)
  BY <1>3, LimitOrderCancelExKeeps
<1>4. CASE \E x \in ConvertOps : Convert(x)
  BY <1>4, ConvertKeeps
<1>5. CASE \E x \in SavingsOps : TransferToSavings(x)
  BY <1>5, TransferToSavingsKeeps
<1>6. CASE \E x \in WithdrawOps : TransferFromSavings(x)
  BY <1>6, TransferFromSavingsKeeps
<1>7. CASE \E w \in db.wd : CancelTransferFromSavings(w)
  BY <1>7, CancelTransferFromSavingsKeeps
<1>8. CASE \E x \in EscrowOps : EscrowTransfer(x)
  BY <1>8, EscrowTransferKeeps
<1>9. CASE \E e \in db.esc : \E who \in {e.to, e.agent}, yes \in BOOLEAN : EscrowApprove(e, who, yes)
  BY <1>9, EscrowApproveKeeps
<1>10. CASE \E e \in db.esc : EscrowDispute(e)
  BY <1>10, EscrowDisputeKeeps
<1>11. CASE \E e \in db.esc : \E who \in {e.from, e.to, e.agent}, receiver \in {e.from, e.to},
                steem \in 0..e.steem, sbd \in 0..e.sbd :
              steem + sbd > 0 /\ EscrowRelease(e, who, receiver, steem, sbd)
  BY <1>11, EscrowReleaseKeeps
<1>12. CASE \E p \in Feeds : ApplyBlock(p)
  BY <1>12, ApplyBlockKeeps
<1>13. CASE UNCHANGED vars
  <2>1. db' = db /\ now' = now
    BY <1>13 DEF vars
  <2> QED BY <2>1 DEF IInv
<1> QED BY <1>1, <1>2, <1>3, <1>4, <1>5, <1>6, <1>7, <1>8, <1>9, <1>10, <1>11, <1>12, <1>13 DEF Next

-----------------------------------------------------------------------------
(* The book is sound                                                       *)

\* Market balances and depths are what the orders add up to.
NoGaps(d) ==
    /\ \A a \in Account, s \in Symbol : HeldGap(d, a, s) = 0
    /\ \A m \in Symbol \X Symbol : OfferedGap(d, m) = 0 /\ AskedGap(d, m) = 0

\* What is on its way is no debt, and no account waits for too many
\* withdrawals.
Funded(d) ==
    /\ \A a \in Account, s \in Core : d.sav[a][s] >= 0
    /\ \A c \in d.conv : 0 <= c.fee /\ c.fee <= c.amount
    /\ \A w \in d.wd : w.amount > 0
    /\ \A e \in d.esc : e.steem >= 0 /\ e.sbd >= 0 /\ e.fee >= 0
    /\ \A a \in Account : d.reqs[a] <= RequestLimit

Booked(d) == NoGaps(d) /\ Uncrossed(d.orders) /\ Solvent(d) /\ Funded(d)

\* The balance of an account for the market as the sum over its own orders,
\* and the depth of a pair as the sums over the orders of the pair.
LEMMA HeldIsPart ==
  ASSUME NEW d, Typed(d), NEW a \in Account, NEW s \in Symbol
  PROVE  SumFunctionOnSet(Held(a, s), d.orders) =
           SumFunction([o \in {o \in d.orders : o.seller = a} |-> Of(s, o.sym, o.left)])
<1> DEFINE f == Held(a, s)
           P == {o \in d.orders : o.seller = a}
           g == [o \in P |-> Of(s, o.sym, o.left)]
<1>1. IsFiniteSet(d.orders) /\ d.orders \in SUBSET LimitOrder /\ IsFiniteSet(P)
  BY FS_Subset DEF Typed, Ledgers
<1>2. ASSUME NEW o \in d.orders
      PROVE  f[o] = (IF o.seller = a THEN Of(s, o.sym, o.left) ELSE 0) /\ f[o] \in Int
  BY <1>1, BookIsInt
<1>3. P \subseteq d.orders /\ (\A o \in d.orders \ P : f[o] = 0) /\ (\A o \in P : f[o] = g[o])
  BY <1>2
<1>4. SumFunction(g) = SumFunctionOnSet(g, P)
  BY DEF SumFunction
<1> HIDE DEF f, P, g
<1>5. SumFunctionOnSet(f, d.orders) = SumFunctionOnSet(f, P)
  BY <1>1, <1>2, <1>3, SumOfPart
<1>6. SumFunctionOnSet(f, P) = SumFunctionOnSet(g, P)
  BY <1>1, <1>3, SumOfSame
<1> QED BY <1>4, <1>5, <1>6 DEF f, P, g

LEMMA OfferedIsPart ==
  ASSUME NEW d, Typed(d), NEW m \in Symbol \X Symbol
  PROVE  SumFunctionOnSet(Offered(m), d.orders) =
           SumFunction([o \in {o \in d.orders : <<o.sym, o.want>> = m} |-> o.left])
<1> DEFINE f == Offered(m)
           P == {o \in d.orders : <<o.sym, o.want>> = m}
           g == [o \in P |-> o.left]
<1>1. IsFiniteSet(d.orders) /\ d.orders \in SUBSET LimitOrder /\ IsFiniteSet(P)
  BY FS_Subset DEF Typed, Ledgers
<1>2. ASSUME NEW o \in d.orders
      PROVE  f[o] = (IF <<o.sym, o.want>> = m THEN o.left ELSE 0) /\ f[o] \in Int
  BY <1>1, BookIsInt
<1>3. P \subseteq d.orders /\ (\A o \in d.orders \ P : f[o] = 0) /\ (\A o \in P : f[o] = g[o])
  BY <1>2
<1>4. SumFunction(g) = SumFunctionOnSet(g, P)
  BY DEF SumFunction
<1> HIDE DEF f, P, g
<1>5. SumFunctionOnSet(f, d.orders) = SumFunctionOnSet(f, P)
  BY <1>1, <1>2, <1>3, SumOfPart
<1>6. SumFunctionOnSet(f, P) = SumFunctionOnSet(g, P)
  BY <1>1, <1>3, SumOfSame
<1> QED BY <1>4, <1>5, <1>6 DEF f, P, g

LEMMA AskedIsPart ==
  ASSUME NEW d, Typed(d), NEW m \in Symbol \X Symbol
  PROVE  SumFunctionOnSet(Asked(m), d.orders) =
           SumFunction([o \in {o \in d.orders : <<o.sym, o.want>> = m} |-> AmountToReceive(o)])
<1> DEFINE f == Asked(m)
           P == {o \in d.orders : <<o.sym, o.want>> = m}
           g == [o \in P |-> AmountToReceive(o)]
<1>1. IsFiniteSet(d.orders) /\ d.orders \in SUBSET LimitOrder /\ IsFiniteSet(P)
  BY FS_Subset DEF Typed, Ledgers
<1>2. ASSUME NEW o \in d.orders
      PROVE  f[o] = (IF <<o.sym, o.want>> = m THEN AmountToReceive(o) ELSE 0) /\ f[o] \in Int
  BY <1>1, BookIsInt
<1>3. P \subseteq d.orders /\ (\A o \in d.orders \ P : f[o] = 0) /\ (\A o \in P : f[o] = g[o])
  BY <1>2
<1>4. SumFunction(g) = SumFunctionOnSet(g, P)
  BY DEF SumFunction
<1> HIDE DEF f, P, g
<1>5. SumFunctionOnSet(f, d.orders) = SumFunctionOnSet(f, P)
  BY <1>1, <1>2, <1>3, SumOfPart
<1>6. SumFunctionOnSet(f, P) = SumFunctionOnSet(g, P)
  BY <1>1, <1>3, SumOfSame
<1> QED BY <1>4, <1>5, <1>6 DEF f, P, g

\* Without gaps, balances and depths are these sums, which are naturals.
LEMMA BookAddsUp ==
  ASSUME NEW d, Typed(d), NoGaps(d), Solvent(d)
  PROVE  /\ \A a \in Account, s \in Symbol :
               /\ d.mkt[a][s] = SumFunctionOnSet(Held(a, s), d.orders)
               /\ d.mkt[a][s] \in Nat
         /\ \A m \in Symbol \X Symbol :
               /\ d.depth[m] = <<SumFunctionOnSet(Offered(m), d.orders), SumFunctionOnSet(Asked(m), d.orders)>>
               /\ d.depth[m] \in Nat \X Nat
<1>0. IsFiniteSet(d.orders) /\ d.orders \in SUBSET LimitOrder
  BY DEF Typed, Ledgers
<1>1. \A o \in d.orders : o.left \in Nat /\ AmountToReceive(o) \in Nat
  <2> SUFFICES ASSUME NEW o \in d.orders PROVE o.left \in Nat /\ AmountToReceive(o) \in Nat
    OBVIOUS
  <2>1. o.left \in Int /\ AmountToReceive(o) \in Int
    BY <1>0, ReceivesIsInt DEF LimitOrder
  <2> QED BY <2>1 DEF Solvent, Sells
<1>2. ASSUME NEW a \in Account, NEW s \in Symbol
      PROVE  d.mkt[a][s] = SumFunctionOnSet(Held(a, s), d.orders) /\ d.mkt[a][s] \in Nat
  <2> DEFINE f == Held(a, s)
  <2>1. \A o \in d.orders : f[o] \in Nat
    BY <1>0, <1>1, BookIsInt DEF Of
  <2>2. d.mkt[a][s] \in Int /\ d.mkt[a][s] - SumFunctionOnSet(f, d.orders) = 0
    BY DEF Typed, Ledgers, NoGaps, HeldGap
  <2> HIDE DEF f
  <2>3. SumFunctionOnSet(f, d.orders) \in Nat
    BY <1>0, <2>1, SumOfNaturals
  <2>4. d.mkt[a][s] = SumFunctionOnSet(f, d.orders)
    BY <2>2, <2>3
  <2> QED BY <2>3, <2>4 DEF f
<1>3. ASSUME NEW m \in Symbol \X Symbol
      PROVE  /\ d.depth[m] = <<SumFunctionOnSet(Offered(m), d.orders), SumFunctionOnSet(Asked(m), d.orders)>>
             /\ d.depth[m] \in Nat \X Nat
  <2> DEFINE f == Offered(m)
             g == Asked(m)
  <2>1. \A o \in d.orders : f[o] \in Nat /\ g[o] \in Nat
    BY <1>0, <1>1, BookIsInt
  <2>2. d.depth[m] \in Int \X Int
    BY DEF Typed, Ledgers
  <2>3. d.depth[m][1] - SumFunctionOnSet(f, d.orders) = 0 /\ d.depth[m][2] - SumFunctionOnSet(g, d.orders) = 0
    BY DEF NoGaps, OfferedGap, AskedGap
  <2> HIDE DEF f, g
  <2>4. SumFunctionOnSet(f, d.orders) \in Nat
    BY <1>0, <2>1, SumOfNaturals
  <2>5. SumFunctionOnSet(g, d.orders) \in Nat
    BY <1>0, <2>1, SumOfNaturals
  <2>6. d.depth[m][1] = SumFunctionOnSet(f, d.orders) /\ d.depth[m][2] = SumFunctionOnSet(g, d.orders)
    BY <2>2, <2>3, <2>4, <2>5
  <2>7. d.depth[m] = <<d.depth[m][1], d.depth[m][2]>>
    BY <2>2
  <2> QED BY <2>4, <2>5, <2>6, <2>7 DEF f, g
<1> QED BY <1>2, <1>3

\* The supplies are not negative, as nothing that they add up is.
LEMMA TotalIsNat ==
  ASSUME NEW d, Typed(d), Solvent(d), Funded(d), NEW t \in Core
  PROVE  Total(d, t) \in Nat
<1>0. /\ d.orders \in SUBSET LimitOrder /\ d.conv \in SUBSET Conversion
      /\ d.wd \in SUBSET Withdrawal /\ d.esc \in SUBSET Escrow
      /\ IsFiniteSet(d.orders) /\ IsFiniteSet(d.conv) /\ IsFiniteSet(d.wd) /\ IsFiniteSet(d.esc)
      /\ IsFiniteSet(Account) /\ t \in Symbol
  BY AccountAssumption DEF Typed, Ledgers, Symbol
<1>1. SumFunctionOnSet(AccountAmount(d, t), Account) \in Nat
  <2> DEFINE f == AccountAmount(d, t)
  <2>1. ASSUME NEW a \in Account PROVE f[a] \in Nat
    <3>1. d.bal[a][t] \in Int /\ d.sav[a][t] \in Int /\ d.bal[a][t] >= 0 /\ d.sav[a][t] >= 0
      BY <1>0 DEF Typed, Ledgers, Solvent, InBlack, Funded
    <3>2. f[a] = d.bal[a][t] + d.sav[a][t]
      BY DEF AccountAmount
    <3> QED BY <3>1, <3>2
  <2> HIDE DEF f
  <2> QED BY <1>0, <2>1, SumOfNaturals DEF f
<1>2. SumFunctionOnSet(OrderAmount(t), d.orders) \in Nat
  <2> DEFINE f == OrderAmount(t)
  <2>1. ASSUME NEW o \in d.orders PROVE f[o] \in Nat
    <3>1. o.left \in Int /\ o.left >= 0
      BY <1>0 DEF LimitOrder, Solvent, Sells
    <3>2. f[o] = Of(t, o.sym, o.left)
      BY <1>0, AmountsAreInts
    <3> QED BY <3>1, <3>2 DEF Of
  <2> HIDE DEF f
  <2> QED BY <1>0, <2>1, SumOfNaturals DEF f
<1>3. SumFunctionOnSet(ConversionAmount(t), d.conv) \in Nat
  <2> DEFINE f == ConversionAmount(t)
  <2>1. ASSUME NEW c \in d.conv PROVE f[c] \in Nat
    <3>1. c.amount \in Int /\ c.amount >= 0
      <4>1. c.amount \in Int /\ c.fee \in Int
        BY <1>0 DEF Conversion
      <4>2. 0 <= c.fee /\ c.fee <= c.amount
        BY DEF Funded
      <4> QED BY <4>1, <4>2
    <3>2. f[c] = Of(t, c.sym, c.amount)
      BY <1>0, AmountsAreInts
    <3> QED BY <3>1, <3>2 DEF Of
  <2> HIDE DEF f
  <2> QED BY <1>0, <2>1, SumOfNaturals DEF f
<1>4. SumFunctionOnSet(WithdrawalAmount(t), d.wd) \in Nat
  <2> DEFINE f == WithdrawalAmount(t)
  <2>1. ASSUME NEW w \in d.wd PROVE f[w] \in Nat
    <3>1. w.amount \in Int /\ w.amount >= 0
      BY <1>0 DEF Withdrawal, Funded
    <3>2. f[w] = Of(t, w.sym, w.amount)
      BY <1>0, AmountsAreInts
    <3> QED BY <3>1, <3>2 DEF Of
  <2> HIDE DEF f
  <2> QED BY <1>0, <2>1, SumOfNaturals DEF f
<1>5. SumFunctionOnSet(EscrowAmount(t), d.esc) \in Nat
  <2> DEFINE f == EscrowAmount(t)
  <2>1. ASSUME NEW e \in d.esc PROVE f[e] \in Nat
    <3>1. e.steem \in Nat /\ e.sbd \in Nat /\ e.fee \in Nat
      BY <1>0 DEF Escrow, Funded
    <3>2. f[e] = (IF t = "SBD" THEN e.sbd ELSE e.steem) + Of(t, e.feesym, e.fee)
      BY <1>0, AmountsAreInts
    <3> QED BY <3>1, <3>2 DEF Of
  <2> HIDE DEF f
  <2> QED BY <1>0, <2>1, SumOfNaturals DEF f
<1>6. /\ InAccounts(d, t) \in Nat /\ InOrders(d, t) \in Nat /\ InConversions(d, t) \in Nat
      /\ InWithdrawals(d, t) \in Nat /\ InEscrows(d, t) \in Nat
  BY <1>1, <1>2, <1>3, <1>4, <1>5, PartsAreSums
<1> QED BY <1>6 DEF Total

LEMMA BookedImplies == IInv /\ Booked(db) => BookSound
<1> SUFFICES ASSUME IInv, Booked(db) PROVE BookSound
  OBVIOUS
<1>1. /\ Typed(db) /\ Keyed(db) /\ Counted(db) /\ Balanced(db)
      /\ NoGaps(db) /\ Uncrossed(db.orders) /\ Solvent(db) /\ Funded(db)
  BY DEF IInv, Sound, Booked
<1>2. TypeOK
  <2>1. ASSUME NEW a \in Account
        PROVE  /\ \A s \in Symbol : db.bal[a][s] \in Nat /\ db.mkt[a][s] \in Nat
               /\ \A s \in Core : db.sav[a][s] \in Nat
               /\ db.reqs[a] \in 0..RequestLimit
    <3>1. ASSUME NEW s \in Symbol PROVE db.bal[a][s] \in Nat /\ db.mkt[a][s] \in Nat
      <4>1. db.bal[a][s] \in Int /\ db.bal[a][s] >= 0
        BY <1>1 DEF Typed, Ledgers, Solvent, InBlack
      <4> QED BY <1>1, <4>1, BookAddsUp
    <3>2. ASSUME NEW s \in Core PROVE db.sav[a][s] \in Nat
      <4>1. db.sav[a][s] \in Int /\ db.sav[a][s] >= 0
        BY <1>1 DEF Typed, Ledgers, Funded
      <4> QED BY <4>1
    <3>3. db.reqs[a] \in 0..RequestLimit
      <4>1. db.reqs[a] = Cardinality(Mine(db.wd, a))
        BY <1>1 DEF Counted
      <4>2. IsFiniteSet(Mine(db.wd, a))
        BY <1>1, FS_Subset DEF Mine, Typed
      <4>3. db.reqs[a] \in Nat
        BY <4>1, <4>2, FS_CardinalityType
      <4>4. db.reqs[a] <= RequestLimit
        BY <1>1 DEF Funded
      <4> QED BY <4>3, <4>4, LimitAssumption
    <3> QED BY <3>1, <3>2, <3>3
  <2>2. \A m \in Symbol \X Symbol : db.depth[m] \in Nat \X Nat
    BY <1>1, BookAddsUp
  <2>3. \A s \in Core : db.supply[s] \in Nat
    BY <1>1, TotalIsNat DEF Balanced
  <2>4. /\ \A o, p \in db.orders : o.seller = p.seller /\ o.orderid = p.orderid => o = p
        /\ \A c, x \in db.conv : c.owner = x.owner /\ c.id = x.id => c = x
        /\ \A w, x \in db.wd : w.from = x.from /\ w.id = x.id => w = x
        /\ \A e, x \in db.esc : e.from = x.from /\ e.id = x.id => e = x
    BY <1>1 DEF Keyed, OrdersKeyed, ConversionsKeyed, WithdrawalsKeyed, EscrowsKeyed
  <2>5. \A o \in db.orders : o.left > 0
    BY <1>1 DEF Solvent, Sells
  <2>6. ASSUME NEW e \in db.esc PROVE e.steem \in Nat /\ e.sbd \in Nat /\ e.fee \in Nat
    <3>1. e.steem \in Int /\ e.sbd \in Int /\ e.fee \in Int
      BY <1>1 DEF Typed, Ledgers, Escrow
    <3> QED BY <1>1, <3>1 DEF Funded
  <2>7. \A w \in db.wd : w.amount > 0
    BY <1>1 DEF Funded
  <2> QED BY <2>1, <2>2, <2>3, <2>4, <2>5, <2>6, <2>7 DEF TypeOK
<1>3. MarketIsForSale
  <2>1. ASSUME NEW a \in Account, NEW s \in Symbol
        PROVE  db.mkt[a][s] = SumFunction([o \in {o \in db.orders : o.seller = a} |-> Of(s, o.sym, o.left)])
    <3>1. db.mkt[a][s] = SumFunctionOnSet(Held(a, s), db.orders)
      BY <1>1, BookAddsUp
    <3>2. SumFunctionOnSet(Held(a, s), db.orders) =
            SumFunction([o \in {o \in db.orders : o.seller = a} |-> Of(s, o.sym, o.left)])
      BY <1>1, HeldIsPart
    <3> QED BY ONLY <3>1, <3>2
  <2>2. ASSUME NEW m \in Symbol \X Symbol
        PROVE  LET on == {o \in db.orders : <<o.sym, o.want>> = m}
               IN db.depth[m] = <<SumFunction([o \in on |-> o.left]), SumFunction([o \in on |-> AmountToReceive(o)])>>
    <3>1. db.depth[m] = <<SumFunctionOnSet(Offered(m), db.orders), SumFunctionOnSet(Asked(m), db.orders)>>
      BY <1>1, BookAddsUp
    <3>2. SumFunctionOnSet(Offered(m), db.orders) =
            SumFunction([o \in {o \in db.orders : <<o.sym, o.want>> = m} |-> o.left])
      BY <1>1, OfferedIsPart
    <3>3. SumFunctionOnSet(Asked(m), db.orders) =
            SumFunction([o \in {o \in db.orders : <<o.sym, o.want>> = m} |-> AmountToReceive(o)])
      BY <1>1, AskedIsPart
    <3> QED BY ONLY <3>1, <3>2, <3>3
  <2> QED BY ONLY <2>1, <2>2 DEF MarketIsForSale
<1>4. BookNotCrossed
  BY <1>1 DEF BookNotCrossed, Uncrossed, Solvent, Sells
<1> QED BY <1>2, <1>3, <1>4 DEF BookSound

\* The book stays as it is, or the operators on it keep it.
LEMMA BookKeeps ==
  ASSUME NEW d, Booked(d), NEW e, e.mkt = d.mkt, e.depth = d.depth, e.orders = d.orders,
         InBlack(e), Funded(e)
  PROVE  Booked(e)
BY DEF Booked, NoGaps, HeldGap, OfferedGap, AskedGap, Solvent

LEMMA MarketBooked ==
  ASSUME NEW d, Booked(d), NEW e, SameObjects(d, e), SameGaps(d, e), Uncrossed(e.orders), Solvent(e)
  PROVE  Booked(e)
<1>1. NoGaps(e)
  BY DEF Booked, NoGaps, SameGaps
<1>2. Funded(e)
  BY DEF Booked, Funded, SameObjects
<1> QED BY <1>1, <1>2 DEF Booked

LEMMA LimitOrderCreateBooked ==
  ASSUME IInv, Booked(db), NEW x \in OrderOps, LimitOrderCreate(x) PROVE Booked(db')
<1>1. PICK found \in Against(db, NewOrder(db, x)) : db' = Created(db, x, found)
  BY DEF LimitOrderCreate
<1> DEFINE e == Created(db, x, found)
<1>2. /\ Typed(db) /\ OrdersKeyed(db.orders) /\ Uncrossed(db.orders) /\ Solvent(db)
      /\ ~ \E o \in db.orders : o.seller = x.seller /\ o.orderid = x.orderid
      /\ db.bal[x.seller][x.sym] >= x.amount
  BY DEF IInv, Sound, Keyed, Booked, LimitOrderCreate, CanCreate
<1>3. AmountToReceive(NewOrder(db, x)) > 0
  BY DEF LimitOrderCreate, CanCreate, NewOrder, AmountToReceive
<1>4. Solvent(Entered(db, x))
  BY <1>2, <1>3, EnteredSolvent
<1>5. SameGaps(db, e)
  BY <1>2, <1>4, CreatedGaps
<1>6. Uncrossed(e.orders)
  BY <1>2, <1>4, CreatedUncrossed
<1>7. SameObjects(db, e) /\ Solvent(e)
  <2> DEFINE e4 == ApplyOrder(Entered(db, x), NewOrder(db, x), found)
  <2>1. SameObjects(db, e) /\ TradedFrom(Entered(db, x), e4) /\ e.bal = e4.bal /\ e.orders = e4.orders
    BY <1>2, CreatedDoes
  <2> HIDE DEF e, e4
  <2> QED BY <1>4, <2>1 DEF TradedFrom, Solvent, InBlack
<1> HIDE DEF e
<1>8. Booked(e)
  BY <1>5, <1>6, <1>7, MarketBooked
<1> QED BY <1>1, <1>8 DEF e

LEMMA LimitOrderCancelBooked ==
  ASSUME IInv, Booked(db), NEW o \in db.orders, LimitOrderCancel(o) PROVE Booked(db')
<1> DEFINE e == CancelOrder(db, o)
<1>1. db' = e /\ Typed(db) /\ Uncrossed(db.orders) /\ Solvent(db)
  BY DEF LimitOrderCancel, IInv, Sound, Booked
<1>2. SameObjects(db, e) /\ e.orders = db.orders \ {o}
  BY <1>1, CancelOrderDoes
<1>3. o.left \in Int /\ o.left >= 0
  BY <1>1 DEF Typed, Ledgers, LimitOrder, Solvent, Sells
<1>4. SameGaps(db, e) /\ InBlack(e)
  BY <1>1, <1>3, CancelOrderBook DEF Solvent
<1> HIDE DEF e
<1>5. Solvent(e) /\ Uncrossed(e.orders)
  BY <1>1, <1>2, <1>4 DEF Solvent, Uncrossed
<1>6. Booked(e)
  BY <1>2, <1>4, <1>5, MarketBooked
<1> QED BY <1>1, <1>6

LEMMA CancelOrdersBooked ==
  ASSUME NEW d, Typed(d), Booked(d), NEW S \in SUBSET d.orders
  PROVE  Booked(CancelOrders(d, S))
<1> DEFINE e == CancelOrders(d, S)
<1>1. /\ SameObjects(d, e) /\ e.orders = d.orders \ S
      /\ SameGaps(d, e) /\ (Solvent(d) => Solvent(e))
  BY CancelOrdersDoes
<1> HIDE DEF e
<1>2. Uncrossed(e.orders) /\ Solvent(e)
  BY <1>1 DEF Booked, Uncrossed
<1>3. Booked(e)
  BY <1>1, <1>2, MarketBooked
<1> QED BY <1>3 DEF e

LEMMA LimitOrderCancelExBooked ==
  ASSUME IInv, Booked(db), NEW a, NEW base, NEW quote, NEW reverse, LimitOrderCancelEx(a, base, quote, reverse)
  PROVE  Booked(db')
<1>1. OfPair(db, a, base, quote, reverse) \in SUBSET db.orders
  BY DEF OfPair
<1>2. Typed(db)
  BY DEF IInv, Sound
<1> QED BY <1>1, <1>2, CancelOrdersBooked DEF LimitOrderCancelEx

\* What an operation takes from a balance is there.
LEMMA TakenInBlack ==
  ASSUME NEW d, Typed(d), InBlack(d), NEW a \in Account, NEW s \in Symbol, NEW n \in Int, d.bal[a][s] >= n
  PROVE  InBlack(Adjust(d, a, s, -n))
<1>1. d.bal[a][s] \in Int
  BY DEF Typed, Ledgers
<1>2. -n \in Int /\ d.bal[a][s] + (-n) >= 0
  BY <1>1
<1> QED BY <1>2, AdjustInBlack

\* What it adds to one is no debt.
LEMMA GivenInBlack ==
  ASSUME NEW d, Typed(d), InBlack(d), NEW a \in Account, NEW s \in Symbol, NEW n \in Nat
  PROVE  InBlack(Adjust(d, a, s, n))
<1>1. d.bal[a][s] \in Int /\ d.bal[a][s] >= 0
  BY DEF Typed, Ledgers, InBlack
<1> QED BY <1>1, AdjustInBlack

LEMMA ConvertBooked ==
  ASSUME IInv, Booked(db), NEW x \in ConvertOps, Convert(x) PROVE Booked(db')
<1> DEFINE fee == IF x.sym = "STEEM" THEN Percent(x.amount, ConvertFee) ELSE 0
           c == [owner |-> x.owner, id |-> x.id, sym |-> x.sym,
                 amount |-> x.amount, fee |-> fee, date |-> now + ConversionDelay]
           e1 == Adjust(db, x.owner, x.sym, -x.amount)
           e == SetConversions(e1, e1.conv \cup {c})
<1>1. db' = e
  BY DEF Convert, SetConversions
<1>2. x.owner \in Account /\ x.sym \in Symbol /\ x.amount \in Nat
  BY InputAssumption DEF Positive, Symbol
<1>3. 0 <= fee /\ fee <= x.amount
  <2>1. ConvertFee \in Nat /\ ConvertFee <= 10000
    BY ConvertFeeIsRate
  <2>2. 0 <= Percent(x.amount, ConvertFee) /\ Percent(x.amount, ConvertFee) <= x.amount
    BY <1>2, <2>1, PercentBelow
  <2> QED BY <1>2, <2>2
<1> HIDE DEF fee
<1>4. c.fee = fee /\ c.amount = x.amount
  OBVIOUS
<1> HIDE DEF c
<1>5. Typed(db) /\ InBlack(db) /\ db.bal[x.owner][x.sym] >= x.amount /\ -x.amount \in Int
  BY <1>2 DEF IInv, Sound, Booked, Solvent, Convert
<1>6. Typed(e1) /\ SameButBalances(db, e1)
  BY <1>2, <1>5, AdjustDoes
<1>7. InBlack(e1)
  BY <1>2, <1>5, TakenInBlack
<1> HIDE DEF e1
<1>8. /\ e.bal = e1.bal /\ e.mkt = e1.mkt /\ e.depth = e1.depth /\ e.orders = e1.orders
      /\ e.sav = e1.sav /\ e.wd = e1.wd /\ e.esc = e1.esc /\ e.reqs = e1.reqs
      /\ e.conv = e1.conv \cup {c}
  BY <1>6 DEF SetConversions, Typed, Ledgers
<1> HIDE DEF e
<1>9. Funded(e)
  BY <1>3, <1>4, <1>6, <1>8 DEF Booked, Funded, SameButBalances
<1>10. Booked(e)
  BY <1>6, <1>7, <1>8, <1>9, BookKeeps DEF SameButBalances, InBlack
<1> QED BY <1>1, <1>10

LEMMA TransferToSavingsBooked ==
  ASSUME IInv, Booked(db), NEW x \in SavingsOps, TransferToSavings(x) PROVE Booked(db')
<1> DEFINE e1 == Adjust(db, x.from, x.sym, -x.amount)
           e == AdjustSavings(e1, x.to, x.sym, x.amount)
<1>1. db' = e
  BY DEF TransferToSavings, AdjustSavings
<1>2. x.from \in Account /\ x.to \in Account /\ x.sym \in Core /\ x.sym \in Symbol /\ x.amount \in Nat
  BY InputAssumption DEF Positive, Symbol
<1>3. Typed(db) /\ InBlack(db) /\ db.bal[x.from][x.sym] >= x.amount /\ -x.amount \in Int
  BY <1>2 DEF IInv, Sound, Booked, Solvent, TransferToSavings
<1>4. Typed(e1) /\ SameButBalances(db, e1)
  BY <1>2, <1>3, AdjustDoes
<1>5. InBlack(e1)
  BY <1>2, <1>3, TakenInBlack
<1> HIDE DEF e1
<1>6. /\ e.bal = e1.bal /\ e.mkt = e1.mkt /\ e.depth = e1.depth /\ e.orders = e1.orders
      /\ e.conv = e1.conv /\ e.wd = e1.wd /\ e.esc = e1.esc /\ e.reqs = e1.reqs
      /\ e.sav = [e1.sav EXCEPT ![x.to] = [e1.sav[x.to] EXCEPT ![x.sym] = e1.sav[x.to][x.sym] + x.amount]]
  BY <1>4 DEF AdjustSavings, Typed, Ledgers
<1> HIDE DEF e
<1>7. ASSUME NEW a \in Account, NEW s \in Core PROVE e.sav[a][s] >= 0
  <2>1. e1.sav \in [Account -> [Core -> Int]] /\ e1.sav[a][s] >= 0 /\ e1.sav[x.to][x.sym] >= 0
    BY <1>2, <1>4 DEF Typed, Ledgers, Booked, Funded, SameButBalances
  <2>2. e1.sav[a][s] \in Int /\ e1.sav[x.to][x.sym] \in Int
    BY <1>2, <2>1
  <2>3. e.sav[a][s] = e1.sav[a][s] \/ e.sav[a][s] = e1.sav[x.to][x.sym] + x.amount
    BY <1>2, <1>6, <2>1
  <2> QED BY <1>2, <2>1, <2>2, <2>3
<1>8. Funded(e)
  BY <1>4, <1>6, <1>7 DEF Booked, Funded, SameButBalances
<1>9. Booked(e)
  BY <1>4, <1>5, <1>6, <1>8, BookKeeps DEF SameButBalances, InBlack
<1> QED BY <1>1, <1>9

\* What is put into savings or taken from them.
LEMMA SavedInBlack ==
  ASSUME NEW d, Typed(d), \A a \in Account, s \in Core : d.sav[a][s] >= 0,
         NEW a \in Account, NEW s \in Core, NEW n \in Int, d.sav[a][s] + n >= 0
  PROVE  \A b \in Account, t \in Core : AdjustSavings(d, a, s, n).sav[b][t] >= 0
<1> DEFINE e == AdjustSavings(d, a, s, n)
<1>1. d.sav \in [Account -> [Core -> Int]]
  BY DEF Typed, Ledgers
<1>2. e.sav = [d.sav EXCEPT ![a] = [d.sav[a] EXCEPT ![s] = d.sav[a][s] + n]]
  BY <1>1 DEF AdjustSavings, Typed, Ledgers
<1> HIDE DEF e
<1>3. ASSUME NEW b \in Account, NEW t \in Core PROVE e.sav[b][t] >= 0
  <2>1. e.sav[b][t] = d.sav[b][t] \/ e.sav[b][t] = d.sav[a][s] + n
    BY <1>1, <1>2
  <2> QED BY <2>1
<1> QED BY <1>3 DEF e

LEMMA TransferFromSavingsBooked ==
  ASSUME IInv, Booked(db), NEW x \in WithdrawOps, TransferFromSavings(x) PROVE Booked(db')
<1> DEFINE w == [from |-> x.from, to |-> x.to, id |-> x.id, sym |-> x.sym,
                 amount |-> x.amount, complete |-> now + WithdrawTime]
           e1 == AdjustSavings(db, x.from, x.sym, -x.amount)
           e == db'
<1>1. /\ db' = [db EXCEPT !.sav[x.from][x.sym] = @ - x.amount, !.wd = @ \cup {w}, !.reqs[x.from] = @ + 1]
      /\ db.sav[x.from][x.sym] >= x.amount /\ db.reqs[x.from] < RequestLimit
  BY DEF TransferFromSavings
<1>2. x.from \in Account /\ x.sym \in Core /\ x.amount \in Int /\ x.amount > 0 /\ -x.amount \in Int
  BY InputAssumption DEF Positive
<1>3. Typed(db) /\ InBlack(db) /\ Funded(db) /\ w.amount > 0
  BY <1>2 DEF IInv, Sound, Booked, Solvent
<1> HIDE DEF w
<1>4. db.sav[x.from][x.sym] \in Int /\ db.reqs \in [Account -> Int]
  BY <1>2, <1>3 DEF Typed, Ledgers
<1>5. db.sav[x.from][x.sym] + (-x.amount) >= 0 /\ db.sav[x.from][x.sym] - x.amount = db.sav[x.from][x.sym] + (-x.amount)
  BY <1>1, <1>2, <1>4
<1>6. \A b \in Account, t \in Core : e1.sav[b][t] >= 0
  BY <1>2, <1>3, <1>5, SavedInBlack DEF Funded
<1>7. /\ e.bal = db.bal /\ e.mkt = db.mkt /\ e.depth = db.depth /\ e.orders = db.orders
      /\ e.conv = db.conv /\ e.esc = db.esc /\ e.wd = db.wd \cup {w} /\ e.sav = e1.sav
      /\ e.reqs = [db.reqs EXCEPT ![x.from] = db.reqs[x.from] + 1]
  BY <1>1, <1>3, <1>5 DEF AdjustSavings, Typed, Ledgers
<1> HIDE DEF e1, e
<1>8. \A a \in Account : e.reqs[a] <= RequestLimit
  BY <1>1, <1>2, <1>3, <1>4, <1>7, LimitAssumption DEF Funded
<1>9. Funded(e)
  BY <1>3, <1>6, <1>7, <1>8 DEF Funded
<1>10. Booked(e)
  BY <1>3, <1>7, <1>9, BookKeeps DEF InBlack
<1> QED BY <1>10 DEF e

LEMMA CancelTransferFromSavingsBooked ==
  ASSUME IInv, Booked(db), NEW w \in db.wd, CancelTransferFromSavings(w) PROVE Booked(db')
<1> DEFINE e1 == AdjustSavings(db, w.from, w.sym, w.amount)
           e == db'
<1>1. db' = [db EXCEPT !.sav[w.from][w.sym] = @ + w.amount, !.wd = @ \ {w}, !.reqs[w.from] = @ - 1]
  BY DEF CancelTransferFromSavings
<1>2. Typed(db) /\ InBlack(db) /\ Funded(db)
  BY DEF IInv, Sound, Booked, Solvent
<1>3. w.from \in Account /\ w.sym \in Core /\ w.amount \in Int /\ w.amount > 0
  BY <1>2 DEF Typed, Ledgers, Withdrawal, Funded
<1>4. db.sav[w.from][w.sym] \in Int /\ db.sav[w.from][w.sym] >= 0 /\ db.reqs \in [Account -> Int]
  BY <1>2, <1>3 DEF Typed, Ledgers, Funded
<1>5. db.sav[w.from][w.sym] + w.amount >= 0
  BY <1>3, <1>4
<1>6. \A b \in Account, t \in Core : e1.sav[b][t] >= 0
  BY <1>2, <1>3, <1>5, SavedInBlack DEF Funded
<1>7. /\ e.bal = db.bal /\ e.mkt = db.mkt /\ e.depth = db.depth /\ e.orders = db.orders
      /\ e.conv = db.conv /\ e.esc = db.esc /\ e.wd = db.wd \ {w} /\ e.sav = e1.sav
      /\ e.reqs = [db.reqs EXCEPT ![w.from] = db.reqs[w.from] - 1]
  BY <1>1, <1>2 DEF AdjustSavings, Typed, Ledgers
<1> HIDE DEF e1, e
<1>8. \A a \in Account : e.reqs[a] <= RequestLimit
  BY <1>2, <1>3, <1>4, <1>7, LimitAssumption DEF Funded
<1>9. Funded(e)
  BY <1>2, <1>6, <1>7, <1>8 DEF Funded
<1>10. Booked(e)
  BY <1>2, <1>7, <1>9, BookKeeps DEF InBlack
<1> QED BY <1>10 DEF e

\* Escrows are replaced by others that owe nothing.
LEMMA EscrowsBooked ==
  ASSUME NEW d, Typed(d), Booked(d), NEW e1, SameButBalances(d, e1), InBlack(e1),
         NEW e, e.bal = e1.bal, e.mkt = e1.mkt, e.depth = e1.depth, SameButEscrows(e1, e),
         \A x \in e.esc : x.steem >= 0 /\ x.sbd >= 0 /\ x.fee >= 0
  PROVE  Booked(e)
<1>1. Funded(e)
  BY DEF Booked, Funded, SameButBalances, SameButEscrows
<1>2. /\ e.mkt = d.mkt /\ e.depth = d.depth /\ e.orders = d.orders /\ InBlack(e)
  BY DEF SameButBalances, SameButEscrows, InBlack
<1> QED BY <1>1, <1>2, BookKeeps

LEMMA RefundBooked ==
  ASSUME NEW d, Typed(d), Booked(d), NEW e \in d.esc
  PROVE  Booked(Refund(d, e))
<1> DEFINE e1 == Adjust(d, e.from, "STEEM", e.steem)
           e2 == Adjust(e1, e.from, "SBD", e.sbd)
           e3 == Adjust(e2, e.from, e.feesym, e.fee)
           x == Refund(d, e)
<1>1. /\ e.from \in Account /\ e.steem \in Nat /\ e.sbd \in Nat /\ e.fee \in Nat
      /\ e.feesym \in Symbol /\ "STEEM" \in Symbol /\ "SBD" \in Symbol
  BY DEF Typed, Ledgers, Escrow, Symbol, Core, Booked, Funded
<1>2. x = [e3 EXCEPT !.esc = @ \ {e}] /\ InBlack(d)
  BY DEF Refund, Booked, Solvent
<1>3. Typed(e1) /\ SameButBalances(d, e1)
  BY <1>1, AdjustDoes
<1>4. InBlack(e1)
  BY <1>1, <1>2, GivenInBlack
<1> HIDE DEF e1
<1>5. Typed(e2) /\ SameButBalances(e1, e2)
  BY <1>1, <1>3, AdjustDoes
<1>6. InBlack(e2)
  BY <1>1, <1>3, <1>4, GivenInBlack
<1> HIDE DEF e2
<1>7. Typed(e3) /\ SameButBalances(e2, e3)
  BY <1>1, <1>5, AdjustDoes
<1>8. InBlack(e3)
  BY <1>1, <1>5, <1>6, GivenInBlack
<1> HIDE DEF e3
<1>9. SameButBalances(d, e3)
  BY <1>3, <1>5, <1>7 DEF SameButBalances
<1>10. /\ SameButEscrows(e3, x) /\ x.bal = e3.bal /\ x.mkt = e3.mkt /\ x.depth = e3.depth
       /\ x.esc = d.esc \ {e}
  BY <1>2, <1>7, <1>9 DEF SameButEscrows, SameButBalances, Typed, Ledgers
<1> HIDE DEF x
<1>11. \A y \in x.esc : y.steem >= 0 /\ y.sbd >= 0 /\ y.fee >= 0
  BY <1>10 DEF Booked, Funded
<1>12. Booked(x)
  BY <1>8, <1>9, <1>10, <1>11, EscrowsBooked
<1> QED BY <1>12 DEF x

LEMMA EscrowTransferBooked ==
  ASSUME IInv, Booked(db), NEW x \in EscrowOps, EscrowTransfer(x) PROVE Booked(db')
<1> DEFINE n == [from |-> x.from, to |-> x.to, agent |-> x.agent,
                 id |-> x.id, steem |-> x.steem, sbd |-> x.sbd, fee |-> x.fee, feesym |-> x.feesym,
                 deadline |-> x.deadline, expires |-> x.expires,
                 toOk |-> FALSE, agentOk |-> FALSE, disputed |-> FALSE]
           steem == x.steem + Of("STEEM", x.feesym, x.fee)
           sbd == x.sbd + Of("SBD", x.feesym, x.fee)
           e1 == Adjust(db, x.from, "STEEM", -steem)
           e2 == Adjust(e1, x.from, "SBD", -sbd)
           e == db'
<1>1. /\ e = [e2 EXCEPT !.esc = @ \cup {n}]
      /\ db.bal[x.from]["STEEM"] >= steem /\ db.bal[x.from]["SBD"] >= sbd
  BY DEF EscrowTransfer
<1>2. /\ x.from \in Account /\ x.steem \in Nat /\ x.sbd \in Nat /\ x.fee \in Nat /\ x.feesym \in Core
      /\ "STEEM" \in Symbol /\ "SBD" \in Symbol
  BY InputAssumption DEF Symbol, Core
<1>3. steem \in Int /\ sbd \in Int /\ -steem \in Int /\ -sbd \in Int
  <2>1. Of("STEEM", x.feesym, x.fee) \in Int /\ Of("SBD", x.feesym, x.fee) \in Int
    BY <1>2, OfIsInt
  <2> QED BY <1>2, <2>1
<1>4. n.steem >= 0 /\ n.sbd >= 0 /\ n.fee >= 0
  BY <1>2
<1> HIDE DEF n, steem, sbd
<1>5. Typed(db) /\ InBlack(db)
  BY DEF IInv, Sound, Booked, Solvent
<1>6. Typed(e1) /\ SameButBalances(db, e1)
  BY <1>2, <1>3, <1>5, AdjustDoes
<1>7. InBlack(e1)
  BY <1>1, <1>2, <1>3, <1>5, TakenInBlack
<1>8. e1.bal[x.from]["SBD"] >= sbd
  <2>1. e1.bal[x.from]["SBD"] = db.bal[x.from]["SBD"] + Of("SBD", "STEEM", -steem)
    BY <1>2, <1>3, <1>5, AdjustIs
  <2>2. db.bal[x.from]["SBD"] \in Int
    BY <1>2, <1>5 DEF Typed, Ledgers
  <2> QED BY <1>1, <1>3, <2>1, <2>2 DEF Of
<1> HIDE DEF e1
<1>9. Typed(e2) /\ SameButBalances(e1, e2)
  BY <1>2, <1>3, <1>6, AdjustDoes
<1>10. InBlack(e2)
  BY <1>2, <1>3, <1>6, <1>7, <1>8, TakenInBlack
<1> HIDE DEF e2
<1>11. SameButBalances(db, e2)
  BY <1>6, <1>9 DEF SameButBalances
<1>12. /\ SameButEscrows(e2, e) /\ e.bal = e2.bal /\ e.mkt = e2.mkt /\ e.depth = e2.depth
       /\ e.esc = db.esc \cup {n}
  BY <1>1, <1>9, <1>11 DEF SameButEscrows, SameButBalances, Typed, Ledgers
<1> HIDE DEF e
<1>13. \A y \in e.esc : y.steem >= 0 /\ y.sbd >= 0 /\ y.fee >= 0
  BY <1>4, <1>12 DEF Booked, Funded
<1>14. Booked(e)
  BY <1>5, <1>10, <1>11, <1>12, <1>13, EscrowsBooked
<1> QED BY <1>14 DEF e

LEMMA ApproveBooked ==
  ASSUME Typed(db), Booked(db), NEW e \in db.esc, NEW who PROVE Booked(Approve(e, who))
<1> DEFINE ok == [e EXCEPT !.toOk = @ \/ who = e.to, !.agentOk = @ \/ who = e.agent]
           paid == [ok EXCEPT !.fee = 0]
           e1 == Adjust(db, e.agent, e.feesym, e.fee)
           x == Approve(e, who)
<1>1. /\ e \in Escrow /\ e.agent \in Account /\ e.feesym \in Symbol /\ e.fee \in Nat /\ e.steem >= 0 /\ e.sbd >= 0
      /\ InBlack(db)
  BY DEF Typed, Ledgers, Escrow, Symbol, Booked, Funded, Solvent
<1>2. x = IF Approved(ok) THEN [e1 EXCEPT !.esc = (@ \ {e}) \cup {paid}]
          ELSE [db EXCEPT !.esc = (@ \ {e}) \cup {ok}]
  BY DEF Approve
<1>3. /\ ok.steem >= 0 /\ ok.sbd >= 0 /\ ok.fee >= 0
      /\ paid.steem >= 0 /\ paid.sbd >= 0 /\ paid.fee >= 0
  BY <1>1 DEF Escrow
<1> HIDE DEF ok, paid
<1>4. Typed(e1) /\ SameButBalances(db, e1)
  BY <1>1, AdjustDoes
<1>5. InBlack(e1)
  BY <1>1, GivenInBlack
<1> HIDE DEF e1, x
<1>6. CASE ~Approved(ok)
  <2>1. /\ SameButEscrows(db, x) /\ x.bal = db.bal /\ x.mkt = db.mkt /\ x.depth = db.depth
        /\ x.esc = (db.esc \ {e}) \cup {ok}
    BY <1>2, <1>6 DEF SameButEscrows, Typed, Ledgers
  <2>2. \A y \in x.esc : y.steem >= 0 /\ y.sbd >= 0 /\ y.fee >= 0
    BY <1>3, <2>1 DEF Booked, Funded
  <2>3. SameButBalances(db, db)
    BY DEF SameButBalances
  <2>4. Booked(x)
    BY <1>1, <2>1, <2>2, <2>3, EscrowsBooked
  <2> QED BY <2>4 DEF x
<1>7. CASE Approved(ok)
  <2>1. /\ SameButEscrows(e1, x) /\ x.bal = e1.bal /\ x.mkt = e1.mkt /\ x.depth = e1.depth
        /\ x.esc = (db.esc \ {e}) \cup {paid}
    BY <1>2, <1>4, <1>7 DEF SameButEscrows, SameButBalances, Typed, Ledgers
  <2>2. \A y \in x.esc : y.steem >= 0 /\ y.sbd >= 0 /\ y.fee >= 0
    BY <1>3, <2>1 DEF Booked, Funded
  <2>3. Booked(x)
    BY <1>4, <1>5, <2>1, <2>2, EscrowsBooked
  <2> QED BY <2>3 DEF x
<1> QED BY <1>6, <1>7

LEMMA EscrowApproveBooked ==
  ASSUME IInv, Booked(db), NEW e \in db.esc, NEW who, NEW approve, EscrowApprove(e, who, approve)
  PROVE  Booked(db')
<1>1. db' = (IF approve THEN Approve(e, who) ELSE Refund(db, e)) /\ Typed(db)
  BY DEF EscrowApprove, IInv, Sound
<1>2. Booked(Approve(e, who))
  BY <1>1, ApproveBooked
<1>3. Booked(Refund(db, e))
  BY <1>1, RefundBooked
<1> QED BY <1>1, <1>2, <1>3

LEMMA EscrowDisputeBooked ==
  ASSUME IInv, Booked(db), NEW e \in db.esc, EscrowDispute(e) PROVE Booked(db')
<1> DEFINE r == [e EXCEPT !.disputed = TRUE]
           x == db'
<1>1. x = [db EXCEPT !.esc = (@ \ {e}) \cup {r}] /\ Typed(db) /\ InBlack(db)
  BY DEF EscrowDispute, IInv, Sound, Booked, Solvent
<1>2. r.steem >= 0 /\ r.sbd >= 0 /\ r.fee >= 0
  BY <1>1 DEF Typed, Ledgers, Escrow, Booked, Funded
<1> HIDE DEF r, x
<1>3. /\ SameButEscrows(db, x) /\ x.bal = db.bal /\ x.mkt = db.mkt /\ x.depth = db.depth
      /\ x.esc = (db.esc \ {e}) \cup {r}
  BY <1>1 DEF SameButEscrows, Typed, Ledgers
<1>4. \A y \in x.esc : y.steem >= 0 /\ y.sbd >= 0 /\ y.fee >= 0
  BY <1>2, <1>3 DEF Booked, Funded
<1>5. SameButBalances(db, db)
  BY DEF SameButBalances
<1>6. Booked(x)
  BY <1>1, <1>3, <1>4, <1>5, EscrowsBooked
<1> QED BY <1>6 DEF x

\* What is released is a part of what the escrow holds.
LEMMA EscrowReleaseBooked ==
  ASSUME IInv, Booked(db), NEW e \in db.esc, NEW who, NEW receiver \in {e.from, e.to},
         NEW steem \in 0..e.steem, NEW sbd \in 0..e.sbd,
         EscrowRelease(e, who, receiver, steem, sbd)
  PROVE  Booked(db')
<1> DEFINE rest == [e EXCEPT !.steem = @ - steem, !.sbd = @ - sbd]
           e1 == Adjust(db, receiver, "STEEM", steem)
           e2 == Adjust(e1, receiver, "SBD", sbd)
           left == IF rest.steem = 0 /\ rest.sbd = 0 THEN {} ELSE {rest}
           x == db'
<1>1. x = [e2 EXCEPT !.esc = (@ \ {e}) \cup left] /\ Typed(db) /\ InBlack(db)
  BY DEF EscrowRelease, IInv, Sound, Booked, Solvent
<1>2. e \in Escrow /\ e.steem \in Int /\ e.sbd \in Int /\ e.fee >= 0
  BY <1>1 DEF Typed, Ledgers, Escrow, Booked, Funded
<1>3. /\ receiver \in Account /\ steem \in Nat /\ sbd \in Nat /\ steem <= e.steem /\ sbd <= e.sbd
      /\ "STEEM" \in Symbol /\ "SBD" \in Symbol
  BY <1>2 DEF Escrow, Symbol, Core
<1>4. rest.steem >= 0 /\ rest.sbd >= 0 /\ rest.fee >= 0
  <2>1. rest.steem = e.steem - steem /\ rest.sbd = e.sbd - sbd /\ rest.fee = e.fee
    BY <1>2 DEF Escrow
  <2> HIDE DEF rest
  <2> QED BY <1>2, <1>3, <2>1
<1>5. left \subseteq {rest}
  OBVIOUS
<1> HIDE DEF rest, left
<1>6. Typed(e1) /\ SameButBalances(db, e1)
  BY <1>1, <1>3, AdjustDoes
<1>7. InBlack(e1)
  BY <1>1, <1>3, GivenInBlack
<1> HIDE DEF e1
<1>8. Typed(e2) /\ SameButBalances(e1, e2)
  BY <1>3, <1>6, AdjustDoes
<1>9. InBlack(e2)
  BY <1>3, <1>6, <1>7, GivenInBlack
<1> HIDE DEF e2, x
<1>10. SameButBalances(db, e2)
  BY <1>6, <1>8 DEF SameButBalances
<1>11. /\ SameButEscrows(e2, x) /\ x.bal = e2.bal /\ x.mkt = e2.mkt /\ x.depth = e2.depth
       /\ x.esc = (db.esc \ {e}) \cup left
  BY <1>1, <1>8, <1>10 DEF SameButEscrows, SameButBalances, Typed, Ledgers
<1>12. \A y \in x.esc : y.steem >= 0 /\ y.sbd >= 0 /\ y.fee >= 0
  BY <1>4, <1>5, <1>11 DEF Booked, Funded
<1>13. Booked(x)
  BY <1>1, <1>9, <1>10, <1>11, <1>12, EscrowsBooked
<1> QED BY <1>13 DEF x

\* What is paid out of conversions and withdrawals is no debt.
LEMMA QuotientIsNat ==
  ASSUME NEW n \in Nat, NEW c \in Positive
  PROVE  n \div c \in Nat
<1>1. c \in Nat /\ c > 0
  BY DEF Positive
<1> QED BY <1>1

LEMMA WorthIsNat ==
  ASSUME NEW n \in Nat, NEW s, NEW price \in Price
  PROVE  Worth(n, s, price) \in Nat
<1>1. price.sbd \in Positive /\ price.steem \in Positive
  BY DEF Price
<1>2. n * price.steem \in Nat /\ n * price.sbd \in Nat
  BY <1>1 DEF Positive
<1>3. (n * price.steem) \div price.sbd \in Nat /\ (n * price.sbd) \div price.steem \in Nat
  BY <1>1, <1>2, QuotientIsNat
<1> QED BY <1>3 DEF Worth

LEMMA PaysInBlack ==
  ASSUME NEW d, Typed(d), InBlack(d), NEW share,
         \A a \in Account, s \in Symbol : share[a][s] \in Nat,
         NEW e, e.bal = [a \in Account |-> [s \in Symbol |-> d.bal[a][s] + share[a][s]]]
  PROVE  InBlack(e)
<1>1. ASSUME NEW a \in Account, NEW s \in Symbol PROVE e.bal[a][s] >= 0
  <2>1. d.bal[a][s] \in Int /\ d.bal[a][s] >= 0 /\ share[a][s] \in Nat
    BY DEF Typed, Ledgers, InBlack
  <2>2. e.bal[a][s] = d.bal[a][s] + share[a][s]
    OBVIOUS
  <2> QED BY <2>1, <2>2
<1> QED BY <1>1 DEF InBlack

LEMMA ConversionsBooked ==
  ASSUME NEW d, Typed(d), Booked(d), NEW f, f.current \in Price, NEW t
  PROVE  Booked(ProcessConversions(d, f, t))
<1> DEFINE due == {c \in d.conv : c.date <= t}
           issue(c) == Worth(c.amount - c.fee, c.sym, f.current)
           mine(a) == {c \in due : c.owner = a}
           part(a, s) == SumFunction([c \in mine(a) |-> Of(s, Other(c.sym), issue(c))])
           share == [a \in Account |-> [s \in Symbol |-> part(a, s)]]
           bal == [a \in Account |-> [s \in Symbol |-> d.bal[a][s] + share[a][s]]]
           e == ProcessConversions(d, f, t)
<1>1. d \in Ledgers /\ d.conv \subseteq Conversion /\ IsFiniteSet(d.conv) /\ InBlack(d) /\ Funded(d)
  BY DEF Typed, Ledgers, Booked, Solvent
<1>2. /\ e.bal = bal /\ e.conv = d.conv \ due /\ e.mkt = d.mkt /\ e.depth = d.depth /\ e.orders = d.orders
      /\ e.sav = d.sav /\ e.wd = d.wd /\ e.esc = d.esc /\ e.reqs = d.reqs
  BY <1>1 DEF ProcessConversions, Ledgers
<1> HIDE DEF e
<1>3. ASSUME NEW a \in Account, NEW s \in Symbol PROVE share[a][s] \in Nat
  <2> DEFINE T == mine(a)
             g == [c \in T |-> Of(s, Other(c.sym), issue(c))]
  <2>1. IsFiniteSet(T) /\ T \subseteq d.conv
    BY <1>1, FS_Subset
  <2>2. ASSUME NEW c \in T PROVE g[c] \in Nat
    <3>1. c.amount \in Int /\ c.fee \in Int
      BY <1>1, <2>1 DEF Conversion
    <3>2. 0 <= c.fee /\ c.fee <= c.amount
      BY <1>1, <2>1 DEF Funded
    <3>3. c.amount - c.fee \in Nat
      BY <3>1, <3>2
    <3>4. issue(c) \in Nat
      BY <3>3, WorthIsNat
    <3>5. g[c] = Of(s, Other(c.sym), issue(c))
      OBVIOUS
    <3> HIDE DEF issue, g
    <3> QED BY <3>4, <3>5 DEF Of
  <2>3. share[a][s] = SumFunctionOnSet(g, T)
    BY DEF SumFunction
  <2> HIDE DEF T, g, share
  <2> QED BY <2>1, <2>2, <2>3, SumOfNaturals
<1> HIDE DEF share
<1>4. InBlack(e)
  BY <1>1, <1>2, <1>3, PaysInBlack
<1>5. Funded(e)
  BY <1>1, <1>2 DEF Funded
<1>6. Booked(e)
  BY <1>2, <1>4, <1>5, BookKeeps
<1> QED BY <1>6 DEF e

LEMMA WithdrawsBooked ==
  ASSUME NEW d, Typed(d), Booked(d), NEW t
  PROVE  Booked(ProcessSavingsWithdraws(d, t))
<1> DEFINE due == {w \in d.wd : w.complete <= t}
           mine(a) == {w \in due : w.to = a}
           part(a, s) == SumFunction([w \in mine(a) |-> Of(s, w.sym, w.amount)])
           share == [a \in Account |-> [s \in Symbol |-> part(a, s)]]
           bal == [a \in Account |-> [s \in Symbol |-> d.bal[a][s] + share[a][s]]]
           reqs == [a \in Account |-> d.reqs[a] - Cardinality(Mine(due, a))]
           e == ProcessSavingsWithdraws(d, t)
<1>1. d \in Ledgers /\ d.wd \subseteq Withdrawal /\ IsFiniteSet(d.wd) /\ InBlack(d) /\ Funded(d)
  BY DEF Typed, Ledgers, Booked, Solvent
<1>2. /\ e.bal = bal /\ e.reqs = reqs /\ e.wd = d.wd \ due
      /\ e.mkt = d.mkt /\ e.depth = d.depth /\ e.orders = d.orders
      /\ e.sav = d.sav /\ e.conv = d.conv /\ e.esc = d.esc
  BY <1>1 DEF ProcessSavingsWithdraws, Mine, Ledgers
<1> HIDE DEF e
<1>3. ASSUME NEW a \in Account, NEW s \in Symbol PROVE share[a][s] \in Nat
  <2> DEFINE T == mine(a)
             g == [w \in T |-> Of(s, w.sym, w.amount)]
  <2>1. IsFiniteSet(T) /\ T \subseteq d.wd
    BY <1>1, FS_Subset
  <2>2. ASSUME NEW w \in T PROVE g[w] \in Nat
    <3>1. w.amount \in Int /\ w.amount > 0
      BY <1>1, <2>1 DEF Withdrawal, Funded
    <3>2. g[w] = Of(s, w.sym, w.amount)
      OBVIOUS
    <3> HIDE DEF g
    <3> QED BY <3>1, <3>2 DEF Of
  <2>3. share[a][s] = SumFunctionOnSet(g, T)
    BY DEF SumFunction
  <2> HIDE DEF T, g, share
  <2> QED BY <2>1, <2>2, <2>3, SumOfNaturals
<1> HIDE DEF share
<1>4. InBlack(e)
  BY <1>1, <1>2, <1>3, PaysInBlack
<1>5. ASSUME NEW a \in Account PROVE e.reqs[a] <= RequestLimit
  <2>1. IsFiniteSet(Mine(due, a))
    BY <1>1, FS_Subset DEF Mine
  <2>2. Cardinality(Mine(due, a)) \in Nat
    BY <2>1, FS_CardinalityType
  <2>3. d.reqs[a] \in Int /\ d.reqs[a] <= RequestLimit
    BY <1>1 DEF Ledgers, Funded
  <2>4. e.reqs[a] = d.reqs[a] - Cardinality(Mine(due, a))
    BY <1>2
  <2> HIDE DEF due
  <2> QED BY <2>2, <2>3, <2>4, LimitAssumption
<1>6. Funded(e)
  BY <1>1, <1>2, <1>5 DEF Funded
<1>7. Booked(e)
  BY <1>2, <1>4, <1>6, BookKeeps
<1> QED BY <1>7 DEF e

\* The forced conversion takes no more than there is, and leaves something
\* of what is more than nothing, as its rate is below the whole.
LEMMA PartBelow ==
  ASSUME NEW n \in Int, n >= 0
  PROVE  Part(n) \in Int /\ 0 <= Part(n) /\ Part(n) <= n /\ (n > 0 => Part(n) < n)
<1>1. DebtRate \in Nat /\ DebtRate <= 10000 /\ DebtRate < 10000
  <2>1. ASSUME NEW r \in 0..9999 PROVE r \in Nat /\ r <= 10000 /\ r < 10000
    OBVIOUS
  <2> QED BY <2>1, RateAssumption
<1>2. n \in Nat
  OBVIOUS
<1> QED BY <1>1, <1>2, PercentBelow DEF Part

LEMMA InSteemIsNat ==
  ASSUME NEW f, f.current \in Price, NEW n \in Int, n >= 0
  PROVE  InSteem(f, n) \in Nat
<1>1. Part(n) \in Nat
  BY PartBelow
<1> QED BY <1>1, WorthIsNat DEF InSteem

LEMMA SharesAreNats ==
  ASSUME NEW c, Typed(c), Funded(c), NEW f, f.current \in Price, NEW a
  PROVE  ToAgent(c, f, a) \in Nat /\ ToReceiver(c, f, a) \in Nat
<1> DEFINE E == {e \in c.esc : e.agent = a}
           W == {w \in c.wd : w.to = a}
           g == [e \in E |-> InSteem(f, FeeInSbd(e))]
           h == [w \in W |-> Of("SBD", w.sym, InSteem(f, w.amount))]
<1>1. c.esc \subseteq Escrow /\ c.wd \subseteq Withdrawal /\ IsFiniteSet(E) /\ IsFiniteSet(W)
  BY FS_Subset DEF Typed, Ledgers
<1>2. ASSUME NEW e \in E PROVE g[e] \in Nat
  <2>1. e.fee \in Int /\ e.fee >= 0
    BY <1>1 DEF Escrow, Funded
  <2>2. FeeInSbd(e) \in Int /\ FeeInSbd(e) >= 0
    BY <2>1 DEF FeeInSbd, Of
  <2>3. InSteem(f, FeeInSbd(e)) \in Nat
    BY <2>2, InSteemIsNat
  <2> QED BY <2>3
<1>3. ASSUME NEW w \in W PROVE h[w] \in Nat
  <2>1. w.amount \in Int /\ w.amount >= 0
    BY <1>1 DEF Withdrawal, Funded
  <2>2. InSteem(f, w.amount) \in Nat
    BY <2>1, InSteemIsNat
  <2>3. h[w] = Of("SBD", w.sym, InSteem(f, w.amount))
    OBVIOUS
  <2> HIDE DEF h
  <2> QED BY <2>2, <2>3 DEF Of
<1>4. ToAgent(c, f, a) = SumFunctionOnSet(g, E) /\ ToReceiver(c, f, a) = SumFunctionOnSet(h, W)
  BY DEF ToAgent, ToReceiver, SumFunction
<1> HIDE DEF E, W, g, h
<1> QED BY <1>1, <1>2, <1>3, <1>4, SumOfNaturals

LEMMA EscrowAfterOwes ==
  ASSUME NEW f, f.current \in Price, NEW e \in Escrow, e.steem >= 0, e.sbd >= 0, e.fee >= 0
  PROVE  LET r == EscrowAfter(f, e) IN r.steem >= 0 /\ r.sbd >= 0 /\ r.fee >= 0
<1> DEFINE b == e.sbd - Part(e.sbd)
           s == e.steem + InSteem(f, e.sbd)
           n == e.fee - Part(FeeInSbd(e))
           r == EscrowAfter(f, e)
<1>1. /\ e.sbd \in Int /\ e.steem \in Int /\ e.fee \in Int
      /\ FeeInSbd(e) = IF e.feesym = "SBD" THEN e.fee ELSE 0
  BY DEF Escrow, FeeInSbd, Of
<1>2. Part(e.sbd) \in Int /\ Part(e.sbd) <= e.sbd /\ InSteem(f, e.sbd) \in Nat
  BY <1>1, PartBelow, InSteemIsNat
<1>3. Part(FeeInSbd(e)) \in Int /\ Part(FeeInSbd(e)) <= e.fee
  <2>1. FeeInSbd(e) \in Int /\ FeeInSbd(e) >= 0 /\ FeeInSbd(e) <= e.fee
    BY <1>1
  <2>2. Part(FeeInSbd(e)) \in Int /\ Part(FeeInSbd(e)) <= FeeInSbd(e)
    BY <2>1, PartBelow
  <2> QED BY <1>1, <2>1, <2>2
<1>4. b >= 0 /\ s >= 0 /\ n >= 0
  BY <1>1, <1>2, <1>3
<1>5. r = [[[e EXCEPT !.sbd = b] EXCEPT !.steem = s] EXCEPT !.fee = n]
  BY DEF Escrow, EscrowAfter
<1> HIDE DEF b, s, n, r
<1>6. r.sbd = b /\ r.steem = s /\ r.fee = n
  BY <1>5 DEF Escrow
<1> QED BY <1>4, <1>6 DEF r

LEMMA WithdrawalAfterPays ==
  ASSUME NEW w \in Withdrawal, w.amount > 0
  PROVE  WithdrawalAfter(w).amount > 0
<1> DEFINE n == w.amount - Part(w.amount)
           r == WithdrawalAfter(w)
<1>1. w.amount \in Int /\ Part(w.amount) \in Int /\ Part(w.amount) < w.amount
  BY PartBelow DEF Withdrawal
<1>2. n > 0
  BY <1>1
<1>3. r = IF w.sym = "SBD" THEN [w EXCEPT !.amount = n] ELSE w
  BY DEF WithdrawalAfter, Withdrawal
<1> HIDE DEF n, r
<1>4. r.amount = n \/ r.amount = w.amount
  BY <1>3 DEF Withdrawal
<1> QED BY <1>2, <1>4 DEF r

LEMMA AccountsAfterOwe ==
  ASSUME NEW c, Typed(c), InBlack(c), Funded(c), NEW f, f.current \in Price,
         NEW e, e.bal = BalanceAfter(c, f), e.sav = SavingsAfter(c, f)
  PROVE  InBlack(e) /\ \A a \in Account, s \in Core : e.sav[a][s] >= 0
<1>0. /\ c.bal \in [Account -> [Symbol -> Int]] /\ c.sav \in [Account -> [Core -> Int]]
      /\ "SBD" \in Symbol /\ "STEEM" \in Symbol /\ Core = {"STEEM", "SBD"}
  BY DEF Typed, Ledgers, Symbol, Core
<1>1. ASSUME NEW a \in Account
      PROVE  /\ \A s \in Symbol : e.bal[a][s] >= 0
             /\ \A s \in Core : e.sav[a][s] >= 0
  <2> DEFINE b == c.bal[a]["SBD"]
             v == c.sav[a]["SBD"]
             more == c.bal[a]["STEEM"] + InSteem(f, b) + ToAgent(c, f, a) + ToReceiver(c, f, a)
  <2>1. /\ b \in Int /\ v \in Int /\ c.bal[a]["STEEM"] \in Int /\ c.sav[a]["STEEM"] \in Int
        /\ b >= 0 /\ v >= 0 /\ c.bal[a]["STEEM"] >= 0 /\ c.sav[a]["STEEM"] >= 0
    BY <1>0 DEF InBlack, Funded
  <2>2. Part(b) \in Int /\ Part(b) <= b /\ Part(v) \in Int /\ Part(v) <= v
    BY <2>1, PartBelow
  <2>3. InSteem(f, b) \in Nat /\ InSteem(f, v) \in Nat
    BY <2>1, InSteemIsNat
  <2>4. ToAgent(c, f, a) \in Nat /\ ToReceiver(c, f, a) \in Nat
    BY SharesAreNats
  <2>5. e.bal[a] = [[c.bal[a] EXCEPT !["SBD"] = b - Part(b)] EXCEPT !["STEEM"] = more]
    BY <1>0 DEF BalanceAfter
  <2>6. /\ e.sav[a]["SBD"] = v - Part(v)
        /\ e.sav[a]["STEEM"] = c.sav[a]["STEEM"] + InSteem(f, v)
    BY <1>0 DEF SavingsAfter
  <2>7. more >= 0 /\ b - Part(b) >= 0
    BY <2>1, <2>2, <2>3, <2>4
  <2>8. ASSUME NEW s \in Symbol PROVE e.bal[a][s] >= 0
    <3> HIDE DEF more, b
    <3>1. e.bal[a][s] = c.bal[a][s] \/ e.bal[a][s] = more \/ e.bal[a][s] = b - Part(b)
      BY <1>0, <2>5
    <3>2. c.bal[a][s] >= 0
      BY DEF InBlack
    <3> QED BY <2>7, <3>1, <3>2
  <2>9. ASSUME NEW s \in Core PROVE e.sav[a][s] >= 0
    <3>1. v - Part(v) >= 0 /\ c.sav[a]["STEEM"] + InSteem(f, v) >= 0
      BY <2>1, <2>2, <2>3
    <3> HIDE DEF v
    <3> QED BY <1>0, <2>6, <3>1
  <2> QED BY <2>8, <2>9
<1> QED BY <1>1 DEF InBlack

LEMMA DebtBooked ==
  ASSUME NEW d, Typed(d), Booked(d), NEW f, f.current \in Price
  PROVE  Booked(ConvertDebt(d, f))
<1> DEFINE S == {o \in d.orders : o.sym = "SBD"}
           c == CancelOrders(d, S)
           e == ConvertDebt(d, f)
<1>1. S \in SUBSET d.orders /\ e = Converted(c, f)
  BY DEF ConvertDebt
<1> HIDE DEF S
<1>2. Typed(c) /\ Booked(c)
  BY <1>1, CancelOrdersDoes, CancelOrdersBooked
<1> HIDE DEF c, e
<1>3. /\ InBlack(c) /\ Funded(c) /\ c \in Ledgers /\ c.esc \subseteq Escrow /\ c.wd \subseteq Withdrawal
  BY <1>2 DEF Booked, Solvent, Typed, Ledgers
<1>4. /\ e.bal = BalanceAfter(c, f) /\ e.sav = SavingsAfter(c, f)
      /\ e.esc = EscrowsAfter(f, c.esc) /\ e.wd = WithdrawalsAfter(c.wd)
      /\ e.mkt = c.mkt /\ e.orders = c.orders /\ e.depth = c.depth /\ e.reqs = c.reqs /\ e.conv = c.conv
  BY <1>1, <1>3 DEF Converted, BalanceAfter, SavingsAfter, EscrowsAfter, WithdrawalsAfter, Ledgers
<1>5. InBlack(e) /\ \A a \in Account, s \in Core : e.sav[a][s] >= 0
  BY <1>2, <1>3, <1>4, AccountsAfterOwe
<1>6. ASSUME NEW r \in e.esc PROVE r.steem >= 0 /\ r.sbd >= 0 /\ r.fee >= 0
  <2>1. PICK x \in c.esc : r = EscrowAfter(f, x)
    BY <1>4 DEF EscrowsAfter
  <2>2. x \in Escrow /\ x.steem >= 0 /\ x.sbd >= 0 /\ x.fee >= 0
    BY <1>3 DEF Funded
  <2> QED BY <2>1, <2>2, EscrowAfterOwes
<1>7. ASSUME NEW r \in e.wd PROVE r.amount > 0
  <2>1. PICK w \in c.wd : r = WithdrawalAfter(w)
    BY <1>4 DEF WithdrawalsAfter
  <2>2. w \in Withdrawal /\ w.amount > 0
    BY <1>3 DEF Funded
  <2> QED BY <2>1, <2>2, WithdrawalAfterPays
<1>8. Funded(e)
  BY <1>3, <1>4, <1>5, <1>6, <1>7 DEF Funded
<1>9. Booked(e)
  BY <1>2, <1>4, <1>5, <1>8, BookKeeps
<1> QED BY <1>9 DEF e

LEMMA ExpireBooked ==
  ASSUME NEW d, Typed(d), Booked(d), NEW t
  PROVE  Booked(ExpireEscrowRatification(d, t))
<1> DEFINE S == {e \in d.esc : ~Approved(e) /\ e.deadline <= t}
           B == [T \in SUBSET S |-> {x \in Ledgers : Typed(x) /\ Booked(x) /\ x.esc = d.esc \ T}]
<1>1. IsFiniteSet(S) /\ S \subseteq d.esc
  BY FS_Subset DEF Typed
<1>2. ExpireEscrowRatification(d, t) = Refunds!FoldOver(0, d, S)
  BY ExpireIsFold
<1> HIDE DEF S
<1>3. d \in B[{}]
  BY DEF Typed
<1>4. ASSUME NEW T \in SUBSET S, NEW e \in T, NEW x \in B[T \ {e}]
      PROVE  Refund(x, e) \in B[T]
  <2> DEFINE next == Refund(x, e)
  <2>1. T \ {e} \in SUBSET S
    OBVIOUS
  <2>2. Typed(x) /\ Booked(x) /\ x.esc = d.esc \ (T \ {e})
    BY <2>1
  <2>3. e \in x.esc /\ x.esc \ {e} = d.esc \ T
    BY <1>1, <2>2
  <2>4. Typed(next) /\ next.esc = x.esc \ {e}
    BY <2>2, <2>3, RefundDoes
  <2>5. Booked(next)
    BY <2>2, <2>3, RefundBooked
  <2> HIDE DEF next
  <2>6. next \in Ledgers
    BY <2>4 DEF Typed
  <2>7. next \in B[T]
    BY <2>3, <2>4, <2>5, <2>6
  <2> QED BY <2>7 DEF next
<1>5. Refunds!FoldOver(0, d, S) \in B[S]
  <2>1. \A T \in SUBSET S : \A e \in T : \A x \in B[T \ {e}] : RefundStep(0, x, e) \in B[T]
    BY <1>4 DEF RefundStep
  <2> HIDE DEF B
  <2> QED BY <1>1, <1>3, <2>1, FiniteForRefunds, Refunds!FoldOverKeeps
<1> QED BY <1>2, <1>5

LEMMA ApplyBlockBooked ==
  ASSUME IInv, Booked(db), NEW p \in Feeds, ApplyBlock(p) PROVE Booked(db')
<1> DEFINE f == feed'
           t == now'
           d1 == ClearExpiredOrders(db, t)
           d2 == ProcessConversions(d1, f, t)
           d3 == ProcessDebt(d2, d1, f, t)
           d4 == ProcessSavingsWithdraws(d3, t)
           d5 == ExpireEscrowRatification(d4, t)
<1>1. /\ Sound(db) /\ db.supply["STEEM"] > 0
      /\ f = MedianFeed(db, p) /\ db' = d5
  BY DEF IInv, ApplyBlock, Maintained
<1>2. f.current \in Price
  BY <1>1, FeedIsPrice DEF Sound
<1> HIDE DEF f, t
<1>3. Sound(d1) /\ Booked(d1)
  <2>1. ExpiredOrders(db, t) \in SUBSET db.orders /\ Typed(db)
    BY <1>1 DEF ExpiredOrders, Sound
  <2>2. Sound(d1)
    BY <1>1, <2>1, CancelOrdersKeep DEF ClearExpiredOrders
  <2>3. Booked(d1)
    BY <2>1, CancelOrdersBooked DEF ClearExpiredOrders
  <2> QED BY <2>2, <2>3
<1> HIDE DEF d1
<1>4. Sound(d2) /\ Booked(d2)
  <2>1. Sound(d2)
    BY <1>2, <1>3, ConversionsDo
  <2>2. Booked(d2)
    BY <1>2, <1>3, ConversionsBooked DEF Sound
  <2> QED BY <2>1, <2>2
<1> HIDE DEF d2
<1>5. Sound(d3) /\ Booked(d3)
  <2>1. Sound(ConvertDebt(d2, f))
    BY <1>2, <1>4, DebtDoes
  <2>2. Booked(ConvertDebt(d2, f))
    BY <1>2, <1>4, DebtBooked DEF Sound
  <2> QED BY <1>4, <2>1, <2>2 DEF ProcessDebt
<1> HIDE DEF d3
<1>6. Sound(d4) /\ Booked(d4)
  <2>1. Sound(d4)
    BY <1>5, WithdrawsDo
  <2>2. Booked(d4)
    BY <1>5, WithdrawsBooked DEF Sound
  <2> QED BY <2>1, <2>2
<1> HIDE DEF d4
<1>7. Booked(d5)
  BY <1>6, ExpireBooked DEF Sound
<1> QED BY <1>1, <1>7

\* At the start there are no orders, and nothing is on its way.
LEMMA InitBooked == Init => Booked(db)
<1> SUFFICES ASSUME Init PROVE Booked(db)
  OBVIOUS
<1>1. /\ db.bal = Balance /\ db.mkt = [a \in Account |-> [s \in Symbol |-> 0]] /\ db.orders = {}
      /\ db.depth = [m \in Symbol \X Symbol |-> <<0, 0>>]
      /\ db.sav = [a \in Account |-> [s \in Core |-> 0]] /\ db.reqs = [a \in Account |-> 0]
      /\ db.conv = {} /\ db.wd = {} /\ db.esc = {}
  BY DEF Init
<1>2. ASSUME NEW g PROVE SumFunctionOnSet(g, {}) = 0
  BY FS_EmptySet, SumStart
<1>3. NoGaps(db)
  <2>1. ASSUME NEW a \in Account, NEW s \in Symbol PROVE HeldGap(db, a, s) = 0
    <3>1. SumFunctionOnSet(Held(a, s), db.orders) = 0
      BY <1>1, <1>2
    <3>2. db.mkt[a][s] = 0
      BY <1>1
    <3> QED BY <3>1, <3>2 DEF HeldGap
  <2>2. ASSUME NEW m \in Symbol \X Symbol PROVE OfferedGap(db, m) = 0 /\ AskedGap(db, m) = 0
    <3>1. SumFunctionOnSet(Offered(m), db.orders) = 0 /\ SumFunctionOnSet(Asked(m), db.orders) = 0
      BY <1>1, <1>2
    <3>2. db.depth[m] = <<0, 0>>
      BY <1>1
    <3> QED BY <3>1, <3>2 DEF OfferedGap, AskedGap
  <2> QED BY <2>1, <2>2 DEF NoGaps
<1>4. Uncrossed(db.orders)
  BY <1>1 DEF Uncrossed
<1>5. Solvent(db)
  BY <1>1, BalanceAssumption DEF Solvent, InBlack
<1>6. Funded(db)
  BY <1>1, LimitAssumption DEF Funded
<1> QED BY <1>3, <1>4, <1>5, <1>6 DEF Booked

\* The invariant of the book: it rests on that of the supplies, and every
\* step keeps it.
BookInv == IInv /\ Booked(db)

LEMMA NextBooked == BookInv /\ [Next]_vars => BookInv'
<1> SUFFICES ASSUME IInv, Booked(db), [Next]_vars PROVE Booked(db')
  <2>1. IInv /\ [Next]_vars => IInv'
    BY NextKeeps
  <2> QED BY <2>1 DEF BookInv, Booked, NoGaps, HeldGap, OfferedGap, AskedGap, Uncrossed, Solvent, InBlack, Funded
<1>1. CASE \E x \in OrderOps : LimitOrderCreate(x)
  BY <1>1, LimitOrderCreateBooked
<1>2. CASE \E o \in db.orders : LimitOrderCancel(o)
  BY <1>2, LimitOrderCancelBooked
<1>3. CASE \E a \in Account, r \in BOOLEAN : LimitOrderCancelEx(a, "SBD", AnySymbol, r)
  BY <1>3, LimitOrderCancelExBooked
<1>4. CASE \E x \in ConvertOps : Convert(x)
  BY <1>4, ConvertBooked
<1>5. CASE \E x \in SavingsOps : TransferToSavings(x)
  BY <1>5, TransferToSavingsBooked
<1>6. CASE \E x \in WithdrawOps : TransferFromSavings(x)
  BY <1>6, TransferFromSavingsBooked
<1>7. CASE \E w \in db.wd : CancelTransferFromSavings(w)
  BY <1>7, CancelTransferFromSavingsBooked
<1>8. CASE \E x \in EscrowOps : EscrowTransfer(x)
  BY <1>8, EscrowTransferBooked
<1>9. CASE \E e \in db.esc : \E who \in {e.to, e.agent}, yes \in BOOLEAN : EscrowApprove(e, who, yes)
  BY <1>9, EscrowApproveBooked
<1>10. CASE \E e \in db.esc : EscrowDispute(e)
  BY <1>10, EscrowDisputeBooked
<1>11. CASE \E e \in db.esc : \E who \in {e.from, e.to, e.agent}, receiver \in {e.from, e.to},
                steem \in 0..e.steem, sbd \in 0..e.sbd :
              steem + sbd > 0 /\ EscrowRelease(e, who, receiver, steem, sbd)
  BY <1>11, EscrowReleaseBooked
<1>12. CASE \E p \in Feeds : ApplyBlock(p)
  BY <1>12, ApplyBlockBooked
<1>13. CASE UNCHANGED vars
  <2>1. db' = db
    BY <1>13 DEF vars
  <2> QED BY <2>1
<1> QED BY <1>1, <1>2, <1>3, <1>4, <1>5, <1>6, <1>7, <1>8, <1>9, <1>10, <1>11, <1>12, <1>13 DEF Next

-----------------------------------------------------------------------------
(* The price of a trade                                                    *)

\* What a has of s, in its balance and in its open orders.
Has(d, a, s) == d.bal[a][s] + d.mkt[a][s]

LEMMA HasIsInt ==
  ASSUME NEW d, Typed(d), NEW a \in Account, NEW s \in Symbol
  PROVE  Has(d, a, s) \in Int /\ d.bal[a][s] \in Int /\ d.mkt[a][s] \in Int
BY DEF Has, Typed, Ledgers

LEMMA OneMore ==
  ASSUME NEW a \in Nat, NEW b \in Nat, NEW c \in Nat, NEW d \in Nat
  PROVE  (a + 1) * b = a * b + b /\ c * d \in Nat
<1>1. (a + 1) * b = a * b + b
  OBVIOUS
<1>2. c * d \in Nat
  OBVIOUS
<1> QED BY <1>1, <1>2

\* The book pays no more than its price, up to the rounding of one unit (match).
LEMMA TradePrice ==
  ASSUME NEW o \in LimitOrder, NEW p \in LimitOrder, o.left >= 0, p.left >= 0,
         NEW oPays, NEW pPays,
         oPays = IF o.left <= (p.left * p.quote) \div p.base THEN o.left ELSE (p.left * p.quote) \div p.base,
         pPays = IF o.left <= (p.left * p.quote) \div p.base THEN (o.left * p.base) \div p.quote ELSE p.left
  PROVE  (oPays + 1) * p.base > pPays * p.quote
<1> DEFINE v == (p.left * p.quote) \div p.base
           w == (o.left * p.base) \div p.quote
<1>1. /\ o.left \in Nat /\ p.left \in Nat /\ p.base \in Positive /\ p.quote \in Positive
      /\ p.base \in Nat \ {0} /\ p.quote \in Nat \ {0}
  BY DEF LimitOrder, Positive
<1>2. oPays \in Nat /\ pPays \in Nat
  BY ONLY o \in LimitOrder, p \in LimitOrder, o.left >= 0, p.left >= 0, PaysBelow,
          oPays = IF o.left <= (p.left * p.quote) \div p.base THEN o.left ELSE (p.left * p.quote) \div p.base,
          pPays = IF o.left <= (p.left * p.quote) \div p.base THEN (o.left * p.base) \div p.quote ELSE p.left
<1>3. CASE o.left <= v
  <2>1. oPays = o.left /\ pPays = w /\ pPays <= w
    BY <1>2, <1>3
  <2>2. o.left * p.base \in Nat
    BY <1>1
  <2>3. pPays * p.quote <= o.left * p.base
    BY <1>1, <1>2, <2>1, <2>2, QuotientAbove
  <2>4. (o.left + 1) * p.base = o.left * p.base + p.base /\ pPays * p.quote \in Nat
    BY <1>1, <1>2, OneMore
  <2> QED BY <1>1, <2>1, <2>2, <2>3, <2>4
<1>4. CASE ~(o.left <= v)
  <2> DEFINE a == p.left * p.quote
  <2>1. a \in Nat /\ oPays = a \div p.base /\ pPays = p.left
    BY <1>1, <1>4
  <2> HIDE DEF a
  <2>2. a < p.base * (a \div p.base) + p.base
    BY <1>1, <2>1
  <2>3. (oPays + 1) * p.base = p.base * oPays + p.base
    BY <1>1, <1>2
  <2>4. (oPays + 1) * p.base > a
    BY <1>1, <1>2, <2>1, <2>2, <2>3
  <2> QED BY <2>1, <2>4 DEF a
<1> QED BY <1>3, <1>4

\* e is d after o has paid and received: that of o.sym which is not sold may
\* have come back from its market balance.
Traded(d, e, o, pays, receives) ==
    \A a \in Account, s \in Symbol :
        /\ Has(e, a, s) = Has(d, a, s)
             + (IF o.seller = a THEN Of(s, o.want, receives) - Of(s, o.sym, pays) ELSE 0)
        /\ a # o.seller \/ s # o.sym =>
             e.bal[a][s] = d.bal[a][s] + (IF o.seller = a THEN Of(s, o.want, receives) ELSE 0)

\* A cancelled order takes nothing from its seller.
LEMMA CancelOrderHas ==
  ASSUME NEW d, Typed(d), NEW o \in d.orders, NEW a \in Account, NEW s \in Symbol
  PROVE  /\ Has(CancelOrder(d, o), a, s) = Has(d, a, s)
         /\ a # o.seller \/ s # o.sym => CancelOrder(d, o).bal[a][s] = d.bal[a][s]
<1> DEFINE e1 == Adjust(d, o.seller, o.sym, o.left)
           e2 == AdjustMarket(e1, o.seller, o.sym, -o.left)
           e3 == UpdateDepth(e2, o, -o.left, -AmountToReceive(o))
           e == CancelOrder(d, o)
<1>0. /\ o \in LimitOrder /\ o.seller \in Account /\ o.sym \in Symbol /\ o.left \in Int /\ -o.left \in Int
      /\ -AmountToReceive(o) \in Int
  <2>1. o \in LimitOrder
    BY DEF Typed, Ledgers
  <2>2. AmountToReceive(o) \in Int
    BY <2>1, ReceivesIsInt
  <2> QED BY <2>1, <2>2 DEF LimitOrder
<1>1. /\ Typed(e1) /\ SameButBalances(d, e1)
      /\ e1.bal[a][s] = d.bal[a][s] + (IF o.seller = a THEN Of(s, o.sym, o.left) ELSE 0)
  <2>1. Typed(e1) /\ SameButBalances(d, e1)
    BY <1>0, AdjustDoes
  <2>2. e1.bal[a][s] = d.bal[a][s] + (IF o.seller = a THEN Of(s, o.sym, o.left) ELSE 0)
    BY <1>0, AdjustIs
  <2> QED BY <2>1, <2>2
<1>2. e = [e3 EXCEPT !.orders = @ \ {o}]
  BY DEF CancelOrder
<1> HIDE DEF e1
<1>3. /\ Typed(e2) /\ e2.bal = e1.bal
      /\ e2.mkt[a][s] = e1.mkt[a][s] + (IF o.seller = a THEN Of(s, o.sym, -o.left) ELSE 0)
  <2>1. Typed(e2) /\ e2.bal = e1.bal
    BY <1>0, <1>1, AdjustMarketDoes, SMTT(20)
  <2>2. e2.mkt[a][s] = e1.mkt[a][s] + (IF o.seller = a THEN Of(s, o.sym, -o.left) ELSE 0)
    BY <1>0, <1>1, AdjustMarketIs
  <2> QED BY <2>1, <2>2
<1> HIDE DEF e2
<1>4. Typed(e3) /\ e3.bal = e2.bal /\ e3.mkt = e2.mkt
  BY <1>0, <1>3, UpdateDepthDoes
<1> HIDE DEF e3
<1>5. e.bal = e1.bal /\ e.mkt = e2.mkt
  BY <1>2, <1>3, <1>4 DEF Typed, Ledgers
<1> HIDE DEF e
<1>6. d.bal[a][s] \in Int /\ d.mkt[a][s] \in Int /\ e1.mkt = d.mkt
  BY <1>1, HasIsInt DEF SameButBalances
<1>7. Has(e, a, s) = Has(d, a, s) /\ (a # o.seller \/ s # o.sym => e.bal[a][s] = d.bal[a][s])
  BY <1>0, <1>1, <1>3, <1>5, <1>6 DEF Has, Of
<1> QED BY <1>7 DEF e

\* An order that is filled gives its seller what it receives for what it pays.
LEMMA FillOrderHas ==
  ASSUME NEW d, Typed(d), NEW o \in d.orders, NEW pays \in Int, NEW receives \in Int
  PROVE  Traded(d, FillOrder(d, o, pays, receives), o, pays, receives)
<1> DEFINE r == Rest(o, pays)
           e1 == Paid(d, o, pays, receives)
           modified == SetOrders(e1, (e1.orders \ {o}) \cup {r})
           e == FillOrder(d, o, pays, receives)
<1>0. o \in LimitOrder /\ o.seller \in Account /\ o.sym \in Symbol /\ o.want \in Symbol
  BY DEF Typed, Ledgers, LimitOrder
<1>1. r \in LimitOrder /\ r.seller = o.seller /\ r.sym = o.sym
  BY <1>0, RestIs DEF SameOrder
<1>2. /\ Typed(e1) /\ e1.orders = d.orders /\ e1.bal = Adjust(d, o.seller, o.want, receives).bal
      /\ Moved(d, e1, o, -pays, -pays, AmountToReceive(r) - AmountToReceive(o))
  BY PaidIs
<1>3. e = IF pays = o.left THEN SetOrders(e1, e1.orders \ {o})
          ELSE IF AmountToReceive(r) = 0 THEN CancelOrder(modified, r) ELSE modified
  BY FillOrderIs DEF SetOrders
<1> HIDE DEF e1, r, e
<1>4. Traded(d, e1, o, pays, receives)
  <2> SUFFICES ASSUME NEW a \in Account, NEW s \in Symbol
               PROVE  /\ Has(e1, a, s) = Has(d, a, s)
                           + (IF o.seller = a THEN Of(s, o.want, receives) - Of(s, o.sym, pays) ELSE 0)
                      /\ e1.bal[a][s] = d.bal[a][s] + (IF o.seller = a THEN Of(s, o.want, receives) ELSE 0)
    BY DEF Traded
  <2>1. e1.bal[a][s] = d.bal[a][s] + (IF o.seller = a THEN Of(s, o.want, receives) ELSE 0)
    BY <1>0, <1>2, AdjustIs
  <2>2. e1.mkt[a][s] = d.mkt[a][s] + (IF o.seller = a THEN Of(s, o.sym, -pays) ELSE 0)
    BY <1>2 DEF Moved
  <2>3. d.bal[a][s] \in Int /\ d.mkt[a][s] \in Int
    BY HasIsInt
  <2> QED BY <2>1, <2>2, <2>3 DEF Has, Of
<1>5. \A orders : SetOrders(e1, orders).bal = e1.bal /\ SetOrders(e1, orders).mkt = e1.mkt
  BY <1>2 DEF SetOrders, Typed, Ledgers
<1>6. ASSUME e = SetOrders(e1, e1.orders \ {o}) \/ e = modified PROVE Traded(d, e, o, pays, receives)
  <2>1. e.bal = e1.bal /\ e.mkt = e1.mkt
    BY <1>5, <1>6
  <2> QED BY <1>4, <2>1 DEF Traded, Has
<1>7. ASSUME e = CancelOrder(modified, r) PROVE Traded(d, e, o, pays, receives)
  <2>1. Typed(modified) /\ r \in modified.orders
    <3> DEFINE R == (e1.orders \ {o}) \cup {r}
    <3>1. e1.orders \subseteq LimitOrder /\ IsFiniteSet(e1.orders)
      BY <1>2 DEF Typed, Ledgers
    <3>2. IsFiniteSet(e1.orders \ {o})
      BY <3>1, FS_RemoveElement
    <3>3. R \in SUBSET LimitOrder /\ IsFiniteSet(R) /\ r \in R
      BY <1>1, <3>1, <3>2, FS_AddElement
    <3> HIDE DEF R
    <3>4. Typed(SetOrders(e1, R)) /\ SetOrders(e1, R).orders = R
      BY <1>2, <3>3, SetOrdersDoes
    <3> QED BY <3>3, <3>4 DEF R
  <2>2. modified.bal = e1.bal /\ modified.mkt = e1.mkt
    BY <1>5
  <2> HIDE DEF modified
  <2>3. \A a \in Account, s \in Symbol :
          /\ Has(e, a, s) = Has(e1, a, s)
          /\ a # o.seller \/ s # o.sym => e.bal[a][s] = e1.bal[a][s]
    BY <1>1, <1>7, <2>1, <2>2, CancelOrderHas DEF Has
  <2> QED BY <1>4, <2>3 DEF Traded
<1> HIDE DEF modified
<1>8. Traded(d, e, o, pays, receives)
  BY <1>3, <1>6, <1>7
<1> QED BY <1>8 DEF e

\* A fee takes nothing from anybody, and gives nobody STEEM or SBD.
LEMMA PayFeeHas ==
  ASSUME NEW d, Typed(d), NEW s \in Symbol, NEW n \in Nat, NEW a \in Account, NEW t \in Symbol
  PROVE  /\ Has(PayFee(d, s, n), a, t) >= Has(d, a, t)
         /\ t \in Core => PayFee(d, s, n).bal[a][t] = d.bal[a][t]
<1> DEFINE e == PayFee(d, s, n)
<1>1. Has(d, a, t) \in Int /\ d.bal[a][t] \in Int /\ d.mkt[a][t] \in Int
  BY HasIsInt
<1>2. CASE s \in Core
  BY <1>1, <1>2 DEF PayFee
<1>3. CASE s \notin Core
  <2>1. Creator[s] \in Account /\ TradeFee(s, n) \in Int /\ TradeFee(s, n) >= 0
    BY <1>3, CreatorIsAccount, TradeFeeIsInt, TradeFeeBelow
  <2>2. e = Adjust(d, Creator[s], s, TradeFee(s, n))
    BY <1>3 DEF PayFee
  <2> HIDE DEF e
  <2>3. /\ e.bal[a][t] = d.bal[a][t] + (IF Creator[s] = a THEN Of(t, s, TradeFee(s, n)) ELSE 0)
        /\ e.mkt = d.mkt
    <3>1. e.bal[a][t] = d.bal[a][t] + (IF Creator[s] = a THEN Of(t, s, TradeFee(s, n)) ELSE 0)
      BY <2>1, <2>2, AdjustIs
    <3>2. e.mkt = d.mkt
      BY <2>1, <2>2, AdjustDoes DEF SameButBalances
    <3> QED BY <3>1, <3>2
  <2>4. Has(e, a, t) >= Has(d, a, t) /\ (t \in Core => e.bal[a][t] = d.bal[a][t])
    BY <1>1, <1>3, <2>1, <2>3 DEF Has, Of
  <2> QED BY <2>4 DEF e
<1> QED BY <1>2, <1>3

\* Nobody has less of anything, and the balances of STEEM and SBD are the same.
Gained(d, e) ==
    \A a \in Account, s \in Symbol : Has(e, a, s) >= Has(d, a, s) /\ (s \in Core => e.bal[a][s] = d.bal[a][s])

\* What happens to the two of a trade: the fees are paid, then o and p pay and
\* receive, at the price of p (match).
LEMMA MatchTrades ==
  ASSUME NEW d, Typed(d), OrdersKeyed(d.orders), NEW o \in d.orders, NEW p \in d.orders, p # o,
         o.sym = p.want, o.want = p.sym, Solvent(d)
  PROVE  \E fees \in Ledgers, filled \in Ledgers, oPays \in Nat, pPays \in Nat, oGets \in Nat, pGets \in Nat :
           /\ Gained(d, fees)
           /\ Traded(fees, filled, o, oPays, oGets)
           /\ Traded(filled, Match(d, o, p), p, pPays, pGets)
           /\ (oPays + 1) * p.base > pPays * p.quote
           /\ p.want \in Core => pGets = oPays
<1> DEFINE all == o.left <= (p.left * p.quote) \div p.base
           oPays == IF all THEN o.left ELSE (p.left * p.quote) \div p.base
           pPays == IF all THEN (o.left * p.base) \div p.quote ELSE p.left
           fee == PayFee(d, o.want, pPays)
           fees == PayFee(fee, p.want, oPays)
           oGets == pPays - TradeFee(o.want, pPays)
           pGets == oPays - TradeFee(p.want, oPays)
           filled == FillOrder(fees, o, oPays, oGets)
           e == FillOrder(filled, p, pPays, pGets)
<1>0. /\ o \in LimitOrder /\ p \in LimitOrder /\ o.want \in Symbol /\ p.want \in Symbol
      /\ o.left \in Int /\ p.left \in Int
  BY DEF Typed, Ledgers, LimitOrder
<1>1. oPays \in Nat /\ pPays \in Nat /\ (oPays + 1) * p.base > pPays * p.quote
  <2>1. o.left >= 0 /\ p.left >= 0
    BY <1>0 DEF Solvent, Sells
  <2>2. /\ oPays = IF o.left <= (p.left * p.quote) \div p.base THEN o.left ELSE (p.left * p.quote) \div p.base
        /\ pPays = IF o.left <= (p.left * p.quote) \div p.base THEN (o.left * p.base) \div p.quote ELSE p.left
    OBVIOUS
  <2> HIDE DEF all, oPays, pPays
  <2>3. oPays \in Nat /\ pPays \in Nat
    BY ONLY <1>0, <2>1, <2>2, PaysBelow
  <2>4. (oPays + 1) * p.base > pPays * p.quote
    BY ONLY <1>0, <2>1, <2>2, TradePrice
  <2> QED BY <2>3, <2>4
<1>2. Match(d, o, p) = e
  BY DEF Match
<1> HIDE DEF all, oPays, pPays
<1>3. oGets \in Nat /\ pGets \in Nat /\ (p.want \in Core => pGets = oPays)
  <2>1. TradeFee(o.want, pPays) \in Int /\ TradeFee(p.want, oPays) \in Int
    BY <1>0, <1>1, TradeFeeIsInt
  <2>2. TradeFee(o.want, pPays) <= pPays /\ TradeFee(p.want, oPays) <= oPays
    BY <1>0, <1>1, TradeFeeBelow
  <2>3. p.want \in Core => TradeFee(p.want, oPays) = 0
    BY DEF TradeFee
  <2> QED BY <1>1, <2>1, <2>2, <2>3
<1> HIDE DEF oGets, pGets
<1>4. Typed(fee) /\ fee.orders = d.orders /\ Gained(d, fee)
  <2>1. Typed(fee) /\ SameButBalances(d, fee)
    BY <1>0, <1>1, PayFeeDoes
  <2>2. Gained(d, fee)
    BY <1>0, <1>1, PayFeeHas DEF Gained
  <2> QED BY <2>1, <2>2 DEF SameButBalances
<1> HIDE DEF fee
<1>5. Typed(fees) /\ fees.orders = d.orders /\ Gained(fee, fees)
  <2>1. Typed(fees) /\ SameButBalances(fee, fees)
    BY <1>0, <1>1, <1>4, PayFeeDoes
  <2>2. Gained(fee, fees)
    BY <1>0, <1>1, <1>4, PayFeeHas DEF Gained
  <2> QED BY <1>4, <2>1, <2>2 DEF SameButBalances
<1> HIDE DEF fees
<1>6. Gained(d, fees)
  <2> SUFFICES ASSUME NEW a \in Account, NEW s \in Symbol
               PROVE  Has(fees, a, s) >= Has(d, a, s) /\ (s \in Core => fees.bal[a][s] = d.bal[a][s])
    BY DEF Gained
  <2>1. Has(d, a, s) \in Int /\ Has(fee, a, s) \in Int /\ Has(fees, a, s) \in Int
    BY <1>4, <1>5, HasIsInt
  <2>2. Has(fees, a, s) >= Has(fee, a, s) /\ Has(fee, a, s) >= Has(d, a, s)
    BY <1>4, <1>5 DEF Gained
  <2>3. s \in Core => fees.bal[a][s] = d.bal[a][s]
    BY <1>4, <1>5 DEF Gained
  <2> QED BY <2>1, <2>2, <2>3
<1>7. o \in fees.orders /\ OrdersKeyed(fees.orders) /\ oPays \in Int /\ oGets \in Int /\ pPays \in Int /\ pGets \in Int
  BY <1>1, <1>3, <1>5
<1>8. /\ Typed(filled) /\ d.orders \ {o} \subseteq filled.orders
      /\ Traded(fees, filled, o, oPays, oGets)
  BY <1>5, <1>7, FillOrderDoes, FillOrderHas
<1> HIDE DEF filled
<1>9. Traded(filled, e, p, pPays, pGets)
  BY <1>7, <1>8, FillOrderHas
<1> HIDE DEF e
<1>10. fees \in Ledgers /\ filled \in Ledgers
  BY <1>5, <1>8 DEF Typed
<1>11. Traded(filled, Match(d, o, p), p, pPays, pGets)
  BY <1>2, <1>9
<1> QED BY <1>1, <1>3, <1>6, <1>8, <1>10, <1>11

\* The trades of others take nothing from the seller of m.
Untouched(d, e, m) ==
    /\ e.bal[m.seller][m.want] = d.bal[m.seller][m.want]
    /\ Has(e, m.seller, m.sym) >= Has(d, m.seller, m.sym)

\* What the seller of m has paid is worth no more, at its price, than what it
\* has received, but for one unit.
AtPrice(d, e, m) ==
    (e.bal[m.seller][m.want] - d.bal[m.seller][m.want] + 1) * m.base
      > (Has(d, m.seller, m.sym) - Has(e, m.seller, m.sym)) * m.quote

LEMMA MatchOfOthers ==
  ASSUME NEW d, Typed(d), OrdersKeyed(d.orders), NEW o \in d.orders, NEW p \in d.orders, p # o,
         o.sym = p.want, o.want = p.sym, Solvent(d), Typed(Match(d, o, p)),
         NEW m \in LimitOrder, m.want \in Core, m.seller # o.seller, m.seller # p.seller
  PROVE  Untouched(d, Match(d, o, p), m)
<1> DEFINE a == m.seller
           e == Match(d, o, p)
<1>1. a \in Account /\ m.sym \in Symbol /\ m.want \in Symbol
  BY DEF LimitOrder
<1>2. PICK fees \in Ledgers, filled \in Ledgers, oPays \in Nat, pPays \in Nat, oGets \in Nat, pGets \in Nat :
        /\ Gained(d, fees)
        /\ Traded(fees, filled, o, oPays, oGets)
        /\ Traded(filled, e, p, pPays, pGets)
  BY MatchTrades
<1> HIDE DEF e
<1>3. ASSUME NEW s \in Symbol
      PROVE  /\ Has(d, a, s) \in Int /\ d.bal[a][s] \in Int
             /\ Has(fees, a, s) \in Int /\ fees.bal[a][s] \in Int
  BY <1>1, <1>3, HasIsInt DEF Has, Ledgers
<1>4. ASSUME NEW s \in Symbol PROVE Has(filled, a, s) = Has(fees, a, s) /\ filled.bal[a][s] = fees.bal[a][s]
  BY <1>1, <1>2, <1>3 DEF Traded
<1>5. ASSUME NEW s \in Symbol PROVE Has(e, a, s) = Has(fees, a, s) /\ e.bal[a][s] = fees.bal[a][s]
  BY <1>1, <1>2, <1>3, <1>4 DEF Traded
<1>6. Untouched(d, e, m)
  BY <1>1, <1>2, <1>5 DEF Gained, Untouched
<1> QED BY <1>6 DEF e

\* The order of the book that is matched gets its price.
LEMMA MatchOfMaker ==
  ASSUME NEW d, Typed(d), OrdersKeyed(d.orders), NEW o \in d.orders, NEW p \in d.orders, p # o,
         o.sym = p.want, o.want = p.sym, Solvent(d), p.want \in Core, p.sym # p.want, p.seller # o.seller
  PROVE  \E y \in Nat, g \in Nat :
           /\ Match(d, o, p).bal[p.seller][p.want] = d.bal[p.seller][p.want] + g
           /\ Has(Match(d, o, p), p.seller, p.sym) >= Has(d, p.seller, p.sym) - y
           /\ (g + 1) * p.base > y * p.quote
<1> DEFINE a == p.seller
           e == Match(d, o, p)
<1>1. a \in Account /\ p.sym \in Symbol /\ p.want \in Symbol
  BY DEF Typed, Ledgers, LimitOrder
<1>2. PICK fees \in Ledgers, filled \in Ledgers, oPays \in Nat, pPays \in Nat, oGets \in Nat, pGets \in Nat :
        /\ Gained(d, fees)
        /\ Traded(fees, filled, o, oPays, oGets)
        /\ Traded(filled, e, p, pPays, pGets)
        /\ (oPays + 1) * p.base > pPays * p.quote
        /\ p.want \in Core => pGets = oPays
  BY MatchTrades
<1> HIDE DEF e
<1>3. ASSUME NEW s \in Symbol
      PROVE  /\ Has(d, a, s) \in Int /\ d.bal[a][s] \in Int
             /\ Has(fees, a, s) \in Int /\ fees.bal[a][s] \in Int
  BY <1>1, <1>3, HasIsInt DEF Has, Ledgers
<1>4. ASSUME NEW s \in Symbol PROVE Has(filled, a, s) = Has(fees, a, s) /\ filled.bal[a][s] = fees.bal[a][s]
  BY <1>1, <1>2, <1>3 DEF Traded
<1>5. e.bal[a][p.want] = d.bal[a][p.want] + oPays
  <2>1. e.bal[a][p.want] = filled.bal[a][p.want] + Of(p.want, p.want, pGets)
    BY <1>1, <1>2 DEF Traded
  <2> QED BY <1>1, <1>2, <1>4, <2>1 DEF Gained, Of
<1>6. Has(e, a, p.sym) >= Has(d, a, p.sym) - pPays
  <2>1. Has(e, a, p.sym) = Has(filled, a, p.sym) + (Of(p.sym, p.want, pGets) - Of(p.sym, p.sym, pPays))
    BY <1>1, <1>2 DEF Traded
  <2>2. Has(fees, a, p.sym) >= Has(d, a, p.sym)
    BY <1>1, <1>2 DEF Gained
  <2> QED BY <1>1, <1>3, <1>4, <2>1, <2>2 DEF Of
<1> QED BY <1>2, <1>5, <1>6 DEF e

LEMMA ProductGrows == ASSUME NEW a \in Int, NEW b \in Int, a <= b, NEW q \in Nat PROVE a * q <= b * q
<1>1. b - a \in Nat
  OBVIOUS
<1>2. (b - a) * q >= 0
  BY <1>1
<1>3. (b - a) * q = b * q - a * q /\ a * q \in Int /\ b * q \in Int
  OBVIOUS
<1> QED BY <1>2, <1>3

\* The price stands while others trade.
LEMMA PriceStands ==
  ASSUME NEW d, Typed(d), NEW e, Typed(e), NEW f, Typed(f), NEW m \in LimitOrder,
         AtPrice(d, e, m), Untouched(e, f, m)
  PROVE  AtPrice(d, f, m)
<1> DEFINE b == (e.bal[m.seller][m.want] - d.bal[m.seller][m.want] + 1) * m.base
           x == Has(d, m.seller, m.sym) - Has(e, m.seller, m.sym)
           y == Has(d, m.seller, m.sym) - Has(f, m.seller, m.sym)
<1>1. m.seller \in Account /\ m.sym \in Symbol /\ m.want \in Symbol /\ m.base \in Nat /\ m.quote \in Nat
  BY DEF LimitOrder, Positive
<1>2. /\ Has(d, m.seller, m.sym) \in Int /\ Has(e, m.seller, m.sym) \in Int /\ Has(f, m.seller, m.sym) \in Int
      /\ e.bal[m.seller][m.want] \in Int /\ d.bal[m.seller][m.want] \in Int
  BY <1>1, HasIsInt
<1>3. b \in Int
  BY <1>1, <1>2
<1>4. x \in Int /\ y \in Int /\ y <= x
  BY <1>2 DEF Untouched
<1>5. b > x * m.quote
  BY DEF AtPrice
<1>6. b > y * m.quote
  <2> HIDE DEF b, x, y
  <2>1. y * m.quote <= x * m.quote
    BY <1>1, <1>4, ProductGrows
  <2>2. y * m.quote \in Int /\ x * m.quote \in Int
    BY <1>1, <1>4
  <2> QED BY <1>3, <1>5, <2>1, <2>2
<1> QED BY <1>6 DEF AtPrice, Untouched

\* The new order meets the orders that were found: the seller of m gets its
\* price, whichever of them come before and after m.
LEMMA ApplyOrderPrice ==
  ASSUME NEW d, Typed(d), OrdersKeyed(d.orders), Solvent(d), NEW o \in d.orders,
         NEW S \in SUBSET (d.orders \ {o}), \A p \in S : o.sym = p.want /\ o.want = p.sym,
         NEW found \in Seq(S), \A i, j \in 1..Len(found) : i # j => found[i] # found[j],
         NEW m \in d.orders, m.want \in Core, o.sym # o.want, m.seller # o.seller,
         \A p \in d.orders : p.seller = m.seller => p = m
  PROVE  AtPrice(d, ApplyOrder(d, o, found), m)
<1> DEFINE n == Len(found)
           Before(e, k) == (\A j \in 1..k : found[j] # m) => Untouched(d, e, m)
           B == [k \in 0..n |-> {e \in Ledgers : Applied(d, e, o, found, k) /\ AtPrice(d, e, m) /\ Before(e, k)}]
<1>1. /\ n \in Nat /\ \A j \in 1..n : found[j] \in S
      /\ m \in LimitOrder /\ m.seller \in Account /\ m.sym \in Symbol /\ m.want \in Symbol
      /\ m.base \in Nat /\ m.base > 0 /\ m.quote \in Nat
  <2>1. n \in Nat /\ \A j \in 1..n : found[j] \in S
    OBVIOUS
  <2>2. m \in LimitOrder
    BY DEF Typed, Ledgers
  <2>3. /\ m.seller \in Account /\ m.sym \in Symbol /\ m.want \in Symbol
        /\ m.base \in Nat /\ m.base > 0 /\ m.quote \in Nat
    BY <2>2 DEF LimitOrder, Positive
  <2> QED BY <2>1, <2>2, <2>3
<1>2. d \in B[0]
  <2>1. Applied(d, d, o, found, 0)
    <3>1. TradedFrom(d, d)
      BY GapOfSame DEF TradedFrom, SameObjects, Descend, SameOrder
    <3>2. UsedUp(d, o, found, 0)
      BY DEF UsedUp
    <3> QED BY <1>1, <3>1, <3>2 DEF Applied, Typed
  <2>2. Has(d, m.seller, m.sym) \in Int /\ d.bal[m.seller][m.want] \in Int
    BY <1>1, HasIsInt
  <2>3. Untouched(d, d, m)
    BY <2>2 DEF Untouched
  <2>4. AtPrice(d, d, m)
    BY <1>1, <2>2 DEF AtPrice
  <2> QED BY <1>1, <2>1, <2>3, <2>4 DEF Applied
<1>3. ASSUME NEW k \in 1..n, NEW e \in B[k - 1] PROVE MatchNext(o, e, found[k]) \in B[k]
  <2> DEFINE p == found[k]
             next == MatchNext(o, e, p)
  <2>1. /\ Applied(d, e, o, found, k - 1) /\ AtPrice(d, e, m) /\ Before(e, k - 1)
        /\ k \in 0..n /\ k - 1 \in 0..n /\ p \in S
    BY <1>1
  <2>2. /\ Applied(d, next, o, found, k)
        /\ \/ next = e
           \/ \E x \in e.orders : SameOrder(o, x) /\ x # p /\ next = Match(e, x, p)
    <3>1. Applied(d, e, o, found, k - 1)
      BY <2>1
    <3>2. /\ Typed(d) /\ OrdersKeyed(d.orders) /\ o \in d.orders
          /\ S \in SUBSET (d.orders \ {o}) /\ \A q \in S : o.sym = q.want /\ o.want = q.sym
          /\ found \in Seq(S) /\ \A i, j \in 1..Len(found) : i # j => found[i] # found[j]
          /\ k \in 1..Len(found)
      OBVIOUS
    <3>3. Applied(d, next, o, found, k)
      BY ONLY <3>1, <3>2, MatchNextDoes, SMTT(20)
    <3>4. next = e \/ \E x \in e.orders : SameOrder(o, x) /\ x # p /\ next = Match(e, x, p)
      BY ONLY <3>1, <3>2, MatchNextDoes, SMTT(20)
    <3> QED BY <3>3, <3>4
  <2>3. /\ Typed(e) /\ OrdersKeyed(e.orders) /\ Solvent(e) /\ p \in e.orders
        /\ Typed(next) /\ next \in Ledgers
    BY <1>1, <2>1, <2>2 DEF Applied, TradedFrom
  <2> HIDE DEF next
  <2>4. AtPrice(d, next, m) /\ Before(next, k)
    <3>1. CASE next = e
      <4>1. Before(e, k)
        BY <1>1, <2>1
      <4> QED BY <2>1, <3>1, <4>1
    <3>2. CASE \E x \in e.orders : SameOrder(o, x) /\ x # p /\ next = Match(e, x, p)
      <4>1. PICK x \in e.orders : SameOrder(o, x) /\ x # p /\ next = Match(e, x, p)
        BY <3>2
      <4>2. x.sym = p.want /\ x.want = p.sym /\ x.seller # m.seller /\ p.sym # p.want
        BY <2>1, <4>1 DEF SameOrder
      <4>3. CASE p = m
        <5>1. Untouched(d, e, m)
          BY <1>1, <2>1, <4>3
        <5>2. PICK y \in Nat, g \in Nat : /\ next.bal[m.seller][m.want] = e.bal[m.seller][m.want] + g
                                          /\ Has(next, m.seller, m.sym) >= Has(e, m.seller, m.sym) - y
                                          /\ (g + 1) * m.base > y * m.quote
          BY <2>3, <4>1, <4>2, <4>3, MatchOfMaker
        <5>3. AtPrice(d, next, m)
          <6> DEFINE c == (g + 1) * m.base
                     paid == Has(d, m.seller, m.sym) - Has(next, m.seller, m.sym)
          <6>1. /\ Has(d, m.seller, m.sym) \in Int /\ Has(e, m.seller, m.sym) \in Int
                /\ Has(next, m.seller, m.sym) \in Int /\ d.bal[m.seller][m.want] \in Int
            BY <1>1, <2>3, HasIsInt
          <6>2. paid \in Int /\ paid <= y
            <7>1. Has(e, m.seller, m.sym) >= Has(d, m.seller, m.sym)
              BY <5>1 DEF Untouched
            <7>2. Has(next, m.seller, m.sym) >= Has(e, m.seller, m.sym) - y
              BY <5>2
            <7> QED BY <6>1, <7>1, <7>2
          <6>3. next.bal[m.seller][m.want] - d.bal[m.seller][m.want] + 1 = g + 1
            <7>1. e.bal[m.seller][m.want] = d.bal[m.seller][m.want]
              BY <5>1 DEF Untouched
            <7>2. next.bal[m.seller][m.want] = e.bal[m.seller][m.want] + g
              BY <5>2
            <7> DEFINE here == next.bal[m.seller][m.want]
                       start == d.bal[m.seller][m.want]
            <7>3. start \in Int /\ here = start + g
              BY ONLY <6>1, <7>1, <7>2
            <7> HIDE DEF here, start
            <7>4. here - start + 1 = g + 1
              BY <7>3
            <7> QED BY <7>4 DEF here, start
          <6>4. c > paid * m.quote
            <7>1. c \in Int /\ y * m.quote \in Int /\ c > y * m.quote
              <8>1. m.base \in Nat /\ m.quote \in Nat
                BY <1>1
              <8>2. c > y * m.quote
                BY <5>2
              <8>3. c \in Int /\ y * m.quote \in Int
                BY <8>1
              <8> QED BY <8>2, <8>3
            <7> HIDE DEF c, paid
            <7>2. paid * m.quote <= y * m.quote /\ paid * m.quote \in Int
              BY <1>1, <6>2, ProductGrows
            <7> QED BY <7>1, <7>2
          <6> QED BY <6>3, <6>4 DEF AtPrice
        <5>4. ~ \A j \in 1..k : found[j] # m
          BY <1>1, <4>3
        <5> QED BY <5>3, <5>4
      <4>4. CASE p # m
        <5>1. p.seller # m.seller
          BY <2>1, <4>4
        <5>2. Untouched(e, next, m)
          BY <1>1, <2>3, <4>1, <4>2, <5>1, MatchOfOthers
        <5>3. AtPrice(d, next, m)
          BY <1>1, <2>1, <2>3, <5>2, PriceStands
        <5>4. ASSUME \A j \in 1..k : found[j] # m PROVE Untouched(d, next, m)
          <6>1. Untouched(d, e, m)
            BY <1>1, <2>1, <5>4
          <6>2. /\ Has(d, m.seller, m.sym) \in Int /\ Has(e, m.seller, m.sym) \in Int
                /\ Has(next, m.seller, m.sym) \in Int
            BY <1>1, <2>3, HasIsInt
          <6> QED BY <5>2, <6>1, <6>2 DEF Untouched
        <5> QED BY <5>3, <5>4
      <4> QED BY <4>3, <4>4
    <3> QED BY <2>2, <3>1, <3>2
  <2>5. next \in B[k]
    BY <2>1, <2>2, <2>3, <2>4
  <2> QED BY <2>5 DEF next
<1>4. Matches!Fold(o, d, found) \in B[n]
  <2> HIDE DEF B
  <2> QED BY <1>2, <1>3, Matches!FoldAlong
<1> QED BY <1>1, <1>4, ApplyOrderIsFold

\* A new order of x, when o is the only one of its seller.
LEMMA CreatedPrice ==
  ASSUME BookInv, NEW x \in OrderOps, LimitOrderCreate(x), NEW o \in db.orders, o.want \in Core,
         x.seller # o.seller, \A p \in db.orders : p.seller = o.seller => p = o
  PROVE  AtPrice(db, db', o)
<1>1. PICK found \in Against(db, NewOrder(db, x)) : db' = Created(db, x, found)
  BY DEF LimitOrderCreate
<1> DEFINE n == NewOrder(db, x)
           S == {p \in db.orders : Crosses(n, p)}
           e3 == Entered(db, x)
           e4 == ApplyOrder(e3, n, found)
           e == Created(db, x, found)
<1>2. /\ Typed(db) /\ OrdersKeyed(db.orders) /\ Solvent(db)
      /\ ~ \E p \in db.orders : p.seller = x.seller /\ p.orderid = x.orderid
      /\ db.bal[x.seller][x.sym] >= x.amount
  BY DEF BookInv, IInv, Sound, Keyed, Booked, LimitOrderCreate, CanCreate
<1>3. AmountToReceive(n) > 0
  BY DEF LimitOrderCreate, CanCreate, NewOrder, AmountToReceive
<1>4. Solvent(e3) /\ Typed(e3) /\ e3.orders = db.orders \cup {n}
  BY <1>2, <1>3, EnteredSolvent, EnteredIs
<1>5. OrdersKeyed(e3.orders) /\ e.bal = e4.bal /\ e.mkt = e4.mkt
  BY <1>2, CreatedDoes
<1>6. /\ n.seller = x.seller /\ n.sym # n.want /\ \A p \in db.orders : p.id # n.id
  BY <1>2, NewOrderIs, InputAssumption
<1>7. found \in Seq(S) /\ \A i, j \in 1..Len(found) : i # j => found[i] # found[j]
  <2>1. found \in BestFirst(S)
    BY DEF Against
  <2>2. IsFiniteSet(S)
    BY <1>2, FS_Subset DEF Typed
  <2> HIDE DEF S
  <2> QED BY <2>1, <2>2, FoundAre
<1>8. S \in SUBSET (e3.orders \ {n}) /\ \A p \in S : n.sym = p.want /\ n.want = p.sym
  BY <1>4, <1>6 DEF Crosses
<1>9. AtPrice(e3, e4, o)
  <2>1. o \in e3.orders /\ n \in e3.orders /\ o.seller # n.seller /\ \A p \in e3.orders : p.seller = o.seller => p = o
    BY <1>4, <1>6
  <2> HIDE DEF n, S, e3
  <2> QED BY <1>4, <1>5, <1>6, <1>7, <1>8, <2>1, ApplyOrderPrice
<1>10. ASSUME NEW s \in Symbol
       PROVE  e3.bal[o.seller][s] = db.bal[o.seller][s] /\ e3.mkt[o.seller][s] = db.mkt[o.seller][s]
  <2>1. /\ o.seller \in Account /\ db.bal[o.seller][s] \in Int /\ db.mkt[o.seller][s] \in Int
        /\ x.seller \in Account /\ x.sym \in Symbol /\ -x.amount \in Int
    <3>1. o.seller \in Account
      BY <1>2 DEF Typed, Ledgers, LimitOrder
    <3>2. x.seller \in Account /\ x.sym \in Symbol /\ x.amount \in Int
      BY InputAssumption DEF Positive
    <3> QED BY <1>2, <3>1, <3>2, HasIsInt
  <2>2. e3.bal[o.seller][s] = db.bal[o.seller][s]
    BY <1>2, <2>1, EnteredIs, AdjustIs
  <2>3. e3.mkt[o.seller][s] = db.mkt[o.seller][s]
    BY <1>2, <2>1, EnteredIs
  <2> QED BY <2>2, <2>3
<1> HIDE DEF e3, e4, e
<1>11. AtPrice(db, e, o)
  <2>1. o.sym \in Symbol /\ o.want \in Symbol
    BY <1>2 DEF Typed, Ledgers, LimitOrder
  <2> QED BY <1>5, <1>9, <1>10, <2>1 DEF AtPrice, Has
<1> QED BY <1>1, <1>11 DEF e

-----------------------------------------------------------------------------
(* Theorems                                                                *)

\* The ledger is sound and on time in every state (validate_invariants, and
\* what the steps of _apply_block owe).
THEOREM InductiveInvariant == Spec => []IInv
BY InitKeeps, NextKeeps, PTL DEF Spec

\* Whatever is ordered, matched, converted, saved, put in escrow, released,
\* refunded or expires, the supplies of STEEM and SBD are what all the places
\* that hold them add up to (database::validate_invariants).
THEOREM SuppliesAddUp == Spec => []ValidateInvariants
BY InductiveInvariant, IInvImplies, PTL

\* The counter of withdrawals is exact, and no order, conversion, withdrawal
\* or unratified escrow outlives the block of its time.
THEOREM Served == Spec => []RequestsServed
BY InductiveInvariant, IInvImplies, PTL

\* The book is right in every state: no balance, saving, depth or supply is
\* negative, no account waits for more withdrawals than the limit, market
\* balances and depths are what the orders add up to, and no two orders could
\* trade (fill_order, cancel_order, apply_order, update_pair_depth).
THEOREM BookStaysSound == Spec => []BookSound
<1>1. Init => BookInv
  BY InitKeeps, InitBooked DEF BookInv
<1>2. BookInv /\ [Next]_vars => BookInv'
  BY NextBooked
<1>3. BookInv => BookSound
  BY BookedImplies DEF BookInv
<1> QED BY <1>1, <1>2, <1>3, PTL DEF Spec

\* A seller whose only order trades with the orders of others gets its price,
\* but for one unit, whichever orders it meets and whatever dust and fees there
\* are (match, fill_order, pay_fee).
THEOREM MakerPaid == Spec => MakerGetsPrice
<1>1. Init => BookInv
  BY InitKeeps, InitBooked DEF BookInv
<1>2. BookInv /\ [Next]_vars => BookInv'
  BY NextBooked
<1>3. BookInv /\ [Next]_vars =>
        [\A o \in db.orders :
            /\ now' = now /\ o \notin db'.orders /\ o.want \in Core
            /\ \E x \in OrderOps : x.seller # o.seller /\ LimitOrderCreate(x)
            /\ {p \in db.orders : p.seller = o.seller} = {o}
            => LET received == db'.bal[o.seller][o.want] - db.bal[o.seller][o.want]
                   paid == (db.bal[o.seller][o.sym] + db.mkt[o.seller][o.sym])
                           - (db'.bal[o.seller][o.sym] + db'.mkt[o.seller][o.sym])
               IN (received + 1) * o.base > paid * o.quote]_vars
  <2> SUFFICES ASSUME BookInv, NEW o \in db.orders, o.want \in Core,
                      NEW x \in OrderOps, x.seller # o.seller, LimitOrderCreate(x),
                      {p \in db.orders : p.seller = o.seller} = {o}
               PROVE  AtPrice(db, db', o)
    BY DEF AtPrice, Has
  <2>1. \A p \in db.orders : p.seller = o.seller => p = o
    OBVIOUS
  <2> QED BY <2>1, CreatedPrice
<1> QED BY <1>1, <1>2, <1>3, PTL DEF Spec, MakerGetsPrice
=============================================================================
