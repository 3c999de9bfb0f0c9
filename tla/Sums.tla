-------------------------------- MODULE Sums --------------------------------
(***************************************************************************)
(* What the sums of the community modules are for every finite set: they   *)
(* can be taken apart at any element.  The models count goods and money    *)
(* with them, and the proofs about the counts rest on these lemmas.        *)
(*                                                                         *)
(* MapThenFoldSet picks the elements by CHOOSE and recurses on a function  *)
(* over all subsets.  The lemmas show that this function exists (Exists),  *)
(* that its values do not depend on the set it is defined for (Unique),    *)
(* and that the order makes no difference (SumRemove).  Induction is over  *)
(* a set of good subsets (FiniteInduction).                                *)
(***************************************************************************)
EXTENDS Integers, FiniteSets, Functions, FiniteSetTheorems, TLAPS

Sum(f, S) == SumFunctionOnSet(f, S)

Chosen(s) == CHOOSE x \in s : TRUE

\* g is the recursive function of the sum of f over the subsets of S.
IsSum(f, g, S) ==
    g = [s \in SUBSET S |-> IF s = {} THEN 0 ELSE f[Chosen(s)] + g[s \ {Chosen(s)}]]

\* A set of subsets that contains every set of whose strict subsets it
\* contains all is the set of all subsets.
LEMMA FiniteInduction ==
  ASSUME NEW S, IsFiniteSet(S), NEW Good,
         \A T \in SUBSET S :
           (\A U \in SUBSET T : U # T => U \in Good) => T \in Good
  PROVE  \A T \in SUBSET S : T \in Good
  <1> DEFINE Smaller == StrictSubsetOrdering(S)
             Bad == {T \in SUBSET S : T \notin Good}
  <1>1. IsWellFoundedOn(Smaller, SUBSET S)
    BY FS_StrictSubsetOrderingWellFounded, FS_FiniteSubsetsOfFinite
  <1>2. ASSUME Bad # {}  PROVE FALSE
    <2>1. PICK T \in Bad : \A U \in Bad : ~(<<U, T>> \in Smaller)
      <3>. HIDE DEF Smaller, Bad
      <3>1. Bad \subseteq SUBSET S
        BY DEF Bad
      <3>. QED  BY <1>1, <1>2, <3>1, WFMin
    <2>2. \A U \in SUBSET T : U # T => U \in Good
      BY <2>1 DEF StrictSubsetOrdering
    <2>. QED  BY <2>1, <2>2
  <1>. QED  BY <1>2

LEMMA FiniteParts ==
  ASSUME NEW S, IsFiniteSet(S)
  PROVE  \A T \in SUBSET S : IsFiniteSet(T)
  BY FS_Subset

LEMMA ChosenIn == \A s : s # {} => Chosen(s) \in s
  BY DEF Chosen

LEMMA Unfold ==
  ASSUME NEW f, NEW g, NEW S, IsSum(f, g, S), NEW s \in SUBSET S
  PROVE  g[s] = IF s = {} THEN 0 ELSE f[Chosen(s)] + g[s \ {Chosen(s)}]
  BY DEF IsSum

LEMMA Unique ==
  ASSUME NEW f, NEW S, IsFiniteSet(S), NEW T \in SUBSET S,
         NEW g, IsSum(f, g, S), NEW h, IsSum(f, h, T)
  PROVE  g[T] = h[T]
  <1> DEFINE Good == {s \in SUBSET T : g[s] = h[s]}
  <1>1. IsFiniteSet(T)
    BY FiniteParts
  <1>2. ASSUME NEW s \in SUBSET T, \A u \in SUBSET s : u # s => u \in Good
        PROVE  s \in Good
    <2>1. g[s] = IF s = {} THEN 0 ELSE f[Chosen(s)] + g[s \ {Chosen(s)}]
      BY Unfold
    <2>2. h[s] = IF s = {} THEN 0 ELSE f[Chosen(s)] + h[s \ {Chosen(s)}]
      BY Unfold
    <2>3. s # {} => g[s \ {Chosen(s)}] = h[s \ {Chosen(s)}]
      BY <1>2, ChosenIn
    <2>. QED  BY <2>1, <2>2, <2>3
  <1>. HIDE DEF Good
  <1>3. \A s \in SUBSET T : s \in Good
    BY <1>1, <1>2, FiniteInduction
  <1>. QED  BY <1>3 DEF Good

LEMMA Exists ==
  ASSUME NEW f, NEW S, IsFiniteSet(S)
  PROVE  \E g : IsSum(f, g, S)
  <1> DEFINE Good == {T \in SUBSET S : \E g : IsSum(f, g, T)}
             For(T) == CHOOSE g : IsSum(f, g, T)
  <1>1. ASSUME NEW T \in SUBSET S, \A U \in SUBSET T : U # T => U \in Good
        PROVE  T \in Good
    <2> DEFINE Rest == T \ {Chosen(T)}
               G == [s \in SUBSET T |-> IF s = {} THEN 0
                                        ELSE IF s = T THEN f[Chosen(T)] + For(Rest)[Rest]
                                        ELSE For(s)[s]]
    <2>1. \A U \in SUBSET T : U # T => IsSum(f, For(U), U)
      BY <1>1
    <2>. HIDE DEF For
    <2>2. ASSUME NEW s \in SUBSET T, s # {}
          PROVE  G[s] = f[Chosen(s)] + G[s \ {Chosen(s)}]
      <3> DEFINE r == s \ {Chosen(s)}
      <3>1. r \in SUBSET T /\ r # T /\ r # s /\ Chosen(s) \in s
        BY <2>2, ChosenIn
      <3>2. IsSum(f, For(r), r)
        BY <2>1, <3>1
      <3>3. G[r] = For(r)[r]
        <4>1. r = {} => For(r)[r] = 0
          BY <3>2 DEF IsSum
        <4>. QED  BY <3>1, <4>1
      <3>4. CASE s = T
        BY <3>1, <3>3, <3>4, <2>2
      <3>5. CASE s # T
        <4>1. IsSum(f, For(s), s)
          BY <2>1, <3>5
        <4>2. For(s)[s] = f[Chosen(s)] + For(s)[r]
          BY <4>1, <2>2, Unfold
        <4>3. IsFiniteSet(s) /\ r \in SUBSET s
          BY FiniteParts
        <4>4. For(s)[r] = For(r)[r]
          BY <4>1, <4>3, <3>2, Unique
        <4>. QED  BY <4>2, <4>4, <3>3, <3>5, <2>2
      <3>. QED  BY <3>4, <3>5
    <2>3. G[{}] = 0
      OBVIOUS
    <2>4. DOMAIN G = SUBSET T /\ G = [s \in SUBSET T |-> G[s]]
      OBVIOUS
    <2>. HIDE DEF G
    <2>5. IsSum(f, G, T)
      BY <2>2, <2>3, <2>4 DEF IsSum
    <2>. QED  BY <2>5
  <1>. HIDE DEF Good
  <1>2. \A T \in SUBSET S : T \in Good
    BY <1>1, FiniteInduction
  <1>. QED  BY <1>2 DEF Good

-----------------------------------------------------------------------------
(* What a sum is *)

LEMMA SumIs ==
  ASSUME NEW f, NEW S, IsFiniteSet(S)
  PROVE  \E g : IsSum(f, g, S) /\ Sum(f, S) = g[S]
  <1> DEFINE g == CHOOSE h : IsSum(f, h, S)
  <1>1. Sum(f, S) = g[S]
    BY DEF Sum, SumFunctionOnSet, FoldFunctionOnSet, MapThenFoldSet, IsSum, Chosen
  <1>2. IsSum(f, g, S)
    BY Exists
  <1>. QED  BY <1>1, <1>2

LEMMA SumEmpty == ASSUME NEW f  PROVE Sum(f, {}) = 0
  <1>1. PICK g : IsSum(f, g, {}) /\ Sum(f, {}) = g[{}]
    BY SumIs, FS_EmptySet
  <1>. QED  BY <1>1, Unfold

LEMMA SumChosen ==
  ASSUME NEW f, NEW S, IsFiniteSet(S), S # {}
  PROVE  Sum(f, S) = f[Chosen(S)] + Sum(f, S \ {Chosen(S)})
  <1> DEFINE R == S \ {Chosen(S)}
  <1>1. PICK g : IsSum(f, g, S) /\ Sum(f, S) = g[S]
    BY SumIs
  <1>2. IsFiniteSet(R) /\ R \in SUBSET S
    BY FiniteParts
  <1>3. PICK h : IsSum(f, h, R) /\ Sum(f, R) = h[R]
    BY <1>2, SumIs
  <1>4. g[S] = f[Chosen(S)] + g[R]
    BY <1>1, Unfold
  <1>5. g[R] = h[R]
    BY <1>1, <1>2, <1>3, Unique
  <1>. QED  BY <1>1, <1>3, <1>4, <1>5

\* Sums of integers are integers, and of naturals naturals.
LEMMA SumInt ==
  ASSUME NEW f, NEW S, IsFiniteSet(S), \A x \in S : f[x] \in Int
  PROVE  Sum(f, S) \in Int
  <1> DEFINE Good == {T \in SUBSET S : Sum(f, T) \in Int}
  <1>1. ASSUME NEW T \in SUBSET S, \A U \in SUBSET T : U # T => U \in Good
        PROVE  T \in Good
    <2>1. CASE T = {}
      BY <2>1, SumEmpty
    <2>2. CASE T # {}
      <3>1. Chosen(T) \in T /\ T \ {Chosen(T)} \in Good /\ IsFiniteSet(T)
        BY <1>1, <2>2, ChosenIn, FiniteParts
      <3>2. Sum(f, T) = f[Chosen(T)] + Sum(f, T \ {Chosen(T)})
        BY <2>2, <3>1, SumChosen
      <3>. QED  BY <3>1, <3>2
    <2>. QED  BY <2>1, <2>2
  <1>. HIDE DEF Good
  <1>2. \A T \in SUBSET S : T \in Good
    BY <1>1, FiniteInduction
  <1>. QED  BY <1>2 DEF Good

LEMMA SumNat ==
  ASSUME NEW f, NEW S, IsFiniteSet(S), \A x \in S : f[x] \in Nat
  PROVE  Sum(f, S) \in Nat
  <1> DEFINE Good == {T \in SUBSET S : Sum(f, T) \in Nat}
  <1>1. ASSUME NEW T \in SUBSET S, \A U \in SUBSET T : U # T => U \in Good
        PROVE  T \in Good
    <2>1. CASE T = {}
      BY <2>1, SumEmpty
    <2>2. CASE T # {}
      <3>1. Chosen(T) \in T /\ T \ {Chosen(T)} \in Good /\ IsFiniteSet(T)
        BY <1>1, <2>2, ChosenIn, FiniteParts
      <3>2. Sum(f, T) = f[Chosen(T)] + Sum(f, T \ {Chosen(T)})
        BY <2>2, <3>1, SumChosen
      <3>. QED  BY <3>1, <3>2
    <2>. QED  BY <2>1, <2>2
  <1>. HIDE DEF Good
  <1>2. \A T \in SUBSET S : T \in Good
    BY <1>1, FiniteInduction
  <1>. QED  BY <1>2 DEF Good

LEMMA SumZero ==
  ASSUME NEW f, NEW S, IsFiniteSet(S), \A x \in S : f[x] = 0
  PROVE  Sum(f, S) = 0
  <1> DEFINE Good == {T \in SUBSET S : Sum(f, T) = 0}
  <1>1. ASSUME NEW T \in SUBSET S, \A U \in SUBSET T : U # T => U \in Good
        PROVE  T \in Good
    <2>1. CASE T = {}
      BY <2>1, SumEmpty
    <2>2. CASE T # {}
      <3>1. Chosen(T) \in T /\ T \ {Chosen(T)} \in Good /\ IsFiniteSet(T)
        BY <1>1, <2>2, ChosenIn, FiniteParts
      <3>2. Sum(f, T) = f[Chosen(T)] + Sum(f, T \ {Chosen(T)})
        BY <2>2, <3>1, SumChosen
      <3>. QED  BY <3>1, <3>2
    <2>. QED  BY <2>1, <2>2
  <1>. HIDE DEF Good
  <1>2. \A T \in SUBSET S : T \in Good
    BY <1>1, FiniteInduction
  <1>. QED  BY <1>2 DEF Good

\* A sum depends on the values it adds.
LEMMA SumSame ==
  ASSUME NEW f, NEW g, NEW S, IsFiniteSet(S), \A x \in S : f[x] = g[x]
  PROVE  Sum(f, S) = Sum(g, S)
  <1> DEFINE Good == {T \in SUBSET S : Sum(f, T) = Sum(g, T)}
  <1>1. ASSUME NEW T \in SUBSET S, \A U \in SUBSET T : U # T => U \in Good
        PROVE  T \in Good
    <2>1. CASE T = {}
      BY <2>1, SumEmpty
    <2>2. CASE T # {}
      <3>1. Chosen(T) \in T /\ T \ {Chosen(T)} \in Good /\ IsFiniteSet(T)
        BY <1>1, <2>2, ChosenIn, FiniteParts
      <3>2. /\ Sum(f, T) = f[Chosen(T)] + Sum(f, T \ {Chosen(T)})
            /\ Sum(g, T) = g[Chosen(T)] + Sum(g, T \ {Chosen(T)})
        BY <2>2, <3>1, SumChosen
      <3>. QED  BY <3>1, <3>2
    <2>. QED  BY <2>1, <2>2
  <1>. HIDE DEF Good
  <1>2. \A T \in SUBSET S : T \in Good
    BY <1>1, FiniteInduction
  <1>. QED  BY <1>2 DEF Good

\* A sum can be taken apart at any element.
LEMMA SumRemove ==
  ASSUME NEW f, NEW S, IsFiniteSet(S), \A x \in S : f[x] \in Int, NEW y \in S
  PROVE  Sum(f, S) = f[y] + Sum(f, S \ {y})
  <1> DEFINE Good == {T \in SUBSET S : \A x \in T : Sum(f, T) = f[x] + Sum(f, T \ {x})}
  <1>1. ASSUME NEW T \in SUBSET S, \A U \in SUBSET T : U # T => U \in Good
        PROVE  T \in Good
    <2>1. ASSUME NEW x \in T  PROVE Sum(f, T) = f[x] + Sum(f, T \ {x})
      <3>1. PICK c \in T : c = Chosen(T)
        BY ChosenIn
      <3>2. IsFiniteSet(T) /\ Sum(f, T) = f[c] + Sum(f, T \ {c})
        BY <3>1, SumChosen, FiniteParts
      <3>3. CASE x = c
        BY <3>2, <3>3
      <3>4. CASE x # c
        <4> DEFINE Rest == T \ {c, x}
        <4>1. /\ T \ {c} \in Good /\ x \in T \ {c} /\ (T \ {c}) \ {x} = Rest
              /\ T \ {x} \in Good /\ c \in T \ {x} /\ (T \ {x}) \ {c} = Rest
          BY <1>1, <3>4
        <4>2. Sum(f, T \ {c}) = f[x] + Sum(f, Rest) /\ Sum(f, T \ {x}) = f[c] + Sum(f, Rest)
          BY <4>1
        <4>3. Sum(f, Rest) \in Int /\ f[c] \in Int /\ f[x] \in Int
          BY SumInt, FiniteParts
        <4>. QED  BY <3>2, <4>2, <4>3
      <3>. QED  BY <3>3, <3>4
    <2>. QED  BY <2>1
  <1>. HIDE DEF Good
  <1>2. \A T \in SUBSET S : T \in Good
    BY <1>1, FiniteInduction
  <1>. QED  BY <1>2 DEF Good

LEMMA SumAdd ==
  ASSUME NEW f, NEW S, IsFiniteSet(S), \A x \in S : f[x] \in Int, NEW y, y \notin S, f[y] \in Int
  PROVE  Sum(f, S \union {y}) = f[y] + Sum(f, S)
  <1>1. IsFiniteSet(S \union {y}) /\ (S \union {y}) \ {y} = S
    BY FS_AddElement
  <1>. QED  BY <1>1, SumRemove

\* One value changes.
LEMMA SumChange ==
  ASSUME NEW f, NEW g, NEW S, IsFiniteSet(S), NEW y \in S,
         \A x \in S : f[x] \in Int /\ g[x] \in Int,
         \A x \in S : x # y => g[x] = f[x]
  PROVE  Sum(g, S) = Sum(f, S) + g[y] - f[y]
  <1>1. Sum(f, S) = f[y] + Sum(f, S \ {y}) /\ Sum(g, S) = g[y] + Sum(g, S \ {y})
    BY SumRemove
  <1>2. IsFiniteSet(S \ {y})
    BY FiniteParts
  <1>3. Sum(g, S \ {y}) = Sum(f, S \ {y}) /\ Sum(f, S \ {y}) \in Int
    BY <1>2, SumSame, SumInt
  <1>. QED  BY <1>1, <1>3

\* Terms add up.
LEMMA SumPlus ==
  ASSUME NEW f, NEW g, NEW k, NEW S, IsFiniteSet(S),
         \A x \in S : f[x] \in Int /\ g[x] \in Int /\ k[x] = f[x] + g[x]
  PROVE  Sum(k, S) = Sum(f, S) + Sum(g, S)
  <1> DEFINE Good == {T \in SUBSET S : Sum(k, T) = Sum(f, T) + Sum(g, T)}
  <1>1. ASSUME NEW T \in SUBSET S, \A U \in SUBSET T : U # T => U \in Good
        PROVE  T \in Good
    <2>1. CASE T = {}
      BY <2>1, SumEmpty
    <2>2. CASE T # {}
      <3>1. PICK c \in T : c = Chosen(T)
        BY <2>2, ChosenIn
      <3>2. T \ {c} \in Good /\ IsFiniteSet(T) /\ IsFiniteSet(T \ {c})
        BY <1>1, FiniteParts
      <3>3. /\ Sum(f, T) = f[c] + Sum(f, T \ {c})
            /\ Sum(g, T) = g[c] + Sum(g, T \ {c})
            /\ Sum(k, T) = k[c] + Sum(k, T \ {c})
        BY <2>2, <3>1, <3>2, SumChosen
      <3>4. Sum(f, T \ {c}) \in Int /\ Sum(g, T \ {c}) \in Int
        BY <3>2, SumInt
      <3>. QED  BY <3>2, <3>3, <3>4
    <2>. QED  BY <2>1, <2>2
  <1>. HIDE DEF Good
  <1>2. \A T \in SUBSET S : T \in Good
    BY <1>1, FiniteInduction
  <1>. QED  BY <1>2 DEF Good

\* Terms outside a part that are zero do not count.
LEMMA SumFilter ==
  ASSUME NEW f, NEW g, NEW S, IsFiniteSet(S), NEW P \in SUBSET S,
         \A x \in P : f[x] \in Int,
         \A x \in S : g[x] = IF x \in P THEN f[x] ELSE 0
  PROVE  Sum(g, S) = Sum(f, P)
  <1>. DEFINE Good == {T \in SUBSET S : Sum(g, T) = Sum(f, T \intersect P)}
  <1>1. ASSUME NEW T \in SUBSET S, \A U \in SUBSET T : U # T => U \in Good
        PROVE  T \in Good
    <2>1. CASE T = {}
      <3>1. T \intersect P = {}
        BY <2>1
      <3>. QED  BY <2>1, <3>1, SumEmpty
    <2>2. CASE T # {}
      <3>1. PICK c \in T : c = Chosen(T)
        BY <2>2, ChosenIn
      <3>2. IsFiniteSet(T) /\ IsFiniteSet(T \intersect P)
        BY FiniteParts
      <3>3. Sum(g, T) = g[c] + Sum(g, T \ {c})
        BY <2>2, <3>1, <3>2, SumChosen
      <3>4. Sum(g, T \ {c}) = Sum(f, (T \ {c}) \intersect P)
        <4>1. T \ {c} \in SUBSET T /\ T \ {c} # T
          BY <3>1
        <4>. QED  BY <1>1, <4>1
      <3>5. CASE c \in P
        <4>1. /\ c \in T \intersect P /\ (T \intersect P) \ {c} = (T \ {c}) \intersect P
              /\ \A x \in T \intersect P : f[x] \in Int
          BY <3>5
        <4>2. Sum(f, T \intersect P) = f[c] + Sum(f, (T \intersect P) \ {c})
          BY <3>2, <4>1, SumRemove
        <4>3. g[c] = f[c]
          BY <3>5
        <4>. QED  BY <3>3, <3>4, <4>1, <4>2, <4>3
      <3>6. CASE c \notin P
        <4>1. T \intersect P = (T \ {c}) \intersect P
          BY <3>6
        <4>2. g[c] = 0
          BY <3>6
        <4>3. Sum(f, T \intersect P) \in Int
          BY <3>2, SumInt
        <4>4. Sum(f, (T \ {c}) \intersect P) = Sum(f, T \intersect P)
          BY <4>1, Zenon
        <4>. HIDE DEF Good
        <4>5. Sum(g, T) = Sum(f, T \intersect P)
          BY <3>3, <3>4, <4>2, <4>3, <4>4
        <4>. QED  BY <4>5 DEF Good
      <3>. QED  BY <3>5, <3>6
    <2>. QED  BY <2>1, <2>2
  <1>. HIDE DEF Good
  <1>2. \A T \in SUBSET S : T \in Good
    BY <1>1, FiniteInduction
  <1>3. S \intersect P = P
    OBVIOUS
  <1>. QED  BY <1>2, <1>3 DEF Good

\* Smaller terms give a smaller sum.
LEMMA SumAtMost ==
  ASSUME NEW f, NEW g, NEW S, IsFiniteSet(S),
         \A x \in S : f[x] \in Int /\ g[x] \in Int /\ f[x] <= g[x]
  PROVE  Sum(f, S) <= Sum(g, S)
  <1>. DEFINE Good == {T \in SUBSET S : Sum(f, T) <= Sum(g, T)}
  <1>1. ASSUME NEW T \in SUBSET S, \A U \in SUBSET T : U # T => U \in Good
        PROVE  T \in Good
    <2>1. CASE T = {}
      BY <2>1, SumEmpty
    <2>2. CASE T # {}
      <3>1. PICK c \in T : c = Chosen(T)
        BY <2>2, ChosenIn
      <3>2. IsFiniteSet(T) /\ IsFiniteSet(T \ {c})
        BY FiniteParts
      <3>3. /\ Sum(f, T) = f[c] + Sum(f, T \ {c})
            /\ Sum(g, T) = g[c] + Sum(g, T \ {c})
        BY <2>2, <3>1, <3>2, SumChosen
      <3>4. Sum(f, T \ {c}) \in Int /\ Sum(g, T \ {c}) \in Int
        BY <3>2, SumInt
      <3>5. Sum(f, T \ {c}) <= Sum(g, T \ {c})
        <4>1. T \ {c} \in SUBSET T /\ T \ {c} # T
          BY <3>1
        <4>. QED  BY <1>1, <4>1
      <3>6. Sum(f, T) <= Sum(g, T)
        BY <3>3, <3>4, <3>5
      <3>. QED  BY <3>6
    <2>. QED  BY <2>1, <2>2
  <1>. HIDE DEF Good
  <1>2. \A T \in SUBSET S : T \in Good
    BY <1>1, FiniteInduction
  <1>. QED  BY <1>2 DEF Good

=============================================================================
