------------------------------ MODULE FiniteSums ------------------------------
(***************************************************************************)
(* Facts about SumFunctionOnSet of the community module Functions, for     *)
(* finite sets of indices: the recursion that defines it chooses the       *)
(* elements in an order nobody knows, so each fact is an induction over    *)
(* the subsets of a finite set.  Last, recursions up to a number.          *)
(***************************************************************************)
EXTENDS Functions, FiniteSetTheorems, TLAPS

-----------------------------------------------------------------------------
(* Induction *)

\* A collection of subsets of a finite set that has the empty set, and every
\* set of which it has the sets that are one element smaller, has them all.
LEMMA SubsetInduction ==
  ASSUME NEW S, IsFiniteSet(S), NEW Good,
         \A T \in SUBSET S : (\A x \in T : T \ {x} \in Good) => T \in Good
  PROVE  \A T \in SUBSET S : T \in Good
<1> DEFINE Bad == {T \in SUBSET S : T \notin Good}
<1> SUFFICES ASSUME Bad # {} PROVE FALSE
  OBVIOUS
<1>1. IsWellFoundedOn(StrictSubsetOrdering(S), SUBSET S)
  <2>1. FiniteSubsetsOf(S) = SUBSET S
    BY FS_FiniteSubsetsOfFinite
  <2>2. IsWellFoundedOn(StrictSubsetOrdering(S), FiniteSubsetsOf(S))
    BY FS_StrictSubsetOrderingWellFounded
  <2> QED BY <2>1, <2>2
<1>2. PICK T \in Bad : \A U \in Bad : <<U, T>> \notin StrictSubsetOrdering(S)
  BY <1>1, WFMin
<1>3. ASSUME NEW x \in T PROVE T \ {x} \in Good
  <2>1. <<T \ {x}, T>> \in StrictSubsetOrdering(S)
    BY DEF StrictSubsetOrdering
  <2> QED BY <1>2, <2>1
<1> QED BY <1>3

-----------------------------------------------------------------------------
(* The recursion *)

\* g adds f up over the subsets of S, an element of each chosen at a time.
Sums(g, f, S) ==
  g = [T \in SUBSET S |->
         IF T = {} THEN 0
         ELSE f[CHOOSE x \in T : TRUE] + g[T \ {CHOOSE x \in T : TRUE}]]

LEMMA SumIsSums ==
  ASSUME NEW f, NEW S
  PROVE  SumFunctionOnSet(f, S) = (CHOOSE g : Sums(g, f, S))[S]
BY DEF SumFunctionOnSet, FoldFunctionOnSet, MapThenFoldSet, Sums

\* Such a g is what it says at every subset.
LEMMA SumsAt ==
  ASSUME NEW f, NEW S, NEW g, Sums(g, f, S), NEW T \in SUBSET S
  PROVE  g[T] = IF T = {} THEN 0
                ELSE f[CHOOSE x \in T : TRUE] + g[T \ {CHOOSE x \in T : TRUE}]
BY DEF Sums

\* Two of them agree on the sets that they share.
LEMMA SumsAgree ==
  ASSUME NEW f, NEW S, NEW R, IsFiniteSet(S), NEW g, NEW h, Sums(g, f, S), Sums(h, f, R)
  PROVE  \A T \in SUBSET S : T \subseteq R => g[T] = h[T]
<1> DEFINE Good == {T \in SUBSET S : T \subseteq R => g[T] = h[T]}
<1>1. ASSUME NEW T \in SUBSET S, \A x \in T : T \ {x} \in Good
      PROVE  T \in Good
  <2> SUFFICES ASSUME T \subseteq R PROVE g[T] = h[T]
    OBVIOUS
  <2> DEFINE c == CHOOSE x \in T : TRUE
  <2>1. g[T] = IF T = {} THEN 0 ELSE f[c] + g[T \ {c}]
    BY SumsAt
  <2>2. h[T] = IF T = {} THEN 0 ELSE f[c] + h[T \ {c}]
    <3>1. T \in SUBSET R
      OBVIOUS
    <3>2. ASSUME NEW U \in SUBSET R
          PROVE  h[U] = IF U = {} THEN 0
                        ELSE f[CHOOSE x \in U : TRUE] + h[U \ {CHOOSE x \in U : TRUE}]
      BY SumsAt
    <3> HIDE DEF c
    <3> QED BY <3>1, <3>2 DEF c
  <2>3. T # {} => g[T \ {c}] = h[T \ {c}]
    BY <1>1
  <2> QED BY <2>1, <2>2, <2>3
<1> HIDE DEF Good
<1>2. \A T \in SUBSET S : T \in Good
  BY <1>1, SubsetInduction
<1> QED BY <1>2 DEF Good

\* There is one for every finite set: from those of the smaller subsets, which
\* agree, the one of the next is put together.
LEMMA SumsExists ==
  ASSUME NEW f, NEW S, IsFiniteSet(S)
  PROVE  \E g : Sums(g, f, S)
<1> DEFINE Good == {T \in SUBSET S : \A U \in SUBSET T : \E g : Sums(g, f, U)}
           G(T) == CHOOSE g : Sums(g, f, T)
           c(T) == CHOOSE x \in T : TRUE
           v(T) == IF T = {} THEN 0 ELSE f[c(T)] + G(T \ {c(T)})[T \ {c(T)}]
<1>1. ASSUME NEW T \in SUBSET S, \A x \in T : T \ {x} \in Good
      PROVE  T \in Good
  <2>1. ASSUME NEW U \in SUBSET T, U # T PROVE Sums(G(U), f, U)
    <3>1. PICK x \in T : U \subseteq T \ {x}
      BY <2>1
    <3>2. \E g : Sums(g, f, U)
      BY <1>1, <3>1
    <3> QED BY <3>2
  <2>2. ASSUME NEW U \in SUBSET T, U # T PROVE G(U)[U] = v(U)
    <3>1. ASSUME U = {} PROVE G(U)[U] = 0
      <4>1. Sums(G(U), f, U) /\ U \in SUBSET U
        BY <2>1, <2>2
      <4> HIDE DEF G
      <4> QED BY <3>1, <4>1, SumsAt
    <3>2. ASSUME U # {} PROVE G(U)[U] = f[c(U)] + G(U)[U \ {c(U)}]
      <4> HIDE DEF G
      <4> QED BY <2>1, <2>2, <3>2, SumsAt
    <3>3. ASSUME U # {} PROVE G(U)[U \ {c(U)}] = G(U \ {c(U)})[U \ {c(U)}]
      <4> DEFINE W == U \ {c(U)}
      <4>1. W \in SUBSET U /\ W \in SUBSET T /\ W # T
        BY <3>3
      <4>2. Sums(G(U), f, U) /\ Sums(G(W), f, W)
        BY <2>1, <2>2, <4>1
      <4>3. IsFiniteSet(U)
        BY FS_Subset
      <4> HIDE DEF G, W
      <4>4. \A V \in SUBSET U : V \subseteq W => G(U)[V] = G(W)[V]
        BY <4>2, <4>3, SumsAgree
      <4> QED BY <4>1, <4>4 DEF W
    <3> QED BY <3>1, <3>2, <3>3
  <2> DEFINE g == [U \in SUBSET T |-> v(U)]
  <2>3. ASSUME NEW U \in SUBSET T, U # {}
        PROVE  g[U \ {c(U)}] = G(U \ {c(U)})[U \ {c(U)}]
    <3> DEFINE W == U \ {c(U)}
    <3>1. W \in SUBSET T /\ W # T
      BY <2>3
    <3>2. G(W)[W] = v(W) /\ g[W] = v(W)
      <4> HIDE DEF v, G, W
      <4> QED BY <2>2, <3>1
    <3> QED BY <3>2
  <2>4. g = [U \in SUBSET T |-> IF U = {} THEN 0 ELSE f[c(U)] + g[U \ {c(U)}]]
    <3> HIDE DEF G
    <3>1. ASSUME NEW U \in SUBSET T
          PROVE  v(U) = IF U = {} THEN 0 ELSE f[c(U)] + g[U \ {c(U)}]
      <4>1. CASE U = {}
        BY <4>1
      <4>2. CASE U # {}
        <5>1. g[U \ {c(U)}] = G(U \ {c(U)})[U \ {c(U)}]
          BY <2>3, <4>2
        <5>2. v(U) = f[c(U)] + G(U \ {c(U)})[U \ {c(U)}]
          BY <4>2
        <5> HIDE DEF v, g, c
        <5> QED BY <4>2, <5>1, <5>2
      <4> QED BY <4>1, <4>2
    <3> HIDE DEF v
    <3> QED BY <3>1
  <2>5. Sums(g, f, T)
    BY <2>4 DEF Sums
  <2> QED BY <2>1, <2>5
<1> HIDE DEF Good
<1>2. \A T \in SUBSET S : T \in Good
  BY <1>1, SubsetInduction
<1> QED BY <1>2 DEF Good

-----------------------------------------------------------------------------
(* What a sum is *)

LEMMA SumChoosing ==
  ASSUME NEW f, NEW S, IsFiniteSet(S)
  PROVE  /\ SumFunctionOnSet(f, {}) = 0
         /\ S # {} => SumFunctionOnSet(f, S) = f[CHOOSE x \in S : TRUE]
                        + SumFunctionOnSet(f, S \ {CHOOSE x \in S : TRUE})
<1> DEFINE G(T) == CHOOSE g : Sums(g, f, T)
           c == CHOOSE x \in S : TRUE
           R == S \ {c}
<1>1. \A T : SumFunctionOnSet(f, T) = G(T)[T]
  BY SumIsSums
<1>2. ASSUME NEW T, IsFiniteSet(T) PROVE Sums(G(T), f, T)
  BY <1>2, SumsExists
<1>3. IsFiniteSet({}) /\ IsFiniteSet(R) /\ R \in SUBSET S /\ S \in SUBSET S /\ {} \in SUBSET {}
  BY FS_EmptySet, FS_Subset
<1>4. Sums(G({}), f, {}) /\ Sums(G(R), f, R) /\ Sums(G(S), f, S)
  BY <1>2, <1>3
<1> HIDE DEF G
<1>5. G({})[{}] = 0
  BY <1>3, <1>4, SumsAt
<1>6. ASSUME S # {} PROVE G(S)[S] = f[c] + G(S)[R]
  <2>1. ASSUME NEW g, Sums(g, f, S) PROVE g[S] = f[c] + g[R]
    BY <1>6, <2>1, SumsAt
  <2> QED BY <1>4, <2>1
<1>7. G(S)[R] = G(R)[R]
  <2> HIDE DEF R
  <2>1. \A g, h : Sums(g, f, S) /\ Sums(h, f, R)
          => \A T \in SUBSET S : T \subseteq R => g[T] = h[T]
    BY SumsAgree
  <2> QED BY <1>3, <1>4, <2>1
<1> QED BY <1>1, <1>5, <1>6, <1>7

\* The sum of integers is one.
LEMMA SumInt ==
  ASSUME NEW f, NEW S, IsFiniteSet(S), \A x \in S : f[x] \in Int
  PROVE  \A T \in SUBSET S : SumFunctionOnSet(f, T) \in Int
<1> DEFINE Sum(T) == SumFunctionOnSet(f, T)
           Good == {T \in SUBSET S : Sum(T) \in Int}
<1>1. ASSUME NEW T \in SUBSET S, \A x \in T : T \ {x} \in Good
      PROVE  T \in Good
  <2> DEFINE c == CHOOSE x \in T : TRUE
  <2>1. IsFiniteSet(T)
    BY FS_Subset
  <2>2. CASE T = {}
    <3>1. Sum({}) = 0
      BY <2>1, SumChoosing
    <3> QED BY <2>2, <3>1
  <2>3. CASE T # {}
    <3>1. c \in T /\ Sum(T) = f[c] + Sum(T \ {c})
      BY <2>1, <2>3, SumChoosing
    <3> HIDE DEF c, Sum
    <3> QED BY <1>1, <3>1
  <2> QED BY <2>2, <2>3
<1> HIDE DEF Good
<1>2. \A T \in SUBSET S : T \in Good
  BY <1>1, SubsetInduction
<1> QED BY <1>2 DEF Good

\* Any element may be taken out of a sum.
LEMMA SumTake ==
  ASSUME NEW f, NEW S, IsFiniteSet(S), \A x \in S : f[x] \in Int
  PROVE  \A T \in SUBSET S, x \in S :
           x \in T => SumFunctionOnSet(f, T) = f[x] + SumFunctionOnSet(f, T \ {x})
<1> DEFINE Sum(T) == SumFunctionOnSet(f, T)
           Good == {T \in SUBSET S : \A x \in T : Sum(T) = f[x] + Sum(T \ {x})}
<1>1. ASSUME NEW T \in SUBSET S, \A x \in T : T \ {x} \in Good
      PROVE  T \in Good
  <2> SUFFICES ASSUME NEW x \in T PROVE Sum(T) = f[x] + Sum(T \ {x})
    OBVIOUS
  <2> DEFINE c == CHOOSE y \in T : TRUE
             R == (T \ {c}) \ {x}
  <2>1. c \in T /\ IsFiniteSet(T)
    BY FS_Subset
  <2>2. Sum(T) = f[c] + Sum(T \ {c})
    BY <2>1, SumChoosing
  <2>3. Sum(T \ {x}) \in Int /\ Sum(R) \in Int /\ f[x] \in Int /\ f[c] \in Int
    <3> HIDE DEF c
    <3> QED BY <2>1, SumInt
  <2> HIDE DEF c, Sum
  <2>4. CASE x = c
    BY <2>2, <2>4
  <2>5. CASE x # c
    <3>1. R = (T \ {x}) \ {c} /\ x \in T \ {c} /\ c \in T \ {x}
      BY <2>1, <2>5
    <3>2. Sum(T \ {c}) = f[x] + Sum(R)
      BY <1>1, <2>1, <3>1
    <3>3. Sum(T \ {x}) = f[c] + Sum(R)
      BY <1>1, <3>1
    <3> HIDE DEF R
    <3> QED BY <2>2, <2>3, <3>2, <3>3
  <2> QED BY <2>4, <2>5
<1> HIDE DEF Good
<1>2. \A T \in SUBSET S : T \in Good
  BY <1>1, SubsetInduction
<1> QED BY <1>2 DEF Good

\* The elements of a subset add up to no more than all of them.
LEMMA SumSubset ==
  ASSUME NEW f, NEW S, IsFiniteSet(S), \A x \in S : f[x] \in Nat, NEW R \in SUBSET S
  PROVE  /\ SumFunctionOnSet(f, R) \in Nat /\ SumFunctionOnSet(f, S) \in Nat
         /\ SumFunctionOnSet(f, R) <= SumFunctionOnSet(f, S)
<1> DEFINE Sum(T) == SumFunctionOnSet(f, T)
           Good == {T \in SUBSET S : /\ Sum(T) \in Nat
                                    /\ \A U \in SUBSET T : Sum(U) \in Nat /\ Sum(U) <= Sum(T)}
<1>1. ASSUME NEW T \in SUBSET S, \A x \in T : T \ {x} \in Good
      PROVE  T \in Good
  <2>1. IsFiniteSet(T)
    BY FS_Subset
  <2>2. CASE T = {}
    <3>1. Sum({}) = 0
      BY <2>1, SumChoosing
    <3> QED BY <2>2, <3>1
  <2>3. CASE T # {}
    <3>1. ASSUME NEW x \in T
          PROVE  Sum(T) = f[x] + Sum(T \ {x}) /\ f[x] \in Nat /\ Sum(T \ {x}) \in Nat
      BY <1>1, SumTake
    <3> HIDE DEF Sum
    <3>2. Sum(T) \in Nat
      <4>1. PICK x \in T : TRUE
        BY <2>3
      <4>2. Sum(T) = f[x] + Sum(T \ {x}) /\ f[x] \in Nat /\ Sum(T \ {x}) \in Nat
        BY <3>1
      <4> QED BY <4>2
    <3>3. ASSUME NEW U \in SUBSET T PROVE Sum(U) \in Nat /\ Sum(U) <= Sum(T)
      <4>1. CASE U = T
        BY <3>2, <4>1
      <4>2. CASE U # T
        <5>1. PICK x \in T : U \in SUBSET (T \ {x})
          BY <4>2
        <5>2. Sum(U) \in Nat /\ Sum(U) <= Sum(T \ {x})
          BY <1>1, <5>1
        <5> QED BY <3>1, <3>2, <5>2
      <4> QED BY <4>1, <4>2
    <3> QED BY <3>2, <3>3
  <2> QED BY <2>2, <2>3
<1> HIDE DEF Good
<1>2. \A T \in SUBSET S : T \in Good
  BY <1>1, SubsetInduction
<1> QED BY <1>2 DEF Good

\* No element is more than the sum of all.
LEMMA SumAtLeast ==
  ASSUME NEW f, NEW S, IsFiniteSet(S), \A x \in S : f[x] \in Nat, NEW k \in S
  PROVE  f[k] <= SumFunctionOnSet(f, S)
<1>1. \A x \in S : f[x] \in Int
  OBVIOUS
<1>2. SumFunctionOnSet(f, S) = f[k] + SumFunctionOnSet(f, S \ {k})
  BY <1>1, SumTake
<1>3. SumFunctionOnSet(f, S \ {k}) \in Nat
  BY SumSubset
<1> QED BY <1>2, <1>3

\* Functions that agree on a set have the same sum over it.
LEMMA SumSame ==
  ASSUME NEW f, NEW h, NEW S, IsFiniteSet(S), \A x \in S : f[x] = h[x]
  PROVE  SumFunctionOnSet(f, S) = SumFunctionOnSet(h, S)
<1> DEFINE F(T) == SumFunctionOnSet(f, T)
           H(T) == SumFunctionOnSet(h, T)
           Good == {T \in SUBSET S : F(T) = H(T)}
<1>1. ASSUME NEW T \in SUBSET S, \A x \in T : T \ {x} \in Good
      PROVE  T \in Good
  <2> DEFINE c == CHOOSE x \in T : TRUE
  <2>1. IsFiniteSet(T)
    BY FS_Subset
  <2>2. CASE T = {}
    <3>1. F({}) = 0 /\ H({}) = 0
      BY <2>1, SumChoosing
    <3> QED BY <2>2, <3>1
  <2>3. CASE T # {}
    <3>1. c \in T /\ F(T) = f[c] + F(T \ {c}) /\ H(T) = h[c] + H(T \ {c})
      BY <2>1, <2>3, SumChoosing
    <3> HIDE DEF c, F, H
    <3> QED BY <1>1, <3>1
  <2> QED BY <2>2, <2>3
<1> HIDE DEF Good
<1>2. \A T \in SUBSET S : T \in Good
  BY <1>1, SubsetInduction
<1> QED BY <1>2 DEF Good

\* A row of numbers that is moved on by one adds up to the same.
LEMMA SumShifted ==
  ASSUME NEW f, NEW h, NEW n \in Nat, \A u \in 0 .. n - 1 : f[u] \in Int /\ h[u + 1] = f[u]
  PROVE  SumFunctionOnSet(h, 1 .. n) = SumFunctionOnSet(f, 0 .. n - 1)
<1> DEFINE S == 0 .. n - 1
           Moved(T) == {u + 1 : u \in T}
           Good == {T \in SUBSET S : SumFunctionOnSet(h, Moved(T)) = SumFunctionOnSet(f, T)}
<1>1. IsFiniteSet(S) /\ IsFiniteSet(1 .. n)
  BY FS_Interval
<1>2. \A u \in 1 .. n : h[u] \in Int
  <2>1. \A u \in 1 .. n : u - 1 \in 0 .. n - 1 /\ (u - 1) + 1 = u
    OBVIOUS
  <2> QED BY <2>1
<1>3. \A T \in SUBSET S : Moved(T) \in SUBSET (1 .. n)
  OBVIOUS
<1>7. \A T \in SUBSET S, x \in S :
        x \in T => SumFunctionOnSet(f, T) = f[x] + SumFunctionOnSet(f, T \ {x})
  <2>1. \A u \in S : f[u] \in Int
    OBVIOUS
  <2> HIDE DEF S
  <2> QED BY <1>1, <2>1, SumTake
<1>8. \A T \in SUBSET (1 .. n), x \in 1 .. n :
        x \in T => SumFunctionOnSet(h, T) = h[x] + SumFunctionOnSet(h, T \ {x})
  <2> DEFINE R == 1 .. n
  <2>1. IsFiniteSet(R) /\ \A u \in R : h[u] \in Int
    BY <1>1, <1>2
  <2> HIDE DEF R
  <2>2. \A T \in SUBSET R, x \in R :
          x \in T => SumFunctionOnSet(h, T) = h[x] + SumFunctionOnSet(h, T \ {x})
    BY <2>1, SumTake
  <2> QED BY <2>2 DEF R
<1>9. SumFunctionOnSet(f, {}) = 0 /\ SumFunctionOnSet(h, {}) = 0
  <2>1. IsFiniteSet({})
    BY FS_EmptySet
  <2> QED BY <2>1, SumChoosing
<1>4. ASSUME NEW T \in SUBSET S, \A x \in T : T \ {x} \in Good
      PROVE  T \in Good
  <2>1. CASE T = {}
    <3>1. Moved(T) = {}
      BY <2>1
    <3>2. SumFunctionOnSet(h, Moved(T)) = SumFunctionOnSet(f, T)
      BY <1>9, <2>1, <3>1
    <3> QED BY <3>2
  <2>2. CASE T # {}
    <3>1. PICK x \in T : TRUE
      BY <2>2
    <3>2. /\ x \in S /\ h[x + 1] = f[x] /\ x + 1 \in 1 .. n /\ x + 1 \in Moved(T)
      BY <3>1
    <3>3. Moved(T) \ {x + 1} = Moved(T \ {x})
      <4>1. \A u \in T : u + 1 = x + 1 <=> u = x
        BY <3>1
      <4> QED BY <4>1
    <3>4. SumFunctionOnSet(f, T) = f[x] + SumFunctionOnSet(f, T \ {x})
      BY <1>7, <3>1, <3>2
    <3>5. SumFunctionOnSet(h, Moved(T)) = h[x + 1] + SumFunctionOnSet(h, Moved(T) \ {x + 1})
      BY <1>3, <1>8, <3>2
    <3>6. SumFunctionOnSet(h, Moved(T \ {x})) = SumFunctionOnSet(f, T \ {x})
      BY <1>4, <3>1
    <3> QED BY <3>2, <3>3, <3>4, <3>5, <3>6
  <2> QED BY <2>1, <2>2
<1>5. S \in Good
  <2> HIDE DEF Good, S
  <2>1. \A T \in SUBSET S : (\A x \in T : T \ {x} \in Good) => T \in Good
    BY <1>4
  <2>2. \A T \in SUBSET S : T \in Good
    BY <1>1, <2>1, SubsetInduction
  <2> QED BY <2>2
<1>6. Moved(S) = 1 .. n
  <2>1. \A u \in 1 .. n : u - 1 \in 0 .. n - 1 /\ (u - 1) + 1 = u
    OBVIOUS
  <2>2. \A u \in 0 .. n - 1 : u + 1 \in 1 .. n
    OBVIOUS
  <2> QED BY <2>1, <2>2
<1> QED BY <1>5, <1>6

\* The sum over two disjoint sets is that of the sums.
LEMMA SumUnion ==
  ASSUME NEW f, NEW S, IsFiniteSet(S), \A x \in S : f[x] \in Int,
         NEW A \in SUBSET S, NEW B \in SUBSET S, A \cap B = {}
  PROVE  SumFunctionOnSet(f, A \cup B) = SumFunctionOnSet(f, A) + SumFunctionOnSet(f, B)
<1> DEFINE Sum(T) == SumFunctionOnSet(f, T)
           Good == {T \in SUBSET S : A \cap T = {} => Sum(A \cup T) = Sum(A) + Sum(T)}
<1>1. ASSUME NEW T \in SUBSET S, \A x \in T : T \ {x} \in Good
      PROVE  T \in Good
  <2> SUFFICES ASSUME A \cap T = {} PROVE Sum(A \cup T) = Sum(A) + Sum(T)
    OBVIOUS
  <2>1. CASE T = {}
    <3>1. Sum({}) = 0 /\ Sum(A) \in Int /\ A \cup T = A
      BY <2>1, SumChoosing, SumInt
    <3> QED BY <2>1, <3>1
  <2>2. CASE T # {}
    <3>1. PICK x \in T : TRUE
      BY <2>2
    <3>2. Sum(A \cup (T \ {x})) = Sum(A) + Sum(T \ {x})
      BY <1>1, <3>1
    <3>3. Sum(T) = f[x] + Sum(T \ {x})
      BY <3>1, SumTake
    <3>4. Sum(A \cup T) = f[x] + Sum((A \cup T) \ {x})
      BY <3>1, SumTake
    <3>5. (A \cup T) \ {x} = A \cup (T \ {x})
      BY <3>1
    <3>6. Sum(A) \in Int /\ Sum(T \ {x}) \in Int /\ f[x] \in Int
      BY <3>1, SumInt
    <3>7. Sum(A \cup T) = f[x] + (Sum(A) + Sum(T \ {x}))
      BY <3>2, <3>4, <3>5
    <3> HIDE DEF Sum
    <3> QED BY <3>3, <3>6, <3>7
  <2> QED BY <2>1, <2>2
<1> HIDE DEF Good
<1>2. B \in Good
  BY <1>1, SubsetInduction
<1> QED BY <1>2 DEF Good

\* h is a linear combination of f and g on S.
Combined(h, a, f, b, g, c, S) ==
  \A x \in S : f[x] \in Int /\ g[x] \in Int /\ h[x] = a * f[x] + b * g[x] + c

\* Sums are linear.
LEMMA SumCombined ==
  ASSUME NEW f, NEW g, NEW h, NEW S, IsFiniteSet(S), NEW a \in Int, NEW b \in Int, NEW c \in Int,
         Combined(h, a, f, b, g, c, S)
  PROVE  SumFunctionOnSet(h, S) =
           a * SumFunctionOnSet(f, S) + b * SumFunctionOnSet(g, S) + c * Cardinality(S)
<1> DEFINE F(T) == SumFunctionOnSet(f, T)
           G(T) == SumFunctionOnSet(g, T)
           H(T) == SumFunctionOnSet(h, T)
           Good == {T \in SUBSET S : H(T) = a * F(T) + b * G(T) + c * Cardinality(T)}
<1>0. \A x \in S : f[x] \in Int /\ g[x] \in Int /\ h[x] = a * f[x] + b * g[x] + c
  BY DEF Combined
<1>1. \A x \in S : f[x] \in Int /\ g[x] \in Int /\ h[x] \in Int
  BY <1>0
<1>2. ASSUME NEW T \in SUBSET S, \A x \in T : T \ {x} \in Good
      PROVE  T \in Good
  <2>1. CASE T = {}
    <3>1. F({}) = 0 /\ G({}) = 0 /\ H({}) = 0 /\ Cardinality({}) = 0
      BY SumChoosing, FS_EmptySet
    <3> QED BY <2>1, <3>1
  <2>2. CASE T # {}
    <3>1. PICK x \in T : TRUE
      BY <2>2
    <3> DEFINE R == T \ {x}
    <3>2. H(R) = a * F(R) + b * G(R) + c * Cardinality(R)
      BY <1>2, <3>1
    <3>3. F(T) = f[x] + F(R) /\ G(T) = g[x] + G(R) /\ H(T) = h[x] + H(R)
      BY <1>1, <3>1, SumTake
    <3>4. F(R) \in Int /\ G(R) \in Int /\ H(R) \in Int
      <4>1. R \in SUBSET S
        OBVIOUS
      <4> HIDE DEF R
      <4> QED BY <1>1, <4>1, SumInt
    <3>5. IsFiniteSet(T) /\ Cardinality(T) \in Nat /\ Cardinality(R) = Cardinality(T) - 1
      <4>1. IsFiniteSet(T)
        BY FS_Subset
      <4>2. IsFiniteSet(R) /\ Cardinality(R) = Cardinality(T) - 1
        BY <3>1, <4>1, FS_RemoveElement
      <4> HIDE DEF R
      <4> QED BY <4>1, <4>2, FS_CardinalityType
    <3>6. f[x] \in Int /\ g[x] \in Int /\ h[x] = a * f[x] + b * g[x] + c
      BY <1>0
    <3>7. PICK p \in Int, q \in Int : p = F(R) /\ q = G(R)
      BY <3>4
    <3>8. PICK k \in Int : k = Cardinality(R)
      BY <3>5
    <3>9. PICK u \in Int, v \in Int : u = f[x] /\ v = g[x]
      BY <3>6
    <3>10. p = F(R) /\ q = G(R) /\ k = Cardinality(R) /\ u = f[x] /\ v = g[x]
      BY <3>7, <3>8, <3>9
    <3>11. F(T) = u + p /\ G(T) = v + q /\ Cardinality(T) = k + 1
      BY <3>3, <3>5, <3>10
    <3>12. H(T) = a * u + b * v + c + (a * p + b * q + c * k)
      BY <3>2, <3>3, <3>6, <3>10
    <3>13. a * (u + p) + b * (v + q) + c * (k + 1) = a * u + b * v + c + (a * p + b * q + c * k)
      OBVIOUS
    <3> HIDE DEF F, G, H
    <3>14. H(T) = a * F(T) + b * G(T) + c * Cardinality(T)
      BY <3>11, <3>12, <3>13
    <3> QED BY <3>14
  <2> QED BY <2>1, <2>2
<1> HIDE DEF Good
<1>3. \A T \in SUBSET S : T \in Good
  BY <1>2, SubsetInduction
<1>4. S \in Good
  BY <1>3
<1> QED BY <1>4 DEF Good

\* h counts the elements of A that have each key.
Counts(h, K, A, key) ==
  /\ \A i \in A : key[i] \in K
  /\ \A k \in K : h[k] = Cardinality({i \in A : key[i] = k})

\* Together they are all of them.
LEMMA SumOfParts ==
  ASSUME NEW K, IsFiniteSet(K), NEW A, IsFiniteSet(A), NEW key, NEW h, Counts(h, K, A, key)
  PROVE  SumFunctionOnSet(h, K) = Cardinality(A)
<1> DEFINE Of(T) == {i \in A : key[i] \in T}
           One(k) == {i \in A : key[i] = k}
           Sum(T) == SumFunctionOnSet(h, T)
           Good == {T \in SUBSET K : Sum(T) = Cardinality(Of(T))}
<1>1. \A T : IsFiniteSet(Of(T)) /\ Cardinality(Of(T)) \in Nat
  <2> TAKE T
  <2>1. Of(T) \subseteq A
    OBVIOUS
  <2> HIDE DEF Of
  <2>2. IsFiniteSet(Of(T))
    BY <2>1, FS_Subset
  <2> QED BY <2>2, FS_CardinalityType
<1>2. \A k : IsFiniteSet(One(k)) /\ Cardinality(One(k)) \in Nat
  <2> TAKE k
  <2>1. One(k) \subseteq A
    OBVIOUS
  <2> HIDE DEF One
  <2>2. IsFiniteSet(One(k))
    BY <2>1, FS_Subset
  <2> QED BY <2>2, FS_CardinalityType
<1>3. \A k \in K : h[k] = Cardinality(One(k)) /\ h[k] \in Int
  <2> TAKE k \in K
  <2>1. h[k] = Cardinality(One(k))
    BY DEF Counts
  <2> HIDE DEF One
  <2> QED BY <1>2, <2>1
<1>4. ASSUME NEW T \in SUBSET K, \A x \in T : T \ {x} \in Good
      PROVE  T \in Good
  <2>1. CASE T = {}
    <3>1. Sum({}) = 0
      BY SumChoosing
    <3>2. Of({}) = {}
      OBVIOUS
    <3> HIDE DEF Of, Sum
    <3>3. Cardinality(Of({})) = 0
      BY <3>2, FS_EmptySet
    <3> QED BY <2>1, <3>1, <3>3
  <2>2. CASE T # {}
    <3>1. PICK x \in T : TRUE
      BY <2>2
    <3>2. Of(T) = Of(T \ {x}) \cup One(x) /\ Of(T \ {x}) \cap One(x) = {}
      BY <3>1
    <3>3. Sum(T \ {x}) = Cardinality(Of(T \ {x}))
      BY <1>4, <3>1
    <3>4. Sum(T) = h[x] + Sum(T \ {x})
      <4> HIDE DEF One
      <4> QED BY <1>3, <3>1, SumTake
    <3> HIDE DEF Of, One, Sum
    <3>5. PICK U, V : U = Of(T \ {x}) /\ V = One(x)
      OBVIOUS
    <3>6. Cardinality(U \cup V) = Cardinality(U) + Cardinality(V) - Cardinality(U \cap V)
      BY <1>1, <1>2, <3>5, FS_Union
    <3>7. Cardinality(U \cap V) = 0
      BY <3>2, <3>5, FS_EmptySet
    <3>8. Cardinality(U) \in Nat /\ Cardinality(V) \in Nat /\ h[x] = Cardinality(V)
      BY <1>1, <1>2, <1>3, <3>1, <3>5
    <3>9. Cardinality(Of(T)) = Cardinality(U \cup V)
      BY <3>2, <3>5
    <3>10. Sum(T) = Cardinality(V) + Cardinality(U)
      BY <3>3, <3>4, <3>5, <3>8
    <3> QED BY <3>6, <3>7, <3>8, <3>9, <3>10
  <2> QED BY <2>1, <2>2
<1> HIDE DEF Good
<1>5. \A T \in SUBSET K : T \in Good
  BY <1>4, SubsetInduction
<1>6. Sum(K) = Cardinality(Of(K))
  BY <1>5 DEF Good
<1>7. Of(K) = A
  BY DEF Counts
<1> HIDE DEF Of
<1> QED BY <1>6, <1>7

-----------------------------------------------------------------------------
(* Up to a number *)

\* A set that has 0, and every number up to n of which it has the one before,
\* has all the numbers up to n.
LEMMA UpTo ==
  ASSUME NEW n \in Nat, NEW Good, 0 \in Good, \A i \in 1 .. n : i - 1 \in Good => i \in Good
  PROVE  \A i \in 0 .. n : i \in Good
<1> DEFINE Bad == {i \in 0 .. n : i \notin Good}
<1> SUFFICES ASSUME Bad # {} PROVE FALSE
  OBVIOUS
<1>1. PICK i \in Bad : \A j \in Bad : <<j, i>> \notin OpToRel(<, Nat)
  <2>1. Bad \subseteq Nat
    OBVIOUS
  <2> HIDE DEF Bad
  <2> QED BY <2>1, NatLessThanWellFounded, WFMin
<1>2. i \in 1 .. n
  OBVIOUS
<1>3. i - 1 \in Bad
  BY <1>2
<1>4. <<i - 1, i>> \in OpToRel(<, Nat)
  BY <1>2 DEF OpToRel
<1> QED BY <1>1, <1>3, <1>4

\* n steps that start at a value of A, each of which takes the values of A to
\* values of A.
Steps(F, n, A, base) ==
  n \in Nat /\ base \in A /\ \A i \in 1 .. n, w \in A : F[i][w] \in A

\* g takes these steps one after the other.
Taken(g, F, n, A, base) ==
  g \in [0 .. n -> A] /\ g[0] = base /\ \A i \in 1 .. n : g[i] = F[i][g[i - 1]]

\* A recursion in which each value is a function of the one before has a
\* solution.
LEMMA Recursion ==
  ASSUME NEW F, NEW n, NEW A, NEW base, Steps(F, n, A, base)
  PROVE  \E g : Taken(g, F, n, A, base)
<1>0. n \in Nat /\ base \in A /\ \A i \in 1 .. n, w \in A : F[i][w] \in A
  BY DEF Steps
<1> DEFINE Good == {m \in 0 .. n : \E g \in [0 .. m -> A] :
                      g[0] = base /\ \A i \in 1 .. m : g[i] = F[i][g[i - 1]]}
<1>1. 0 \in Good
  <2>1. /\ [i \in 0 .. 0 |-> base] \in [0 .. 0 -> A]
        /\ [i \in 0 .. 0 |-> base][0] = base
        /\ \A i \in 1 .. 0 : FALSE
    BY <1>0
  <2>2. \E g \in [0 .. 0 -> A] : g[0] = base /\ \A i \in 1 .. 0 : g[i] = F[i][g[i - 1]]
    BY <2>1
  <2>3. 0 \in 0 .. n
    BY <1>0
  <2> QED BY <2>2, <2>3
<1>2. ASSUME NEW m \in 1 .. n, m - 1 \in Good PROVE m \in Good
  <2>1. PICK g \in [0 .. m - 1 -> A] :
          g[0] = base /\ \A i \in 1 .. m - 1 : g[i] = F[i][g[i - 1]]
    BY <1>2
  <2> DEFINE h == [i \in 0 .. m |-> IF i = m THEN F[m][g[m - 1]] ELSE g[i]]
  <2>2. g[m - 1] \in A /\ F[m][g[m - 1]] \in A
    BY <1>0
  <2>3. h \in [0 .. m -> A]
    BY <2>2
  <2>4. h[0] = base
    BY <2>1
  <2>5. ASSUME NEW i \in 1 .. m PROVE h[i] = F[i][h[i - 1]]
    <3>1. h[i - 1] = g[i - 1]
      OBVIOUS
    <3>2. CASE i = m
      BY <3>1, <3>2
    <3>3. CASE i # m
      BY <2>1, <3>1, <3>3
    <3> QED BY <3>2, <3>3
  <2> HIDE DEF h
  <2>6. \E k \in [0 .. m -> A] : k[0] = base /\ \A i \in 1 .. m : k[i] = F[i][k[i - 1]]
    BY <2>3, <2>4, <2>5
  <2>7. m \in 0 .. n
    BY <1>0
  <2> QED BY <2>6, <2>7
<1> HIDE DEF Good
<1>3. \A m \in 0 .. n : m \in Good
  BY <1>0, <1>1, <1>2, UpTo
<1>4. n \in 0 .. n
  BY <1>0
<1> QED BY <1>3, <1>4 DEF Good, Taken

=============================================================================
