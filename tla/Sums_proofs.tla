----------------------------- MODULE Sums_proofs ------------------------------
(***************************************************************************)
(* Facts about finite sets of numbers and sums that the proofs of several  *)
(* components need.  What is computed over a set is computed by taking out *)
(* one member after the other; the library's induction theorems cannot be  *)
(* used, so each fact is proved by looking at a smallest set or number for *)
(* which it would fail.                                                    *)
(***************************************************************************)
EXTENDS Integers, Functions, FiniteSetTheorems, WellFoundedInduction, TLAPS

-----------------------------------------------------------------------------

LEMMA SmallestNumber ==
    ASSUME NEW S \in SUBSET Nat, S # {}
    PROVE  \E m \in S : \A x \in S : m <= x
<1> DEFINE R == OpToRel(<, Nat)
<1>1. IsWellFoundedOn(R, Nat)
    BY NatLessThanWellFounded
<1>2. \A x, y \in Nat : x < y => <<x, y>> \in R
    BY DEF OpToRel
<1> HIDE DEF R
<1>3. PICK m \in S : \A x \in S : ~(<<x, m>> \in R)
    BY <1>1, WFMin
<1>4. ASSUME NEW x \in S
      PROVE  m <= x
    <2>1. x \in Nat /\ m \in Nat /\ ~(x < m)
        BY <1>2, <1>3
    <2> QED BY <2>1
<1> QED BY <1>3, <1>4

\* Among finite sets there is a smallest one.
LEMMA SmallestSet ==
    ASSUME NEW C, C # {}, \A s \in C : IsFiniteSet(s)
    PROVE  \E s \in C : \A t \in C : Cardinality(s) <= Cardinality(t)
<1> DEFINE N == {Cardinality(s) : s \in C}
<1>1. N \in SUBSET Nat /\ N # {}
    BY FS_CardinalityType
<1>2. PICK m \in N : \A x \in N : m <= x
    BY <1>1, SmallestNumber
<1> QED BY <1>2

First(s) == CHOOSE x \in s : TRUE

\* g has the sums of f over the subsets of S, as SumFunctionOnSet computes them.
PartialSums(g, f, S) ==
    \A s \in SUBSET S : g[s] = IF s = {} THEN 0 ELSE f[First(s)] + g[s \ {First(s)}]

LEMMA FirstIn == \A s : s # {} => First(s) \in s
<1> QED BY DEF First

LEMMA Smaller ==
    ASSUME NEW s, IsFiniteSet(s), NEW x \in s
    PROVE  /\ IsFiniteSet(s \ {x}) /\ Cardinality(s \ {x}) < Cardinality(s)
           /\ Cardinality(s) \in Nat /\ Cardinality(s \ {x}) \in Nat
           /\ Cardinality(s \ {x}) = Cardinality(s) - 1
<1>1. IsFiniteSet(s \ {x}) /\ Cardinality(s \ {x}) = Cardinality(s) - 1 /\ Cardinality(s) \in Nat
    BY FS_RemoveElement, FS_CardinalityType
<1>2. Cardinality(s \ {x}) \in Nat
    BY <1>1, FS_CardinalityType
<1> QED BY <1>1, <1>2

\* Up to a size: the sums of larger sets do not matter.
SumsUpTo(n, g, f, S) ==
    /\ DOMAIN g = SUBSET S
    /\ \A s \in SUBSET S : Cardinality(s) <= n =>
          g[s] = IF s = {} THEN 0 ELSE f[First(s)] + g[s \ {First(s)}]

LEMMA SumsOneMore ==
    ASSUME NEW f, NEW S, IsFiniteSet(S), NEW n \in Nat, NEW g, SumsUpTo(n, g, f, S)
    PROVE  \E h : SumsUpTo(n + 1, h, f, S)
<1> DEFINE h == [s \in SUBSET S |->
                    IF Cardinality(s) <= n THEN g[s] ELSE f[First(s)] + g[s \ {First(s)}]]
<1>1. DOMAIN h = SUBSET S
    OBVIOUS
<1>2. ASSUME NEW s \in SUBSET S, Cardinality(s) <= n + 1
      PROVE  h[s] = IF s = {} THEN 0 ELSE f[First(s)] + h[s \ {First(s)}]
    <2>1. Cardinality(s) \in Nat /\ IsFiniteSet(s)
        BY FS_Subset, FS_CardinalityType
    <2>2. CASE s = {}
        <3>1. Cardinality(s) <= n
            BY <2>2, FS_EmptySet
        <3>2. h[s] = g[s]
            BY <3>1
        <3> QED BY <2>2, <3>1, <3>2 DEF SumsUpTo
    <2>3. CASE s # {}
        <3>1. First(s) \in s /\ s \ {First(s)} \in SUBSET S
            BY <2>3, FirstIn
        <3>2. Cardinality(s \ {First(s)}) <= n
            BY <1>2, <2>1, <3>1, Smaller
        <3>3. h[s \ {First(s)}] = g[s \ {First(s)}]
            BY <3>1, <3>2
        <3>4. h[s] = f[First(s)] + g[s \ {First(s)}]
            <4>1. CASE Cardinality(s) <= n
                BY <2>3, <4>1 DEF SumsUpTo
            <4>2. CASE ~(Cardinality(s) <= n)
                BY <4>2
            <4> QED BY <4>1, <4>2
        <3> QED BY <2>3, <3>3, <3>4
    <2> QED BY <2>2, <2>3
<1> HIDE DEF h
<1> QED BY <1>1, <1>2 DEF SumsUpTo

LEMMA SumsExist ==
    ASSUME NEW f, NEW S, IsFiniteSet(S)
    PROVE  \A n \in Nat : \E g : SumsUpTo(n, g, f, S)
<1> DEFINE T == {n \in Nat : ~\E g : SumsUpTo(n, g, f, S)}
<1>1. SUFFICES ASSUME T # {}
               PROVE  FALSE
    OBVIOUS
<1>2. PICK m \in T : \A x \in T : m <= x
    BY <1>1, SmallestNumber
<1>3. m # 0
    <2> DEFINE g == [s \in SUBSET S |-> 0]
    <2>1. SumsUpTo(0, g, f, S)
        <3>1. \A s \in SUBSET S : Cardinality(s) <= 0 => s = {}
            BY FS_Subset, FS_CardinalityType, FS_EmptySet
        <3> QED BY <3>1 DEF SumsUpTo
    <2> QED BY <1>2, <2>1
<1>4. m - 1 \in Nat /\ m - 1 \notin T /\ (m - 1) + 1 = m
    BY <1>2, <1>3
<1>5. PICK g : SumsUpTo(m - 1, g, f, S)
    BY <1>4
<1>6. \E h : SumsUpTo((m - 1) + 1, h, f, S)
    BY <1>4, <1>5, SumsOneMore
<1> QED BY <1>2, <1>4, <1>6

SumsFunction(g, f, S) ==
    g = [s \in SUBSET S |-> IF s = {} THEN 0 ELSE f[First(s)] + g[s \ {First(s)}]]

LEMMA SumsFunctionExists ==
    ASSUME NEW f, NEW S, IsFiniteSet(S)
    PROVE  \E g : SumsFunction(g, f, S)
<1>1. PICK g : SumsUpTo(Cardinality(S), g, f, S)
    BY SumsExist, FS_CardinalityType
<1> DEFINE h == [s \in SUBSET S |-> IF s = {} THEN 0 ELSE f[First(s)] + g[s \ {First(s)}]]
<1>2. \A s \in SUBSET S : Cardinality(s) <= Cardinality(S)
    BY FS_Subset
<1>3. \A s \in SUBSET S : h[s] = g[s]
    BY <1>1, <1>2 DEF SumsUpTo
<1>4. \A s \in SUBSET S : s # {} => s \ {First(s)} \in SUBSET S
    OBVIOUS
<1>5. h = [s \in SUBSET S |-> IF s = {} THEN 0 ELSE f[First(s)] + h[s \ {First(s)}]]
    BY <1>3, <1>4
<1> QED BY <1>5 DEF SumsFunction

\* What SumFunctionOnSet computes.
LEMMA SumsComputed ==
    ASSUME NEW f, NEW S, IsFiniteSet(S)
    PROVE  \E g : PartialSums(g, f, S) /\ SumFunctionOnSet(f, S) = g[S]
<1> DEFINE g == CHOOSE g : SumsFunction(g, f, S)
<1>1. SumsFunction(g, f, S)
    BY SumsFunctionExists
<1>2. SumFunctionOnSet(f, S) = g[S]
    BY DEF SumFunctionOnSet, FoldFunctionOnSet, MapThenFoldSet, SumsFunction, First
<1> HIDE DEF g
<1>3. PartialSums(g, f, S)
    BY <1>1 DEF SumsFunction, PartialSums
<1> QED BY <1>2, <1>3

\* Equal functions have equal sums.
LEMMA SumsAgree ==
    ASSUME NEW f, NEW g, NEW S, PartialSums(g, f, S),
           NEW e, NEW h, NEW T, PartialSums(h, e, T),
           NEW U, IsFiniteSet(U), U \subseteq S, U \subseteq T, \A x \in U : f[x] = e[x]
    PROVE  g[U] = h[U]
<1> DEFINE C == {s \in SUBSET U : g[s] # h[s]}
<1>1. SUFFICES ASSUME C # {}
               PROVE  FALSE
    OBVIOUS
<1>2. PICK s \in C : \A t \in C : Cardinality(s) <= Cardinality(t)
    BY <1>1, SmallestSet, FS_Subset
<1>3. s \in SUBSET U /\ s \in SUBSET S /\ s \in SUBSET T /\ IsFiniteSet(s) /\ g[s] # h[s]
    BY <1>2, FS_Subset
<1>4. CASE s = {}
    BY <1>3, <1>4 DEF PartialSums
<1>5. CASE s # {}
    <2> DEFINE x == First(s)
    <2>1. x \in s /\ x \in U /\ s \ {x} \in SUBSET U
        BY <1>3, <1>5, FirstIn
    <2>2. s \ {x} \notin C
        <3>1. ~(Cardinality(s) <= Cardinality(s \ {x}))
            BY <1>3, <2>1, Smaller
        <3> QED BY <1>2, <3>1
    <2>3. g[s \ {x}] = h[s \ {x}]
        BY <2>1, <2>2
    <2>4. g[s] = f[x] + g[s \ {x}] /\ h[s] = e[x] + h[s \ {x}]
        BY <1>3, <1>5 DEF PartialSums
    <2> QED BY <1>3, <2>1, <2>3, <2>4
<1> QED BY <1>4, <1>5

LEMMA SumsRead ==
    ASSUME NEW f, NEW g, NEW S, IsFiniteSet(S), PartialSums(g, f, S), NEW s \in SUBSET S
    PROVE  SumFunctionOnSet(f, s) = g[s]
<1>1. IsFiniteSet(s)
    BY FS_Subset
<1>2. PICK h : PartialSums(h, f, s) /\ SumFunctionOnSet(f, s) = h[s]
    BY <1>1, SumsComputed
<1>3. h[s] = g[s]
    BY <1>1, <1>2, SumsAgree
<1> QED BY <1>2, <1>3

LEMMA SumsTyped ==
    ASSUME NEW f, NEW g, NEW S, IsFiniteSet(S), PartialSums(g, f, S), \A x \in S : f[x] \in Int
    PROVE  \A s \in SUBSET S : g[s] \in Int /\ ((\A x \in s : f[x] >= 0) => g[s] >= 0)
<1> DEFINE Good(s) == g[s] \in Int /\ ((\A x \in s : f[x] >= 0) => g[s] >= 0)
           C == {s \in SUBSET S : ~Good(s)}
<1>1. SUFFICES ASSUME C # {}
               PROVE  FALSE
    OBVIOUS
<1>2. PICK s \in C : \A t \in C : Cardinality(s) <= Cardinality(t)
    BY <1>1, SmallestSet, FS_Subset
<1>3. s \in SUBSET S /\ IsFiniteSet(s) /\ ~Good(s)
    BY <1>2, FS_Subset
<1>4. CASE s = {}
    BY <1>3, <1>4 DEF PartialSums
<1>5. CASE s # {}
    <2> DEFINE x == First(s)
    <2>1. x \in s /\ f[x] \in Int /\ s \ {x} \in SUBSET S
        BY <1>3, <1>5, FirstIn
    <2>2. s \ {x} \notin C
        <3>1. ~(Cardinality(s) <= Cardinality(s \ {x}))
            BY <1>3, <2>1, Smaller
        <3> QED BY <1>2, <3>1
    <2>3. Good(s \ {x})
        BY <2>1, <2>2
    <2>4. g[s] = f[x] + g[s \ {x}]
        BY <1>3, <1>5 DEF PartialSums
    <2>5. Good(s)
        BY <2>1, <2>3, <2>4
    <2> QED BY <1>3, <2>5
<1> QED BY <1>4, <1>5

\* The order does not matter: any element may be taken first.
LEMMA SumsAnyFirst ==
    ASSUME NEW f, NEW g, NEW S, IsFiniteSet(S), PartialSums(g, f, S), \A x \in S : f[x] \in Int
    PROVE  \A s \in SUBSET S : \A x \in s : g[s] = f[x] + g[s \ {x}]
<1> DEFINE Good(s) == \A x \in s : g[s] = f[x] + g[s \ {x}]
           C == {s \in SUBSET S : ~Good(s)}
<1>1. SUFFICES ASSUME C # {}
               PROVE  FALSE
    OBVIOUS
<1>2. PICK s \in C : \A t \in C : Cardinality(s) <= Cardinality(t)
    BY <1>1, SmallestSet, FS_Subset
<1>3. s \in SUBSET S /\ IsFiniteSet(s) /\ ~Good(s)
    BY <1>2, FS_Subset
<1>4. PICK x \in s : g[s] # f[x] + g[s \ {x}]
    BY <1>3
<1> DEFINE c == First(s)
<1>5. c \in s /\ g[s] = f[c] + g[s \ {c}]
    BY <1>3, <1>4, FirstIn DEF PartialSums
<1>6. c # x
    BY <1>4, <1>5
<1> HIDE DEF c
<1>7. ASSUME NEW y \in s
      PROVE  s \ {y} \in SUBSET S /\ Good(s \ {y})
    <2>1. ~(Cardinality(s) <= Cardinality(s \ {y})) /\ s \ {y} \in SUBSET S
        BY <1>3, Smaller
    <2> QED BY <1>2, <2>1
<1>8. g[s \ {c}] = f[x] + g[(s \ {c}) \ {x}]
    BY <1>5, <1>6, <1>7
<1>9. g[s \ {x}] = f[c] + g[(s \ {x}) \ {c}]
    BY <1>5, <1>6, <1>7
<1>10. (s \ {x}) \ {c} = (s \ {c}) \ {x}
    OBVIOUS
<1>11. f[x] \in Int /\ f[c] \in Int /\ g[(s \ {c}) \ {x}] \in Int
    <2>1. (s \ {c}) \ {x} \in SUBSET S /\ x \in S /\ c \in S
        BY <1>3, <1>5
    <2> QED BY <2>1, SumsTyped
<1>12. g[s] = f[c] + (f[x] + g[(s \ {c}) \ {x}]) /\ g[s \ {x}] = f[c] + g[(s \ {c}) \ {x}]
    BY <1>5, <1>8, <1>9, <1>10
<1>13. \A i, j, k \in Int : i + (j + k) = j + (i + k)
    OBVIOUS
<1> QED BY <1>4, <1>11, <1>12, <1>13

-----------------------------------------------------------------------------
(* What the proofs use of the sums. *)

\* The sum of integers is an integer, of naturals a natural.
LEMMA SumTyped ==
    ASSUME NEW f, NEW S, IsFiniteSet(S), \A x \in S : f[x] \in Int
    PROVE  /\ SumFunctionOnSet(f, S) \in Int
           /\ (\A x \in S : f[x] \in Nat) => SumFunctionOnSet(f, S) \in Nat
<1>1. PICK g : PartialSums(g, f, S) /\ SumFunctionOnSet(f, S) = g[S]
    BY SumsComputed
<1>2. g[S] \in Int /\ ((\A x \in S : f[x] >= 0) => g[S] >= 0)
    BY <1>1, SumsTyped
<1>3. (\A x \in S : f[x] \in Nat) => \A x \in S : f[x] >= 0
    OBVIOUS
<1> QED BY <1>1, <1>2, <1>3

LEMMA SumEmpty == \A f : SumFunctionOnSet(f, {}) = 0
<1> SUFFICES ASSUME NEW f
             PROVE  SumFunctionOnSet(f, {}) = 0
    OBVIOUS
<1>1. PICK g : PartialSums(g, f, {}) /\ SumFunctionOnSet(f, {}) = g[{}]
    BY SumsComputed, FS_EmptySet
<1> QED BY <1>1 DEF PartialSums

\* Any summand may be taken out.
LEMMA SumRemove ==
    ASSUME NEW f, NEW S, IsFiniteSet(S), \A x \in S : f[x] \in Int, NEW x \in S
    PROVE  SumFunctionOnSet(f, S) = f[x] + SumFunctionOnSet(f, S \ {x})
<1>1. PICK g : PartialSums(g, f, S) /\ SumFunctionOnSet(f, S) = g[S]
    BY SumsComputed
<1>2. g[S] = f[x] + g[S \ {x}]
    BY <1>1, SumsAnyFirst
<1>3. SumFunctionOnSet(f, S \ {x}) = g[S \ {x}]
    BY <1>1, SumsRead
<1> QED BY <1>1, <1>2, <1>3

LEMMA SumSame ==
    ASSUME NEW f, NEW e, NEW S, IsFiniteSet(S), \A x \in S : f[x] = e[x]
    PROVE  SumFunctionOnSet(f, S) = SumFunctionOnSet(e, S)
<1>1. PICK g : PartialSums(g, f, S) /\ SumFunctionOnSet(f, S) = g[S]
    BY SumsComputed
<1>2. PICK h : PartialSums(h, e, S) /\ SumFunctionOnSet(e, S) = h[S]
    BY SumsComputed
<1>3. g[S] = h[S]
    BY <1>1, <1>2, SumsAgree
<1> QED BY <1>1, <1>2, <1>3

\* Sums over disjoint sets add up.
LEMMA SumDisjoint ==
    ASSUME NEW f, NEW A, IsFiniteSet(A), NEW B, IsFiniteSet(B), A \cap B = {},
           \A x \in A \cup B : f[x] \in Int
    PROVE  SumFunctionOnSet(f, A \cup B) = SumFunctionOnSet(f, A) + SumFunctionOnSet(f, B)
<1> DEFINE Good(s) == SumFunctionOnSet(f, s \cup B) = SumFunctionOnSet(f, s) + SumFunctionOnSet(f, B)
           C == {s \in SUBSET A : ~Good(s)}
<1>1. SUFFICES ASSUME C # {}
               PROVE  FALSE
    OBVIOUS
<1>2. PICK s \in C : \A t \in C : Cardinality(s) <= Cardinality(t)
    BY <1>1, SmallestSet, FS_Subset
<1>3. s \in SUBSET A /\ IsFiniteSet(s) /\ ~Good(s)
    BY <1>2, FS_Subset
<1>4. SumFunctionOnSet(f, B) \in Int
    BY SumTyped
<1>5. CASE s = {}
    <2>1. SumFunctionOnSet(f, s \cup B) = SumFunctionOnSet(f, B)
        BY <1>5
    <2>2. SumFunctionOnSet(f, s) = 0
        BY <1>5, SumEmpty
    <2>3. \A i \in Int : i = 0 + i
        OBVIOUS
    <2>4. SumFunctionOnSet(f, B) = 0 + SumFunctionOnSet(f, B)
        BY <1>4, <2>3
    <2> QED BY <1>3, <2>1, <2>2, <2>4
<1>6. CASE s # {}
    <2>1. PICK x : x \in s
        BY <1>6
    <2>2. s \ {x} \in SUBSET A /\ Good(s \ {x})
        <3>1. s \ {x} \in SUBSET A /\ IsFiniteSet(s)
            BY <1>3
        <3>2. Cardinality(s \ {x}) < Cardinality(s)
              /\ Cardinality(s) \in Nat /\ Cardinality(s \ {x}) \in Nat
            BY <2>1, <3>1, Smaller
        <3>3. ~(Cardinality(s) <= Cardinality(s \ {x}))
            BY <3>2
        <3> QED BY <1>2, <3>1, <3>3
    <2>3. IsFiniteSet(s \cup B) /\ x \in s \cup B /\ (s \cup B) \ {x} = (s \ {x}) \cup B
          /\ f[x] \in Int
        BY <1>3, <2>1, FS_Union
    <2>4. SumFunctionOnSet(f, s \cup B) = f[x] + SumFunctionOnSet(f, (s \ {x}) \cup B)
        BY <1>3, <2>3, SumRemove
    <2>5. SumFunctionOnSet(f, s) = f[x] + SumFunctionOnSet(f, s \ {x})
        BY <1>3, <2>1, SumRemove
    <2>6. SumFunctionOnSet(f, s \ {x}) \in Int
        BY <1>3, <2>1, FS_RemoveElement, SumTyped
    <2>7. \A i, j, k \in Int : i + (j + k) = (i + j) + k
        OBVIOUS
    <2> QED BY <1>3, <1>4, <2>2, <2>3, <2>4, <2>5, <2>6, <2>7
<1> QED BY <1>5, <1>6

\* The sums of two functions add up to that of the function that adds them.
LEMMA SumsAdd ==
    ASSUME NEW f, NEW e, NEW h, NEW S, IsFiniteSet(S),
           \A x \in S : f[x] \in Int /\ e[x] \in Int /\ h[x] = f[x] + e[x]
    PROVE  SumFunctionOnSet(h, S) = SumFunctionOnSet(f, S) + SumFunctionOnSet(e, S)
<1> DEFINE Good(s) == SumFunctionOnSet(h, s) = SumFunctionOnSet(f, s) + SumFunctionOnSet(e, s)
           C == {s \in SUBSET S : ~Good(s)}
<1>1. SUFFICES ASSUME C # {}
               PROVE  FALSE
    OBVIOUS
<1>2. \A s \in C : IsFiniteSet(s)
    BY FS_Subset
<1>3. PICK s \in C : \A t \in C : Cardinality(s) <= Cardinality(t)
    <2> HIDE DEF C
    <2> QED BY <1>1, <1>2, SmallestSet
<1>4. s # {}
    <2>1. 0 = 0 + 0
        OBVIOUS
    <2>2. Good({})
        BY <2>1, SumEmpty
    <2> QED BY <1>3, <2>2
<1>5. PICK x \in s : TRUE
    BY <1>4
<1>6. s \in SUBSET S /\ ~Good(s) /\ IsFiniteSet(s) /\ s \ {x} \in SUBSET S
    BY <1>2
<1>7. /\ IsFiniteSet(s \ {x}) /\ Cardinality(s \ {x}) < Cardinality(s)
      /\ Cardinality(s) \in Nat /\ Cardinality(s \ {x}) \in Nat
    BY <1>5, <1>6, Smaller
<1>8. Good(s \ {x})
    <2>1. s \ {x} \notin C
        BY <1>3, <1>7
    <2> QED BY <1>6, <2>1
<1> HIDE DEF C
<1>9. \A y \in s : f[y] \in Int /\ e[y] \in Int /\ h[y] \in Int /\ h[y] = f[y] + e[y]
    BY <1>6
<1>10. /\ SumFunctionOnSet(h, s) = h[x] + SumFunctionOnSet(h, s \ {x})
       /\ SumFunctionOnSet(f, s) = f[x] + SumFunctionOnSet(f, s \ {x})
       /\ SumFunctionOnSet(e, s) = e[x] + SumFunctionOnSet(e, s \ {x})
    BY <1>5, <1>6, <1>9, SumRemove
<1>11. SumFunctionOnSet(f, s \ {x}) \in Int /\ SumFunctionOnSet(e, s \ {x}) \in Int
    BY <1>7, <1>9, SumTyped
<1>12. f[x] \in Int /\ e[x] \in Int /\ h[x] = f[x] + e[x]
    BY <1>5, <1>9
<1> QED BY <1>6, <1>8, <1>10, <1>11, <1>12

\* A sum by groups: the sums of the groups add up to the sum of all.
LEMMA SumByGroups ==
    ASSUME NEW f, NEW S, IsFiniteSet(S), \A x \in S : f[x] \in Int,
           NEW key, NEW K, IsFiniteSet(K), \A x \in S : key[x] \in K
    PROVE  SumFunctionOnSet([k \in K |-> SumFunctionOnSet(f, {x \in S : key[x] = k})], K)
               = SumFunctionOnSet(f, S)
<1> DEFINE G == [k \in K |-> SumFunctionOnSet(f, {x \in S : key[x] = k})]
           In(s) == {x \in S : key[x] \in s}
           Good(s) == SumFunctionOnSet(G, s) = SumFunctionOnSet(f, In(s))
           C == {s \in SUBSET K : ~Good(s)}
<1>1. SUFFICES ASSUME C # {}
               PROVE  FALSE
    <2>1. In(K) = S
        OBVIOUS
    <2> QED BY <2>1
<1>2. PICK s \in C : \A t \in C : Cardinality(s) <= Cardinality(t)
    BY <1>1, SmallestSet, FS_Subset
<1>3. s \in SUBSET K /\ IsFiniteSet(s) /\ ~Good(s)
    BY <1>2, FS_Subset
<1>4. \A k \in K : G[k] = SumFunctionOnSet(f, {x \in S : key[x] = k}) /\ G[k] \in Int
    <2> SUFFICES ASSUME NEW k \in K
                 PROVE  SumFunctionOnSet(f, {x \in S : key[x] = k}) \in Int
        OBVIOUS
    <2>1. IsFiniteSet({x \in S : key[x] = k})
        BY FS_Subset
    <2> QED BY <2>1, SumTyped
<1> HIDE DEF G
<1>5. CASE s = {}
    <2>1. In(s) = {}
        BY <1>5
    <2> QED BY <1>3, <1>5, <2>1, SumEmpty
<1>6. CASE s # {}
    <2>1. PICK k : k \in s
        BY <1>6
    <2>2. s \ {k} \in SUBSET K /\ Good(s \ {k})
        <3>1. s \ {k} \in SUBSET K /\ IsFiniteSet(s)
            BY <1>3
        <3>2. Cardinality(s \ {k}) < Cardinality(s)
              /\ Cardinality(s) \in Nat /\ Cardinality(s \ {k}) \in Nat
            BY <2>1, <3>1, Smaller
        <3>3. ~(Cardinality(s) <= Cardinality(s \ {k}))
            BY <3>2
        <3> QED BY <1>2, <3>1, <3>3
    <2>3. SumFunctionOnSet(G, s) = G[k] + SumFunctionOnSet(G, s \ {k})
        <3>1. IsFiniteSet(s) /\ \A x \in s : G[x] \in Int
            BY <1>3, <1>4
        <3> QED BY <2>1, <3>1, SumRemove
    <2> DEFINE one == {x \in S : key[x] = k}
    <2>4. /\ In(s) = one \cup In(s \ {k}) /\ one \cap In(s \ {k}) = {}
          /\ IsFiniteSet(one) /\ IsFiniteSet(In(s \ {k}))
        BY <2>1, FS_Subset
    <2>5. \A x \in one \cup In(s \ {k}) : f[x] \in Int
        OBVIOUS
    <2>6. SumFunctionOnSet(f, one \cup In(s \ {k})) =
              SumFunctionOnSet(f, one) + SumFunctionOnSet(f, In(s \ {k}))
        BY <2>4, <2>5, SumDisjoint
    <2> QED BY <1>3, <1>4, <2>1, <2>2, <2>3, <2>4, <2>6
<1> QED BY <1>5, <1>6
===============================================================================
