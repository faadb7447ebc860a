------------------------------ MODULE SumProofs -------------------------------
(***************************************************************************)
(* What a sum over a finite set does when a summand or the set changes.    *)
(*                                                                         *)
(* The library computes a sum by a recursive function that takes the       *)
(* elements in an order of its own.  That this function exists, that it    *)
(* does not depend on the order, and how a sum changes are proved here by  *)
(* looking at a counterexample of the least size: the induction theorems   *)
(* of the library take an operator as a parameter, which no installed      *)
(* prover can instantiate, but that every set of numbers has a least one   *)
(* is a statement about sets.                                              *)
(***************************************************************************)
EXTENDS Integers, FiniteSets, FiniteSetsExt, FiniteSetTheorems, WellFoundedInduction, TLAPS

SumOver(f, S) == MapThenSumSet(LAMBDA x : f[x], S)

LEMMA LeastNumber ==
    ASSUME NEW B \in SUBSET Nat, B # {}
    PROVE  \E n \in B : \A m \in B : n <= m
  <1>1. IsWellFoundedOn(OpToRel(<, Nat), Nat)
    BY NatLessThanWellFounded
  <1>2. PICK n \in B : \A m \in B : ~ (<< m, n >> \in OpToRel(<, Nat))
    BY <1>1, WFMin
  <1>3. \A m \in B : ~ (m < n)
    BY <1>2 DEF OpToRel
  <1> QED
    BY <1>3

-----------------------------------------------------------------------------
(* The recursive function behind a sum.                                    *)

Pick(s) == CHOOSE x \in s : TRUE

\* g adds up f over every subset of S.
Adds(g, f, S) ==
    g = [s \in SUBSET S |-> IF s = {} THEN 0 ELSE f[Pick(s)] + g[s \ {Pick(s)}]]

\* The same for the subsets of up to k elements.
Small(S, k) == {s \in SUBSET S : Cardinality(s) <= k}
AddsSmall(g, f, S, k) ==
    g = [s \in Small(S, k) |-> IF s = {} THEN 0 ELSE f[Pick(s)] + g[s \ {Pick(s)}]]

LEMMA Unfold ==
    ASSUME NEW f, NEW S
    PROVE  SumOver(f, S) = (CHOOSE g : Adds(g, f, S))[S]
  BY DEF SumOver, MapThenSumSet, MapThenFoldSet, Adds, Pick

\* One element less.
LEMMA Smaller ==
    ASSUME NEW S, IsFiniteSet(S), NEW s \in SUBSET S, NEW x \in s
    PROVE  /\ IsFiniteSet(s) /\ Cardinality(s) \in Nat /\ Cardinality(s) <= Cardinality(S)
           /\ s \ {x} \in SUBSET S /\ IsFiniteSet(s \ {x})
           /\ Cardinality(s \ {x}) = Cardinality(s) - 1 /\ Cardinality(s) - 1 \in Nat
  <1>1. IsFiniteSet(s) /\ Cardinality(s) <= Cardinality(S)
    BY FS_Subset
  <1>2. /\ IsFiniteSet(s \ {x}) /\ Cardinality(s \ {x}) = Cardinality(s) - 1
    BY <1>1, FS_RemoveElement
  <1>3. Cardinality(s) \in Nat /\ Cardinality(s \ {x}) \in Nat
    BY <1>1, <1>2, FS_CardinalityType
  <1> QED
    BY <1>1, <1>2, <1>3

LEMMA PickIn == ASSUME NEW s, s # {} PROVE Pick(s) \in s
  BY DEF Pick

LEMMA SmallExists ==
    ASSUME NEW f, NEW S, IsFiniteSet(S)
    PROVE  \A k \in Nat : \E g : AddsSmall(g, f, S, k)
  <1> DEFINE B == {k \in Nat : ~ \E g : AddsSmall(g, f, S, k)}
  <1> SUFFICES ASSUME B # {} PROVE FALSE
    OBVIOUS
  <1>1. PICK n \in B : \A m \in B : n <= m
    BY LeastNumber
  <1>2. CASE n = 0
    <2> DEFINE g == [s \in Small(S, 0) |-> 0]
    <2>1. \A s \in Small(S, 0) : s = {}
      <3>1. ASSUME NEW s \in Small(S, 0) PROVE s = {}
        <4>1. IsFiniteSet(s) /\ Cardinality(s) <= 0
          BY FS_Subset DEF Small
        <4>2. Cardinality(s) = 0
          BY <4>1, FS_CardinalityType
        <4> QED
          BY <4>1, <4>2, FS_EmptySet
      <3> QED
        BY <3>1
    <2>2. AddsSmall(g, f, S, 0)
      BY <2>1 DEF AddsSmall
    <2> QED
      BY <1>2, <2>2
  <1>3. CASE n # 0
    <2>1. n \in Nat /\ n - 1 \in Nat /\ n - 1 \notin B
      BY <1>1, <1>3
    <2>2. PICK g : AddsSmall(g, f, S, n - 1)
      BY <2>1
    <2> DEFINE h == [s \in Small(S, n) |->
                       IF s = {} THEN 0 ELSE f[Pick(s)] + g[s \ {Pick(s)}]]
    <2>3. ASSUME NEW s \in Small(S, n), s # {}
          PROVE  /\ s \ {Pick(s)} \in Small(S, n - 1)
                 /\ s \ {Pick(s)} \in Small(S, n)
      <3>1. Pick(s) \in s
        BY <2>3, PickIn
      <3>2. /\ s \ {Pick(s)} \in SUBSET S
            /\ Cardinality(s \ {Pick(s)}) = Cardinality(s) - 1
            /\ Cardinality(s) \in Nat /\ Cardinality(s) <= n
        BY <3>1, Smaller DEF Small
      <3> QED
        BY <2>1, <3>2 DEF Small
    <2>4. \A s \in Small(S, n - 1) : h[s] = g[s]
      <3>1. \A s \in Small(S, n - 1) :
               g[s] = IF s = {} THEN 0 ELSE f[Pick(s)] + g[s \ {Pick(s)}]
        BY <2>2 DEF AddsSmall
      <3>2. \A s \in Small(S, n - 1) : s \in Small(S, n)
        BY <2>1, FS_Subset, FS_CardinalityType DEF Small
      <3> QED
        BY <3>1, <3>2
    <2>5. AddsSmall(h, f, S, n)
      <3>1. \A s \in Small(S, n) :
               (IF s = {} THEN 0 ELSE f[Pick(s)] + g[s \ {Pick(s)}])
               = (IF s = {} THEN 0 ELSE f[Pick(s)] + h[s \ {Pick(s)}])
        BY <2>3, <2>4
      <3> HIDE DEF h
      <3>2. h = [s \in Small(S, n) |->
                  IF s = {} THEN 0 ELSE f[Pick(s)] + h[s \ {Pick(s)}]]
        BY <3>1, Zenon DEF h
      <3> QED
        BY <3>2 DEF AddsSmall
    <2> QED
      BY <2>5
  <1> QED
    BY <1>2, <1>3

LEMMA AddsExists ==
    ASSUME NEW f, NEW S, IsFiniteSet(S)
    PROVE  \E g : Adds(g, f, S)
  <1>1. Cardinality(S) \in Nat
    BY FS_CardinalityType
  <1>2. PICK g : AddsSmall(g, f, S, Cardinality(S))
    BY <1>1, SmallExists
  <1>3. Small(S, Cardinality(S)) = SUBSET S
    BY FS_Subset DEF Small
  <1> QED
    BY <1>2, <1>3 DEF Adds, AddsSmall

LEMMA AddsUnique ==
    ASSUME NEW f, NEW S, IsFiniteSet(S), NEW g, Adds(g, f, S),
           NEW T, T \subseteq S, NEW h, Adds(h, f, T)
    PROVE  \A s \in SUBSET T : g[s] = h[s]
  <1> DEFINE B == {n \in Nat : \E s \in SUBSET T : Cardinality(s) = n /\ g[s] # h[s]}
  <1>1. ASSUME NEW s \in SUBSET T PROVE Cardinality(s) \in Nat
    BY FS_Subset, FS_CardinalityType
  <1> SUFFICES ASSUME B # {} PROVE FALSE
    BY <1>1
  <1>2. PICK n \in B : \A m \in B : n <= m
    BY LeastNumber
  <1>3. PICK s \in SUBSET T : Cardinality(s) = n /\ g[s] # h[s]
    BY <1>2
  <1>4. /\ g[s] = (IF s = {} THEN 0 ELSE f[Pick(s)] + g[s \ {Pick(s)}])
        /\ h[s] = (IF s = {} THEN 0 ELSE f[Pick(s)] + h[s \ {Pick(s)}])
    BY DEF Adds
  <1>5. s # {} /\ g[s \ {Pick(s)}] # h[s \ {Pick(s)}]
    BY <1>3, <1>4
  <1>6. Cardinality(s \ {Pick(s)}) = n - 1 /\ n - 1 \in Nat /\ s \ {Pick(s)} \in SUBSET T
    BY <1>3, <1>5, PickIn, Smaller
  <1>7. n - 1 \in B
    BY <1>5, <1>6
  <1> QED
    BY <1>2, <1>6, <1>7

-----------------------------------------------------------------------------
(* Sums.                                                                   *)

\* A sum's first element, in the library's order, and the rest.
LEMMA SumFirst ==
    ASSUME NEW f, NEW S, IsFiniteSet(S)
    PROVE  /\ S = {} => SumOver(f, S) = 0
           /\ S # {} => SumOver(f, S) = f[Pick(S)] + SumOver(f, S \ {Pick(S)})
  <1> DEFINE g == CHOOSE g : Adds(g, f, S)
             T == S \ {Pick(S)}
             h == CHOOSE h : Adds(h, f, T)
  <1>1. Adds(g, f, S) /\ SumOver(f, S) = g[S]
    BY AddsExists, Unfold
  <1>2. IsFiniteSet(T) /\ T \subseteq S
    BY FS_Subset
  <1>3. Adds(h, f, T) /\ SumOver(f, T) = h[T]
    BY <1>2, AddsExists, Unfold
  <1> HIDE DEF g, h
  <1>4. g[T] = h[T]
    BY <1>1, <1>2, <1>3, AddsUnique
  <1>5. g[S] = IF S = {} THEN 0 ELSE f[Pick(S)] + g[T]
    BY <1>1 DEF Adds
  <1> QED
    BY <1>1, <1>3, <1>4, <1>5

LEMMA SumEmpty == ASSUME NEW f PROVE SumOver(f, {}) = 0
  BY SumFirst, FS_EmptySet

\* The sum of integers is one, and of naturals a natural.
LEMMA SumType ==
    ASSUME NEW S, IsFiniteSet(S), NEW f, NEW N, N \in {Nat, Int}, \A x \in S : f[x] \in N
    PROVE  SumOver(f, S) \in N
  <1> DEFINE B == {n \in Nat : \E s \in SUBSET S : Cardinality(s) = n /\ SumOver(f, s) \notin N}
  <1>1. \A s \in SUBSET S : IsFiniteSet(s) /\ Cardinality(s) \in Nat
    BY FS_Subset, FS_CardinalityType
  <1> SUFFICES ASSUME B # {} PROVE FALSE
    BY <1>1
  <1>2. PICK n \in B : \A m \in B : n <= m
    BY LeastNumber
  <1>3. PICK s \in SUBSET S : Cardinality(s) = n /\ SumOver(f, s) \notin N
    BY <1>2
  <1>4. s # {}
    BY <1>3, SumEmpty
  <1> DEFINE t == s \ {Pick(s)}
  <1>5. /\ Pick(s) \in S /\ t \in SUBSET S
        /\ Cardinality(t) = n - 1 /\ n - 1 \in Nat
    BY <1>3, <1>4, PickIn, Smaller
  <1>6. SumOver(f, s) = f[Pick(s)] + SumOver(f, t)
    BY <1>1, <1>4, SumFirst
  <1>7. SumOver(f, t) \in N
    BY <1>2, <1>5
  <1>8. f[Pick(s)] + SumOver(f, t) \in N
    BY <1>5, <1>7
  <1> QED
    BY <1>3, <1>6, <1>8

\* Any element may be taken out first.
LEMMA SumRemove ==
    ASSUME NEW S, IsFiniteSet(S), NEW f, \A x \in S : f[x] \in Int, NEW y \in S
    PROVE  SumOver(f, S) = f[y] + SumOver(f, S \ {y})
  <1> DEFINE Good(s) == \A z \in s : SumOver(f, s) = f[z] + SumOver(f, s \ {z})
             B == {n \in Nat : \E s \in SUBSET S : Cardinality(s) = n /\ ~Good(s)}
  <1>1. \A s \in SUBSET S :
           IsFiniteSet(s) /\ Cardinality(s) \in Nat /\ SumOver(f, s) \in Int
    BY FS_Subset, FS_CardinalityType, SumType
  <1> SUFFICES ASSUME B # {} PROVE FALSE
    <2>1. Cardinality(S) \in Nat
      BY FS_CardinalityType
    <2> QED
      BY <2>1
  <1>2. PICK n \in B : \A m \in B : n <= m
    BY LeastNumber
  <1>3. PICK s \in SUBSET S : Cardinality(s) = n /\ ~Good(s)
    BY <1>2
  <1>4. PICK z \in s : SumOver(f, s) # f[z] + SumOver(f, s \ {z})
    BY <1>3
  <1>5. PICK x \in s : x = Pick(s)
    BY <1>4, PickIn
  <1>6. SumOver(f, s) = f[x] + SumOver(f, s \ {x})
    BY <1>1, <1>5, SumFirst
  <1>7. x # z
    BY <1>4, <1>6
  <1>8. ASSUME NEW v \in s PROVE Good(s \ {v})
    <2>1. /\ Cardinality(s \ {v}) = n - 1 /\ n - 1 \in Nat /\ s \ {v} \in SUBSET S
      BY <1>3, Smaller
    <2> QED
      BY <1>2, <2>1
  <1>9. SumOver(f, s \ {x}) = f[z] + SumOver(f, (s \ {x}) \ {z})
    BY <1>7, <1>8
  <1>10. SumOver(f, s \ {z}) = f[x] + SumOver(f, (s \ {z}) \ {x})
    BY <1>7, <1>8
  <1>11. (s \ {x}) \ {z} = (s \ {z}) \ {x}
    OBVIOUS
  <1>12. f[x] \in Int /\ f[z] \in Int /\ SumOver(f, (s \ {x}) \ {z}) \in Int
    BY <1>1
  <1>13. f[x] + SumOver(f, s \ {x}) = f[z] + SumOver(f, s \ {z})
    <2>1. PICK r \in Int : /\ SumOver(f, s \ {x}) = f[z] + r
                          /\ SumOver(f, s \ {z}) = f[x] + r
      BY <1>9, <1>10, <1>11, <1>12, Zenon
    <2>2. f[x] + (f[z] + r) = f[z] + (f[x] + r)
      BY <1>12
    <2> QED
      BY <2>1, <2>2
  <1> QED
    BY <1>4, <1>6, <1>13

\* Only the summands matter.
LEMMA SumAgree ==
    ASSUME NEW S, IsFiniteSet(S), NEW f, NEW g, \A x \in S : f[x] = g[x]
    PROVE  SumOver(f, S) = SumOver(g, S)
  <1> DEFINE B == {n \in Nat : \E s \in SUBSET S :
                                  Cardinality(s) = n /\ SumOver(f, s) # SumOver(g, s)}
  <1>1. \A s \in SUBSET S : IsFiniteSet(s) /\ Cardinality(s) \in Nat
    BY FS_Subset, FS_CardinalityType
  <1> SUFFICES ASSUME B # {} PROVE FALSE
    BY <1>1
  <1>2. PICK n \in B : \A m \in B : n <= m
    BY LeastNumber
  <1>3. PICK s \in SUBSET S : Cardinality(s) = n /\ SumOver(f, s) # SumOver(g, s)
    BY <1>2
  <1>4. s # {}
    BY <1>3, SumEmpty
  <1> DEFINE t == s \ {Pick(s)}
  <1>5. /\ Pick(s) \in S /\ t \in SUBSET S
        /\ Cardinality(t) = n - 1 /\ n - 1 \in Nat
    BY <1>3, <1>4, PickIn, Smaller
  <1>6. SumOver(f, s) = f[Pick(s)] + SumOver(f, t) /\ SumOver(g, s) = g[Pick(s)] + SumOver(g, t)
    BY <1>1, <1>4, SumFirst
  <1>7. SumOver(f, t) = SumOver(g, t)
    BY <1>2, <1>5
  <1> QED
    BY <1>3, <1>5, <1>6, <1>7

\* One summand changes.
LEMMA SumChange ==
    ASSUME NEW S, IsFiniteSet(S), NEW f, NEW g, NEW y \in S,
           \A x \in S : f[x] \in Int /\ g[x] \in Int, \A x \in S \ {y} : f[x] = g[x]
    PROVE  SumOver(g, S) = SumOver(f, S) + (g[y] - f[y])
  <1>1. IsFiniteSet(S \ {y})
    BY FS_Subset
  <1>2. SumOver(f, S \ {y}) = SumOver(g, S \ {y})
    BY <1>1, SumAgree
  <1>3. SumOver(f, S) = f[y] + SumOver(f, S \ {y}) /\ SumOver(g, S) = g[y] + SumOver(g, S \ {y})
    BY SumRemove
  <1>4. SumOver(f, S \ {y}) \in Int
    BY <1>1, SumType
  <1> QED
    BY <1>2, <1>3, <1>4

\* One element comes in.
LEMMA SumAdd ==
    ASSUME NEW S, IsFiniteSet(S), NEW f, NEW y, y \notin S, \A x \in S \cup {y} : f[x] \in Int
    PROVE  SumOver(f, S \cup {y}) = SumOver(f, S) + f[y]
  <1>1. IsFiniteSet(S \cup {y}) /\ (S \cup {y}) \ {y} = S
    BY FS_AddElement
  <1>2. SumOver(f, S \cup {y}) = f[y] + SumOver(f, S)
    BY <1>1, SumRemove
  <1>3. SumOver(f, S) \in Int
    BY SumType
  <1> QED
    BY <1>2, <1>3

\* Smaller summands have the smaller sum.
LEMMA SumLess ==
    ASSUME NEW S, IsFiniteSet(S), NEW f, NEW g,
           \A x \in S : f[x] \in Int /\ g[x] \in Int /\ f[x] <= g[x]
    PROVE  SumOver(f, S) <= SumOver(g, S)
  <1> DEFINE B == {n \in Nat : \E s \in SUBSET S :
                                  Cardinality(s) = n /\ ~ (SumOver(f, s) <= SumOver(g, s))}
  <1>1. \A s \in SUBSET S : IsFiniteSet(s) /\ Cardinality(s) \in Nat
    BY FS_Subset, FS_CardinalityType
  <1> SUFFICES ASSUME B # {} PROVE FALSE
    BY <1>1
  <1>2. PICK n \in B : \A m \in B : n <= m
    BY LeastNumber
  <1>3. PICK s \in SUBSET S : Cardinality(s) = n /\ ~ (SumOver(f, s) <= SumOver(g, s))
    BY <1>2
  <1>4. s # {}
    BY <1>3, SumEmpty
  <1> DEFINE t == s \ {Pick(s)}
  <1>5. /\ Pick(s) \in S /\ t \in SUBSET S
        /\ Cardinality(t) = n - 1 /\ n - 1 \in Nat
    BY <1>3, <1>4, PickIn, Smaller
  <1>6. SumOver(f, s) = f[Pick(s)] + SumOver(f, t) /\ SumOver(g, s) = g[Pick(s)] + SumOver(g, t)
    BY <1>1, <1>4, SumFirst
  <1>7. SumOver(f, t) <= SumOver(g, t)
    BY <1>2, <1>5
  <1>8. SumOver(f, t) \in Int /\ SumOver(g, t) \in Int
    BY <1>1, <1>5, SumType
  <1> QED
    BY <1>3, <1>5, <1>6, <1>7, <1>8

\* Naturals can be left out of a sum only to make it smaller, and zeros for nothing.
LEMMA SumSubset ==
    ASSUME NEW T, IsFiniteSet(T), NEW S \in SUBSET T, NEW f, \A x \in T : f[x] \in Nat
    PROVE  /\ SumOver(f, S) <= SumOver(f, T)
           /\ (\A x \in T \ S : f[x] = 0) => SumOver(f, S) = SumOver(f, T)
  <1> DEFINE Good(s) == /\ SumOver(f, S) <= SumOver(f, s)
                        /\ (\A x \in s \ S : f[x] = 0) => SumOver(f, S) = SumOver(f, s)
             B == {n \in Nat : \E s \in SUBSET T : S \subseteq s /\ Cardinality(s) = n /\ ~Good(s)}
  <1>1. \A s \in SUBSET T :
           IsFiniteSet(s) /\ Cardinality(s) \in Nat /\ SumOver(f, s) \in Nat
    BY FS_Subset, FS_CardinalityType, SumType
  <1> SUFFICES ASSUME B # {} PROVE FALSE
    <2>1. Cardinality(T) \in Nat
      BY FS_CardinalityType
    <2> QED
      BY <2>1
  <1>2. PICK n \in B : \A m \in B : n <= m
    BY LeastNumber
  <1>3. PICK s \in SUBSET T : S \subseteq s /\ Cardinality(s) = n /\ ~Good(s)
    BY <1>2
  <1>4. PICK y \in s : y \notin S
    <2>1. SumOver(f, S) \in Nat
      BY <1>1
    <2> QED
      BY <1>3, <2>1
  <1>5. /\ Cardinality(s \ {y}) = n - 1 /\ n - 1 \in Nat /\ s \ {y} \in SUBSET T
        /\ S \subseteq s \ {y}
    BY <1>3, <1>4, Smaller
  <1>6. Good(s \ {y})
    BY <1>2, <1>5
  <1>7. SumOver(f, s) = f[y] + SumOver(f, s \ {y})
    BY <1>1, SumRemove
  <1>8. SumOver(f, s \ {y}) \in Nat /\ SumOver(f, S) \in Nat /\ f[y] \in Nat
    BY <1>1
  <1> QED
    BY <1>3, <1>4, <1>6, <1>7, <1>8
==============================================================================
