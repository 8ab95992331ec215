---------------------------- MODULE SetTheorems ----------------------------
(***************************************************************************)
(* Facts about sums over finite sets and about greatest and least numbers, *)
(* which the proofs about the components need.                             *)
(*                                                                         *)
(* Each is proved by taking a smallest set for which it fails, because the *)
(* provers cannot use an induction rule that has a formula as a parameter. *)
(***************************************************************************)
EXTENDS FiniteSetsExt, FiniteSetTheorems, TLAPS

(* Of the finite sets in a collection, some has no smaller one in it.      *)
LEMMA SmallestSet ==
    ASSUME NEW C, C # {}, \A T \in C : IsFiniteSet(T)
    PROVE  \E T \in C : \A U \in C : U \subseteq T => U = T
<1> DEFINE S == UNION C
           R == StrictSubsetOrdering(S)
<1>1. C \subseteq FiniteSubsetsOf(S)
  BY DEF FiniteSubsetsOf
<1>2. PICK T \in C : \A U \in C : ~(<<U, T>> \in R)
  <2>1. IsWellFoundedOn(R, FiniteSubsetsOf(S))
    BY FS_StrictSubsetOrderingWellFounded
  <2> HIDE DEF R, S
  <2> QED
    BY <1>1, <2>1, WFMin
<1>3. ASSUME NEW U \in C, U \subseteq T, U # T PROVE FALSE
  <2>1. <<U, T>> \in (SUBSET S) \X (SUBSET S)
    OBVIOUS
  <2>2. <<U, T>> \in R
    BY <1>3, <2>1 DEF StrictSubsetOrdering
  <2> QED
    BY <1>2, <2>2
<1> QED
  BY <1>2, <1>3

(* The element of a set that a sum takes first.                            *)
First(S) == CHOOSE x \in S : TRUE

(* g has the sums of the subsets of S.                                     *)
IsSum(f, S, g) ==
    g = [s \in SUBSET S |-> IF s = {} THEN 0 ELSE f[First(s)] + g[s \ {First(s)}]]

(* The definition of the library, written with these names.                *)
LEMMA SumIs == ASSUME NEW f, NEW S PROVE SumFunctionOnSet(f, S) = (CHOOSE g : IsSum(f, S, g))[S]
BY DEF SumFunctionOnSet, FoldFunctionOnSet, MapThenFoldSet, IsSum, First

(* The first element of a set is in it.                                    *)
LEMMA FirstIn == ASSUME NEW S, S # {} PROVE First(S) \in S /\ S \ {First(S)} # S
BY DEF First

(* Sums of the same set are the same, whatever larger set they belong to.  *)
LEMMA SumUnique ==
    ASSUME NEW f, NEW S, IsFiniteSet(S), NEW T \in SUBSET S,
           NEW g, IsSum(f, S, g), NEW h, IsSum(f, T, h)
    PROVE  g[T] = h[T]
<1> DEFINE C == {U \in SUBSET T : g[U] # h[U]}
<1> SUFFICES ASSUME g[T] # h[T] PROVE FALSE
  OBVIOUS
<1>1. C # {} /\ \A U \in C : IsFiniteSet(U)
  BY FS_Subset
<1>2. PICK U \in C : \A V \in C : V \subseteq U => V = U
  <2> HIDE DEF C
  <2> QED
    BY <1>1, SmallestSet
<1>3. U \in SUBSET S /\ U \in SUBSET T
  OBVIOUS
<1>4. U # {}
  BY <1>2, <1>3 DEF IsSum
<1>5. U \ {First(U)} \notin C
  BY <1>2, <1>4, FirstIn
<1>6. g[U \ {First(U)}] = h[U \ {First(U)}]
  BY <1>3, <1>5
<1>7. g[U] = f[First(U)] + g[U \ {First(U)}]
  BY <1>3, <1>4 DEF IsSum
<1>8. h[U] = f[First(U)] + h[U \ {First(U)}]
  BY <1>3, <1>4 DEF IsSum
<1> QED
  BY <1>2, <1>6, <1>7, <1>8

(* Every finite set has sums.                                              *)
LEMMA SumExists == ASSUME NEW f, NEW S, IsFiniteSet(S) PROVE \E g : IsSum(f, S, g)
<1> DEFINE C == {T \in SUBSET S : ~\E g : IsSum(f, T, g)}
<1> SUFFICES ASSUME C # {} PROVE FALSE
  OBVIOUS
<1>1. PICK T \in C : \A U \in C : U \subseteq T => U = T
  <2>1. \A T \in C : IsFiniteSet(T)
    BY FS_Subset
  <2> HIDE DEF C
  <2> QED
    BY <2>1, SmallestSet
<1> DEFINE sum == [U \in SUBSET T |-> (CHOOSE g : IsSum(f, U, g))[U]]
           G == [s \in SUBSET T |-> IF s = {} THEN 0 ELSE f[First(s)] + sum[s \ {First(s)}]]
<1>2. ASSUME NEW U \in SUBSET T, U # T PROVE IsSum(f, U, CHOOSE g : IsSum(f, U, g))
  <2>1. \E g : IsSum(f, U, g)
    BY <1>1, <1>2
  <2> QED
    BY <2>1
<1>3. ASSUME NEW U \in SUBSET T, U # T PROVE G[U] = sum[U]
  <2> DEFINE g == CHOOSE g : IsSum(f, U, g)
             W == U \ {First(U)}
             h == CHOOSE h : IsSum(f, W, h)
  <2>1. IsSum(f, U, g) /\ sum[U] = g[U]
    BY <1>2, <1>3
  <2> HIDE DEF g
  <2>2. CASE U = {}
    BY <2>1, <2>2 DEF IsSum
  <2>3. CASE U # {}
    <3>1. W \in SUBSET T /\ W # T /\ W \in SUBSET U
      BY <2>3, FirstIn
    <3>2. IsSum(f, W, h) /\ sum[W] = h[W]
      BY <1>2, <3>1
    <3>3. IsFiniteSet(U)
      BY FS_Subset
    <3>4. g[W] = h[W]
      <4> HIDE DEF h, W
      <4> QED
        BY <2>1, <3>1, <3>2, <3>3, SumUnique
    <3>5. g[U] = f[First(U)] + g[W]
      BY <2>1, <2>3 DEF IsSum
    <3>6. G[U] = f[First(U)] + sum[W]
      <4> HIDE DEF sum
      <4> QED
        BY <2>3
    <3> HIDE DEF G, sum, h, W
    <3> QED
      BY <2>1, <3>2, <3>4, <3>5, <3>6
  <2> QED
    BY <2>2, <2>3
<1>4. IsSum(f, T, G)
  <2>1. ASSUME NEW s \in SUBSET T, s # {} PROVE sum[s \ {First(s)}] = G[s \ {First(s)}]
    <3>1. s \ {First(s)} \in SUBSET T /\ s \ {First(s)} # T
      BY <2>1, FirstIn
    <3> HIDE DEF G, sum
    <3> QED
      BY <1>3, <3>1
  <2> HIDE DEF sum
  <2>2. G = [s \in SUBSET T |-> IF s = {} THEN 0 ELSE f[First(s)] + G[s \ {First(s)}]]
    BY <2>1
  <2> HIDE DEF G
  <2> QED
    BY <2>2 DEF IsSum
<1> HIDE DEF G
<1> QED
  BY <1>1, <1>4
-----------------------------------------------------------------------------
(* The sum over no element.                                                *)
LEMMA SumEmpty == ASSUME NEW f PROVE SumFunctionOnSet(f, {}) = 0
<1>1. PICK g : IsSum(f, {}, g)
  BY SumExists, FS_EmptySet
<1>2. IsSum(f, {}, CHOOSE h : IsSum(f, {}, h))
  BY <1>1
<1>3. (CHOOSE h : IsSum(f, {}, h))[{}] = 0
  BY <1>2 DEF IsSum
<1> QED
  BY <1>3, SumIs

(* The sum over a set begins with its first element.                       *)
LEMMA SumFirst ==
    ASSUME NEW f, NEW S, IsFiniteSet(S), S # {}
    PROVE  SumFunctionOnSet(f, S) = f[First(S)] + SumFunctionOnSet(f, S \ {First(S)})
<1> DEFINE T == S \ {First(S)}
           g == CHOOSE g : IsSum(f, S, g)
           h == CHOOSE h : IsSum(f, T, h)
<1>1. IsFiniteSet(T) /\ T \in SUBSET S
  BY FS_Subset
<1>2. IsSum(f, S, g) /\ SumFunctionOnSet(f, S) = g[S]
  BY SumExists, SumIs
<1>3. IsSum(f, T, h) /\ SumFunctionOnSet(f, T) = h[T]
  BY <1>1, SumExists, SumIs
<1> HIDE DEF g, h
<1>4. g[S] = f[First(S)] + g[T]
  BY <1>2 DEF IsSum
<1>5. g[T] = h[T]
  <2> HIDE DEF T
  <2> QED
    BY <1>1, <1>2, <1>3, SumUnique
<1> QED
  BY <1>2, <1>3, <1>4, <1>5

(* A sum of integers is an integer.                                        *)
LEMMA SumInt ==
    ASSUME NEW f, NEW S, IsFiniteSet(S), \A x \in S : f[x] \in Int
    PROVE  SumFunctionOnSet(f, S) \in Int
<1> DEFINE C == {T \in SUBSET S : SumFunctionOnSet(f, T) \notin Int}
<1> SUFFICES ASSUME C # {} PROVE FALSE
  OBVIOUS
<1>1. PICK T \in C : \A U \in C : U \subseteq T => U = T
  <2>1. \A T \in C : IsFiniteSet(T)
    BY FS_Subset
  <2> HIDE DEF C
  <2> QED
    BY <2>1, SmallestSet
<1>2. IsFiniteSet(T) /\ T # {}
  <2>1. IsFiniteSet(T)
    BY FS_Subset
  <2>2. SumFunctionOnSet(f, T) # 0
    OBVIOUS
  <2> QED
    BY <2>1, <2>2, SumEmpty
<1>3. SumFunctionOnSet(f, T \ {First(T)}) \in Int /\ f[First(T)] \in Int
  BY <1>1, <1>2, FirstIn
<1> QED
  BY <1>2, <1>3, SumFirst

(* The sum over a set is that over the rest and any one element.           *)
LEMMA SumElement ==
    ASSUME NEW f, NEW S, IsFiniteSet(S), \A x \in S : f[x] \in Int, NEW x \in S
    PROVE  SumFunctionOnSet(f, S) = f[x] + SumFunctionOnSet(f, S \ {x})
<1> DEFINE sum(T) == SumFunctionOnSet(f, T)
           C == {T \in SUBSET S : \E z \in T : sum(T) # f[z] + sum(T \ {z})}
<1> SUFFICES ASSUME C # {} PROVE FALSE
  OBVIOUS
<1>1. PICK T \in C : \A U \in C : U \subseteq T => U = T
  <2>1. \A T \in C : IsFiniteSet(T)
    BY FS_Subset
  <2> HIDE DEF C
  <2> QED
    BY <2>1, SmallestSet
<1>2. PICK z \in T : sum(T) # f[z] + sum(T \ {z})
  OBVIOUS
<1> DEFINE y == First(T)
           U == (T \ {y}) \ {z}
<1>3. T \in SUBSET S /\ IsFiniteSet(T) /\ y \in T
  BY FS_Subset, FirstIn
<1>4. sum(T) = f[y] + sum(T \ {y})
  BY <1>3, SumFirst
<1>5. z # y
  BY <1>2, <1>4
<1>6. sum(T \ {y}) = f[z] + sum((T \ {y}) \ {z})
  <2>1. T \ {y} \notin C /\ T \ {y} \in SUBSET S /\ z \in T \ {y}
    BY <1>1, <1>3, <1>5
  <2> QED
    BY <2>1
<1>7. sum(T \ {z}) = f[y] + sum((T \ {z}) \ {y})
  <2>1. T \ {z} \notin C /\ T \ {z} \in SUBSET S /\ y \in T \ {z}
    BY <1>1, <1>3, <1>5
  <2> QED
    BY <2>1
<1>8. (T \ {z}) \ {y} = U
  OBVIOUS
<1>9. sum(U) \in Int /\ f[y] \in Int /\ f[z] \in Int
  BY <1>3, SumInt, FS_Subset
<1> HIDE DEF sum, U, y
<1>10. sum(T) = f[y] + (f[z] + sum(U)) /\ sum(T \ {z}) = f[y] + sum(U)
  BY <1>4, <1>6, <1>7, <1>8 DEF U
<1> QED
  BY <1>2, <1>9, <1>10

(* The sum over a set and one element more.                                *)
LEMMA SumAdd ==
    ASSUME NEW f, NEW S, IsFiniteSet(S), NEW x, x \notin S,
           \A y \in S \cup {x} : f[y] \in Int
    PROVE  SumFunctionOnSet(f, S \cup {x}) = SumFunctionOnSet(f, S) + f[x]
<1>1. IsFiniteSet(S \cup {x}) /\ (S \cup {x}) \ {x} = S
  BY FS_AddElement
<1>2. SumFunctionOnSet(f, S \cup {x}) = f[x] + SumFunctionOnSet(f, S)
  BY <1>1, SumElement
<1>3. SumFunctionOnSet(f, S) \in Int /\ f[x] \in Int
  BY SumInt
<1> QED
  BY <1>2, <1>3

(* Functions that are equal on a set have the same sum over it.            *)
LEMMA SumEqual ==
    ASSUME NEW f, NEW g, NEW S, IsFiniteSet(S), \A x \in S : f[x] = g[x]
    PROVE  SumFunctionOnSet(f, S) = SumFunctionOnSet(g, S)
<1> DEFINE C == {T \in SUBSET S : SumFunctionOnSet(f, T) # SumFunctionOnSet(g, T)}
<1> SUFFICES ASSUME C # {} PROVE FALSE
  OBVIOUS
<1>1. PICK T \in C : \A U \in C : U \subseteq T => U = T
  <2>1. \A T \in C : IsFiniteSet(T)
    BY FS_Subset
  <2> HIDE DEF C
  <2> QED
    BY <2>1, SmallestSet
<1>2. IsFiniteSet(T) /\ T # {}
  <2>1. IsFiniteSet(T)
    BY FS_Subset
  <2>2. SumFunctionOnSet(f, T) # SumFunctionOnSet(g, T)
    OBVIOUS
  <2> QED
    BY <2>1, <2>2, SumEmpty
<1>3. T \ {First(T)} \notin C /\ First(T) \in S
  BY <1>1, <1>2, FirstIn
<1>4. SumFunctionOnSet(f, T \ {First(T)}) = SumFunctionOnSet(g, T \ {First(T)})
  BY <1>3
<1> QED
  BY <1>2, <1>3, <1>4, SumFirst

(* A sum of natural numbers is one, not less than any of them, and zero    *)
(* only if they all are.                                                   *)
LEMMA SumNat ==
    ASSUME NEW f, NEW S, IsFiniteSet(S), \A x \in S : f[x] \in Nat
    PROVE  /\ SumFunctionOnSet(f, S) \in Nat
           /\ \A x \in S : f[x] <= SumFunctionOnSet(f, S)
           /\ (\A x \in S : f[x] = 0) => SumFunctionOnSet(f, S) = 0
<1> DEFINE sum(T) == SumFunctionOnSet(f, T)
           C == {T \in SUBSET S : ~(sum(T) \in Nat /\ ((\A x \in T : f[x] = 0) => sum(T) = 0))}
<1>1. C = {}
  <2> SUFFICES ASSUME C # {} PROVE FALSE
    OBVIOUS
  <2>1. PICK T \in C : \A U \in C : U \subseteq T => U = T
    <3>1. \A T \in C : IsFiniteSet(T)
      BY FS_Subset
    <3> HIDE DEF C
    <3> QED
      BY <3>1, SmallestSet
  <2>2. IsFiniteSet(T)
    BY FS_Subset
  <2>3. T # {}
    BY SumEmpty
  <2>4. T \ {First(T)} \notin C /\ First(T) \in T /\ T \in SUBSET S
    BY <2>1, <2>3, FirstIn
  <2>5. sum(T \ {First(T)}) \in Nat /\ f[First(T)] \in Nat
    BY <2>4
  <2>6. (\A x \in T : f[x] = 0) => sum(T \ {First(T)}) = 0 /\ f[First(T)] = 0
    BY <2>4
  <2>7. sum(T) = f[First(T)] + sum(T \ {First(T)})
    BY <2>2, <2>3, SumFirst
  <2>8. sum(T) \in Nat /\ ((\A x \in T : f[x] = 0) => sum(T) = 0)
    <3> HIDE DEF sum
    <3> QED
      BY <2>5, <2>6, <2>7
  <2> QED
    BY <2>8
<1>2. ASSUME NEW T \in SUBSET S PROVE sum(T) \in Nat /\ ((\A x \in T : f[x] = 0) => sum(T) = 0)
  BY <1>1
<1>3. ASSUME NEW x \in S PROVE f[x] <= sum(S)
  <2>1. sum(S) = f[x] + sum(S \ {x})
    BY SumElement
  <2>2. sum(S \ {x}) \in Nat /\ f[x] \in Nat
    BY <1>2
  <2> HIDE DEF sum
  <2> QED
    BY <2>1, <2>2
<1> QED
  BY <1>2, <1>3

(* The sum over two sets without a common element.                         *)
LEMMA SumDisjoint ==
    ASSUME NEW f, NEW S, IsFiniteSet(S), NEW A \in SUBSET S, \A x \in S : f[x] \in Int
    PROVE  SumFunctionOnSet(f, S) = SumFunctionOnSet(f, A) + SumFunctionOnSet(f, S \ A)
<1> DEFINE sum(T) == SumFunctionOnSet(f, T)
           C == {T \in SUBSET A : sum(T \cup (S \ A)) # sum(T) + sum(S \ A)}
<1>1. C = {}
  <2> SUFFICES ASSUME C # {} PROVE FALSE
    OBVIOUS
  <2>1. PICK T \in C : \A U \in C : U \subseteq T => U = T
    <3>1. \A T \in C : IsFiniteSet(T)
      BY FS_Subset
    <3> HIDE DEF C
    <3> QED
      BY <3>1, SmallestSet
  <2>2. IsFiniteSet(T) /\ IsFiniteSet(S \ A) /\ IsFiniteSet(T \cup (S \ A))
    BY FS_Subset
  <2>3. T # {}
    <3>1. sum({}) = 0 /\ sum(S \ A) \in Int
      BY <2>2, SumEmpty, SumInt
    <3>2. {} \cup (S \ A) = S \ A
      OBVIOUS
    <3>3. sum(T \cup (S \ A)) # sum(T) + sum(S \ A)
      OBVIOUS
    <3> HIDE DEF sum
    <3>4. sum(S \ A) = sum({}) + sum(S \ A)
      BY <3>1
    <3> QED
      BY Zenon, <3>2, <3>3, <3>4
  <2>4. PICK x \in T : TRUE
    BY <2>3
  <2>5. T \ {x} \notin C /\ T \ {x} \in SUBSET A
    BY <2>1
  <2>6. sum((T \ {x}) \cup (S \ A)) = sum(T \ {x}) + sum(S \ A)
    BY <2>5
  <2>7. (T \cup (S \ A)) \ {x} = (T \ {x}) \cup (S \ A)
    OBVIOUS
  <2>8. sum(T \cup (S \ A)) = f[x] + sum((T \ {x}) \cup (S \ A))
    BY <2>2, <2>7, SumElement
  <2>9. sum(T) = f[x] + sum(T \ {x})
    BY <2>2, SumElement
  <2>10. sum(T \ {x}) \in Int /\ sum(S \ A) \in Int /\ f[x] \in Int
    BY <2>2, SumInt, FS_Subset
  <2>11. sum(T \cup (S \ A)) # sum(T) + sum(S \ A)
    OBVIOUS
  <2> HIDE DEF sum
  <2> QED
    BY <2>6, <2>8, <2>9, <2>10, <2>11
<1>2. A \cup (S \ A) = S
  OBVIOUS
<1> QED
  BY <1>1, <1>2

(* The image of a finite set.                                              *)
LEMMA ImageFinite ==
    ASSUME NEW S, IsFiniteSet(S), NEW b PROVE IsFiniteSet({b[x] : x \in S})
<1> DEFINE T == {b[x] : x \in S}
           g == [x \in S |-> b[x]]
<1>1. g \in Surjection(S, T)
  BY DEF Surjection
<1> QED
  BY <1>1, FS_Surjection DEF ExistsSurjection

(* b takes the elements of S to those of R, one to one, and f to g.        *)
Renames(b, f, S, g, R) ==
    /\ \A x \in S : b[x] \in R /\ f[x] \in Int /\ g[b[x]] = f[x]
    /\ \A x, y \in S : b[x] = b[y] => x = y
    /\ \A y \in R : \E x \in S : y = b[x]

(* Renaming the elements of a set leaves a sum as it is.                   *)
LEMMA SumRenamed ==
    ASSUME NEW f, NEW g, NEW S, NEW R, IsFiniteSet(S), NEW b, Renames(b, f, S, g, R)
    PROVE  SumFunctionOnSet(g, R) = SumFunctionOnSet(f, S)
<1> USE DEF Renames
<1> DEFINE image(T) == {b[x] : x \in T}
           C == {T \in SUBSET S : SumFunctionOnSet(g, image(T)) # SumFunctionOnSet(f, T)}
<1>0. R = image(S)
  OBVIOUS
<1> SUFFICES ASSUME C # {} PROVE FALSE
  BY <1>0
<1>1. PICK T \in C : \A U \in C : U \subseteq T => U = T
  <2>1. \A T \in C : IsFiniteSet(T)
    BY FS_Subset
  <2> HIDE DEF C
  <2> QED
    BY <2>1, SmallestSet
<1>2. IsFiniteSet(T) /\ IsFiniteSet(image(T))
  <2>1. IsFiniteSet(T)
    BY FS_Subset
  <2> QED
    BY <2>1, ImageFinite
<1>3. T # {}
  <2>1. image({}) = {}
    OBVIOUS
  <2> QED
    BY <2>1, SumEmpty
<1>4. PICK x \in T : TRUE
  BY <1>3
<1>5. T \ {x} \notin C /\ T \ {x} \in SUBSET S
  BY <1>1
<1>6. SumFunctionOnSet(g, image(T \ {x})) = SumFunctionOnSet(f, T \ {x})
  BY <1>5
<1>7. image(T) \ {b[x]} = image(T \ {x}) /\ b[x] \in image(T)
  OBVIOUS
<1>8. SumFunctionOnSet(f, T) = f[x] + SumFunctionOnSet(f, T \ {x})
  BY <1>2, SumElement
<1>9. SumFunctionOnSet(g, image(T)) = g[b[x]] + SumFunctionOnSet(g, image(T) \ {b[x]})
  <2>1. \A y \in image(T) : g[y] \in Int
    OBVIOUS
  <2> HIDE DEF image
  <2> QED
    BY <1>2, <1>7, <2>1, SumElement
<1>10. SumFunctionOnSet(g, image(T)) # SumFunctionOnSet(f, T)
  OBVIOUS
<1> QED
  BY <1>6, <1>7, <1>8, <1>9, <1>10

(* A sum is at most as many times the largest number as there are numbers. *)
LEMMA SumAtMost ==
    ASSUME NEW f, NEW S, IsFiniteSet(S), NEW m \in Nat,
           \A x \in S : f[x] \in Nat /\ f[x] <= m
    PROVE  SumFunctionOnSet(f, S) <= Cardinality(S) * m
<1> DEFINE C == {T \in SUBSET S : ~(SumFunctionOnSet(f, T) <= Cardinality(T) * m)}
<1> SUFFICES ASSUME C # {} PROVE FALSE
  OBVIOUS
<1>1. PICK T \in C : \A U \in C : U \subseteq T => U = T
  <2>1. \A T \in C : IsFiniteSet(T)
    BY FS_Subset
  <2> HIDE DEF C
  <2> QED
    BY <2>1, SmallestSet
<1>2. IsFiniteSet(T) /\ Cardinality(T) \in Nat
  BY FS_Subset, FS_CardinalityType
<1>3. T # {}
  BY SumEmpty, FS_EmptySet
<1>4. PICK x \in T : TRUE
  BY <1>3
<1>5. T \ {x} \notin C /\ T \ {x} \in SUBSET S /\ IsFiniteSet(T \ {x})
  BY <1>1, <1>2, FS_Subset
<1>6. SumFunctionOnSet(f, T \ {x}) <= Cardinality(T \ {x}) * m
  BY <1>5
<1>7. Cardinality(T \ {x}) = Cardinality(T) - 1
  BY <1>2, FS_RemoveElement
<1>8. SumFunctionOnSet(f, T) = f[x] + SumFunctionOnSet(f, T \ {x})
  BY <1>2, SumElement
<1>9. SumFunctionOnSet(f, T \ {x}) \in Nat
  BY <1>5, SumNat
<1>10. (Cardinality(T) - 1) * m + m = Cardinality(T) * m
  BY <1>2
<1>11. Cardinality(T) * m \in Nat /\ (Cardinality(T) - 1) * m \in Int
  BY <1>2
<1>12. SumFunctionOnSet(f, T) <= Cardinality(T) * m
  BY <1>6, <1>7, <1>8, <1>9, <1>10, <1>11
<1> QED
  BY <1>12

(* One of the numbers grows.                                               *)
LEMMA SumUpdated ==
    ASSUME NEW f, NEW S, IsFiniteSet(S), S \subseteq DOMAIN f, NEW x \in S,
           \A y \in S : f[y] \in Int
    PROVE  SumFunctionOnSet([f EXCEPT ![x] = @ + 1], S) = SumFunctionOnSet(f, S) + 1
<1> DEFINE g == [f EXCEPT ![x] = @ + 1]
<1>1. IsFiniteSet(S \ {x})
  BY FS_Subset
<1>2. g[x] = f[x] + 1 /\ \A y \in S \ {x} : g[y] = f[y]
  OBVIOUS
<1>3. \A y \in S : g[y] \in Int
  BY <1>2
<1> HIDE DEF g
<1>4. SumFunctionOnSet(g, S \ {x}) = SumFunctionOnSet(f, S \ {x})
  BY <1>1, <1>2, SumEqual
<1>5. SumFunctionOnSet(g, S) = g[x] + SumFunctionOnSet(g, S \ {x})
  BY <1>3, SumElement
<1>6. SumFunctionOnSet(f, S) = f[x] + SumFunctionOnSet(f, S \ {x})
  BY SumElement
<1>7. SumFunctionOnSet(f, S \ {x}) \in Int
  BY <1>1, SumInt
<1>8. SumFunctionOnSet(g, S) = SumFunctionOnSet(f, S) + 1
  BY <1>2, <1>4, <1>5, <1>6, <1>7
<1> QED
  BY <1>8 DEF g
-----------------------------------------------------------------------------
(* A finite set of numbers has a greatest one, which is Max.               *)
LEMMA MaxOf ==
    ASSUME NEW S, IsFiniteSet(S), S # {}, S \subseteq Int
    PROVE  Max(S) \in S /\ \A x \in S : x <= Max(S)
<1> DEFINE C == {T \in SUBSET S : T # {} /\ ~\E m \in T : \A x \in T : m >= x}
<1>1. C = {}
  <2> SUFFICES ASSUME C # {} PROVE FALSE
    OBVIOUS
  <2>1. PICK T \in C : \A U \in C : U \subseteq T => U = T
    <3>1. \A T \in C : IsFiniteSet(T)
      BY FS_Subset
    <3> HIDE DEF C
    <3> QED
      BY <3>1, SmallestSet
  <2>2. PICK y \in T : TRUE
    OBVIOUS
  <2>3. T \ {y} # {}
    OBVIOUS
  <2>4. PICK m \in T \ {y} : \A x \in T \ {y} : m >= x
    <3>1. T \ {y} \notin C /\ T \ {y} \in SUBSET S
      BY <2>1
    <3> QED
      BY <2>3, <3>1
  <2>5. y \in Int /\ m \in Int /\ \A x \in T : x \in Int
    OBVIOUS
  <2>6. \E n \in T : \A x \in T : n >= x
    BY <2>4, <2>5
  <2> QED
    BY <2>6
<1>2. \E m \in S : \A x \in S : m >= x
  BY <1>1
<1>3. Max(S) \in S /\ \A x \in S : Max(S) >= x
  BY <1>2 DEF Max
<1> QED
  BY <1>3

(* It has a least one, which is Min.                                       *)
LEMMA MinOf ==
    ASSUME NEW S, IsFiniteSet(S), S # {}, S \subseteq Int
    PROVE  Min(S) \in S /\ \A x \in S : Min(S) <= x
<1> DEFINE C == {T \in SUBSET S : T # {} /\ ~\E m \in T : \A x \in T : m =< x}
<1>1. C = {}
  <2> SUFFICES ASSUME C # {} PROVE FALSE
    OBVIOUS
  <2>1. PICK T \in C : \A U \in C : U \subseteq T => U = T
    <3>1. \A T \in C : IsFiniteSet(T)
      BY FS_Subset
    <3> HIDE DEF C
    <3> QED
      BY <3>1, SmallestSet
  <2>2. PICK y \in T : TRUE
    OBVIOUS
  <2>3. T \ {y} # {}
    OBVIOUS
  <2>4. PICK m \in T \ {y} : \A x \in T \ {y} : m =< x
    <3>1. T \ {y} \notin C /\ T \ {y} \in SUBSET S
      BY <2>1
    <3> QED
      BY <2>3, <3>1
  <2>5. y \in Int /\ m \in Int /\ \A x \in T : x \in Int
    OBVIOUS
  <2>6. \E n \in T : \A x \in T : n =< x
    BY <2>4, <2>5
  <2> QED
    BY <2>6
<1>2. \E m \in S : \A x \in S : m =< x
  BY <1>1
<1>3. Min(S) \in S /\ \A x \in S : Min(S) =< x
  BY <1>2 DEF Min
<1> QED
  BY <1>3

(* A set of natural numbers has a least one, finite or not.                *)
LEMMA LeastNat ==
    ASSUME NEW S, S # {}, S \subseteq Nat
    PROVE  \E m \in S : \A x \in S : m <= x
<1>1. PICK n \in S : TRUE
  OBVIOUS
<1> DEFINE T == S \cap (0..n)
<1>2. n \in T /\ T \subseteq Int /\ T \subseteq 0..n
  BY <1>1
<1>3. IsFiniteSet(T)
  <2>1. IsFiniteSet(0..n)
    BY <1>1, FS_Interval
  <2> HIDE DEF T
  <2> QED
    BY <1>2, <2>1, FS_Subset
<1>4. Min(T) \in T /\ \A x \in T : Min(T) <= x
  <2> HIDE DEF T
  <2> QED
    BY <1>2, <1>3, MinOf
<1>5. ASSUME NEW x \in S PROVE Min(T) <= x
  <2>1. CASE x <= n
    BY <1>4, <2>1
  <2>2. CASE ~(x <= n)
    BY <1>1, <1>4, <2>2
  <2> QED
    BY <2>1, <2>2
<1> QED
  BY <1>4, <1>5
=============================================================================
