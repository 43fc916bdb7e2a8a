--------------------------------- MODULE Sums ---------------------------------
(***************************************************************************)
(* Facts about SumFunctionOnSet, the sum of the values of a function over  *)
(* a finite set.  The fold behind it is a recursive function on the        *)
(* subsets of that set.  Induction goes by a smallest counterexample,      *)
(* which is a set and no operator.                                         *)
(***************************************************************************)
EXTENDS Integers, Functions, FiniteSetTheorems, WellFoundedInduction, TLAPS

-----------------------------------------------------------------------------
(* Induction *)

(* Among subsets of a finite set one has no other below it.                *)
LEMMA SmallestSubset ==
  ASSUME NEW S, IsFiniteSet(S), NEW B \in SUBSET SUBSET S, B # {}
  PROVE  \E T \in B : \A U \in B : ~ (U \subseteq T /\ U # T)
<1>1. IsWellFoundedOn(StrictSubsetOrdering(S), FiniteSubsetsOf(S))
  BY FS_StrictSubsetOrderingWellFounded
<1>2. B \subseteq FiniteSubsetsOf(S)
  BY FS_Subset DEF FiniteSubsetsOf
<1>3. PICK T \in B : \A U \in B : ~ (<<U, T>> \in StrictSubsetOrdering(S))
  BY <1>1, <1>2, WFMin
<1>4. QED
  BY <1>2, <1>3 DEF StrictSubsetOrdering

(* A family that has the empty set, and every set that has an element      *)
(* without which it is in the family, has all finite sets.                 *)
LEMMA FamilyIsAll ==
  ASSUME NEW S, IsFiniteSet(S), NEW F \in SUBSET SUBSET S,
         {} \in F,
         \A T \in SUBSET S : T # {} /\ (\A x \in T : T \ {x} \in F) => T \in F
  PROVE  F = SUBSET S
<1> SUFFICES ASSUME (SUBSET S) \ F # {} PROVE FALSE
  OBVIOUS
<1> DEFINE B == (SUBSET S) \ F
<1>1. B \in SUBSET SUBSET S /\ B # {}
  OBVIOUS
<1>2. PICK T \in B : \A U \in B : ~ (U \subseteq T /\ U # T)
  <2> HIDE DEF B
  <2>1. QED
    BY <1>1, SmallestSubset
<1>3. T # {}
  OBVIOUS
<1>4. ASSUME NEW x \in T PROVE T \ {x} \in F
  BY <1>2
<1>5. QED
  BY <1>3, <1>4

(* A set of numbers that has 0, and the successor of each, has all.        *)
LEMMA NumbersAreAll ==
  ASSUME NEW M \in SUBSET Nat, 0 \in M, \A n \in M : n + 1 \in M
  PROVE  M = Nat
<1> SUFFICES ASSUME Nat \ M # {} PROVE FALSE
  OBVIOUS
<1> DEFINE B == Nat \ M
<1>1. B \subseteq Nat /\ B # {}
  OBVIOUS
<1> DEFINE R == OpToRel(<, Nat)
<1>2. PICK m \in B : \A k \in B : ~ (<<k, m>> \in R)
  <2>1. IsWellFoundedOn(R, Nat)
    BY NatLessThanWellFounded DEF OpToRel
  <2> HIDE DEF B, R
  <2>2. QED
    BY <1>1, <2>1, WFMin
<1>3. \A k \in Nat \ M : ~ (k < m)
  BY <1>2 DEF OpToRel
<1>4. m # 0 /\ m - 1 \in Nat /\ m - 1 < m
  OBVIOUS
<1>5. m - 1 \in M
  BY <1>3, <1>4
<1>6. QED
  BY <1>4, <1>5

-----------------------------------------------------------------------------
(* The recursive function *)

(* The element a fold takes first.                                         *)
First(s) == CHOOSE x \in s : TRUE

(* g adds up f on each subset of S of at most n elements.                  *)
Adds(g, f, S) ==
  g = [s \in SUBSET S |-> IF s = {} THEN 0 ELSE f[First(s)] + g[s \ {First(s)}]]

(* The subsets of S of at most n elements, and a g that adds up f on them. *)
Small(S, n) == {s \in SUBSET S : Cardinality(s) <= n}
AddsTo(g, f, S, n) ==
  g = [s \in Small(S, n) |-> IF s = {} THEN 0 ELSE f[First(s)] + g[s \ {First(s)}]]

(* It is one of the elements.                                              *)
LEMMA FirstIn ==
  ASSUME NEW s, s # {}
  PROVE  First(s) \in s
  BY DEF First

(* Without it a set is smaller.                                            *)
LEMMA Smaller ==
  ASSUME NEW S, IsFiniteSet(S), NEW n \in Nat, NEW s \in Small(S, n + 1), s # {}
  PROVE  s \ {First(s)} \in Small(S, n)
<1>1. IsFiniteSet(s) /\ s \subseteq S
  BY FS_Subset DEF Small
<1>2. Cardinality(s \ {First(s)}) = Cardinality(s) - 1
  BY <1>1, FirstIn, FS_RemoveElement
<1>3. Cardinality(s) \in Nat
  BY <1>1, FS_CardinalityType
<1>4. QED
  BY <1>1, <1>2, <1>3 DEF Small

(* There is such a g for every number of elements.                         *)
LEMMA SomeAddsTo ==
  ASSUME NEW f, NEW S, IsFiniteSet(S)
  PROVE  \A n \in Nat : \E g : AddsTo(g, f, S, n)
<1> DEFINE M == {n \in Nat : \E g : AddsTo(g, f, S, n)}
<1>1. 0 \in M
  <2>1. \A s \in Small(S, 0) : s = {}
    <3> SUFFICES ASSUME NEW s \in Small(S, 0) PROVE s = {}
      OBVIOUS
    <3>1. IsFiniteSet(s)
      BY FS_Subset DEF Small
    <3>2. Cardinality(s) = 0
      BY <3>1, FS_CardinalityType DEF Small
    <3>3. QED
      BY <3>1, <3>2, FS_EmptySet
  <2>2. AddsTo([s \in Small(S, 0) |-> 0], f, S, 0)
    BY <2>1 DEF AddsTo
  <2>3. QED
    BY <2>2
<1>2. ASSUME NEW n \in M PROVE n + 1 \in M
  <2>1. PICK g : AddsTo(g, f, S, n)
    OBVIOUS
  <2> DEFINE h == [s \in Small(S, n + 1) |->
                     IF s = {} THEN 0 ELSE f[First(s)] + g[s \ {First(s)}]]
  <2>2. \A s \in Small(S, n) : s \in Small(S, n + 1) /\ h[s] = g[s]
    <3>1. \A s \in Small(S, n) : Cardinality(s) \in Nat
      BY FS_Subset, FS_CardinalityType DEF Small
    <3>2. \A s \in Small(S, n) : s \in Small(S, n + 1)
      BY <3>1 DEF Small
    <3>3. \A s \in Small(S, n) :
            g[s] = IF s = {} THEN 0 ELSE f[First(s)] + g[s \ {First(s)}]
      BY <2>1 DEF AddsTo
    <3>4. QED
      BY <3>2, <3>3
  <2>3. \A s \in Small(S, n + 1) : s # {} => h[s \ {First(s)}] = g[s \ {First(s)}]
    BY <2>2, Smaller
  <2> DEFINE k == [s \in Small(S, n + 1) |->
                     IF s = {} THEN 0 ELSE f[First(s)] + h[s \ {First(s)}]]
  <2>4. \A s \in Small(S, n + 1) : h[s] = k[s]
    <3> HIDE DEF h
    <3> SUFFICES ASSUME NEW s \in Small(S, n + 1) PROVE h[s] = k[s]
      OBVIOUS
    <3>1. h[s] = IF s = {} THEN 0 ELSE f[First(s)] + g[s \ {First(s)}]
      BY DEF h
    <3>2. QED
      BY <2>3, <3>1
  <2>5. h = k
    BY <2>4
  <2> HIDE DEF h
  <2>6. AddsTo(h, f, S, n + 1)
    BY <2>5 DEF AddsTo
  <2>7. QED
    BY <2>6
<1>3. M = Nat
  <2> HIDE DEF M
  <2>1. M \in SUBSET Nat
    BY DEF M
  <2>2. QED
    BY <1>1, <1>2, <2>1, NumbersAreAll
<1>4. QED
  BY <1>3

(* So there is one for all subsets of a finite set.                        *)
LEMMA SomeAdds ==
  ASSUME NEW f, NEW S, IsFiniteSet(S)
  PROVE  \E g : Adds(g, f, S)
<1>1. Cardinality(S) \in Nat
  BY FS_CardinalityType
<1>2. PICK g : AddsTo(g, f, S, Cardinality(S))
  BY <1>1, SomeAddsTo
<1>3. Small(S, Cardinality(S)) = SUBSET S
  BY FS_Subset DEF Small
<1>4. Adds(g, f, S)
  BY <1>2, <1>3 DEF Adds, AddsTo
<1>5. QED
  BY <1>4

(* What adds up f on S adds it up on every part of S, and in one way.      *)
LEMMA AddsAgree ==
  ASSUME NEW f, NEW S, IsFiniteSet(S), NEW T \in SUBSET S,
         NEW g, Adds(g, f, S), NEW h, Adds(h, f, T)
  PROVE  g[T] = h[T]
<1> DEFINE F == {U \in SUBSET T : g[U] = h[U]}
<1>1. IsFiniteSet(T)
  BY FS_Subset
<1>2. /\ \A U \in SUBSET T :
           g[U] = IF U = {} THEN 0 ELSE f[First(U)] + g[U \ {First(U)}]
      /\ \A U \in SUBSET T :
           h[U] = IF U = {} THEN 0 ELSE f[First(U)] + h[U \ {First(U)}]
  BY DEF Adds
<1>3. {} \in F
  BY <1>2
<1>4. ASSUME NEW U \in SUBSET T, U # {}, \A x \in U : U \ {x} \in F PROVE U \in F
  <2>1. U \ {First(U)} \in F
    BY <1>4, FirstIn
  <2>2. QED
    BY <1>2, <1>4, <2>1
<1>5. F = SUBSET T
  <2> HIDE DEF F
  <2>1. F \in SUBSET SUBSET T
    BY DEF F
  <2>2. QED
    BY <1>1, <1>3, <1>4, <2>1, FamilyIsAll
<1>6. QED
  BY <1>5

(* SumFunctionOnSet is what it adds up.                                    *)
LEMMA SumIsAdded ==
  ASSUME NEW f, NEW S, IsFiniteSet(S)
  PROVE  \E g : Adds(g, f, S) /\ SumFunctionOnSet(f, S) = g[S]
<1>1. SumFunctionOnSet(f, S) = (CHOOSE g : Adds(g, f, S))[S]
  BY DEF SumFunctionOnSet, FoldFunctionOnSet, MapThenFoldSet, Adds, First
<1>2. Adds(CHOOSE g : Adds(g, f, S), f, S)
  BY SomeAdds
<1>3. QED
  BY <1>1, <1>2

-----------------------------------------------------------------------------
(* Sums *)

(* Nothing adds up to 0.                                                   *)
LEMMA SumEmpty ==
  ASSUME NEW f
  PROVE  SumFunctionOnSet(f, {}) = 0
<1>1. PICK g : Adds(g, f, {}) /\ SumFunctionOnSet(f, {}) = g[{}]
  BY SumIsAdded, FS_EmptySet
<1>2. QED
  BY <1>1 DEF Adds

(* The first element, and the sum of the rest.                             *)
LEMMA SumFirst ==
  ASSUME NEW f, NEW S, IsFiniteSet(S), S # {}
  PROVE  SumFunctionOnSet(f, S) = f[First(S)] + SumFunctionOnSet(f, S \ {First(S)})
<1> DEFINE T == S \ {First(S)}
<1>1. PICK g : Adds(g, f, S) /\ SumFunctionOnSet(f, S) = g[S]
  BY SumIsAdded
<1>2. T \in SUBSET S /\ IsFiniteSet(T)
  BY FS_Subset
<1>3. PICK h : Adds(h, f, T) /\ SumFunctionOnSet(f, T) = h[T]
  BY <1>2, SumIsAdded
<1>4. g[T] = h[T]
  BY <1>1, <1>2, <1>3, AddsAgree
<1>5. g[S] = f[First(S)] + g[T]
  BY <1>1 DEF Adds
<1>6. QED
  BY <1>1, <1>3, <1>4, <1>5

(* The sum of integers is one.                                             *)
LEMMA SumInt ==
  ASSUME NEW S, IsFiniteSet(S), NEW f, \A x \in S : f[x] \in Int
  PROVE  SumFunctionOnSet(f, S) \in Int
<1> DEFINE F == {T \in SUBSET S : SumFunctionOnSet(f, T) \in Int}
<1>1. {} \in F
  BY SumEmpty
<1>2. ASSUME NEW T \in SUBSET S, T # {}, \A x \in T : T \ {x} \in F PROVE T \in F
  <2>1. IsFiniteSet(T) /\ First(T) \in T
    BY <1>2, FirstIn, FS_Subset
  <2>2. f[First(T)] \in Int /\ SumFunctionOnSet(f, T \ {First(T)}) \in Int
    BY <1>2, <2>1
  <2>3. QED
    BY <1>2, <2>1, <2>2, SumFirst
<1>3. F = SUBSET S
  <2> HIDE DEF F
  <2>1. F \in SUBSET SUBSET S
    BY DEF F
  <2>2. QED
    BY <1>1, <1>2, <2>1, FamilyIsAll
<1>4. QED
  BY <1>3

(* Any element may be taken out of a sum.                                  *)
LEMMA SumWithout ==
  ASSUME NEW S, IsFiniteSet(S), NEW f, \A x \in S : f[x] \in Int, NEW x \in S
  PROVE  SumFunctionOnSet(f, S) = f[x] + SumFunctionOnSet(f, S \ {x})
<1> DEFINE F == {T \in SUBSET S : \A y \in T :
                   SumFunctionOnSet(f, T) = f[y] + SumFunctionOnSet(f, T \ {y})}
<1>1. {} \in F
  OBVIOUS
<1>2. ASSUME NEW T \in SUBSET S, T # {}, \A y \in T : T \ {y} \in F PROVE T \in F
  <2> SUFFICES ASSUME NEW y \in T
               PROVE  SumFunctionOnSet(f, T) = f[y] + SumFunctionOnSet(f, T \ {y})
    OBVIOUS
  <2> DEFINE z == First(T)
  <2>1. IsFiniteSet(T) /\ z \in T
    BY <1>2, FirstIn, FS_Subset
  <2>2. SumFunctionOnSet(f, T) = f[z] + SumFunctionOnSet(f, T \ {z})
    BY <2>1, SumFirst
  <2> HIDE DEF z
  <2>3. CASE y = z
    BY <2>2, <2>3
  <2>4. CASE y # z
    <3>1. y \in T \ {z} /\ z \in T \ {y} /\ T \ {z} \in F /\ T \ {y} \in F
      BY <1>2, <2>1, <2>4
    <3>2. SumFunctionOnSet(f, T \ {z}) = f[y] + SumFunctionOnSet(f, (T \ {z}) \ {y})
      BY <3>1
    <3>3. SumFunctionOnSet(f, T \ {y}) = f[z] + SumFunctionOnSet(f, (T \ {y}) \ {z})
      BY <3>1
    <3>4. SumFunctionOnSet(f, (T \ {z}) \ {y}) = SumFunctionOnSet(f, (T \ {y}) \ {z})
      <4>1. (T \ {z}) \ {y} = (T \ {y}) \ {z}
        OBVIOUS
      <4>2. QED
        BY <4>1
    <3>5. IsFiniteSet((T \ {y}) \ {z})
      BY <2>1, FS_RemoveElement
    <3>6. SumFunctionOnSet(f, (T \ {y}) \ {z}) \in Int
      BY <3>5, SumInt
    <3>7. f[y] \in Int /\ f[z] \in Int
      BY <2>1
    <3>8. QED
      BY <2>2, <3>2, <3>3, <3>4, <3>6, <3>7
  <2>5. QED
    BY <2>3, <2>4
<1>3. F = SUBSET S
  <2> HIDE DEF F
  <2>1. F \in SUBSET SUBSET S
    BY DEF F
  <2>2. QED
    BY <1>1, <1>2, <2>1, FamilyIsAll
<1>4. QED
  BY <1>3

(* One element more.                                                       *)
LEMMA SumWith ==
  ASSUME NEW S, IsFiniteSet(S), NEW x, x \notin S,
         NEW f, \A y \in S \cup {x} : f[y] \in Int
  PROVE  SumFunctionOnSet(f, S \cup {x}) = SumFunctionOnSet(f, S) + f[x]
<1> DEFINE T == S \cup {x}
<1>1. IsFiniteSet(T)
  BY FS_AddElement
<1>2. T \ {x} = S /\ x \in T
  OBVIOUS
<1> HIDE DEF T
<1>3. SumFunctionOnSet(f, T) = f[x] + SumFunctionOnSet(f, S)
  BY <1>1, <1>2, SumWithout DEF T
<1>4. SumFunctionOnSet(f, S) \in Int /\ f[x] \in Int
  BY SumInt
<1>5. QED
  BY <1>3, <1>4 DEF T

(* What holds of no element, and of one more, holds of all: the shape of   *)
(* the inductions below.                                                   *)
LEMMA FamilyGrows ==
  ASSUME NEW S, IsFiniteSet(S), NEW F \in SUBSET SUBSET S,
         {} \in F,
         \A T \in F : \A x \in S \ T : T \cup {x} \in F
  PROVE  S \in F
<1>1. ASSUME NEW T \in SUBSET S, T # {}, \A x \in T : T \ {x} \in F PROVE T \in F
  <2>1. PICK x \in T : TRUE
    BY <1>1
  <2>2. T \ {x} \in F /\ x \in S \ (T \ {x}) /\ (T \ {x}) \cup {x} = T
    BY <1>1, <2>1
  <2>3. QED
    BY <2>2
<1>2. F = SUBSET S
  BY <1>1, FamilyIsAll
<1>3. QED
  BY <1>2

(* Sums of the same values are the same.                                   *)
LEMMA SumEqual ==
  ASSUME NEW S, IsFiniteSet(S), NEW f, NEW g,
         \A x \in S : f[x] \in Int /\ g[x] = f[x]
  PROVE  SumFunctionOnSet(g, S) = SumFunctionOnSet(f, S)
<1> DEFINE F == {T \in SUBSET S : SumFunctionOnSet(g, T) = SumFunctionOnSet(f, T)}
<1>1. {} \in F
  BY SumEmpty
<1>2. ASSUME NEW T \in F, NEW x \in S \ T PROVE T \cup {x} \in F
  <2>1. IsFiniteSet(T) /\ \A y \in T \cup {x} : f[y] \in Int /\ g[y] \in Int
    BY FS_Subset
  <2>2. /\ SumFunctionOnSet(f, T \cup {x}) = SumFunctionOnSet(f, T) + f[x]
        /\ SumFunctionOnSet(g, T \cup {x}) = SumFunctionOnSet(g, T) + g[x]
    BY <2>1, SumWith
  <2>3. QED
    BY <2>2
<1>3. S \in F
  <2>1. F \in SUBSET SUBSET S
    OBVIOUS
  <2> HIDE DEF F
  <2>2. QED
    BY <1>1, <1>2, <2>1, FamilyGrows
<1>4. QED
  BY <1>3

(* Sums of smaller values are smaller.                                     *)
LEMMA SumAtMost ==
  ASSUME NEW S, IsFiniteSet(S), NEW f, NEW g,
         \A x \in S : f[x] \in Int /\ g[x] \in Int /\ f[x] <= g[x]
  PROVE  SumFunctionOnSet(f, S) <= SumFunctionOnSet(g, S)
<1> DEFINE F == {T \in SUBSET S : SumFunctionOnSet(f, T) <= SumFunctionOnSet(g, T)}
<1>1. {} \in F
  BY SumEmpty
<1>2. ASSUME NEW T \in F, NEW x \in S \ T PROVE T \cup {x} \in F
  <2>1. IsFiniteSet(T) /\ \A y \in T \cup {x} : f[y] \in Int /\ g[y] \in Int
    BY FS_Subset
  <2>2. /\ SumFunctionOnSet(f, T \cup {x}) = SumFunctionOnSet(f, T) + f[x]
        /\ SumFunctionOnSet(g, T \cup {x}) = SumFunctionOnSet(g, T) + g[x]
    BY <2>1, SumWith
  <2>3. SumFunctionOnSet(f, T) \in Int /\ SumFunctionOnSet(g, T) \in Int
    BY <2>1, SumInt
  <2>4. QED
    BY <2>2, <2>3
<1>3. S \in F
  <2>1. F \in SUBSET SUBSET S
    OBVIOUS
  <2> HIDE DEF F
  <2>2. QED
    BY <1>1, <1>2, <2>1, FamilyGrows
<1>4. QED
  BY <1>3

(* Values that are not negative have no negative sum.                      *)
LEMMA SumNat ==
  ASSUME NEW S, IsFiniteSet(S), NEW f, \A x \in S : f[x] \in Nat
  PROVE  SumFunctionOnSet(f, S) \in Nat
<1> DEFINE F == {T \in SUBSET S : SumFunctionOnSet(f, T) \in Nat}
<1>1. {} \in F
  BY SumEmpty
<1>2. ASSUME NEW T \in F, NEW x \in S \ T PROVE T \cup {x} \in F
  <2>1. IsFiniteSet(T) /\ \A y \in T \cup {x} : f[y] \in Int
    BY FS_Subset
  <2>2. SumFunctionOnSet(f, T \cup {x}) = SumFunctionOnSet(f, T) + f[x]
    BY <2>1, SumWith
  <2>3. QED
    BY <2>2
<1>3. S \in F
  <2>1. F \in SUBSET SUBSET S
    OBVIOUS
  <2> HIDE DEF F
  <2>2. QED
    BY <1>1, <1>2, <2>1, FamilyGrows
<1>4. QED
  BY <1>3

(* The sum of sums.                                                        *)
LEMMA SumPlus ==
  ASSUME NEW S, IsFiniteSet(S), NEW f, NEW g, NEW h,
         \A x \in S : f[x] \in Int /\ g[x] \in Int /\ h[x] = f[x] + g[x]
  PROVE  SumFunctionOnSet(h, S) = SumFunctionOnSet(f, S) + SumFunctionOnSet(g, S)
<1> DEFINE F == {T \in SUBSET S :
                   SumFunctionOnSet(h, T) = SumFunctionOnSet(f, T) + SumFunctionOnSet(g, T)}
<1>1. {} \in F
  BY SumEmpty
<1>2. ASSUME NEW T \in F, NEW x \in S \ T PROVE T \cup {x} \in F
  <2>1. /\ IsFiniteSet(T)
        /\ \A y \in T \cup {x} : f[y] \in Int /\ g[y] \in Int /\ h[y] \in Int
    BY FS_Subset
  <2>2. /\ SumFunctionOnSet(f, T \cup {x}) = SumFunctionOnSet(f, T) + f[x]
        /\ SumFunctionOnSet(g, T \cup {x}) = SumFunctionOnSet(g, T) + g[x]
        /\ SumFunctionOnSet(h, T \cup {x}) = SumFunctionOnSet(h, T) + h[x]
    BY <2>1, SumWith
  <2>3. SumFunctionOnSet(f, T) \in Int /\ SumFunctionOnSet(g, T) \in Int
    BY <2>1, SumInt
  <2>4. QED
    BY <2>2, <2>3
<1>3. S \in F
  <2>1. F \in SUBSET SUBSET S
    OBVIOUS
  <2> HIDE DEF F
  <2>2. QED
    BY <1>1, <1>2, <2>1, FamilyGrows
<1>4. QED
  BY <1>3

(* A factor of every value is one of the sum.                              *)
LEMMA SumTimes ==
  ASSUME NEW S, IsFiniteSet(S), NEW f, NEW g, NEW k \in Int,
         \A x \in S : f[x] \in Int /\ g[x] = k * f[x]
  PROVE  SumFunctionOnSet(g, S) = k * SumFunctionOnSet(f, S)
<1> DEFINE F == {T \in SUBSET S : SumFunctionOnSet(g, T) = k * SumFunctionOnSet(f, T)}
<1>1. {} \in F
  BY SumEmpty
<1>2. ASSUME NEW T \in F, NEW x \in S \ T PROVE T \cup {x} \in F
  <2>1. IsFiniteSet(T) /\ \A y \in T \cup {x} : f[y] \in Int /\ g[y] \in Int
    BY FS_Subset
  <2>2. /\ SumFunctionOnSet(f, T \cup {x}) = SumFunctionOnSet(f, T) + f[x]
        /\ SumFunctionOnSet(g, T \cup {x}) = SumFunctionOnSet(g, T) + g[x]
    BY <2>1, SumWith
  <2>3. SumFunctionOnSet(f, T) \in Int /\ f[x] \in Int
    BY <2>1, SumInt
  <2>4. \A a, b \in Int : k * (a + b) = k * a + k * b
    OBVIOUS
  <2>5. QED
    BY <2>2, <2>3, <2>4
<1>3. S \in F
  <2>1. F \in SUBSET SUBSET S
    OBVIOUS
  <2> HIDE DEF F
  <2>2. QED
    BY <1>1, <1>2, <2>1, FamilyGrows
<1>4. QED
  BY <1>3

(* The sum of the same value at every element.                             *)
LEMMA SumOfSame ==
  ASSUME NEW S, IsFiniteSet(S), NEW f, NEW k \in Int, \A x \in S : f[x] = k
  PROVE  SumFunctionOnSet(f, S) = k * Cardinality(S)
<1> DEFINE F == {T \in SUBSET S : SumFunctionOnSet(f, T) = k * Cardinality(T)}
<1>1. {} \in F
  BY SumEmpty, FS_EmptySet
<1>2. ASSUME NEW T \in F, NEW x \in S \ T PROVE T \cup {x} \in F
  <2>1. IsFiniteSet(T) /\ \A y \in T \cup {x} : f[y] \in Int
    BY FS_Subset
  <2>2. SumFunctionOnSet(f, T \cup {x}) = SumFunctionOnSet(f, T) + k
    <3>1. SumFunctionOnSet(f, T \cup {x}) = SumFunctionOnSet(f, T) + f[x]
      BY <2>1, SumWith
    <3>2. QED
      BY <3>1
  <2>3. Cardinality(T \cup {x}) = Cardinality(T) + 1 /\ Cardinality(T) \in Nat
    BY <2>1, FS_AddElement, FS_CardinalityType
  <2>4. \A n \in Nat : k * (n + 1) = k * n + k
    OBVIOUS
  <2>5. k * Cardinality(T \cup {x}) = k * Cardinality(T) + k
    BY <2>3, <2>4, Zenon
  <2>6. SumFunctionOnSet(f, T \cup {x}) = k * Cardinality(T \cup {x})
    BY <2>2, <2>5, Zenon
  <2>7. QED
    BY <2>6
<1>3. S \in F
  <2>1. F \in SUBSET SUBSET S
    OBVIOUS
  <2> HIDE DEF F
  <2>2. QED
    BY <1>1, <1>2, <2>1, FamilyGrows
<1>4. QED
  BY <1>3

(* A sum over two sets that share nothing.                                 *)
LEMMA SumUnion ==
  ASSUME NEW S, IsFiniteSet(S), NEW R, IsFiniteSet(R), R \cap S = {},
         NEW f, \A x \in R \cup S : f[x] \in Int
  PROVE  SumFunctionOnSet(f, R \cup S) = SumFunctionOnSet(f, R) + SumFunctionOnSet(f, S)
<1> DEFINE F == {T \in SUBSET S :
              SumFunctionOnSet(f, R \cup T) = SumFunctionOnSet(f, R) + SumFunctionOnSet(f, T)}
<1>1. SumFunctionOnSet(f, R) \in Int
  BY SumInt
<1>2. {} \in F
  <2>1. R \cup {} = R
    OBVIOUS
  <2>2. QED
    BY <1>1, <2>1, SumEmpty
<1>3. ASSUME NEW T \in F, NEW x \in S \ T PROVE T \cup {x} \in F
  <2>1. /\ IsFiniteSet(T) /\ \A y \in T \cup {x} : f[y] \in Int
        /\ IsFiniteSet(R \cup T) /\ \A y \in (R \cup T) \cup {x} : f[y] \in Int
        /\ x \notin R \cup T
    BY FS_Subset, FS_Union
  <2>2. /\ SumFunctionOnSet(f, T \cup {x}) = SumFunctionOnSet(f, T) + f[x]
        /\ SumFunctionOnSet(f, (R \cup T) \cup {x}) = SumFunctionOnSet(f, R \cup T) + f[x]
    BY <2>1, SumWith
  <2>3. SumFunctionOnSet(f, R \cup (T \cup {x})) = SumFunctionOnSet(f, (R \cup T) \cup {x})
    <3>1. R \cup (T \cup {x}) = (R \cup T) \cup {x}
      OBVIOUS
    <3>2. QED
      BY <3>1
  <2>4. SumFunctionOnSet(f, T) \in Int /\ f[x] \in Int
    BY <2>1, SumInt
  <2>5. QED
    BY <1>1, <2>2, <2>3, <2>4
<1>4. S \in F
  <2>1. F \in SUBSET SUBSET S
    OBVIOUS
  <2> HIDE DEF F
  <2>2. QED
    BY <1>2, <1>3, <2>1, FamilyGrows
<1>5. QED
  BY <1>4

(* One value changes.                                                      *)
LEMMA SumChanges ==
  ASSUME NEW S, IsFiniteSet(S), NEW x \in S, NEW f, NEW g,
         \A y \in S : f[y] \in Int /\ g[y] \in Int,
         \A y \in S \ {x} : g[y] = f[y]
  PROVE  SumFunctionOnSet(g, S) = SumFunctionOnSet(f, S) + (g[x] - f[x])
<1>1. IsFiniteSet(S \ {x})
  BY FS_RemoveElement
<1>2. /\ SumFunctionOnSet(f, S) = f[x] + SumFunctionOnSet(f, S \ {x})
      /\ SumFunctionOnSet(g, S) = g[x] + SumFunctionOnSet(g, S \ {x})
  BY SumWithout
<1>3. SumFunctionOnSet(g, S \ {x}) = SumFunctionOnSet(f, S \ {x})
  BY <1>1, SumEqual
<1>4. SumFunctionOnSet(f, S \ {x}) \in Int
  BY <1>1, SumInt
<1>5. QED
  BY <1>2, <1>3, <1>4

-----------------------------------------------------------------------------
(* Sums over the domain of a function *)

(* Nothing adds up to 0.                                                   *)
LEMMA SumFunctionEmpty ==
  ASSUME NEW f, DOMAIN f = {}
  PROVE  SumFunction(f) = 0
  BY SumEmpty DEF SumFunction

(* The sum of integers is one.                                             *)
LEMMA SumFunctionInt ==
  ASSUME NEW f, IsFiniteSet(DOMAIN f), \A x \in DOMAIN f : f[x] \in Int
  PROVE  SumFunction(f) \in Int
  BY SumInt DEF SumFunction

(* The domain has one element more.                                        *)
LEMMA SumFunctionWith ==
  ASSUME NEW S, IsFiniteSet(S), NEW x, x \notin S,
         NEW f, DOMAIN f = S \cup {x}, \A y \in S \cup {x} : f[y] \in Int
  PROVE  SumFunction(f) = SumFunction([y \in S |-> f[y]]) + f[x]
<1> DEFINE g == [y \in S |-> f[y]]
<1>1. SumFunction(f) = SumFunctionOnSet(f, S \cup {x})
  BY DEF SumFunction
<1>2. SumFunction(g) = SumFunctionOnSet(g, S)
  BY DEF SumFunction
<1>3. SumFunctionOnSet(f, S \cup {x}) = SumFunctionOnSet(f, S) + f[x]
  BY SumWith
<1>4. \A y \in S : f[y] \in Int /\ g[y] = f[y]
  OBVIOUS
<1> HIDE DEF g
<1>5. SumFunctionOnSet(g, S) = SumFunctionOnSet(f, S)
  BY <1>4, SumEqual
<1>6. QED
  BY <1>1, <1>2, <1>3, <1>5 DEF g

(* One value changes.                                                      *)
LEMMA SumFunctionChanges ==
  ASSUME NEW S, IsFiniteSet(S), NEW x \in S,
         NEW f, DOMAIN f = S, NEW g, DOMAIN g = S,
         \A y \in S : f[y] \in Int /\ g[y] \in Int,
         \A y \in S \ {x} : g[y] = f[y]
  PROVE  SumFunction(g) = SumFunction(f) + (g[x] - f[x])
<1>1. SumFunction(g) = SumFunctionOnSet(g, S) /\ SumFunction(f) = SumFunctionOnSet(f, S)
  BY DEF SumFunction
<1>2. SumFunctionOnSet(g, S) = SumFunctionOnSet(f, S) + (g[x] - f[x])
  BY SumChanges
<1>3. QED
  BY <1>1, <1>2
=============================================================================
