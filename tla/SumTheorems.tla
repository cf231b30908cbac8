----------------------------- MODULE SumTheorems ----------------------------
(***************************************************************************)
(* What a sum over a finite set is: the facts about SumFunctionOnSet that the *)
(* proofs about money need.  The operator is a recursive function on the      *)
(* subsets of its set that takes out an element by CHOOSE; that such a         *)
(* function exists, and that the order in which it takes the elements does    *)
(* not matter, are inductions on the size of a subset, done here by looking   *)
(* at the smallest set for which the claim would fail.  The last part is      *)
(* about floors, and what a sum of them loses.                                *)
(***************************************************************************)
EXTENDS Integers, FiniteSets, Functions, FiniteSetTheorems, WellFoundedInduction, TLAPS

\* The order of the natural numbers as a set of pairs.
Below == {ss \in Nat \X Nat : ss[1] < ss[2]}

\* Every non-empty set of natural numbers has a least element.
LEMMA LeastElement ==
  ASSUME NEW T \in SUBSET Nat, T # {}
  PROVE  \E n \in T : \A m \in T : n <= m
<1>1. IsWellFoundedOn(Below, Nat)
  BY NatLessThanWellFounded DEF OpToRel, Below
<1>2. PICK x \in T : \A y \in T : ~(<<y, x>> \in Below)
  BY <1>1, WFMin
<1>3. \A y \in T : ~(y < x)
  BY <1>2 DEF Below
<1> QED BY <1>3

\* The element a fold takes out of s first.
Picked(s) == CHOOSE x \in s : TRUE

\* `it` is the recursive function of the sum of f, on the sets of D.
Adds(it, f, D) ==
  it = [s \in D |-> IF s = {} THEN 0 ELSE f[Picked(s)] + it[s \ {Picked(s)}]]

\* Two functions with the same values on S.
Agree(f, g, S) == \A x \in S : f[x] = g[x]

\* Any element of a set may be taken out first.
TakesAny(it, f, S) ==
  \A s \in SUBSET S : it[s] \in Int /\ \A x \in s : it[s] = f[x] + it[s \ {x}]

\* The subsets of S with n elements at most.
SubsetsUpTo(S, n) == {s \in SUBSET S : Cardinality(s) <= n}

\* The sum as the community module defines it.
LEMMA SumIs ==
  ASSUME NEW f, NEW S
  PROVE  SumFunctionOnSet(f, S) = (CHOOSE it : Adds(it, f, SUBSET S))[S]
BY DEF SumFunctionOnSet, FoldFunctionOnSet, MapThenFoldSet, Adds, Picked

\* A subset without one of its elements.
LEMMA SmallerSubset ==
  ASSUME NEW S, IsFiniteSet(S), NEW s \in SUBSET S, NEW x \in s
  PROVE  /\ IsFiniteSet(s) /\ Cardinality(s) \in Nat
         /\ s \ {x} \in SUBSET S /\ Cardinality(s \ {x}) = Cardinality(s) - 1
<1>1. IsFiniteSet(s)
  BY FS_Subset
<1>2. Cardinality(s) \in Nat
  BY <1>1, FS_CardinalityType
<1>3. Cardinality(s \ {x}) = Cardinality(s) - 1
  BY <1>1, FS_RemoveElement
<1> QED BY <1>1, <1>2, <1>3

\* Picked takes an element.
LEMMA PickedIn ==
  ASSUME NEW s, s # {}
  PROVE  Picked(s) \in s
BY DEF Picked

\* The recursive function exists: by induction on the size of the subsets.
LEMMA AddsExists ==
  ASSUME NEW f, NEW S, IsFiniteSet(S)
  PROVE  \E it : Adds(it, f, SUBSET S)
<1> DEFINE Missing == {n \in Nat : ~ \E it : Adds(it, f, SubsetsUpTo(S, n))}
<1>1. 0 \notin Missing
  <2> DEFINE it == [s \in SubsetsUpTo(S, 0) |-> 0]
  <2>1. \A s \in SubsetsUpTo(S, 0) : s = {}
    <3> SUFFICES ASSUME NEW s \in SubsetsUpTo(S, 0) PROVE s = {}
      OBVIOUS
    <3>1. IsFiniteSet(s) /\ Cardinality(s) <= 0
      BY FS_Subset DEF SubsetsUpTo
    <3> QED BY <3>1, FS_CardinalityType, FS_EmptySet
  <2>2. Adds(it, f, SubsetsUpTo(S, 0))
    BY <2>1 DEF Adds
  <2> QED BY <2>2
<1>2. ASSUME NEW n \in Nat, n \notin Missing PROVE n + 1 \notin Missing
  <2>1. PICK it : Adds(it, f, SubsetsUpTo(S, n))
    BY <1>2
  <2> DEFINE D == SubsetsUpTo(S, n + 1)
             ext == [s \in D |-> IF s = {} THEN 0 ELSE f[Picked(s)] + it[s \ {Picked(s)}]]
  <2>2. \A s \in SubsetsUpTo(S, n) : s \in D
    <3> SUFFICES ASSUME NEW s \in SubsetsUpTo(S, n) PROVE s \in D
      OBVIOUS
    <3>1. Cardinality(s) \in Nat
      BY FS_Subset, FS_CardinalityType DEF SubsetsUpTo
    <3> QED BY <3>1 DEF SubsetsUpTo
  <2>3. \A s \in SubsetsUpTo(S, n) : ext[s] = it[s]
    BY <2>1, <2>2 DEF Adds
  <2>4. \A s \in D : s # {} => s \ {Picked(s)} \in SubsetsUpTo(S, n)
    BY SmallerSubset, PickedIn DEF SubsetsUpTo
  <2>5. \A s \in D : ext[s] = IF s = {} THEN 0 ELSE f[Picked(s)] + ext[s \ {Picked(s)}]
    BY <2>3, <2>4
  <2>6. Adds(ext, f, D)
    BY <2>5 DEF Adds
  <2> QED BY <2>6
<1>3. Missing = {}
  <2> SUFFICES ASSUME Missing # {} PROVE FALSE
    OBVIOUS
  <2>1. PICK n \in Missing : \A m \in Missing : n <= m
    BY LeastElement
  <2>2. n - 1 \in Nat /\ n - 1 \notin Missing
    BY <1>1, <2>1
  <2>3. (n - 1) + 1 \notin Missing
    BY <1>2, <2>2
  <2> QED BY <2>1, <2>3
<1>4. SubsetsUpTo(S, Cardinality(S)) = SUBSET S
  <2>1. \A s \in SUBSET S : Cardinality(s) <= Cardinality(S)
    BY FS_Subset
  <2> QED BY <2>1 DEF SubsetsUpTo
<1>5. Cardinality(S) \in Nat
  BY FS_CardinalityType
<1>6. \E it : Adds(it, f, SubsetsUpTo(S, Cardinality(S)))
  <2>1. Cardinality(S) \notin Missing
    BY <1>3
  <2> QED BY <1>5, <2>1
<1> QED BY <1>4, <1>6

\* So a sum is a value of such a function.
LEMMA SumAdds ==
  ASSUME NEW f, NEW S, IsFiniteSet(S)
  PROVE  \E it : Adds(it, f, SUBSET S) /\ SumFunctionOnSet(f, S) = it[S]
<1> DEFINE it == CHOOSE i : Adds(i, f, SUBSET S)
<1>1. Adds(it, f, SUBSET S)
  BY AddsExists
<1>2. SumFunctionOnSet(f, S) = it[S]
  BY SumIs
<1> QED BY <1>1, <1>2

\* Functions that agree on T have the same sum there, whatever set T is a part of.
LEMMA AddsAgree ==
  ASSUME NEW f, NEW g, NEW S, NEW T, NEW i, NEW j,
         IsFiniteSet(S), T \in SUBSET S, Agree(f, g, T),
         Adds(i, f, SUBSET S), Adds(j, g, SUBSET T)
  PROVE  i[T] = j[T]
<1> DEFINE Differ == {n \in Nat : \E s \in SUBSET T : Cardinality(s) = n /\ i[s] # j[s]}
<1> SUFFICES ASSUME i[T] # j[T] PROVE FALSE
  OBVIOUS
<1>1. IsFiniteSet(T) /\ Cardinality(T) \in Nat
  BY FS_Subset, FS_CardinalityType
<1>2. Cardinality(T) \in Differ
  BY <1>1
<1>3. PICK n \in Differ : \A m \in Differ : n <= m
  BY <1>2, LeastElement
<1>4. PICK s \in SUBSET T : Cardinality(s) = n /\ i[s] # j[s]
  BY <1>3
<1>5. CASE s = {}
  BY <1>4, <1>5 DEF Adds
<1>6. CASE s # {}
  <2> DEFINE x == Picked(s)
             t == s \ {x}
  <2>1. x \in s
    BY <1>6, PickedIn
  <2>2. t \in SUBSET T /\ Cardinality(t) = n - 1 /\ n \in Nat
    BY <1>1, <1>4, <2>1, SmallerSubset
  <2>3. n # 0
    BY <1>1, <1>4, <1>6, FS_Subset, FS_EmptySet
  <2>4. n - 1 \in Nat /\ n - 1 \notin Differ
    BY <1>3, <2>2, <2>3
  <2>5. i[t] = j[t]
    BY <2>2, <2>4
  <2>6. i[s] = f[x] + i[t] /\ j[s] = g[x] + j[t]
    BY <1>6 DEF Adds
  <2> QED BY <1>4, <2>1, <2>5, <2>6 DEF Agree
<1> QED BY <1>5, <1>6

\* The order of taking elements out does not matter.
LEMMA AddsTakesAny ==
  ASSUME NEW S, NEW f, NEW it,
         IsFiniteSet(S), \A x \in S : f[x] \in Int, Adds(it, f, SUBSET S)
  PROVE  TakesAny(it, f, S)
<1> DEFINE Good(s) == it[s] \in Int /\ \A x \in s : it[s] = f[x] + it[s \ {x}]
           Bad == {n \in Nat : \E s \in SUBSET S : Cardinality(s) = n /\ ~Good(s)}
<1> SUFFICES ASSUME NEW s0 \in SUBSET S, ~Good(s0) PROVE FALSE
  BY DEF TakesAny
<1>1. \A s \in SUBSET S : IsFiniteSet(s) /\ Cardinality(s) \in Nat
  BY FS_Subset, FS_CardinalityType
<1>2. Cardinality(s0) \in Bad
  BY <1>1
<1>3. PICK n \in Bad : \A m \in Bad : n <= m
  BY <1>2, LeastElement
<1>4. PICK s \in SUBSET S : Cardinality(s) = n /\ ~Good(s)
  BY <1>3
<1>5. CASE s = {}
  BY <1>4, <1>5 DEF Adds
<1>6. CASE s # {}
  <2> DEFINE y == Picked(s)
  <2>1. y \in s
    BY <1>6, PickedIn
  <2>2. ASSUME NEW x \in s PROVE Good(s \ {x})
    <3>1. s \ {x} \in SUBSET S /\ Cardinality(s \ {x}) = n - 1 /\ Cardinality(s \ {x}) \in Nat
      BY <1>1, <1>4, <2>2, SmallerSubset
    <3>2. n - 1 \notin Bad
      BY <1>3, <3>1
    <3> QED BY <3>1, <3>2
  <2>3. it[s] = f[y] + it[s \ {y}]
    BY <1>6 DEF Adds
  <2>4. it[s] \in Int
    <3>1. it[s \ {y}] \in Int
      BY <2>1, <2>2
    <3>2. f[y] \in Int
      BY <2>1
    <3> HIDE DEF y
    <3>3. f[y] + it[s \ {y}] \in Int
      BY <3>1, <3>2
    <3> QED BY <2>3, <3>3
  <2>5. ASSUME NEW x \in s, x # y PROVE it[s] = f[x] + it[s \ {x}]
    <3> DEFINE r == (s \ {y}) \ {x}
    <3>1. it[s \ {y}] = f[x] + it[r]
      BY <2>1, <2>2, <2>5
    <3>2. (s \ {x}) \ {y} = r /\ y \in s \ {x}
      BY <2>1, <2>5
    <3>3. it[s \ {x}] = f[y] + it[r]
      BY <2>2, <3>2
    <3>4. r = {} \/ r # {}
      OBVIOUS
    <3>5. it[s \ {x}] \in Int /\ it[s \ {y}] \in Int /\ f[x] \in Int /\ f[y] \in Int
      BY <2>1, <2>2, <2>5
    <3>6. it[r] \in Int
      <4>1. r \in SUBSET S /\ Cardinality(r) \in Nat
        BY <1>1
      <4>2. Cardinality(s \ {y}) = n - 1 /\ s \ {y} \in SUBSET S /\ n \in Nat /\ x \in s \ {y}
        BY <1>1, <1>4, <2>1, <2>5, SmallerSubset
      <4>3. Cardinality(r) = n - 2
        BY <4>2, SmallerSubset
      <4>4. n - 2 \notin Bad
        BY <1>3, <4>1, <4>2, <4>3
      <4> QED BY <4>1, <4>3, <4>4
    <3> HIDE DEF r
    <3> QED BY <2>3, <3>1, <3>3, <3>5, <3>6
  <2> QED BY <1>4, <2>3, <2>4, <2>5
<1> QED BY <1>5, <1>6

\* The empty sum.
LEMMA SumEmpty ==
  ASSUME NEW f
  PROVE  SumFunctionOnSet(f, {}) = 0
<1>1. PICK it : Adds(it, f, SUBSET {}) /\ SumFunctionOnSet(f, {}) = it[{}]
  BY SumAdds, FS_EmptySet
<1>2. it[{}] = 0
  BY <1>1 DEF Adds
<1> QED BY <1>1, <1>2

\* SumAdds and AddsTakesAny together.
LEMMA SumAddsAny ==
  ASSUME NEW S, IsFiniteSet(S), NEW f, \A x \in S : f[x] \in Int
  PROVE  \E it : /\ Adds(it, f, SUBSET S) /\ SumFunctionOnSet(f, S) = it[S]
                 /\ TakesAny(it, f, S)
<1>1. PICK it : Adds(it, f, SUBSET S) /\ SumFunctionOnSet(f, S) = it[S]
  BY SumAdds
<1>2. TakesAny(it, f, S)
  BY <1>1, AddsTakesAny
<1> QED BY <1>1, <1>2

\* A sum of integers is an integer.
LEMMA SumInt ==
  ASSUME NEW S, IsFiniteSet(S), NEW f, \A x \in S : f[x] \in Int
  PROVE  SumFunctionOnSet(f, S) \in Int
<1>1. PICK it : /\ Adds(it, f, SUBSET S) /\ SumFunctionOnSet(f, S) = it[S]
                /\ TakesAny(it, f, S)
  BY SumAddsAny
<1> QED BY <1>1 DEF TakesAny

\* Functions with the same values have the same sum.
LEMMA SumSame ==
  ASSUME NEW S, IsFiniteSet(S), NEW f, NEW g, Agree(f, g, S)
  PROVE  SumFunctionOnSet(f, S) = SumFunctionOnSet(g, S)
<1>1. PICK i : Adds(i, f, SUBSET S) /\ SumFunctionOnSet(f, S) = i[S]
  BY SumAdds
<1>2. PICK j : Adds(j, g, SUBSET S) /\ SumFunctionOnSet(g, S) = j[S]
  BY SumAdds
<1>3. S \in SUBSET S
  OBVIOUS
<1>4. i[S] = j[S]
  BY <1>1, <1>2, <1>3, AddsAgree
<1> QED BY <1>1, <1>2, <1>4

\* Taking one element out of a sum.
LEMMA SumRemove ==
  ASSUME NEW S, IsFiniteSet(S), NEW f, \A x \in S : f[x] \in Int, NEW x \in S
  PROVE  SumFunctionOnSet(f, S) = f[x] + SumFunctionOnSet(f, S \ {x})
<1> DEFINE T == S \ {x}
<1>1. IsFiniteSet(T) /\ T \in SUBSET S
  BY FS_Subset
<1>2. PICK i : /\ Adds(i, f, SUBSET S) /\ SumFunctionOnSet(f, S) = i[S]
               /\ TakesAny(i, f, S)
  BY SumAddsAny
<1>3. i[S] = f[x] + i[T]
  BY <1>2 DEF TakesAny
<1> HIDE DEF T
<1>4. PICK j : Adds(j, f, SUBSET T) /\ SumFunctionOnSet(f, T) = j[T]
  BY <1>1, SumAdds
<1>5. i[T] = j[T]
  <2>1. Agree(f, f, T)
    BY DEF Agree
  <2>2. Adds(i, f, SUBSET S)
    BY <1>2
  <2> QED BY <1>1, <1>4, <2>1, <2>2, AddsAgree
<1> QED BY <1>2, <1>3, <1>4, <1>5 DEF T

\* Adding one element to a sum.
LEMMA SumInsert ==
  ASSUME NEW S, IsFiniteSet(S), NEW f, NEW x, x \notin S, \A y \in S \cup {x} : f[y] \in Int
  PROVE  SumFunctionOnSet(f, S \cup {x}) = f[x] + SumFunctionOnSet(f, S)
<1> DEFINE T == S \cup {x}
<1>1. IsFiniteSet(T) /\ x \in T /\ T \ {x} = S
  BY FS_AddElement
<1>2. \A y \in T : f[y] \in Int
  OBVIOUS
<1> HIDE DEF T
<1>3. SumFunctionOnSet(f, T) = f[x] + SumFunctionOnSet(f, T \ {x})
  BY <1>1, <1>2, SumRemove
<1> QED BY <1>1, <1>3 DEF T

\* Changing the value at one element.
LEMMA SumUpdate ==
  ASSUME NEW S, IsFiniteSet(S), NEW f, NEW g, NEW x \in S,
         \A y \in S : f[y] \in Int /\ g[y] \in Int,
         \A y \in S \ {x} : g[y] = f[y]
  PROVE  SumFunctionOnSet(g, S) = SumFunctionOnSet(f, S) - f[x] + g[x]
<1> DEFINE T == S \ {x}
<1>1. IsFiniteSet(T)
  BY FS_Subset
<1>2. SumFunctionOnSet(f, T) = SumFunctionOnSet(g, T) /\ SumFunctionOnSet(f, T) \in Int
  <2>1. Agree(f, g, T)
    BY DEF Agree
  <2> QED BY <1>1, <2>1, SumSame, SumInt
<1>3. SumFunctionOnSet(f, S) = f[x] + SumFunctionOnSet(f, T)
  BY SumRemove
<1>4. SumFunctionOnSet(g, S) = g[x] + SumFunctionOnSet(g, T)
  BY SumRemove
<1>5. f[x] \in Int /\ g[x] \in Int
  OBVIOUS
<1> HIDE DEF T
<1> QED BY <1>2, <1>3, <1>4, <1>5

\* A sum of zeros.
LEMMA SumZero ==
  ASSUME NEW S, IsFiniteSet(S), NEW f, \A x \in S : f[x] = 0
  PROVE  SumFunctionOnSet(f, S) = 0
<1>1. PICK it : Adds(it, f, SUBSET S) /\ SumFunctionOnSet(f, S) = it[S]
  BY SumAdds
<1> DEFINE zero == [s \in SUBSET S |-> 0]
<1>2. \A s \in SUBSET S : s # {} => s \ {Picked(s)} \in SUBSET S /\ Picked(s) \in S
  BY PickedIn
<1>3. \A s \in SUBSET S : zero[s] = IF s = {} THEN 0 ELSE f[Picked(s)] + zero[s \ {Picked(s)}]
  BY <1>2
<1>4. Adds(zero, f, SUBSET S)
  BY <1>3 DEF Adds
<1>5. S \in SUBSET S /\ Agree(f, f, S)
  BY DEF Agree
<1>6. Adds(it, f, SUBSET S)
  BY <1>1
<1> HIDE DEF zero
<1>7. it[S] = zero[S]
  BY <1>4, <1>5, <1>6, AddsAgree
<1> QED BY <1>1, <1>7 DEF zero

\* Induction over the subsets of a finite set, for a family G of subsets.
LEMMA SubsetInduction ==
  ASSUME NEW T, IsFiniteSet(T), NEW G \in SUBSET (SUBSET T), {} \in G,
         \A s \in SUBSET T : \A x \in s : s \ {x} \in G => s \in G
  PROVE  T \in G
<1> DEFINE Off == {n \in Nat : \E s \in SUBSET T : Cardinality(s) = n /\ s \notin G}
<1> SUFFICES ASSUME T \notin G PROVE FALSE
  OBVIOUS
<1>1. Cardinality(T) \in Off
  <2>1. Cardinality(T) \in Nat /\ T \in SUBSET T
    BY FS_CardinalityType
  <2>2. QED
    BY <2>1
<1>2. PICK n \in Off : \A m \in Off : n <= m
  <2>1. Off \in SUBSET Nat /\ Off # {}
    BY <1>1
  <2> HIDE DEF Off
  <2>2. QED
    BY <2>1, LeastElement
<1>3. PICK s \in SUBSET T : Cardinality(s) = n /\ s \notin G
  OBVIOUS
<1>4. PICK x : x \in s
  <2>1. s # {}
    BY <1>3
  <2>2. QED
    BY <2>1
<1>5. s \ {x} \in SUBSET T /\ Cardinality(s \ {x}) = n - 1 /\ n \in Nat
  <2>1. s \in SUBSET T /\ x \in s /\ Cardinality(s) = n
    BY <1>3, <1>4
  <2>2. /\ Cardinality(s) \in Nat /\ s \ {x} \in SUBSET T
        /\ Cardinality(s \ {x}) = Cardinality(s) - 1
    BY <2>1, SmallerSubset
  <2>3. QED
    BY <2>1, <2>2
<1>6. Cardinality(s \ {x}) \in Nat /\ ~(n <= n - 1)
  <2>1. IsFiniteSet(s \ {x})
    BY <1>5, FS_Subset
  <2>2. QED
    BY <1>5, <2>1, FS_CardinalityType
<1>7. s \ {x} \in G
  <2>1. n - 1 \notin Off
    BY <1>2, <1>6
  <2>2. n - 1 \in Nat
    BY <1>5, <1>6
  <2>3. QED
    BY <1>5, <2>1, <2>2
<1>8. QED
  BY <1>3, <1>7

\* The sum over two disjoint sets.
LEMMA SumUnion ==
  ASSUME NEW S, IsFiniteSet(S), NEW T, IsFiniteSet(T), S \cap T = {}, NEW f,
         \A x \in S \cup T : f[x] \in Int
  PROVE  SumFunctionOnSet(f, S \cup T) = SumFunctionOnSet(f, S) + SumFunctionOnSet(f, T)
<1> DEFINE G == {s \in SUBSET T :
                   SumFunctionOnSet(f, S \cup s) = SumFunctionOnSet(f, S) + SumFunctionOnSet(f, s)}
<1>0. SumFunctionOnSet(f, S) \in Int
  BY SumInt
<1>1. {} \in G
  <2>1. S \cup {} = S /\ SumFunctionOnSet(f, {}) = 0
    BY SumEmpty
  <2>2. QED
    BY <1>0, <2>1
<1>2. ASSUME NEW s \in SUBSET T, NEW x \in s, s \ {x} \in G
      PROVE  s \in G
  <2> DEFINE q == s \ {x}
  <2>1. IsFiniteSet(s) /\ IsFiniteSet(q) /\ IsFiniteSet(S \cup s)
    BY FS_Subset, FS_Union
  <2>2. SumFunctionOnSet(f, s) = f[x] + SumFunctionOnSet(f, q)
    BY <2>1, SumRemove
  <2>3. (S \cup s) \ {x} = S \cup q
    OBVIOUS
  <2>4. SumFunctionOnSet(f, S \cup s) = f[x] + SumFunctionOnSet(f, S \cup q)
    <3>1. x \in S \cup s /\ \A y \in S \cup s : f[y] \in Int
      OBVIOUS
    <3>2. SumFunctionOnSet(f, S \cup s) = f[x] + SumFunctionOnSet(f, (S \cup s) \ {x})
      BY <2>1, <3>1, SumRemove
    <3>3. QED
      BY <2>3, <3>2
  <2>5. SumFunctionOnSet(f, S \cup q) = SumFunctionOnSet(f, S) + SumFunctionOnSet(f, q)
    BY <1>2
  <2>6. f[x] \in Int /\ SumFunctionOnSet(f, q) \in Int
    BY <2>1, SumInt
  <2>7. SumFunctionOnSet(f, S \cup s) = SumFunctionOnSet(f, S) + SumFunctionOnSet(f, s)
    BY <1>0, <2>2, <2>4, <2>5, <2>6
  <2>8. QED
    BY <2>7
<1>3. T \in G
  <2>1. G \in SUBSET (SUBSET T)
    OBVIOUS
  <2> HIDE DEF G
  <2>2. QED
    BY <1>1, <1>2, <2>1, SubsetInduction
<1>4. QED
  BY <1>3

\* The sum over what is left when a subset is taken out.
LEMMA SumWithout ==
  ASSUME NEW S, IsFiniteSet(S), NEW T \in SUBSET S, NEW f, \A x \in S : f[x] \in Int
  PROVE  SumFunctionOnSet(f, S \ T) = SumFunctionOnSet(f, S) - SumFunctionOnSet(f, T)
<1>1. IsFiniteSet(T) /\ IsFiniteSet(S \ T) /\ (S \ T) \cup T = S /\ (S \ T) \cap T = {}
  BY FS_Subset
<1>2. SumFunctionOnSet(f, S) = SumFunctionOnSet(f, S \ T) + SumFunctionOnSet(f, T)
  <2>1. SumFunctionOnSet(f, (S \ T) \cup T)
          = SumFunctionOnSet(f, S \ T) + SumFunctionOnSet(f, T)
    BY <1>1, SumUnion
  <2>2. QED
    BY <1>1, <2>1
<1>3. SumFunctionOnSet(f, S \ T) \in Int /\ SumFunctionOnSet(f, T) \in Int
  BY <1>1, SumInt
<1>4. QED
  BY <1>2, <1>3

\* The sum of ones is the number of elements.
LEMMA SumOnes ==
  ASSUME NEW S, IsFiniteSet(S), NEW f, \A x \in S : f[x] = 1
  PROVE  SumFunctionOnSet(f, S) = Cardinality(S)
<1> DEFINE G == {s \in SUBSET S : SumFunctionOnSet(f, s) = Cardinality(s)}
<1>1. {} \in G
  BY SumEmpty, FS_EmptySet
<1>2. ASSUME NEW s \in SUBSET S, NEW x \in s, s \ {x} \in G
      PROVE  s \in G
  <2>1. IsFiniteSet(s) /\ Cardinality(s) \in Nat /\ Cardinality(s \ {x}) = Cardinality(s) - 1
    BY SmallerSubset
  <2>2. SumFunctionOnSet(f, s) = 1 + SumFunctionOnSet(f, s \ {x})
    BY <2>1, SumRemove
  <2>3. SumFunctionOnSet(f, s) = Cardinality(s)
    BY <1>2, <2>1, <2>2
  <2>4. QED
    BY <2>3
<1>3. S \in G
  <2>1. G \in SUBSET (SUBSET S)
    OBVIOUS
  <2> HIDE DEF G
  <2>2. QED
    BY <1>1, <1>2, <2>1, SubsetInduction
<1>4. QED
  BY <1>3

\* The union of the parts that a set of indices names.
Parts(part, R) == UNION {part[x] : x \in R}

\* The sum of the sums over disjoint parts is the sum over their union.
LEMMA SumParts ==
  ASSUME NEW R, IsFiniteSet(R), NEW E, IsFiniteSet(E), NEW part, NEW f, NEW g,
         \A x \in R : part[x] \subseteq E /\ g[x] = SumFunctionOnSet(f, part[x]),
         \A x, y \in R : x # y => part[x] \cap part[y] = {},
         \A o \in E : f[o] \in Int
  PROVE  SumFunctionOnSet(g, R) = SumFunctionOnSet(f, Parts(part, R))
<1> DEFINE G == {s \in SUBSET R : SumFunctionOnSet(g, s) = SumFunctionOnSet(f, Parts(part, s))}
<1>0. ASSUME NEW s \in SUBSET R PROVE Parts(part, s) \subseteq E /\ IsFiniteSet(Parts(part, s))
  <2>1. Parts(part, s) \subseteq E
    BY DEF Parts
  <2>2. QED
    BY <2>1, FS_Subset
<1>a. ASSUME NEW x \in R PROVE IsFiniteSet(part[x]) /\ g[x] \in Int
  <2>1. IsFiniteSet(part[x])
    BY FS_Subset
  <2>2. \A o \in part[x] : f[o] \in Int
    OBVIOUS
  <2>3. QED
    BY <2>1, <2>2, SumInt
<1>1. {} \in G
  <2>1. Parts(part, {}) = {}
    BY DEF Parts
  <2>2. QED
    BY <2>1, SumEmpty
<1>2. ASSUME NEW s \in SUBSET R, NEW x \in s, s \ {x} \in G
      PROVE  s \in G
  <2> DEFINE q == s \ {x}
  <2>1. IsFiniteSet(s)
    BY FS_Subset
  <2>2. SumFunctionOnSet(g, s) = g[x] + SumFunctionOnSet(g, q)
    BY <1>a, <2>1, SumRemove
  <2>3. Parts(part, s) = Parts(part, q) \cup part[x] /\ Parts(part, q) \cap part[x] = {}
    BY DEF Parts
  <2>4. /\ IsFiniteSet(Parts(part, q)) /\ Parts(part, q) \subseteq E
        /\ IsFiniteSet(part[x]) /\ part[x] \subseteq E
    BY <1>0, <1>a
  <2>5. SumFunctionOnSet(f, Parts(part, q) \cup part[x])
          = SumFunctionOnSet(f, Parts(part, q)) + SumFunctionOnSet(f, part[x])
    <3>1. \A o \in Parts(part, q) \cup part[x] : f[o] \in Int
      BY <2>4
    <3>2. QED
      BY <2>3, <2>4, <3>1, SumUnion
  <2>6. SumFunctionOnSet(f, Parts(part, q)) \in Int
    BY <2>4, SumInt
  <2>7. SumFunctionOnSet(g, q) = SumFunctionOnSet(f, Parts(part, q))
    BY <1>2
  <2>8. SumFunctionOnSet(g, s) = SumFunctionOnSet(f, Parts(part, s))
    BY <1>a, <2>2, <2>3, <2>5, <2>6, <2>7
  <2>9. QED
    BY <2>8
<1>3. R \in G
  <2>1. G \in SUBSET (SUBSET R)
    OBVIOUS
  <2> HIDE DEF G
  <2>2. QED
    BY <1>1, <1>2, <2>1, SubsetInduction
<1>4. QED
  BY <1>3

\* A sum of natural numbers is one.
LEMMA SumNat ==
  ASSUME NEW S, IsFiniteSet(S), NEW f, \A x \in S : f[x] \in Nat
  PROVE  SumFunctionOnSet(f, S) \in Nat
<1> DEFINE G == {s \in SUBSET S : SumFunctionOnSet(f, s) \in Nat}
<1>1. {} \in G
  BY SumEmpty
<1>2. ASSUME NEW s \in SUBSET S, NEW x \in s, s \ {x} \in G
      PROVE  s \in G
  <2>1. IsFiniteSet(s) /\ \A y \in s : f[y] \in Int
    BY FS_Subset
  <2>2. SumFunctionOnSet(f, s) = f[x] + SumFunctionOnSet(f, s \ {x})
    BY <2>1, SumRemove
  <2>3. f[x] \in Nat /\ SumFunctionOnSet(f, s \ {x}) \in Nat
    BY <1>2
  <2>4. SumFunctionOnSet(f, s) \in Nat
    BY <2>2, <2>3
  <2>5. QED
    BY <2>4
<1>3. S \in G
  <2>1. G \in SUBSET (SUBSET S)
    OBVIOUS
  <2> HIDE DEF G
  <2>2. QED
    BY <1>1, <1>2, <2>1, SubsetInduction
<1>4. QED
  BY <1>3

\* A part of a sum of natural numbers is no more than the whole.
LEMMA SumOfPart ==
  ASSUME NEW S, IsFiniteSet(S), NEW T \in SUBSET S, NEW f, \A x \in S : f[x] \in Nat
  PROVE  SumFunctionOnSet(f, T) <= SumFunctionOnSet(f, S)
<1>1. IsFiniteSet(T) /\ IsFiniteSet(S \ T)
  BY FS_Subset
<1>2. SumFunctionOnSet(f, S \ T) = SumFunctionOnSet(f, S) - SumFunctionOnSet(f, T)
  BY SumWithout
<1>3. /\ SumFunctionOnSet(f, S \ T) \in Nat
      /\ SumFunctionOnSet(f, S) \in Nat /\ SumFunctionOnSet(f, T) \in Nat
  BY <1>1, SumNat
<1>4. QED
  BY <1>2, <1>3

-----------------------------------------------------------------------------
(* Shares of a pot, rounded down.                                           *)

\* What rounding down does.
LEMMA Floor ==
  ASSUME NEW a \in Nat, NEW d \in Nat \ {0}
  PROVE  /\ a \div d \in Nat
         /\ (a \div d) * d <= a
         /\ a < ((a \div d) + 1) * d
OBVIOUS

\* The floor is the largest number that fits.
LEMMA FloorIsLargest ==
  ASSUME NEW a \in Nat, NEW d \in Nat \ {0}, NEW q \in Nat
  PROVE  q <= a \div d <=> q * d <= a
<1>1. /\ a \div d \in Nat
      /\ (a \div d) * d <= a
      /\ a < ((a \div d) + 1) * d
  BY Floor
<1> DEFINE f == a \div d
<1> HIDE DEF f
<1>2. f \in Nat /\ f * d <= a /\ a < (f + 1) * d
  BY <1>1 DEF f
<1>3. ASSUME q <= f PROVE q * d <= a
  <2>1. q * d <= f * d
    BY <1>2, <1>3
  <2>2. q * d \in Nat /\ f * d \in Nat
    BY <1>2
  <2> QED BY <1>2, <2>1, <2>2
<1>4. ASSUME q * d <= a PROVE q <= f
  <2> SUFFICES ASSUME q >= f + 1 PROVE FALSE
    BY <1>2
  <2>1. (f + 1) * d <= q * d
    BY <1>2
  <2>2. (f + 1) * d \in Nat /\ q * d \in Nat
    BY <1>2
  <2> QED BY <1>2, <1>4, <2>1, <2>2
<1> QED BY <1>3, <1>4 DEF f

\* The shares g of a pot p, in parts of d: each is a floor of p * w[x] / d.
Floors(g, w, p, d, S) == \A x \in S : g[x] = (p * w[x]) \div d

\* Each floor loses less than one, so n of them lose less than n.
LEMMA SumOfFloors ==
  ASSUME NEW S, IsFiniteSet(S), NEW w, \A x \in S : w[x] \in Nat, NEW p \in Nat,
         NEW d \in Nat \ {0}, NEW g, Floors(g, w, p, d, S)
  PROVE  /\ SumFunctionOnSet(g, S) \in Nat
         /\ SumFunctionOnSet(g, S) * d <= p * SumFunctionOnSet(w, S)
         /\ p * SumFunctionOnSet(w, S) + Cardinality(S)
              <= (SumFunctionOnSet(g, S) + Cardinality(S)) * d
<1> DEFINE Close(s) ==
             /\ SumFunctionOnSet(g, s) * d <= p * SumFunctionOnSet(w, s)
             /\ p * SumFunctionOnSet(w, s) + Cardinality(s)
                  <= (SumFunctionOnSet(g, s) + Cardinality(s)) * d
           G == {s \in SUBSET S : Close(s)}
<1>0. ASSUME NEW x \in S
      PROVE  /\ w[x] \in Nat /\ g[x] \in Nat /\ g[x] * d <= p * w[x]
             /\ p * w[x] + 1 <= (g[x] + 1) * d
  <2>1. w[x] \in Nat /\ p * w[x] \in Nat /\ g[x] = (p * w[x]) \div d
    BY DEF Floors
  <2>2. g[x] \in Nat /\ g[x] * d <= p * w[x] /\ p * w[x] < (g[x] + 1) * d
    BY <2>1, Floor
  <2>3. (g[x] + 1) * d \in Nat
    BY <2>2
  <2>4. p * w[x] + 1 <= (g[x] + 1) * d
    BY <2>1, <2>2, <2>3
  <2> QED BY <2>1, <2>2, <2>4
<1>1. {} \in G
  BY SumEmpty, FS_EmptySet
<1>2. ASSUME NEW s \in SUBSET S, NEW x \in s, s \ {x} \in G
      PROVE  s \in G
  <2>1. IsFiniteSet(s) /\ IsFiniteSet(s \ {x}) /\ x \in S
    BY FS_Subset
  <2>2. \A y \in s : w[y] \in Nat /\ w[y] \in Int /\ g[y] \in Nat /\ g[y] \in Int
    BY <1>0
  <2>3. Cardinality(s) \in Nat /\ Cardinality(s \ {x}) = Cardinality(s) - 1
    BY SmallerSubset
  <2> DEFINE gs == SumFunctionOnSet(g, s \ {x})
             ws == SumFunctionOnSet(w, s \ {x})
             n  == Cardinality(s \ {x})
  <2>4. SumFunctionOnSet(g, s) = g[x] + gs /\ SumFunctionOnSet(w, s) = w[x] + ws
    BY <2>1, <2>2, SumRemove
  <2>5. gs \in Nat /\ ws \in Nat
    BY <2>1, <2>2, SumNat
  <2>6. n \in Nat /\ Cardinality(s) = n + 1
    BY <2>1, <2>3, FS_CardinalityType
  <2>7. gs * d <= p * ws /\ p * ws + n <= (gs + n) * d
    BY <1>2
  <2> HIDE DEF gs, ws, n
  <2>8. (g[x] + gs) * d <= p * (w[x] + ws)
    BY <1>0, <2>1, <2>5, <2>7
  <2>9. p * (w[x] + ws) + (n + 1) <= (g[x] + gs + (n + 1)) * d
    BY <1>0, <2>1, <2>5, <2>6, <2>7
  <2>10. Close(s)
    BY <2>4, <2>6, <2>8, <2>9
  <2> QED BY <2>10
<1>3. S \in G
  <2>1. G \in SUBSET (SUBSET S)
    OBVIOUS
  <2> HIDE DEF G
  <2>2. QED
    BY <1>1, <1>2, <2>1, SubsetInduction
<1>4. SumFunctionOnSet(g, S) \in Nat
  BY <1>0, SumNat
<1> QED BY <1>3, <1>4

\* Splitting a pot by weight and rounding down pays no more than the pot, and
\* leaves less than one unit per share.
LEMMA SplitLeavesLittle ==
  ASSUME NEW S, IsFiniteSet(S), S # {}, NEW w, \A x \in S : w[x] \in Nat, NEW p \in Nat,
         SumFunctionOnSet(w, S) # 0, NEW g, Floors(g, w, p, SumFunctionOnSet(w, S), S)
  PROVE  p - SumFunctionOnSet(g, S) \in 0..(Cardinality(S) - 1)
<1> DEFINE d == SumFunctionOnSet(w, S)
           a == SumFunctionOnSet(g, S)
           n == Cardinality(S)
<1>1. d \in Nat \ {0}
  BY SumNat
<1>2. n \in Nat \ {0}
  BY FS_CardinalityType, FS_EmptySet
<1>3. Floors(g, w, p, d, S)
  OBVIOUS
<1>4. a \in Nat /\ a * d <= p * d /\ p * d + n <= (a + n) * d
  <2> HIDE DEF d
  <2>1. SumFunctionOnSet(g, S) \in Nat
    BY <1>1, <1>3, SumOfFloors
  <2>2. SumFunctionOnSet(g, S) * d <= p * SumFunctionOnSet(w, S)
    BY <1>1, <1>3, SumOfFloors
  <2>3. p * SumFunctionOnSet(w, S) + Cardinality(S)
              <= (SumFunctionOnSet(g, S) + Cardinality(S)) * d
    BY <1>1, <1>3, SumOfFloors
  <2> QED BY <2>1, <2>2, <2>3 DEF d
<1> HIDE DEF d, a, n
<1>5. a <= p
  BY <1>1, <1>4
<1>6. p < a + n
  <2>1. p * d < (a + n) * d
    <3>1. p * d \in Nat /\ (a + n) * d \in Nat
      BY <1>1, <1>2, <1>4
    <3> QED BY <1>2, <1>4, <3>1
  <2> QED BY <1>1, <1>2, <1>4, <2>1
<1>7. p - a \in 0..(n - 1)
  BY <1>2, <1>4, <1>5, <1>6
<1> QED BY <1>7 DEF a, n
=============================================================================
