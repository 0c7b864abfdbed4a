------------------------------ MODULE SumTheorems ------------------------------
(***************************************************************************)
(* What the proofs about counters need to know of sums over finite sets    *)
(* (SumFunctionOnSet, which the storage counters are compared with).  The  *)
(* fold of the library is a recursive function on the subsets of the set;  *)
(* that it exists, and each fact about it, is shown by a smallest          *)
(* counterexample, since a set of finite sets has a smallest member.       *)
(***************************************************************************)
EXTENDS Functions, FiniteSetTheorems, TLAPS

\* A nonempty set of finite sets has a member with no more elements than any other.
LEMMA SmallestSet ==
  ASSUME NEW C, C # {}, \A S \in C : IsFiniteSet(S)
  PROVE  \E S \in C : \A T \in C : ~(Cardinality(T) < Cardinality(S))
<1> DEFINE N == {Cardinality(S) : S \in C}
<1>1. N \subseteq Nat /\ N # {}
  BY FS_CardinalityType
<1>2. PICK n \in N : \A m \in N : <<m, n>> \notin OpToRel(<, Nat)
  BY <1>1, NatLessThanWellFounded, WFMin
<1>3. \A m \in N : ~(m < n)
  BY <1>1, <1>2 DEF OpToRel
<1> QED
  BY <1>3

\* Without one of its elements a finite set is smaller.
LEMMA Smaller ==
  ASSUME NEW S, IsFiniteSet(S), NEW x \in S
  PROVE  /\ IsFiniteSet(S \ {x}) /\ Cardinality(S) \in Nat
         /\ Cardinality(S \ {x}) = Cardinality(S) - 1
         /\ Cardinality(S \ {x}) \in Nat /\ Cardinality(S \ {x}) < Cardinality(S)
<1>1. Cardinality(S) \in Nat
  BY FS_CardinalityType
<1>2. IsFiniteSet(S \ {x}) /\ Cardinality(S \ {x}) = Cardinality(S) - 1
  BY FS_RemoveElement
<1>3. Cardinality(S \ {x}) \in Nat
  BY <1>2, FS_CardinalityType
<1> QED
  BY <1>1, <1>2, <1>3

-----------------------------------------------------------------------------
(* The function the fold computes with. *)

Pick(S) == CHOOSE x \in S : TRUE

\* g adds up f on every set of D, which holds with a set the set without its pick.
Adds(g, f, D) == g = [S \in D |-> IF S = {} THEN 0 ELSE f[Pick(S)] + g[S \ {Pick(S)}]]
AddsAll(g, f, S) == Adds(g, f, SUBSET S)

Upto(S, n) == {T \in SUBSET S : Cardinality(T) <= n}

LEMMA Picked ==
  ASSUME NEW S, S # {}
  PROVE  Pick(S) \in S
  BY DEF Pick

LEMMA UptoExists ==
  ASSUME NEW f, NEW S, IsFiniteSet(S)
  PROVE  \A n \in Nat : \E g : Adds(g, f, Upto(S, n))
<1> DEFINE Bad == {n \in Nat : ~ \E g : Adds(g, f, Upto(S, n))}
<1> SUFFICES ASSUME Bad # {} PROVE FALSE
  OBVIOUS
<1>1. PICK n \in Bad : \A m \in Bad : <<m, n>> \notin OpToRel(<, Nat)
  BY NatLessThanWellFounded, WFMin
<1>2. n \in Nat /\ \A m \in Nat : m < n => \E g : Adds(g, f, Upto(S, m))
  BY <1>1 DEF OpToRel
<1>3. \A T \in SUBSET S : IsFiniteSet(T) /\ Cardinality(T) \in Nat
  BY FS_Subset, FS_CardinalityType
<1>4. CASE n = 0
  <2> DEFINE g == [T \in Upto(S, 0) |-> 0]
  <2>1. \A T \in Upto(S, 0) : T = {}
    BY <1>3, FS_EmptySet DEF Upto
  <2>2. Adds(g, f, Upto(S, 0))
    BY <2>1 DEF Adds
  <2> QED
    BY <1>4, <2>2
<1>5. CASE n # 0
  <2>1. n - 1 \in Nat /\ n - 1 < n
    BY <1>2, <1>5
  <2>2. PICK g : Adds(g, f, Upto(S, n - 1))
    BY <1>2, <2>1
  <2> DEFINE h == [T \in Upto(S, n) |-> IF T = {} THEN 0 ELSE f[Pick(T)] + g[T \ {Pick(T)}]]
  <2>3. \A T \in Upto(S, n - 1) : T \in Upto(S, n) /\ h[T] = g[T]
    <3> SUFFICES ASSUME NEW T \in Upto(S, n - 1)
                 PROVE  T \in Upto(S, n) /\ h[T] = g[T]
      OBVIOUS
    <3>1. T \in Upto(S, n)
      BY <1>2, <1>3, <2>1 DEF Upto
    <3>2. g[T] = IF T = {} THEN 0 ELSE f[Pick(T)] + g[T \ {Pick(T)}]
      BY <2>2 DEF Adds
    <3> QED
      BY <3>1, <3>2
  <2>4. ASSUME NEW T \in Upto(S, n), T # {}
        PROVE  T \ {Pick(T)} \in Upto(S, n - 1)
    <3>1. T \in SUBSET S /\ Cardinality(T) <= n /\ Pick(T) \in T /\ IsFiniteSet(T)
      BY <1>3, <2>4, Picked DEF Upto
    <3>2. Cardinality(T) \in Nat /\ Cardinality(T \ {Pick(T)}) = Cardinality(T) - 1
      BY <3>1, Smaller
    <3>3. Cardinality(T \ {Pick(T)}) <= n - 1
      BY <1>2, <3>1, <3>2
    <3> QED
      BY <3>1, <3>3 DEF Upto
  <2>5. \A T \in Upto(S, n) :
          (IF T = {} THEN 0 ELSE f[Pick(T)] + g[T \ {Pick(T)}])
            = (IF T = {} THEN 0 ELSE f[Pick(T)] + h[T \ {Pick(T)}])
    BY <2>3, <2>4
  <2>6. Adds(h, f, Upto(S, n))
    BY <2>5 DEF Adds
  <2> QED
    BY <2>6
<1> QED
  BY <1>4, <1>5

LEMMA SubsetsExist ==
  ASSUME NEW f, NEW S, IsFiniteSet(S)
  PROVE  \E g : AddsAll(g, f, S)
<1>1. Cardinality(S) \in Nat
  BY FS_CardinalityType
<1>2. Upto(S, Cardinality(S)) = SUBSET S
  BY FS_Subset DEF Upto
<1>3. \E g : Adds(g, f, Upto(S, Cardinality(S)))
  BY <1>1, UptoExists
<1> QED
  BY <1>2, <1>3 DEF AddsAll

\* Two such functions agree where both are defined.
LEMMA AddsAgree ==
  ASSUME NEW f, NEW S, IsFiniteSet(S), NEW T \in SUBSET S, NEW g, NEW h,
         AddsAll(g, f, S), AddsAll(h, f, T)
  PROVE  g[T] = h[T]
<1> DEFINE C == {R \in SUBSET T : g[R] # h[R]}
<1> SUFFICES ASSUME C # {} PROVE FALSE
  OBVIOUS
<1>1. \A R \in C : IsFiniteSet(R)
  BY FS_Subset
<1>2. PICK R \in C : \A Q \in C : ~(Cardinality(Q) < Cardinality(R))
  BY <1>1, SmallestSet
<1>3. /\ g[R] = IF R = {} THEN 0 ELSE f[Pick(R)] + g[R \ {Pick(R)}]
      /\ h[R] = IF R = {} THEN 0 ELSE f[Pick(R)] + h[R \ {Pick(R)}]
  BY DEF AddsAll, Adds
<1>4. R # {} /\ Pick(R) \in R
  BY <1>3, Picked
<1>5. R \ {Pick(R)} \in SUBSET T /\ R \ {Pick(R)} \notin C
  BY <1>1, <1>2, <1>4, Smaller
<1> QED
  BY <1>3, <1>4, <1>5

-----------------------------------------------------------------------------
(* The sum. *)

LEMMA SumAdds ==
  ASSUME NEW f, NEW S, IsFiniteSet(S)
  PROVE  \E g : AddsAll(g, f, S) /\ SumFunctionOnSet(f, S) = g[S]
<1> DEFINE G == CHOOSE g : AddsAll(g, f, S)
<1>1. AddsAll(G, f, S)
  BY SubsetsExist
<1>2. SumFunctionOnSet(f, S) = G[S]
  BY DEF SumFunctionOnSet, FoldFunctionOnSet, MapThenFoldSet, AddsAll, Adds, Pick
<1> QED
  BY <1>1, <1>2

LEMMA SumEmpty ==
  ASSUME NEW f
  PROVE  SumFunctionOnSet(f, {}) = 0
<1>1. PICK g : AddsAll(g, f, {}) /\ SumFunctionOnSet(f, {}) = g[{}]
  BY SumAdds, FS_EmptySet
<1>2. g[{}] = 0
  BY <1>1 DEF AddsAll, Adds
<1> QED
  BY <1>1, <1>2

\* One element is taken out at a time.
LEMMA SumPick ==
  ASSUME NEW f, NEW S, IsFiniteSet(S), S # {}
  PROVE  /\ Pick(S) \in S
         /\ SumFunctionOnSet(f, S) = f[Pick(S)] + SumFunctionOnSet(f, S \ {Pick(S)})
<1>1. PICK R \in SUBSET S : R = S \ {Pick(S)}
  OBVIOUS
<1>2. Pick(S) \in S /\ IsFiniteSet(R)
  BY <1>1, Picked, Smaller
<1>3. PICK g : AddsAll(g, f, S) /\ SumFunctionOnSet(f, S) = g[S]
  BY SumAdds
<1>4. PICK h : AddsAll(h, f, R) /\ SumFunctionOnSet(f, R) = h[R]
  BY <1>2, SumAdds
<1>5. g[R] = h[R]
  <2>1. AddsAll(g, f, S) /\ AddsAll(h, f, R)
    BY <1>3, <1>4
  <2> QED
    BY <2>1, AddsAgree
<1>6. g[S] = f[Pick(S)] + g[R]
  BY <1>1, <1>3 DEF AddsAll, Adds
<1> QED
  BY <1>1, <1>2, <1>3, <1>4, <1>5, <1>6

\* Numbers add up to a number.
LEMMA SumNat ==
  ASSUME NEW f, NEW S, IsFiniteSet(S), \A x \in S : f[x] \in Nat
  PROVE  SumFunctionOnSet(f, S) \in Nat
<1> DEFINE C == {T \in SUBSET S : SumFunctionOnSet(f, T) \notin Nat}
<1> SUFFICES ASSUME C # {} PROVE FALSE
  OBVIOUS
<1>1. \A T \in C : IsFiniteSet(T)
  BY FS_Subset
<1>2. PICK T \in C : \A R \in C : ~(Cardinality(R) < Cardinality(T))
  BY <1>1, SmallestSet
<1>3. T # {}
  BY SumEmpty
<1>4. /\ Pick(T) \in T
      /\ SumFunctionOnSet(f, T) = f[Pick(T)] + SumFunctionOnSet(f, T \ {Pick(T)})
  BY <1>1, <1>3, SumPick
<1>5. T \ {Pick(T)} \in SUBSET S /\ T \ {Pick(T)} \notin C
  BY <1>1, <1>2, <1>4, Smaller
<1>6. SumFunctionOnSet(f, T \ {Pick(T)}) \in Nat /\ f[Pick(T)] \in Nat
  BY <1>4, <1>5
<1> QED
  BY <1>4, <1>6

\* Any element may be taken out.
LEMMA SumRemove ==
  ASSUME NEW f, NEW S, IsFiniteSet(S), \A x \in S : f[x] \in Nat, NEW a \in S
  PROVE  SumFunctionOnSet(f, S) = f[a] + SumFunctionOnSet(f, S \ {a})
<1> DEFINE Sum(T) == SumFunctionOnSet(f, T)
           C == {T \in SUBSET S : \E x \in T : Sum(T) # f[x] + Sum(T \ {x})}
<1> HIDE DEF Sum
<1> SUFFICES ASSUME C # {} PROVE FALSE
  BY DEF Sum
<1>1. \A T \in SUBSET S : IsFiniteSet(T) /\ Sum(T) \in Nat
  BY FS_Subset, SumNat DEF Sum
<1>2. PICK T \in C : \A R \in C : ~(Cardinality(R) < Cardinality(T))
  BY <1>1, SmallestSet
<1>3. PICK x \in T : Sum(T) # f[x] + Sum(T \ {x})
  OBVIOUS
<1>4. PICK p \in T : Sum(T) = f[p] + Sum(T \ {p})
  BY <1>1, <1>3, SumPick DEF Sum
<1>5. p # x
  BY <1>3, <1>4
<1>6. ASSUME NEW y \in T, NEW z \in T \ {y}
      PROVE  Sum(T \ {y}) = f[z] + Sum((T \ {y}) \ {z})
  <2>1. T \ {y} \in SUBSET S /\ T \ {y} \notin C
    BY <1>1, <1>2, Smaller
  <2> QED
    BY <2>1
<1>7. /\ Sum(T \ {p}) = f[x] + Sum((T \ {p}) \ {x})
      /\ Sum(T \ {x}) = f[p] + Sum((T \ {x}) \ {p})
  BY <1>5, <1>6
<1>8. Sum((T \ {p}) \ {x}) = Sum((T \ {x}) \ {p}) /\ Sum((T \ {x}) \ {p}) \in Nat
  <2>1. (T \ {p}) \ {x} = (T \ {x}) \ {p} /\ (T \ {x}) \ {p} \in SUBSET S
    OBVIOUS
  <2> QED
    BY <1>1, <2>1
<1>9. f[x] \in Nat /\ f[p] \in Nat
  OBVIOUS
<1> QED
  BY <1>3, <1>4, <1>7, <1>8, <1>9

LEMMA SumAdd ==
  ASSUME NEW f, NEW S, NEW a, IsFiniteSet(S), \A x \in S \cup {a} : f[x] \in Nat, a \notin S
  PROVE  SumFunctionOnSet(f, S \cup {a}) = f[a] + SumFunctionOnSet(f, S)
<1>1. IsFiniteSet(S \cup {a}) /\ (S \cup {a}) \ {a} = S
  BY FS_AddElement
<1> QED
  BY <1>1, SumRemove

\* Only the values on the set matter.
LEMMA SumSame ==
  ASSUME NEW f, NEW g, NEW S, IsFiniteSet(S), \A x \in S : f[x] = g[x]
  PROVE  SumFunctionOnSet(f, S) = SumFunctionOnSet(g, S)
<1> DEFINE C == {T \in SUBSET S : SumFunctionOnSet(f, T) # SumFunctionOnSet(g, T)}
<1> SUFFICES ASSUME C # {} PROVE FALSE
  OBVIOUS
<1>1. \A T \in C : IsFiniteSet(T)
  BY FS_Subset
<1>2. PICK T \in C : \A R \in C : ~(Cardinality(R) < Cardinality(T))
  BY <1>1, SmallestSet
<1>3. T # {}
  BY SumEmpty
<1>4. /\ Pick(T) \in T
      /\ SumFunctionOnSet(f, T) = f[Pick(T)] + SumFunctionOnSet(f, T \ {Pick(T)})
      /\ SumFunctionOnSet(g, T) = g[Pick(T)] + SumFunctionOnSet(g, T \ {Pick(T)})
  BY <1>1, <1>3, SumPick
<1>5. T \ {Pick(T)} \in SUBSET S /\ T \ {Pick(T)} \notin C
  BY <1>1, <1>2, <1>4, Smaller
<1>6. /\ SumFunctionOnSet(f, T \ {Pick(T)}) = SumFunctionOnSet(g, T \ {Pick(T)})
      /\ f[Pick(T)] = g[Pick(T)]
  BY <1>4, <1>5
<1>7. SumFunctionOnSet(f, T) # SumFunctionOnSet(g, T)
  OBVIOUS
<1> QED
  BY <1>4, <1>6, <1>7

\* A part and the rest add up to the whole.
LEMMA SumSplit ==
  ASSUME NEW f, NEW S, IsFiniteSet(S), \A x \in S : f[x] \in Nat, NEW R \in SUBSET S
  PROVE  SumFunctionOnSet(f, S) = SumFunctionOnSet(f, R) + SumFunctionOnSet(f, S \ R)
<1> DEFINE Sum(T) == SumFunctionOnSet(f, T)
           C == {T \in SUBSET S : Sum(S) # Sum(T) + Sum(S \ T)}
<1> HIDE DEF Sum
<1> SUFFICES ASSUME C # {} PROVE FALSE
  BY DEF Sum
<1>1. \A T \in SUBSET S : IsFiniteSet(T) /\ Sum(T) \in Nat
  BY FS_Subset, SumNat DEF Sum
<1>2. PICK T \in C : \A Q \in C : ~(Cardinality(Q) < Cardinality(T))
  BY <1>1, SmallestSet
<1>3. T # {}
  <2>1. S \ {} = S /\ Sum(S) \in Nat
    BY <1>1
  <2>2. Sum({}) = 0
    BY SumEmpty DEF Sum
  <2> QED
    BY <2>1, <2>2
<1>4. PICK x \in T : TRUE
  BY <1>3
<1>5. Sum(T) = f[x] + Sum(T \ {x})
  BY <1>1, SumRemove DEF Sum
<1>6. T \ {x} \in SUBSET S /\ T \ {x} \notin C
  BY <1>1, <1>2, Smaller
<1>7. Sum(S) = Sum(T \ {x}) + Sum(S \ (T \ {x}))
  BY <1>6
<1>8. Sum(S \ (T \ {x})) = f[x] + Sum(S \ T)
  <2>1. S \ (T \ {x}) \in SUBSET S /\ x \in S \ (T \ {x})
        /\ (S \ (T \ {x})) \ {x} = S \ T
    OBVIOUS
  <2>2. IsFiniteSet(S \ (T \ {x})) /\ \A y \in S \ (T \ {x}) : f[y] \in Nat
    BY <1>1, <2>1
  <2> QED
    BY <2>1, <2>2, SumRemove DEF Sum
<1>9. f[x] \in Nat /\ Sum(T \ {x}) \in Nat /\ Sum(S \ T) \in Nat
  BY <1>1, <1>6
<1> QED
  BY <1>5, <1>7, <1>8, <1>9
=============================================================================
