-------------------------------- MODULE Sums --------------------------------
(***************************************************************************)
(* Facts about the sums of the community module Functions, for proofs that *)
(* count: a sum does not depend on the order in which it is taken, grows   *)
(* with its terms, and changes by what one term changes.                   *)
(*                                                                         *)
(* A fold is a recursive function over the subsets of a finite set.  That  *)
(* there is one, and only one, is proved by the size and by the inclusion  *)
(* of the subsets, both well founded.                                      *)
(***************************************************************************)
EXTENDS Naturals, FiniteSets, Functions, FiniteSetTheorems, WellFoundedInduction, TLAPS

\* What a fold takes out of a set next.
First(s) == CHOOSE x \in s : TRUE

\* g takes the sum of f over the subsets of S.
Sums(f, S, g) ==
  g = [s \in SUBSET S |-> IF s = {} THEN 0 ELSE f[First(s)] + g[s \ {First(s)}]]

\* Every non-empty set of numbers has a least.
LEMMA LeastNumber ==
  ASSUME NEW T \in SUBSET Nat, T # {}
  PROVE  \E x \in T : \A y \in T : x <= y
<1>1. PICK x \in T : \A y \in T : ~(<<y, x>> \in OpToRel(<, Nat))
  BY NatLessThanWellFounded, WFMin
<1>2. \A y \in T : ~(y < x)
  BY <1>1 DEF OpToRel
<1> QED
  BY <1>2

\* Every non-empty set of finite sets has a minimal one.
LEMMA MinimalSet ==
  ASSUME NEW S, IsFiniteSet(S), NEW T \in SUBSET (SUBSET S), T # {}
  PROVE  \E x \in T : \A y \in T : y \subseteq x => y = x
<1>1. IsWellFoundedOn(StrictSubsetOrdering(S), FiniteSubsetsOf(S))
  BY FS_StrictSubsetOrderingWellFounded
<1>2. T \subseteq FiniteSubsetsOf(S)
  BY FS_FiniteSubsetsOfFinite
<1>3. PICK x \in T : \A y \in T : ~(<<y, x>> \in StrictSubsetOrdering(S))
  BY <1>1, <1>2, WFMin
<1>4. \A y \in T : y \subseteq x => y = x
  BY <1>3 DEF StrictSubsetOrdering
<1> QED
  BY <1>4

\* A number that has a property, and no less has it, or all have it.
LEMMA AllNumbers ==
  ASSUME NEW T \in SUBSET Nat, 0 \in T, \A n \in T : n + 1 \in T
  PROVE  T = Nat
<1> SUFFICES ASSUME Nat \ T # {} PROVE FALSE
  OBVIOUS
<1>1. PICK x \in Nat \ T : \A y \in Nat \ T : x <= y
  BY LeastNumber
<1>2. x # 0 /\ x - 1 \in Nat
  BY <1>1
<1>3. x - 1 \in T
  BY <1>1, <1>2
<1>4. (x - 1) + 1 \in T
  BY <1>3
<1> QED
  BY <1>1, <1>4

\* Sums of up to n terms can be taken, whatever n: one more term is added to
\* the sum of the others.
LEMMA SumsExist ==
  ASSUME NEW S, IsFiniteSet(S), NEW f, \A x \in S : f[x] \in Nat
  PROVE  \E g \in [SUBSET S -> Nat] : Sums(f, S, g)
<1> DEFINE upto(n) == {s \in SUBSET S : Cardinality(s) <= n}
           has(n, g) == \A s \in upto(n) :
                          g[s] = IF s = {} THEN 0 ELSE f[First(s)] + g[s \ {First(s)}]
           some(n) == \E g \in [upto(n) -> Nat] : has(n, g)
           T == {n \in Nat : some(n)}
<1>1. ASSUME NEW s \in SUBSET S
      PROVE  /\ IsFiniteSet(s) /\ Cardinality(s) \in Nat
             /\ Cardinality(s) = 0 <=> s = {}
             /\ s # {} => /\ First(s) \in s
                          /\ s \ {First(s)} \in SUBSET S
                          /\ Cardinality(s \ {First(s)}) = Cardinality(s) - 1
  <2>1. IsFiniteSet(s)
    BY FS_Subset
  <2>2. Cardinality(s) \in Nat /\ (Cardinality(s) = 0 <=> s = {})
    BY <2>1, FS_CardinalityType, FS_EmptySet
  <2>3. s # {} => First(s) \in s
    BY DEF First
  <2>4. s # {} => Cardinality(s \ {First(s)}) = Cardinality(s) - 1
    BY <2>1, <2>3, FS_RemoveElement
  <2> QED
    BY <2>1, <2>2, <2>3, <2>4
<1>2. some(0)
  <2> DEFINE g == [s \in upto(0) |-> 0]
  <2>1. ASSUME NEW s \in upto(0) PROVE s = {}
    <3>1. s \in SUBSET S /\ Cardinality(s) <= 0
      OBVIOUS
    <3> HIDE DEF upto
    <3>2. Cardinality(s) \in Nat
      BY <1>1, <3>1
    <3>3. Cardinality(s) = 0
      BY <3>1, <3>2
    <3> QED
      BY <1>1, <3>1, <3>3
  <2>2. g \in [upto(0) -> Nat] /\ has(0, g)
    BY <2>1
  <2> QED
    BY <2>2
<1>3. ASSUME NEW n \in Nat, some(n) PROVE some(n + 1)
  <2>1. PICK g \in [upto(n) -> Nat] : has(n, g)
    BY <1>3
  <2> DEFINE h == [s \in upto(n + 1) |-> IF s = {} THEN 0 ELSE f[First(s)] + g[s \ {First(s)}]]
  <2>2. ASSUME NEW s \in upto(n + 1), s # {}
        PROVE  /\ First(s) \in S /\ s \ {First(s)} \in upto(n)
               /\ s \ {First(s)} \in upto(n + 1)
    BY <1>1, <2>2
  <2>3. h \in [upto(n + 1) -> Nat]
    <3>1. \A s \in upto(n + 1) : s # {} => f[First(s)] + g[s \ {First(s)}] \in Nat
      BY <2>1, <2>2
    <3> QED
      BY <3>1
  <2>4. \A s \in upto(n) : s \in upto(n + 1) /\ h[s] = g[s]
    BY <1>1, <2>1
  <2>5. has(n + 1, h)
    BY <2>2, <2>4
  <2> QED
    BY <2>3, <2>5
<1>4. T = Nat
  <2> HIDE DEF some
  <2>1. T \in SUBSET Nat /\ 0 \in T /\ \A n \in T : n + 1 \in T
    BY <1>2, <1>3
  <2> QED
    BY <2>1, AllNumbers
<1>5. Cardinality(S) \in Nat /\ upto(Cardinality(S)) = SUBSET S
  BY FS_CardinalityType, FS_Subset
<1>6. some(Cardinality(S))
  <2> HIDE DEF some
  <2> QED
    BY <1>4, <1>5
<1>7. PICK g \in [upto(Cardinality(S)) -> Nat] : has(Cardinality(S), g)
  BY <1>6
<1>8. g \in [SUBSET S -> Nat] /\ Sums(f, S, g)
  BY <1>5, <1>7 DEF Sums
<1> QED
  BY <1>8

\* They are the same sums, over more sets or fewer.
LEMMA SumsAgree ==
  ASSUME NEW S, IsFiniteSet(S), NEW T \in SUBSET S, NEW f, NEW g, NEW h,
         Sums(f, S, g), Sums(f, T, h)
  PROVE  \A s \in SUBSET T : g[s] = h[s]
<1> DEFINE other == {s \in SUBSET T : g[s] # h[s]}
<1> SUFFICES ASSUME other # {} PROVE FALSE
  OBVIOUS
<1>1. IsFiniteSet(T)
  BY FS_Subset
<1>2. PICK s \in other : \A u \in other : u \subseteq s => u = s
  <2>1. other \in SUBSET (SUBSET T)
    OBVIOUS
  <2> HIDE DEF other
  <2> QED
    BY <1>1, <2>1, MinimalSet
<1>3. s \in SUBSET T /\ s \in SUBSET S /\ g[s] # h[s]
  BY <1>2
<1>4. /\ g[s] = IF s = {} THEN 0 ELSE f[First(s)] + g[s \ {First(s)}]
      /\ h[s] = IF s = {} THEN 0 ELSE f[First(s)] + h[s \ {First(s)}]
  BY <1>3 DEF Sums
<1>5. s # {}
  BY <1>3, <1>4
<1>6. First(s) \in s
  BY <1>5 DEF First
<1>7. s \ {First(s)} \in SUBSET T /\ s \ {First(s)} \notin other
  BY <1>2, <1>3, <1>6
<1>8. g[s \ {First(s)}] = h[s \ {First(s)}]
  BY <1>7
<1> QED
  BY <1>3, <1>4, <1>8

\* The sum of the library is one of them.
IsSum(f, S, g) == Sums(f, S, g) /\ \A s \in SUBSET S : SumFunctionOnSet(f, s) = g[s]

LEMMA SumIs ==
  ASSUME NEW S, IsFiniteSet(S), NEW f, \A x \in S : f[x] \in Nat
  PROVE  \E g \in [SUBSET S -> Nat] : IsSum(f, S, g)
<1>1. PICK g \in [SUBSET S -> Nat] : Sums(f, S, g)
  BY SumsExist
<1>2. ASSUME NEW s \in SUBSET S
      PROVE  SumFunctionOnSet(f, s) = g[s]
  <2> DEFINE h == CHOOSE k : Sums(f, s, k)
  <2>1. IsFiniteSet(s) /\ \A x \in s : f[x] \in Nat
    BY FS_Subset
  <2>2. \E k : Sums(f, s, k)
    BY <2>1, SumsExist
  <2>3. Sums(f, s, h)
    BY <2>2
  <2>4. SumFunctionOnSet(f, s) = h[s]
    BY DEF SumFunctionOnSet, FoldFunctionOnSet, MapThenFoldSet, Sums, First
  <2> HIDE DEF h
  <2>5. g[s] = h[s]
    BY <1>1, <2>3, SumsAgree
  <2> QED
    BY <2>4, <2>5
<1> QED
  BY <1>1, <1>2 DEF IsSum

\* A sum is a number; of nothing it is 0, and else one term and the others.
LEMMA SumSteps ==
  ASSUME NEW S, IsFiniteSet(S), NEW f, \A x \in S : f[x] \in Nat
  PROVE  /\ SumFunctionOnSet(f, S) \in Nat
         /\ SumFunctionOnSet(f, {}) = 0
         /\ S # {} => /\ First(S) \in S
                      /\ SumFunctionOnSet(f, S) = f[First(S)] + SumFunctionOnSet(f, S \ {First(S)})
<1>1. PICK g \in [SUBSET S -> Nat] : IsSum(f, S, g)
  BY SumIs
<1>2. g[{}] = 0
  BY <1>1 DEF IsSum, Sums
<1>3. S # {} => First(S) \in S
  BY DEF First
<1>4. S # {} => g[S] = f[First(S)] + g[S \ {First(S)}]
  BY <1>1 DEF IsSum, Sums
<1> QED
  BY <1>1, <1>2, <1>3, <1>4 DEF IsSum

\* Any term can be taken out of a sum.
LEMMA SumTakes ==
  ASSUME NEW S, IsFiniteSet(S), NEW f, \A x \in S : f[x] \in Nat, NEW x \in S
  PROVE  SumFunctionOnSet(f, S) = f[x] + SumFunctionOnSet(f, S \ {x})
<1> DEFINE total(s) == SumFunctionOnSet(f, s)
           odd(s) == \E y \in s : total(s) # f[y] + total(s \ {y})
           T == {s \in SUBSET S : odd(s)}
<1> SUFFICES ASSUME T # {} PROVE FALSE
  OBVIOUS
<1>1. PICK s \in T : \A u \in T : u \subseteq s => u = s
  <2>1. T \in SUBSET (SUBSET S)
    OBVIOUS
  <2> HIDE DEF T
  <2> QED
    BY <2>1, MinimalSet
<1>2. PICK y \in s : total(s) # f[y] + total(s \ {y})
  BY <1>1
<1>3. \A u \in SUBSET S : /\ IsFiniteSet(u) /\ total(u) \in Nat
                          /\ u # {} => First(u) \in u /\ total(u) = f[First(u)] + total(u \ {First(u)})
  <2>1. \A u \in SUBSET S : IsFiniteSet(u) /\ \A z \in u : f[z] \in Nat
    BY FS_Subset
  <2> QED
    BY <2>1, SumSteps
<1>4. \A u \in SUBSET S : u \subseteq s /\ u # s => \A z \in u : total(u) = f[z] + total(u \ {z})
  BY <1>1
<1> HIDE DEF total
<1> DEFINE c == First(s)
<1>5. s \in SUBSET S /\ c \in s /\ total(s) = f[c] + total(s \ {c})
  BY <1>1, <1>3
<1>6. c # y
  BY <1>2, <1>5
<1>7. total(s \ {c}) = f[y] + total((s \ {c}) \ {y})
  BY <1>4, <1>5, <1>6
<1>8. total(s \ {y}) = f[c] + total((s \ {y}) \ {c})
  BY <1>2, <1>4, <1>5, <1>6
<1>9. (s \ {c}) \ {y} = (s \ {y}) \ {c} /\ (s \ {c}) \ {y} \in SUBSET S
  BY <1>5
<1>10. f[c] \in Nat /\ f[y] \in Nat /\ total((s \ {c}) \ {y}) \in Nat
  BY <1>3, <1>5, <1>9
<1>11. total(s \ {c}) = f[y] + total((s \ {c}) \ {y}) /\ total(s \ {y}) = f[c] + total((s \ {c}) \ {y})
  BY <1>7, <1>8, <1>9
<1>12. f[c] + (f[y] + total((s \ {c}) \ {y})) = f[y] + (f[c] + total((s \ {c}) \ {y}))
  BY <1>10
<1> QED
  BY <1>2, <1>5, <1>11, <1>12

\* Larger terms have a larger sum.
LEMMA SumBelow ==
  ASSUME NEW S, IsFiniteSet(S), NEW f, NEW g,
         \A x \in S : f[x] \in Nat /\ g[x] \in Nat /\ f[x] <= g[x]
  PROVE  SumFunctionOnSet(f, S) <= SumFunctionOnSet(g, S)
<1> DEFINE F(s) == SumFunctionOnSet(f, s)
           G(s) == SumFunctionOnSet(g, s)
           T == {s \in SUBSET S : ~(F(s) <= G(s))}
<1> SUFFICES ASSUME T # {} PROVE FALSE
  OBVIOUS
<1>1. PICK s \in T : \A u \in T : u \subseteq s => u = s
  <2>1. T \in SUBSET (SUBSET S)
    OBVIOUS
  <2> HIDE DEF T
  <2> QED
    BY <2>1, MinimalSet
<1>2. s \in SUBSET S /\ ~(F(s) <= G(s))
  BY <1>1
<1>3. \A u \in SUBSET S : IsFiniteSet(u) /\ \A x \in u : f[x] \in Nat /\ g[x] \in Nat
  BY FS_Subset
<1>4. \A u \in SUBSET S :
        /\ F(u) \in Nat /\ F({}) = 0
        /\ u # {} => First(u) \in u /\ F(u) = f[First(u)] + F(u \ {First(u)})
  BY <1>3, SumSteps
<1>5. \A u \in SUBSET S :
        /\ G(u) \in Nat /\ G({}) = 0
        /\ u # {} => First(u) \in u /\ G(u) = g[First(u)] + G(u \ {First(u)})
  BY <1>3, SumSteps
<1>6. \A u \in SUBSET S : u \subseteq s /\ u # s => F(u) <= G(u)
  BY <1>1
<1> HIDE DEF F, G
<1>7. s # {}
  <2>1. F({}) = 0 /\ G({}) = 0
    BY <1>2, <1>4, <1>5
  <2> QED
    BY <1>2, <2>1
<1> DEFINE c == First(s)
<1>8. /\ c \in s /\ s \ {c} \in SUBSET S /\ s \ {c} # s
      /\ F(s) = f[c] + F(s \ {c}) /\ G(s) = g[c] + G(s \ {c})
  BY <1>2, <1>4, <1>5, <1>7
<1>9. /\ f[c] \in Nat /\ g[c] \in Nat /\ f[c] <= g[c]
      /\ F(s \ {c}) \in Nat /\ G(s \ {c}) \in Nat /\ F(s \ {c}) <= G(s \ {c})
  BY <1>2, <1>4, <1>5, <1>6, <1>8
<1> QED
  BY <1>2, <1>8, <1>9

\* The same terms have the same sum.
LEMMA SumSame ==
  ASSUME NEW S, IsFiniteSet(S), NEW f, NEW g, \A x \in S : f[x] \in Nat /\ f[x] = g[x]
  PROVE  SumFunctionOnSet(f, S) = SumFunctionOnSet(g, S)
<1>1. \A x \in S : f[x] \in Nat /\ g[x] \in Nat /\ f[x] <= g[x] /\ g[x] <= f[x]
  OBVIOUS
<1>2. SumFunctionOnSet(f, S) <= SumFunctionOnSet(g, S)
  BY <1>1, SumBelow
<1>3. SumFunctionOnSet(g, S) <= SumFunctionOnSet(f, S)
  BY <1>1, SumBelow
<1>4. SumFunctionOnSet(f, S) \in Nat /\ SumFunctionOnSet(g, S) \in Nat
  BY <1>1, SumSteps
<1> QED
  BY <1>2, <1>3, <1>4

\* If one term changes, the sum changes by as much.
LEMMA SumChanges ==
  ASSUME NEW S, IsFiniteSet(S), NEW f, NEW g, \A x \in S : f[x] \in Nat /\ g[x] \in Nat,
         NEW x \in S, \A y \in S \ {x} : f[y] = g[y]
  PROVE  SumFunctionOnSet(g, S) + f[x] = SumFunctionOnSet(f, S) + g[x]
<1>1. IsFiniteSet(S \ {x})
  BY FS_Subset
<1>2. SumFunctionOnSet(f, S) = f[x] + SumFunctionOnSet(f, S \ {x})
  BY SumTakes
<1>3. SumFunctionOnSet(g, S) = g[x] + SumFunctionOnSet(g, S \ {x})
  BY SumTakes
<1>4. SumFunctionOnSet(f, S \ {x}) = SumFunctionOnSet(g, S \ {x})
  BY <1>1, SumSame
<1>5. SumFunctionOnSet(f, S \ {x}) \in Nat
  BY <1>1, SumSteps
<1> QED
  BY <1>2, <1>3, <1>4, <1>5

\* If two terms change, it changes by what both do.
LEMMA SumChangesTwice ==
  ASSUME NEW S, IsFiniteSet(S), NEW f, NEW g, \A x \in S : f[x] \in Nat /\ g[x] \in Nat,
         NEW x \in S, NEW y \in S, x # y, \A z \in S \ {x, y} : f[z] = g[z]
  PROVE  SumFunctionOnSet(g, S) + (f[x] + f[y]) = SumFunctionOnSet(f, S) + (g[x] + g[y])
<1> DEFINE h == [z \in S |-> IF z = x THEN g[x] ELSE f[z]]
<1>1. /\ \A z \in S : h[z] \in Nat
      /\ h[x] = g[x] /\ h[y] = f[y]
      /\ \A z \in S \ {x} : f[z] = h[z]
      /\ \A z \in S \ {y} : h[z] = g[z]
  OBVIOUS
<1> HIDE DEF h
<1>2. SumFunctionOnSet(h, S) + f[x] = SumFunctionOnSet(f, S) + h[x]
  BY <1>1, SumChanges
<1>3. SumFunctionOnSet(g, S) + h[y] = SumFunctionOnSet(h, S) + g[y]
  BY <1>1, SumChanges
<1>4. /\ SumFunctionOnSet(f, S) \in Nat /\ SumFunctionOnSet(g, S) \in Nat
      /\ SumFunctionOnSet(h, S) \in Nat
  BY <1>1, SumSteps
<1> QED
  BY <1>1, <1>2, <1>3, <1>4

\* A part of the terms has no larger sum.
LEMMA SumOfPart ==
  ASSUME NEW S, IsFiniteSet(S), NEW f, \A x \in S : f[x] \in Nat, NEW R \in SUBSET S
  PROVE  SumFunctionOnSet(f, R) <= SumFunctionOnSet(f, S)
<1> DEFINE F(s) == SumFunctionOnSet(f, s)
           T == {s \in SUBSET S : R \subseteq s /\ ~(F(R) <= F(s))}
<1> SUFFICES ASSUME T # {} PROVE FALSE
  OBVIOUS
<1>1. PICK s \in T : \A u \in T : u \subseteq s => u = s
  <2>1. T \in SUBSET (SUBSET S)
    OBVIOUS
  <2> HIDE DEF T
  <2> QED
    BY <2>1, MinimalSet
<1>2. \A u \in SUBSET S : IsFiniteSet(u) /\ \A x \in u : f[x] \in Nat
  BY FS_Subset
<1>3. \A u \in SUBSET S : F(u) \in Nat
  BY <1>2, SumSteps
<1>4. s \in SUBSET S /\ R \subseteq s /\ ~(F(R) <= F(s))
  BY <1>1
<1>5. PICK x \in s : x \notin R
  BY <1>3, <1>4
<1>6. F(s) = f[x] + F(s \ {x})
  BY <1>2, <1>4, SumTakes
<1>7. s \ {x} \in SUBSET S /\ R \subseteq s \ {x} /\ s \ {x} # s
  BY <1>4, <1>5
<1>8. F(R) <= F(s \ {x})
  BY <1>1, <1>7
<1> HIDE DEF F
<1>9. F(R) \in Nat /\ F(s \ {x}) \in Nat /\ f[x] \in Nat
  BY <1>3, <1>4, <1>7
<1> QED
  BY <1>4, <1>6, <1>8, <1>9

\* Terms that are 0 can be left out.
LEMMA SumOfSupport ==
  ASSUME NEW S, IsFiniteSet(S), NEW f, \A x \in S : f[x] \in Nat,
         NEW R \in SUBSET S, \A x \in S \ R : f[x] = 0
  PROVE  SumFunctionOnSet(f, R) = SumFunctionOnSet(f, S)
<1> DEFINE F(s) == SumFunctionOnSet(f, s)
           T == {s \in SUBSET S : R \subseteq s /\ F(R) # F(s)}
<1> SUFFICES ASSUME T # {} PROVE FALSE
  OBVIOUS
<1>1. PICK s \in T : \A u \in T : u \subseteq s => u = s
  <2>1. T \in SUBSET (SUBSET S)
    OBVIOUS
  <2> HIDE DEF T
  <2> QED
    BY <2>1, MinimalSet
<1>2. \A u \in SUBSET S : IsFiniteSet(u) /\ \A x \in u : f[x] \in Nat
  BY FS_Subset
<1>3. s \in SUBSET S /\ R \subseteq s /\ F(R) # F(s)
  BY <1>1
<1>4. PICK x \in s : x \notin R
  BY <1>3
<1>5. F(s) = f[x] + F(s \ {x}) /\ f[x] = 0
  BY <1>2, <1>3, <1>4, SumTakes
<1>6. s \ {x} \in SUBSET S /\ R \subseteq s \ {x} /\ s \ {x} # s
  BY <1>3, <1>4
<1>7. F(R) = F(s \ {x})
  BY <1>1, <1>6
<1>8. F(s \ {x}) \in Nat
  BY <1>2, <1>6, SumSteps
<1> HIDE DEF F
<1> QED
  BY <1>3, <1>5, <1>7, <1>8

\* If all terms are 0, so is their sum.
LEMMA SumOfZeroes ==
  ASSUME NEW S, IsFiniteSet(S), NEW f, \A x \in S : f[x] = 0
  PROVE  SumFunctionOnSet(f, S) = 0
<1>1. \A x \in S : f[x] \in Nat
  OBVIOUS
<1>2. {} \in SUBSET S /\ \A x \in S \ {} : f[x] = 0
  OBVIOUS
<1>3. SumFunctionOnSet(f, {}) = SumFunctionOnSet(f, S)
  BY <1>1, <1>2, SumOfSupport
<1> QED
  BY <1>1, <1>3, SumSteps
=============================================================================
