---- MODULE SumTheorems ----
(***************************************************************************)
(* What SumFunctionOnSet of the community modules, with which Broker,       *)
(* DemoStrategy and Experiments add up fills and metrics, sums.  It is      *)
(* defined by choosing the elements one after another; the proofs go by     *)
(* induction over the subsets of a finite set, stated as families of sets.  *)
(***************************************************************************)
EXTENDS Integers, FiniteSets, Functions, FiniteSetTheorems, TLAPS

\* The element a sum over s takes first, and the function that sums over the
\* sets of D.
Chosen(s) == CHOOSE x \in s : TRUE
Iterates(h, f, D) == h = [s \in D |-> IF s = {} THEN 0 ELSE f[Chosen(s)] + h[s \ {Chosen(s)}]]

\* A set of naturals that is not empty has a least element.
LEMMA LeastNatural ==
    ASSUME NEW T \in SUBSET Nat, T # {}
    PROVE  \E m \in T : \A n \in T : m <= n
<1> DEFINE R == OpToRel(<, Nat)
<1>1. \A m, n \in Nat : <<m, n>> \in R <=> m < n
  BY DEF OpToRel
<1>2. IsWellFoundedOn(R, Nat)
  BY NatLessThanWellFounded
<1> HIDE DEF R
<1>3. PICK m \in T : \A n \in T : ~(<<n, m>> \in R)
  BY <1>2, WFMin
<1>4. \A n \in T : m <= n
  <2> TAKE n \in T
  <2>1. m \in Nat /\ n \in Nat
    OBVIOUS
  <2>2. ~(n < m)
    BY <2>1, <1>1, <1>3
  <2> QED
    BY <2>1, <2>2
<1> QED
  BY <1>3, <1>4

\* A set of naturals with zero and the successor of each of its members has all.
LEMMA NatInduct ==
    ASSUME NEW A \in SUBSET Nat, 0 \in A, \A n \in A : n + 1 \in A
    PROVE  A = Nat
<1> DEFINE B == Nat \ A
<1>1. ASSUME B # {} PROVE FALSE
  <2>1. PICK n \in B : \A m \in B : ~(<<m, n>> \in OpToRel(<, Nat))
    BY <1>1, NatLessThanWellFounded, WFMin
  <2>2. \A m \in B : ~(m < n)
    BY <2>1 DEF OpToRel
  <2>3. n \in Nat /\ n # 0
    OBVIOUS
  <2>4. n - 1 \in A
    BY <2>2, <2>3
  <2> QED
    BY <2>3, <2>4
<1> QED
  BY <1>1

\* The sum is read off the function the community module chooses.
LEMMA SumIsIterate ==
    ASSUME NEW f, NEW S
    PROVE  SumFunctionOnSet(f, S) = (CHOOSE h : Iterates(h, f, SUBSET S))[S]
BY Zenon DEF SumFunctionOnSet, FoldFunctionOnSet, MapThenFoldSet, Iterates, Chosen

\* A family that has a set whenever it has its proper subsets has all of them.
LEMMA SubsetInduct ==
    ASSUME NEW S, IsFiniteSet(S), NEW A \in SUBSET (SUBSET S),
           \A T \in SUBSET S : (\A U \in SUBSET T : U # T => U \in A) => T \in A
    PROVE  A = SUBSET S
<1> DEFINE B == (SUBSET S) \ A
<1>1. ASSUME B # {} PROVE FALSE
  <2>1. B \subseteq FiniteSubsetsOf(S)
    BY FS_Subset DEF FiniteSubsetsOf
  <2>2. IsWellFoundedOn(StrictSubsetOrdering(S), FiniteSubsetsOf(S))
    BY FS_StrictSubsetOrderingWellFounded
  <2>3. \E T \in B : \A U \in B : ~(<<U, T>> \in StrictSubsetOrdering(S))
    <3> HIDE DEF B
    <3> QED
      BY <1>1, <2>1, <2>2, WFMin
  <2>4. PICK T \in B : \A U \in B : ~(<<U, T>> \in StrictSubsetOrdering(S))
    BY <2>3
  <2>5. \A U \in B : U \subseteq T => U = T
    BY <2>4 DEF StrictSubsetOrdering
  <2> QED
    BY <2>5
<1> QED
  BY <1>1

\* There is such a function: one for the subsets of n elements at a time.
LEMMA IterateExists ==
    ASSUME NEW f, NEW S, IsFiniteSet(S)
    PROVE  \E h : Iterates(h, f, SUBSET S)
<1> DEFINE D(n) == {t \in SUBSET S : Cardinality(t) <= n}
           A == {n \in Nat : \E h : Iterates(h, f, D(n))}
<1>1. \A t \in SUBSET S : /\ IsFiniteSet(t) /\ Cardinality(t) \in Nat
                          /\ Cardinality(t) <= Cardinality(S)
                          /\ Cardinality(t) = 0 <=> t = {}
  BY FS_Subset, FS_CardinalityType, FS_EmptySet
<1>2. \A t \in SUBSET S : t # {} => /\ t \ {Chosen(t)} \in SUBSET S
                                    /\ Cardinality(t \ {Chosen(t)}) = Cardinality(t) - 1
  BY <1>1, FS_RemoveElement DEF Chosen
<1>3. 0 \in A
  <2>1. \A t \in D(0) : t = {}
    BY <1>1
  <2>2. Iterates([s \in D(0) |-> 0], f, D(0))
    BY <2>1 DEF Iterates
  <2> QED
    BY <2>2
<1>4. ASSUME NEW n \in A PROVE n + 1 \in A
  <2>1. PICK h : Iterates(h, f, D(n))
    OBVIOUS
  <2> DEFINE k == [s \in D(n + 1) |->
                      IF s = {} THEN 0 ELSE f[Chosen(s)] + h[s \ {Chosen(s)}]]
  <2>2. \A s \in D(n) : s \in D(n + 1) /\ k[s] = h[s]
    <3> TAKE s \in D(n)
    <3>1. s \in D(n + 1)
      BY <1>1
    <3>2. h[s] = IF s = {} THEN 0 ELSE f[Chosen(s)] + h[s \ {Chosen(s)}]
      BY <2>1, Zenon DEF Iterates
    <3> QED
      BY <3>1, <3>2
  <2>3. \A s \in D(n + 1) : s # {} => s \ {Chosen(s)} \in D(n)
    BY <1>1, <1>2
  <2>4. \A s \in D(n + 1) : s # {} => k[s \ {Chosen(s)}] = h[s \ {Chosen(s)}]
    BY <2>2, <2>3
  <2>5. Iterates(k, f, D(n + 1))
    BY <2>4 DEF Iterates
  <2>6. n + 1 \in Nat
    OBVIOUS
  <2> HIDE DEF D, k
  <2> QED
    BY <2>5, <2>6
<1>5. A = Nat
  <2> HIDE DEF A
  <2>1. A \subseteq Nat
    BY DEF A
  <2> QED
    BY <1>3, <1>4, <2>1, NatInduct
<1>6. Cardinality(S) \in Nat /\ D(Cardinality(S)) = SUBSET S
  BY <1>1, FS_CardinalityType
<1>7. Cardinality(S) \in A
  BY <1>5, <1>6
<1> QED
  BY <1>6, <1>7

\* f and g agree on S.
Alike(f, g, S) == \A x \in S : f[x] = g[x]

\* Two such functions agree where what they sum does.
LEMMA Agreement ==
    ASSUME NEW f, NEW g, NEW S, NEW T, IsFiniteSet(S), NEW h, NEW k,
           Iterates(h, f, SUBSET S), Iterates(k, g, SUBSET T), S \subseteq T,
           Alike(f, g, S)
    PROVE  h[S] = k[S]
<1> DEFINE A == {s \in SUBSET S : h[s] = k[s]}
<1>1. ASSUME NEW s \in SUBSET S, \A u \in SUBSET s : u # s => u \in A PROVE s \in A
  <2>1. CASE s = {}
    <3>1. h[s] = 0 /\ k[s] = 0
      BY <2>1 DEF Iterates
    <3> QED
      BY <3>1
  <2>2. CASE s # {}
    <3>1. Chosen(s) \in s
      BY <2>2 DEF Chosen
    <3>2. s \ {Chosen(s)} \in A
      BY <1>1, <3>1
    <3>3. h[s] = f[Chosen(s)] + h[s \ {Chosen(s)}]
      BY <2>2 DEF Iterates
    <3>4. k[s] = g[Chosen(s)] + k[s \ {Chosen(s)}]
      BY <2>2 DEF Iterates
    <3> QED
      BY <3>1, <3>2, <3>3, <3>4 DEF Alike
  <2> QED
    BY <2>1, <2>2
<1>2. A = SUBSET S
  <2> HIDE DEF A
  <2>1. A \subseteq SUBSET S
    BY DEF A
  <2> QED
    BY <1>1, <2>1, SubsetInduct
<1> QED
  BY <1>2

\* Integers sum to integers.
LEMMA IterateType ==
    ASSUME NEW f, NEW S, IsFiniteSet(S), NEW h, Iterates(h, f, SUBSET S),
           \A x \in S : f[x] \in Int
    PROVE  \A s \in SUBSET S : h[s] \in Int
<1> DEFINE A == {s \in SUBSET S : h[s] \in Int}
<1>1. ASSUME NEW s \in SUBSET S, \A u \in SUBSET s : u # s => u \in A PROVE s \in A
  <2>1. CASE s = {}
    BY <2>1 DEF Iterates
  <2>2. CASE s # {}
    <3>1. Chosen(s) \in s
      BY <2>2 DEF Chosen
    <3>2. s \ {Chosen(s)} \in A
      BY <1>1, <3>1
    <3>3. h[s] = f[Chosen(s)] + h[s \ {Chosen(s)}]
      BY <2>2 DEF Iterates
    <3> QED
      BY <3>1, <3>2, <3>3
  <2> QED
    BY <2>1, <2>2
<1>2. A = SUBSET S
  <2> HIDE DEF A
  <2>1. A \subseteq SUBSET S
    BY DEF A
  <2> QED
    BY <1>1, <2>1, SubsetInduct
<1> QED
  BY <1>2

\* The order in which the elements are taken does not matter.
LEMMA AnyOrder ==
    ASSUME NEW f, NEW S, IsFiniteSet(S), NEW h, Iterates(h, f, SUBSET S),
           \A x \in S : f[x] \in Int
    PROVE  \A s \in SUBSET S : \A x \in s : h[s] = f[x] + h[s \ {x}]
<1> DEFINE A == {s \in SUBSET S : \A x \in s : h[s] = f[x] + h[s \ {x}]}
<1>0. \A s \in SUBSET S : h[s] \in Int
  BY IterateType
<1>1. ASSUME NEW s \in SUBSET S, \A u \in SUBSET s : u # s => u \in A PROVE s \in A
  <2> SUFFICES ASSUME NEW x \in s PROVE h[s] = f[x] + h[s \ {x}]
    OBVIOUS
  <2> DEFINE c == Chosen(s)
  <2>1. c \in s
    BY DEF Chosen
  <2>2. h[s] = f[c] + h[s \ {c}]
    BY DEF Iterates
  <2>3. CASE x = c
    BY <2>2, <2>3
  <2>4. CASE x # c
    <3>1. s \ {c} \in A /\ s \ {x} \in A /\ x \in s \ {c} /\ c \in s \ {x}
      BY <1>1, <2>1, <2>4
    <3>2. h[s \ {c}] = f[x] + h[(s \ {c}) \ {x}] /\ h[s \ {x}] = f[c] + h[(s \ {x}) \ {c}]
      BY <3>1
    <3>3. (s \ {c}) \ {x} = (s \ {x}) \ {c} /\ (s \ {c}) \ {x} \in SUBSET S
      OBVIOUS
    <3>4. f[x] \in Int /\ f[c] \in Int /\ h[(s \ {c}) \ {x}] \in Int
      BY <1>0, <2>1, <3>3
    <3>5. \A a, b, v \in Int : a + (b + v) = b + (a + v)
      OBVIOUS
    <3> DEFINE r == (s \ {c}) \ {x}
    <3>6. h[s] = f[c] + (f[x] + h[r]) /\ h[s \ {x}] = f[c] + h[r]
      BY <2>2, <3>2, <3>3
    <3>7. f[c] \in Int /\ f[x] \in Int /\ h[r] \in Int
      BY <3>4
    <3> HIDE DEF c, r
    <3> QED
      BY <3>5, <3>6, <3>7
  <2> QED
    BY <2>3, <2>4
<1>2. A = SUBSET S
  <2> HIDE DEF A
  <2>1. A \subseteq SUBSET S
    BY DEF A
  <2> QED
    BY <1>1, <2>1, SubsetInduct
<1> QED
  BY <1>2

\* What a sum over a finite set is.
LEMMA SumIterates ==
    ASSUME NEW f, NEW S, IsFiniteSet(S)
    PROVE  \E h : Iterates(h, f, SUBSET S) /\ SumFunctionOnSet(f, S) = h[S]
  BY IterateExists, SumIsIterate

\* Nothing sums to zero.
LEMMA SumEmpty ==
    ASSUME NEW f
    PROVE  SumFunctionOnSet(f, {}) = 0
<1>1. PICK h : Iterates(h, f, SUBSET {}) /\ SumFunctionOnSet(f, {}) = h[{}]
  BY FS_EmptySet, SumIterates
<1> QED
  BY <1>1 DEF Iterates

\* A sum of integers is one.
LEMMA SumType ==
    ASSUME NEW f, NEW S, IsFiniteSet(S), \A x \in S : f[x] \in Int
    PROVE  SumFunctionOnSet(f, S) \in Int
<1>1. PICK h : Iterates(h, f, SUBSET S) /\ SumFunctionOnSet(f, S) = h[S]
  BY SumIterates
<1> QED
  BY <1>1, IterateType

\* A sum sees its elements only.
LEMMA SameSum ==
    ASSUME NEW f, NEW g, NEW S, IsFiniteSet(S), \A x \in S : f[x] = g[x]
    PROVE  SumFunctionOnSet(f, S) = SumFunctionOnSet(g, S)
<1>1. PICK h : Iterates(h, f, SUBSET S) /\ SumFunctionOnSet(f, S) = h[S]
  BY SumIterates
<1>2. PICK k : Iterates(k, g, SUBSET S) /\ SumFunctionOnSet(g, S) = k[S]
  BY SumIterates
<1>3. Alike(f, g, S)
  BY DEF Alike
<1>4. h[S] = k[S]
  BY <1>1, <1>2, <1>3, Agreement
<1>5. SumFunctionOnSet(f, S) = h[S] /\ SumFunctionOnSet(g, S) = k[S]
  BY <1>1, <1>2
<1> QED
  BY <1>4, <1>5

\* A new element adds itself.
LEMMA SumAdds ==
    ASSUME NEW f, NEW S, IsFiniteSet(S), NEW x, x \notin S, \A i \in S \cup {x} : f[i] \in Int
    PROVE  SumFunctionOnSet(f, S \cup {x}) = SumFunctionOnSet(f, S) + f[x]
<1> DEFINE T == S \cup {x}
<1>0. IsFiniteSet(T)
  BY FS_AddElement
<1>1. PICK h : Iterates(h, f, SUBSET S) /\ SumFunctionOnSet(f, S) = h[S]
  BY SumIterates
<1>2. PICK k : Iterates(k, f, SUBSET T) /\ SumFunctionOnSet(f, T) = k[T]
  BY <1>0, SumIterates
<1>a. T \ {x} = S /\ S \subseteq T /\ x \in T /\ \A i \in T : f[i] \in Int
  OBVIOUS
<1> HIDE DEF T
<1>3. k[T] = f[x] + k[T \ {x}]
  BY <1>0, <1>2, <1>a, AnyOrder
<1>4. f[x] \in Int
  BY <1>a
<1>b. Alike(f, f, S)
  BY DEF Alike
<1>5. h[S] = k[S]
  BY <1>1, <1>2, <1>a, <1>b, Agreement
<1>6. h[S] \in Int
  BY <1>1, IterateType
<1> QED
  <2>1. SumFunctionOnSet(f, T) = f[x] + SumFunctionOnSet(f, S) /\ SumFunctionOnSet(f, S) \in Int
    BY <1>1, <1>2, <1>3, <1>5, <1>6, <1>a
  <2> QED
    BY <1>4, <2>1 DEF T

\* A sum over a sequence that grew by one element.
LEMMA SumGrows ==
    ASSUME NEW n \in Nat, NEW f, NEW g, \A i \in 1..n : f[i] = g[i],
           \A i \in 1..(n + 1) : g[i] \in Int, NEW S \in SUBSET (1..n)
    PROVE  SumFunctionOnSet(g, S \cup {n + 1}) = SumFunctionOnSet(f, S) + g[n + 1]
<1>1. IsFiniteSet(S)
  BY FS_Interval, FS_Subset, 1 \in Int, n \in Int
<1>2. n + 1 \notin S /\ \A i \in S \cup {n + 1} : g[i] \in Int
  OBVIOUS
<1>3. SumFunctionOnSet(g, S \cup {n + 1}) = SumFunctionOnSet(g, S) + g[n + 1]
  BY <1>1, <1>2, SumAdds
<1>4. SumFunctionOnSet(f, S) = SumFunctionOnSet(g, S)
  BY <1>1, SameSum
<1>5. SumFunctionOnSet(g, S) \in Int
  BY <1>1, <1>2, SumType
<1> QED
  BY <1>3, <1>4, <1>5

\* A sum over a sequence of integers is one.
LEMMA SumInSequence ==
    ASSUME NEW n \in Nat, NEW f, \A i \in 1..n : f[i] \in Int, NEW S \in SUBSET (1..n)
    PROVE  SumFunctionOnSet(f, S) \in Int
<1>1. IsFiniteSet(S)
  BY FS_Interval, FS_Subset, 1 \in Int, n \in Int
<1> QED
  BY <1>1, SumType

\* A sum of zeros.
LEMMA SumOfNothing ==
    ASSUME NEW f, NEW S, IsFiniteSet(S), \A s \in S : f[s] = 0
    PROVE  SumFunctionOnSet(f, S) = 0
<1> DEFINE A == {T \in SUBSET S : SumFunctionOnSet(f, T) = 0}
<1>1. ASSUME NEW T \in SUBSET S, \A U \in SUBSET T : U # T => U \in A PROVE T \in A
  <2>1. CASE T = {}
    BY <2>1, SumEmpty
  <2>2. CASE T # {}
    <3>1. PICK x \in T : TRUE
      BY <2>2
    <3> DEFINE rest == T \ {x}
    <3>2. rest \in SUBSET T /\ rest # T /\ x \notin rest /\ rest \cup {x} = T
      BY <3>1
    <3>3. IsFiniteSet(rest) /\ \A i \in rest \cup {x} : f[i] \in Int
      BY <3>2, FS_Subset
    <3>4. SumFunctionOnSet(f, rest) = 0
      BY <1>1, <3>2
    <3> HIDE DEF rest
    <3>5. SumFunctionOnSet(f, rest \cup {x}) = SumFunctionOnSet(f, rest) + f[x]
      BY <3>2, <3>3, SumAdds
    <3>6. SumFunctionOnSet(f, T) = SumFunctionOnSet(f, rest) + f[x]
      BY ONLY <3>2, <3>5
    <3>7. f[x] = 0
      BY <3>1
    <3>8. SumFunctionOnSet(f, T) = 0
      BY ONLY <3>4, <3>6, <3>7
    <3> QED
      BY <3>8
  <2> QED
    BY <2>1, <2>2
<1>2. A \in SUBSET SUBSET S
  OBVIOUS
<1>3. A = SUBSET S
  <2> HIDE DEF A
  <2> QED
    BY <1>1, <1>2, SubsetInduct
<1> QED
  BY <1>3

\* A sum with one term.
LEMMA SumOfOne ==
    ASSUME NEW f, NEW S, IsFiniteSet(S), NEW c \in S, f[c] \in Int,
           \A s \in S \ {c} : f[s] = 0
    PROVE  SumFunctionOnSet(f, S) = f[c]
<1>1. IsFiniteSet(S \ {c})
  BY FS_Subset
<1>2. SumFunctionOnSet(f, S \ {c}) = 0
  BY <1>1, SumOfNothing
<1>3. SumFunctionOnSet(f, (S \ {c}) \cup {c}) = SumFunctionOnSet(f, S \ {c}) + f[c]
  BY <1>1, SumAdds
<1>4. (S \ {c}) \cup {c} = S
  OBVIOUS
<1> QED
  BY <1>2, <1>3, <1>4

\* Parts of a sum of what is not negative.
LEMMA SumOfPart ==
    ASSUME NEW f, NEW S, IsFiniteSet(S), \A x \in S : f[x] \in Int /\ f[x] >= 0,
           NEW T \in SUBSET S
    PROVE  SumFunctionOnSet(f, T) <= SumFunctionOnSet(f, S)
<1> DEFINE A == {U \in SUBSET (S \ T) : SumFunctionOnSet(f, T) <= SumFunctionOnSet(f, T \cup U)}
<1>1. ASSUME NEW U \in SUBSET (S \ T), \A V \in SUBSET U : V # U => V \in A PROVE U \in A
  <2>1. IsFiniteSet(T) /\ \A x \in T : f[x] \in Int
    BY FS_Subset
  <2>2. SumFunctionOnSet(f, T) \in Int
    BY <2>1, SumType
  <2>3. CASE U = {}
    <3>1. T \cup U = T
      BY <2>3
    <3> QED
      BY <2>2, <3>1
  <2>4. ASSUME NEW x \in U PROVE U \in A
    <3> DEFINE rest == T \cup (U \ {x})
    <3>1. U \ {x} \in A
      BY <1>1
    <3>2. rest \in SUBSET S /\ x \notin rest /\ rest \cup {x} = T \cup U /\ x \in S
      OBVIOUS
    <3>3. SumFunctionOnSet(f, T) <= SumFunctionOnSet(f, rest)
      BY <3>1
    <3> HIDE DEF rest
    <3>4. IsFiniteSet(rest) /\ \A i \in rest \cup {x} : f[i] \in Int
      BY <3>2, FS_Subset
    <3>5. SumFunctionOnSet(f, rest) \in Int
      BY <3>4, SumType
    <3>6. SumFunctionOnSet(f, rest \cup {x}) = SumFunctionOnSet(f, rest) + f[x]
      BY <3>2, <3>4, SumAdds
    <3>7. SumFunctionOnSet(f, T \cup U) = SumFunctionOnSet(f, rest) + f[x]
      BY ONLY <3>2, <3>6
    <3>8. f[x] \in Int /\ f[x] >= 0
      BY <3>2
    <3>9. SumFunctionOnSet(f, T) <= SumFunctionOnSet(f, T \cup U)
      BY ONLY <2>2, <3>3, <3>5, <3>7, <3>8
    <3> QED
      BY <3>9
  <2> QED
    BY <2>3, <2>4
<1>2. A \in SUBSET SUBSET (S \ T)
  OBVIOUS
<1>3. IsFiniteSet(S \ T)
  BY FS_Subset
<1>4. A = SUBSET (S \ T)
  <2> HIDE DEF A
  <2> QED
    BY <1>1, <1>2, <1>3, SubsetInduct
<1>5. S \ T \in A
  BY <1>4
<1>6. T \cup (S \ T) = S
  OBVIOUS
<1> QED
  BY <1>5, <1>6
====
