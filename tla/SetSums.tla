------------------------------ MODULE SetSums ------------------------------
(***************************************************************************)
(* What MapThenSumSet of the community modules computes when it adds up    *)
(* the values of a function on a finite set: zero for the empty set, and   *)
(* one value more for one element more.  The queues' byte counters are     *)
(* compared with such sums.                                                *)
(*                                                                         *)
(* The library's induction theorems have an operator for a parameter; here *)
(* the property is a set, and the induction is the existence of a minimal  *)
(* element (WFMin).                                                        *)
(***************************************************************************)
EXTENDS Integers, FiniteSets, FiniteSetsExt, FiniteSetTheorems, WellFoundedInduction, TLAPS

\* The sum of f over S, in the form the models use.
SumOf(f, S) == MapThenSumSet(LAMBDA x : f[x], S)

\* The element the sum takes first.
Pick(s) == CHOOSE x \in s : TRUE

\* One turn of the recursion behind the sum.
Turn(g, f, s) == IF s = {} THEN 0 ELSE f[Pick(s)] + g[s \ {Pick(s)}]

\* The function that recursion defines.
Iter(f, S) == CHOOSE g : g = [s \in SUBSET S |-> Turn(g, f, s)]

-----------------------------------------------------------------------------
(* Induction *)

\* A set of naturals that holds zero and every successor holds them all.
LEMMA NaturalSetInduction ==
  ASSUME NEW Good \in SUBSET Nat, 0 \in Good, \A n \in Good : n + 1 \in Good
  PROVE  Good = Nat
<1> DEFINE Less == {ss \in Nat \X Nat : ss[1] < ss[2]}
<1>1. SUFFICES ASSUME Nat \ Good # {} PROVE FALSE
  OBVIOUS
<1>2. IsWellFoundedOn(Less, Nat)
  BY NatLessThanWellFounded DEF OpToRel
<1>3. PICK n \in Nat \ Good : \A m \in Nat \ Good : ~(<<m, n>> \in Less)
  <2> HIDE DEF Less
  <2> QED BY <1>1, <1>2, WFMin
<1>4. n # 0 /\ n - 1 \in Nat /\ n - 1 \notin Good
  OBVIOUS
<1>5. <<n - 1, n>> \in Less
  BY <1>4
<1> QED
  BY <1>3, <1>4, <1>5

\* If a set of subsets of S holds every T whose smaller subsets it holds, it
\* holds all of them.
LEMMA SubsetInduction ==
  ASSUME NEW S, IsFiniteSet(S), NEW Good,
         \A T \in SUBSET S : (\A U \in SUBSET T : U # T => U \in Good) => T \in Good
  PROVE  \A T \in SUBSET S : T \in Good
<1> DEFINE Bad == {T \in SUBSET S : T \notin Good}
<1>1. SUFFICES ASSUME Bad # {} PROVE FALSE
  OBVIOUS
<1>2. IsWellFoundedOn(StrictSubsetOrdering(S), SUBSET S)
  BY FS_StrictSubsetOrderingWellFounded, FS_FiniteSubsetsOfFinite
<1>3. PICK T \in Bad : \A U \in Bad : ~(<<U, T>> \in StrictSubsetOrdering(S))
  <2> Bad \subseteq SUBSET S
    OBVIOUS
  <2> HIDE DEF Bad
  <2> QED BY <1>1, <1>2, WFMin
<1>4. \A U \in SUBSET T : U # T => U \in Good
  <2> TAKE U \in SUBSET T
  <2> HAVE U # T
  <2>1. <<U, T>> \in StrictSubsetOrdering(S)
    BY DEF StrictSubsetOrdering
  <2> QED
    BY <1>3, <2>1
<1> QED
  BY <1>4

-----------------------------------------------------------------------------
(* The recursion *)

\* The sum is that function at the whole set.
LEMMA SumIsIter ==
  ASSUME NEW f, NEW S
  PROVE  SumOf(f, S) = Iter(f, S)[S]
BY DEF SumOf, Iter, Turn, Pick, MapThenSumSet, MapThenFoldSet

\* The recursion defines a function: it is built for sets of one element more
\* at a time.
LEMMA IterExists ==
  ASSUME NEW f, NEW S, IsFiniteSet(S)
  PROVE  \E g : g = [s \in SUBSET S |-> Turn(g, f, s)]
<1> DEFINE UpTo(n) == {s \in SUBSET S : Cardinality(s) <= n}
           Good == {n \in Nat : \E g : g = [s \in UpTo(n) |-> Turn(g, f, s)]}
<1>0. \A s \in SUBSET S : Cardinality(s) \in Nat /\ IsFiniteSet(s) /\ Cardinality(s) <= Cardinality(S)
  BY FS_Subset, FS_CardinalityType
<1>1. 0 \in Good
  <2>1. \A s \in UpTo(0) : s = {}
    BY <1>0, FS_EmptySet
  <2>2. [s \in UpTo(0) |-> 0] = [s \in UpTo(0) |-> Turn([t \in UpTo(0) |-> 0], f, s)]
    BY <2>1 DEF Turn
  <2> QED
    BY <2>2
<1>2. \A n \in Good : n + 1 \in Good
  <2> TAKE n \in Good
  <2>1. PICK g : g = [s \in UpTo(n) |-> Turn(g, f, s)]
    OBVIOUS
  <2> DEFINE h == [s \in UpTo(n + 1) |-> IF s \in UpTo(n) THEN g[s] ELSE Turn(g, f, s)]
  <2>2. ASSUME NEW s \in UpTo(n + 1), s # {}
        PROVE  s \ {Pick(s)} \in UpTo(n) /\ s \ {Pick(s)} \in UpTo(n + 1)
    <3>1. Pick(s) \in s
      BY <2>2 DEF Pick
    <3>2. Cardinality(s \ {Pick(s)}) = Cardinality(s) - 1
      BY <1>0, <3>1, FS_RemoveElement
    <3> QED
      BY <1>0, <3>2
  <2>3. \A s \in UpTo(n + 1) : Turn(h, f, s) = Turn(g, f, s)
    BY <2>2 DEF Turn
  <2>4. \A s \in UpTo(n) : g[s] = Turn(g, f, s)
    BY <2>1
  <2>5. \A s \in UpTo(n + 1) : h[s] = Turn(h, f, s)
    BY <2>3, <2>4
  <2>6. h = [s \in UpTo(n + 1) |-> Turn(h, f, s)]
    BY <2>5
  <2>7. \E k : k = [s \in UpTo(n + 1) |-> Turn(k, f, s)]
    BY <2>6
  <2>8. n + 1 \in Nat
    OBVIOUS
  <2> HIDE DEF UpTo, h
  <2> QED
    BY <2>7, <2>8
<1>3. Good = Nat
  <2> HIDE DEF Good
  <2> Good \subseteq Nat
    BY DEF Good
  <2> QED BY <1>1, <1>2, NaturalSetInduction
<1>4. UpTo(Cardinality(S)) = SUBSET S
  BY <1>0
<1>5. Cardinality(S) \in Good
  BY <1>3, FS_CardinalityType
<1> QED
  BY <1>4, <1>5

\* So it satisfies its equation.
LEMMA IterUnfolds ==
  ASSUME NEW f, NEW S, IsFiniteSet(S)
  PROVE  \A s \in SUBSET S : Iter(f, S)[s] = Turn(Iter(f, S), f, s)
<1>1. Iter(f, S) = [s \in SUBSET S |-> Turn(Iter(f, S), f, s)]
  BY IterExists DEF Iter
<1> QED
  BY <1>1

\* The recursion over a larger set passes through the same values.
LEMMA IterAgrees ==
  ASSUME NEW f, NEW S, IsFiniteSet(S), NEW T \in SUBSET S
  PROVE  \A s \in SUBSET T : Iter(f, T)[s] = Iter(f, S)[s]
<1> DEFINE Good == {s \in SUBSET T : Iter(f, T)[s] = Iter(f, S)[s]}
<1>1. IsFiniteSet(T)
  BY FS_Subset
<1>2. ASSUME NEW s \in SUBSET T, \A u \in SUBSET s : u # s => u \in Good
      PROVE  s \in Good
  <2>1. Iter(f, T)[s] = Turn(Iter(f, T), f, s) /\ Iter(f, S)[s] = Turn(Iter(f, S), f, s)
    BY <1>1, IterUnfolds
  <2>2. CASE s = {}
    BY <2>1, <2>2 DEF Turn
  <2>3. CASE s # {}
    <3>1. Pick(s) \in s
      BY <2>3 DEF Pick
    <3>2. s \ {Pick(s)} \in Good
      BY <1>2, <3>1
    <3> QED
      BY <2>1, <2>3, <3>2 DEF Turn
  <2> QED
    BY <2>2, <2>3
<1>3. \A s \in SUBSET T : s \in Good
  <2> HIDE DEF Good
  <2> QED BY <1>1, <1>2, SubsetInduction
<1> QED
  BY <1>3

\* The sum takes one element and adds up the rest.
LEMMA SumTurns ==
  ASSUME NEW f, NEW S, IsFiniteSet(S)
  PROVE  SumOf(f, S) = IF S = {} THEN 0 ELSE f[Pick(S)] + SumOf(f, S \ {Pick(S)})
<1>1. SumOf(f, S) = Turn(Iter(f, S), f, S)
  BY SumIsIter, IterUnfolds
<1>2. SumOf(f, S \ {Pick(S)}) = Iter(f, S)[S \ {Pick(S)}]
  BY SumIsIter, IterAgrees
<1> QED
  BY <1>1, <1>2 DEF Turn

-----------------------------------------------------------------------------
(* What the sum is *)

\* The sum over nothing is zero.
LEMMA SumEmpty ==
  ASSUME NEW f
  PROVE  SumOf(f, {}) = 0
BY SumTurns, FS_EmptySet

\* A sum of naturals is a natural.
LEMMA SumNat ==
  ASSUME NEW f, NEW S, IsFiniteSet(S), \A x \in S : f[x] \in Nat
  PROVE  SumOf(f, S) \in Nat
<1> DEFINE Good == {T \in SUBSET S : SumOf(f, T) \in Nat}
<1>1. ASSUME NEW T \in SUBSET S, \A U \in SUBSET T : U # T => U \in Good
      PROVE  T \in Good
  <2>1. IsFiniteSet(T)
    BY FS_Subset
  <2>2. CASE T = {}
    BY <2>2, SumEmpty
  <2>3. CASE T # {}
    <3>1. Pick(T) \in T
      BY <2>3 DEF Pick
    <3>2. T \ {Pick(T)} \in Good
      BY <1>1, <3>1
    <3> QED
      BY <2>1, <2>3, <3>1, <3>2, SumTurns
  <2> QED
    BY <2>2, <2>3
<1>2. \A T \in SUBSET S : T \in Good
  <2> HIDE DEF Good
  <2> QED BY <1>1, SubsetInduction
<1> QED
  BY <1>2

\* Whichever element is taken first, the sum is the same.
LEMMA SumRemove ==
  ASSUME NEW f, NEW S, IsFiniteSet(S), \A x \in S : f[x] \in Nat, NEW y \in S
  PROVE  SumOf(f, S) = SumOf(f, S \ {y}) + f[y]
<1> DEFINE Good == {T \in SUBSET S : \A z \in T : SumOf(f, T) = SumOf(f, T \ {z}) + f[z]}
<1>1. ASSUME NEW T \in SUBSET S, \A U \in SUBSET T : U # T => U \in Good
      PROVE  T \in Good
  <2> SUFFICES ASSUME NEW z \in T PROVE SumOf(f, T) = SumOf(f, T \ {z}) + f[z]
    OBVIOUS
  <2> DEFINE p == Pick(T)
  <2>0. p \in T
    BY DEF Pick
  <2> HIDE DEF p
  <2>1. IsFiniteSet(T)
    BY FS_Subset
  <2>2. IsFiniteSet(T \ {p}) /\ IsFiniteSet(T \ {z}) /\ IsFiniteSet((T \ {p}) \ {z})
    BY <2>1, FS_Difference, FS_Singleton
  <2>3. SumOf(f, T) = f[p] + SumOf(f, T \ {p})
    BY <2>1, SumTurns DEF p
  <2>4. SumOf(f, T \ {p}) \in Nat /\ SumOf(f, T \ {z}) \in Nat /\ SumOf(f, (T \ {p}) \ {z}) \in Nat
    BY <2>2, SumNat
  <2>5. CASE z = p
    BY <2>0, <2>3, <2>4, <2>5
  <2>6. CASE z # p
    <3>1. SumOf(f, T \ {p}) = SumOf(f, (T \ {p}) \ {z}) + f[z]
      <4>1. T \ {p} \in Good
        BY <1>1, <2>0
      <4> QED BY <2>6, <4>1
    <3>2. SumOf(f, T \ {z}) = SumOf(f, (T \ {z}) \ {p}) + f[p]
      <4>1. T \ {z} \in Good
        BY <1>1
      <4> QED BY <2>0, <2>6, <4>1
    <3>3. (T \ {z}) \ {p} = (T \ {p}) \ {z}
      OBVIOUS
    <3> QED
      BY <2>0, <2>3, <2>4, <3>1, <3>2, <3>3
  <2> QED
    BY <2>5, <2>6
<1>2. \A T \in SUBSET S : T \in Good
  <2> HIDE DEF Good
  <2> QED BY <1>1, SubsetInduction
<1> QED
  BY <1>2

\* One element more.
LEMMA SumAdd ==
  ASSUME NEW f, NEW S, IsFiniteSet(S), \A x \in S : f[x] \in Nat, NEW y, y \notin S, f[y] \in Nat
  PROVE  SumOf(f, S \cup {y}) = SumOf(f, S) + f[y]
<1>1. IsFiniteSet(S \cup {y})
  BY FS_AddElement
<1>2. (S \cup {y}) \ {y} = S
  OBVIOUS
<1> QED
  BY <1>1, <1>2, SumRemove

\* A part of a sum of naturals is no greater than the whole.
LEMMA SumSubset ==
  ASSUME NEW f, NEW S, IsFiniteSet(S), \A x \in S : f[x] \in Nat, NEW P \in SUBSET S
  PROVE  SumOf(f, P) <= SumOf(f, S)
<1> DEFINE Good == {T \in SUBSET S : P \subseteq T => SumOf(f, P) <= SumOf(f, T)}
<1>1. \A T \in SUBSET S : IsFiniteSet(T) /\ SumOf(f, T) \in Nat
  BY FS_Subset, SumNat
<1>2. ASSUME NEW T \in SUBSET S, \A U \in SUBSET T : U # T => U \in Good
      PROVE  T \in Good
  <2>1. SUFFICES ASSUME P \subseteq T, P # T PROVE SumOf(f, P) <= SumOf(f, T)
    BY <1>1
  <2>2. PICK y \in T : y \notin P
    BY <2>1
  <2>3. SumOf(f, P) <= SumOf(f, T \ {y})
    BY <1>2, <2>1, <2>2
  <2>4. SumOf(f, T) = SumOf(f, T \ {y}) + f[y]
    BY <1>1, SumRemove
  <2>5. SumOf(f, T \ {y}) \in Nat /\ SumOf(f, T) \in Nat /\ SumOf(f, P) \in Nat /\ f[y] \in Nat
    BY <1>1
  <2> QED
    BY <2>3, <2>4, <2>5
<1> HIDE DEF Good
<1>3. \A T \in SUBSET S : T \in Good
  BY <1>2, SubsetInduction
<1>4. S \in Good
  BY <1>3
<1> QED
  BY <1>4 DEF Good

\* Functions that agree on the set have the same sum.
LEMMA SumAgrees ==
  ASSUME NEW f, NEW g, NEW S, IsFiniteSet(S), \A x \in S : f[x] = g[x]
  PROVE  SumOf(f, S) = SumOf(g, S)
<1> DEFINE Good == {T \in SUBSET S : SumOf(f, T) = SumOf(g, T)}
<1>1. ASSUME NEW T \in SUBSET S, \A U \in SUBSET T : U # T => U \in Good
      PROVE  T \in Good
  <2>1. IsFiniteSet(T)
    BY FS_Subset
  <2>2. CASE T = {}
    BY <2>2, SumEmpty
  <2>3. CASE T # {}
    <3>1. Pick(T) \in T
      BY <2>3 DEF Pick
    <3>2. T \ {Pick(T)} \in Good
      BY <1>1, <3>1
    <3>3. SumOf(f, T \ {Pick(T)}) = SumOf(g, T \ {Pick(T)}) /\ f[Pick(T)] = g[Pick(T)]
      BY <3>1, <3>2
    <3>4. SumOf(f, T) = f[Pick(T)] + SumOf(f, T \ {Pick(T)})
      BY <2>1, <2>3, SumTurns
    <3>5. SumOf(g, T) = g[Pick(T)] + SumOf(g, T \ {Pick(T)})
      BY <2>1, <2>3, SumTurns
    <3> QED
      BY <3>3, <3>4, <3>5
  <2> QED
    BY <2>2, <2>3
<1>2. \A T \in SUBSET S : T \in Good
  <2> HIDE DEF Good
  <2> QED BY <1>1, SubsetInduction
<1> QED
  BY <1>2

\* Zeros add up to zero.
LEMMA SumZeros ==
  ASSUME NEW f, NEW S, IsFiniteSet(S), \A x \in S : f[x] = 0
  PROVE  SumOf(f, S) = 0
<1> DEFINE Good == {T \in SUBSET S : SumOf(f, T) = 0}
<1>1. ASSUME NEW T \in SUBSET S, \A U \in SUBSET T : U # T => U \in Good
      PROVE  T \in Good
  <2>1. IsFiniteSet(T)
    BY FS_Subset
  <2>2. CASE T = {}
    BY <2>2, SumEmpty
  <2>3. CASE T # {}
    <3>1. Pick(T) \in T
      BY <2>3 DEF Pick
    <3>2. T \ {Pick(T)} \in Good
      BY <1>1, <3>1
    <3> QED
      BY <2>1, <2>3, <3>1, <3>2, SumTurns
  <2> QED
    BY <2>2, <2>3
<1>2. \A T \in SUBSET S : T \in Good
  <2> HIDE DEF Good
  <2> QED BY <1>1, SubsetInduction
<1> QED
  BY <1>2

\* One counter goes up by one, and with it the sum of those it is among.
LEMMA SumCounts ==
  ASSUME NEW P, IsFiniteSet(P), NEW f, NEW g, NEW y,
         \A x \in P : f[x] \in Nat, y \in P => g[y] = f[y] + 1,
         \A x \in P \ {y} : g[x] = f[x]
  PROVE  /\ SumOf(f, P) \in Nat
         /\ y \in P => SumOf(g, P) = SumOf(f, P) + 1
         /\ y \notin P => SumOf(g, P) = SumOf(f, P)
<1>2. IsFiniteSet(P) /\ IsFiniteSet(P \ {y})
  BY FS_RemoveElement
<1>3. SumOf(f, P) \in Nat /\ SumOf(f, P \ {y}) \in Nat
  BY <1>2, SumNat
<1>4. SumOf(g, P \ {y}) = SumOf(f, P \ {y})
  BY <1>2, SumAgrees
<1>5. CASE y \in P
  <2>1. SumOf(f, P) = SumOf(f, P \ {y}) + f[y]
    BY <1>2, <1>5, SumRemove
  <2>2. SumOf(g, P) = SumOf(g, P \ {y}) + g[y]
    <3>1. \A x \in P : g[x] \in Nat
      OBVIOUS
    <3> QED BY <1>2, <1>5, <3>1, SumRemove
  <2> QED
    BY <1>3, <1>4, <1>5, <2>1, <2>2
<1>6. CASE y \notin P
  <2>1. P \ {y} = P
    BY <1>6
  <2> QED
    BY <1>3, <1>4, <1>6, <2>1
<1> QED
  BY <1>5, <1>6

\* Among finitely many elements there is one of the greatest value.
LEMMA GreatestValue ==
  ASSUME NEW f, NEW S, IsFiniteSet(S), S # {}, \A x \in S : f[x] \in Nat
  PROVE  \E x \in S : \A y \in S : f[y] <= f[x]
<1> DEFINE Good == {T \in SUBSET S : T = {} \/ \E x \in T : \A y \in T : f[y] <= f[x]}
<1>1. ASSUME NEW T \in SUBSET S, \A U \in SUBSET T : U # T => U \in Good
      PROVE  T \in Good
  <2>1. CASE T = {}
    BY <2>1
  <2>2. CASE T # {}
    <3>1. PICK z \in T : TRUE
      BY <2>2
    <3>2. T \ {z} \in Good
      BY <1>1, <3>1
    <3>3. CASE T \ {z} = {}
      BY <3>1, <3>3
    <3>4. CASE T \ {z} # {}
      <4>1. PICK x \in T \ {z} : \A y \in T \ {z} : f[y] <= f[x]
        BY <3>2, <3>4
      <4>2. CASE f[z] <= f[x]
        BY <4>1, <4>2
      <4>3. CASE ~(f[z] <= f[x])
        <5>1. \A y \in T : f[y] <= f[z]
          BY <3>1, <4>1, <4>3
        <5> QED BY <3>1, <5>1
      <4> QED BY <4>2, <4>3
    <3> QED BY <3>3, <3>4
  <2> QED BY <2>1, <2>2
<1>2. \A T \in SUBSET S : T \in Good
  <2> HIDE DEF Good
  <2> QED BY <1>1, SubsetInduction
<1> QED
  BY <1>2

=============================================================================
