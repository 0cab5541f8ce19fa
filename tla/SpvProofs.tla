------------------------------ MODULE SpvProofs ------------------------------
(***************************************************************************)
(* What is proved of Spv, for any objects, chains and configurations: what *)
(* a pass, a refusal and a marker mean, and what a verdict counts.         *)
(*                                                                         *)
(* The rules are operators of the object, not of the state, so the first   *)
(* part is about data alone: the sums, the distinct inputs, and the sets   *)
(* of transactions that a verdict is about.  The second part follows the   *)
(* two walks.  The last part is the counters: the longest chain of parents *)
(* and the scripts below each tip.                                         *)
(***************************************************************************)
EXTENDS Spv, SetSums

-----------------------------------------------------------------------------
(* The amounts *)

\* The values of the outputs of a transaction, added up as addSats does.
CapTurn(g, outs, s) == IF s = {} THEN 0 ELSE AddSats(g[s \ {Pick(s)}], outs[Pick(s)].sats)
CapIter(outs, S) == CHOOSE g : g = [s \in SUBSET S |-> CapTurn(g, outs, s)]

\* OutTotal is the value of a recursive function at the whole set.
LEMMA OutTotalIsIter ==
  ASSUME NEW tx
  PROVE  OutTotal(tx) = CapIter(tx.outputs, DOMAIN tx.outputs)[DOMAIN tx.outputs]
BY DEF OutTotal, CapIter, CapTurn, Pick, FoldFunction, FoldFunctionOnSet, MapThenFoldSet

\* That recursion defines a function: it is built for sets of one element more
\* at a time.
LEMMA CapExists ==
  ASSUME NEW outs, NEW S, IsFiniteSet(S)
  PROVE  \E g : g = [s \in SUBSET S |-> CapTurn(g, outs, s)]
<1> DEFINE UpTo(n) == {s \in SUBSET S : Cardinality(s) <= n}
           Good == {n \in Nat : \E g : g = [s \in UpTo(n) |-> CapTurn(g, outs, s)]}
<1>0. \A s \in SUBSET S : Cardinality(s) \in Nat /\ IsFiniteSet(s) /\ Cardinality(s) <= Cardinality(S)
  BY FS_Subset, FS_CardinalityType
<1>1. 0 \in Good
  <2>1. \A s \in UpTo(0) : s = {}
    BY <1>0, FS_EmptySet
  <2>2. [s \in UpTo(0) |-> 0] = [s \in UpTo(0) |-> CapTurn([t \in UpTo(0) |-> 0], outs, s)]
    BY <2>1 DEF CapTurn
  <2> QED
    BY <2>2
<1>2. \A n \in Good : n + 1 \in Good
  <2> TAKE n \in Good
  <2>1. PICK g : g = [s \in UpTo(n) |-> CapTurn(g, outs, s)]
    OBVIOUS
  <2> DEFINE h == [s \in UpTo(n + 1) |-> IF s \in UpTo(n) THEN g[s] ELSE CapTurn(g, outs, s)]
  <2>2. ASSUME NEW s \in UpTo(n + 1), s # {}
        PROVE  s \ {Pick(s)} \in UpTo(n) /\ s \ {Pick(s)} \in UpTo(n + 1)
    <3>1. Pick(s) \in s
      BY <2>2 DEF Pick
    <3>2. Cardinality(s \ {Pick(s)}) = Cardinality(s) - 1
      BY <1>0, <3>1, FS_RemoveElement
    <3> QED
      BY <1>0, <3>2
  <2>3. \A s \in UpTo(n + 1) : CapTurn(h, outs, s) = CapTurn(g, outs, s)
    BY <2>2 DEF CapTurn
  <2>4. \A s \in UpTo(n) : g[s] = CapTurn(g, outs, s)
    BY <2>1
  <2>5. \A s \in UpTo(n + 1) : h[s] = CapTurn(h, outs, s)
    BY <2>3, <2>4
  <2>6. h = [s \in UpTo(n + 1) |-> CapTurn(h, outs, s)]
    BY <2>5
  <2>7. n + 1 \in Nat
    OBVIOUS
  <2> HIDE DEF UpTo, h
  <2> QED
    BY <2>6, <2>7
<1>3. Good = Nat
  <2> HIDE DEF Good
  <2> Good \subseteq Nat
    BY DEF Good
  <2> QED BY <1>1, <1>2, NaturalSetInduction
<1>4. UpTo(Cardinality(S)) = SUBSET S
  BY <1>0
<1>5. Cardinality(S) \in Good
  BY <1>3, FS_CardinalityType
<1> QED
  BY <1>4, <1>5

\* So it unfolds.
LEMMA CapUnfolds ==
  ASSUME NEW outs, NEW S, IsFiniteSet(S)
  PROVE  \A s \in SUBSET S : CapIter(outs, S)[s] = CapTurn(CapIter(outs, S), outs, s)
<1>1. CapIter(outs, S) = [s \in SUBSET S |-> CapTurn(CapIter(outs, S), outs, s)]
  BY CapExists DEF CapIter
<1> QED BY <1>1

\* A sum that addSats does not refuse is the sum, and what it refuses is too much.
LEMMA OutTotalIs ==
  ASSUME NEW tx, tx.outputs \in Seq(Range(tx.outputs)), \A i \in DOMAIN tx.outputs : tx.outputs[i].sats \in Nat
  PROVE  /\ Total(Values(tx.outputs)) \in Nat
         /\ OutTotal(tx) = IF Total(Values(tx.outputs)) <= MaxSats THEN Total(Values(tx.outputs)) ELSE Overflow
<1> DEFINE S == DOMAIN tx.outputs
           f == Values(tx.outputs)
           I == CapIter(tx.outputs, S)
           Good == {T \in SUBSET S : I[T] = IF SumOf(f, T) <= MaxSats THEN SumOf(f, T) ELSE Overflow}
<1>1. S = 1..Len(tx.outputs) /\ Len(tx.outputs) \in Nat
  OBVIOUS
<1>2. IsFiniteSet(S)
  BY <1>1, FS_Interval
<1>3. \A i \in S : f[i] = tx.outputs[i].sats /\ f[i] \in Nat
  BY DEF Values
<1> HIDE DEF S, f
<1>4. \A s \in SUBSET S : I[s] = CapTurn(I, tx.outputs, s)
  BY <1>2, CapUnfolds
<1> HIDE DEF I
<1>5. \A T \in SUBSET S : IsFiniteSet(T) /\ SumOf(f, T) \in Nat
  BY <1>2, <1>3, FS_Subset, SumNat
<1>6. ASSUME NEW T \in SUBSET S, \A U \in SUBSET T : U # T => U \in Good
      PROVE  T \in Good
  <2>1. I[T] = CapTurn(I, tx.outputs, T)
    BY <1>4
  <2>2. CASE T = {}
    BY <2>1, <2>2, SumEmpty, SpvAssumption DEF CapTurn
  <2>3. CASE T # {}
    <3> DEFINE x == Pick(T)
               R == T \ {x}
    <3>1. x \in T /\ R \in SUBSET T /\ R # T
      BY <2>3 DEF Pick
    <3>2. I[T] = AddSats(I[R], tx.outputs[x].sats)
      BY <2>1, <2>3 DEF CapTurn
    <3> HIDE DEF x
    <3>3. I[R] = IF SumOf(f, R) <= MaxSats THEN SumOf(f, R) ELSE Overflow
      BY <1>6, <3>1
    <3>4. SumOf(f, T) = SumOf(f, R) + f[x]
      BY <1>3, <1>5, <3>1, SumRemove
    <3>5. SumOf(f, R) \in Nat /\ SumOf(f, T) \in Nat /\ f[x] \in Nat /\ tx.outputs[x].sats = f[x]
      BY <1>3, <1>5, <3>1
    <3> HIDE DEF R
    <3> QED
      BY <3>2, <3>3, <3>4, <3>5, SpvAssumption DEF AddSats, Overflow
  <2> QED BY <2>2, <2>3
<1>7. \A T \in SUBSET S : T \in Good
  <2> HIDE DEF Good
  <2> QED BY <1>2, <1>6, SubsetInduction
<1>8. Total(f) = SumOf(f, S)
  BY DEF Total, SumOf, f, S, Values
<1>9. OutTotal(tx) = I[S]
  BY OutTotalIsIter DEF I, S
<1>10. S \in Good
  BY <1>7
<1> QED BY <1>5, <1>8, <1>9, <1>10 DEF f

-----------------------------------------------------------------------------
(* The inputs *)

\* No input is named twice exactly if the outpoints are as many as the inputs.
LEMMA DistinctIs ==
  ASSUME NEW tx, tx.inputs \in Seq(Range(tx.inputs))
  PROVE  Cardinality({<<tx.inputs[i].src, tx.inputs[i].vout>> : i \in DOMAIN tx.inputs}) = Len(tx.inputs)
           <=> ~\E i, j \in DOMAIN tx.inputs :
                  /\ i < j
                  /\ tx.inputs[i].src = tx.inputs[j].src /\ tx.inputs[i].vout = tx.inputs[j].vout
<1> DEFINE S == DOMAIN tx.inputs
           T == {<<tx.inputs[i].src, tx.inputs[i].vout>> : i \in S}
           f == [i \in S |-> <<tx.inputs[i].src, tx.inputs[i].vout>>]
<1>1. S = 1..Len(tx.inputs) /\ Len(tx.inputs) \in Nat
  OBVIOUS
<1>2. IsFiniteSet(S) /\ Cardinality(S) = Len(tx.inputs)
  BY <1>1, FS_Interval
<1>3. f \in Surjection(S, T)
  BY DEF Surjection
<1>4. Cardinality(T) = Cardinality(S) <=> f \in Injection(S, T)
  <2> HIDE DEF S, T, f
  <2> QED BY <1>2, <1>3, FS_Surjection
<1>5. f \in Injection(S, T) <=> \A i, j \in S : f[i] = f[j] => i = j
  BY <1>3 DEF Injection, Surjection, IsInjective
<1>6. (\A i, j \in S : f[i] = f[j] => i = j)
        <=> ~\E i, j \in S : i < j /\ tx.inputs[i].src = tx.inputs[j].src /\ tx.inputs[i].vout = tx.inputs[j].vout
  <2>1. \A i, j \in S : f[i] = f[j] <=> tx.inputs[i].src = tx.inputs[j].src /\ tx.inputs[i].vout = tx.inputs[j].vout
    OBVIOUS
  <2>2. \A i, j \in S : i # j <=> i < j \/ j < i
    BY <1>1
  <2> HIDE DEF S, f
  <2> QED BY <2>1, <2>2
<1> QED BY <1>2, <1>4, <1>5, <1>6

\* What the assumption says of an object.
LEMMA ShapeFacts ==
  ASSUME NEW o \in Object, NEW t \in Ids(o)
  PROVE  /\ t # NoTx
         /\ o.txs[t].inputs \in Seq(Range(o.txs[t].inputs)) /\ o.txs[t].outputs \in Seq(Range(o.txs[t].outputs))
         /\ Len(o.txs[t].inputs) \in Nat /\ DOMAIN o.txs[t].inputs = 1..Len(o.txs[t].inputs)
         /\ \A i \in DOMAIN o.txs[t].outputs : o.txs[t].outputs[i].sats \in Nat
         /\ o.txs[t].lock \in Nat
         /\ o.txs[t].path # NoPath =>
              o.txs[t].path.height \in Heights /\ o.txs[t].path.root \in Nat \cup {NoRoot}
<1>1. Shape(o)
  BY SpvAssumption
<1>2. /\ t # NoTx
      /\ o.txs[t].inputs \in Seq(Range(o.txs[t].inputs)) /\ o.txs[t].outputs \in Seq(Range(o.txs[t].outputs))
      /\ \A i \in DOMAIN o.txs[t].outputs : o.txs[t].outputs[i].sats \in Nat
      /\ o.txs[t].lock \in Nat
      /\ o.txs[t].path # NoPath =>
           o.txs[t].path.height \in Heights /\ o.txs[t].path.root \in Nat \cup {NoRoot}
  BY <1>1 DEF Shape, Ids
<1>3. Len(o.txs[t].inputs) \in Nat /\ DOMAIN o.txs[t].inputs = 1..Len(o.txs[t].inputs)
  BY <1>2
<1> QED BY <1>2, <1>3

\* An output that can be spent has a value.
LEMMA SpentFacts ==
  ASSUME NEW o \in Object, NEW in, Spendable(o, in)
  PROVE  Spent(o, in).sats \in Nat /\ in.src \in Ids(o) /\ in.src # NoTx
BY ShapeFacts DEF Spendable, Spent

\* An input that is right stays right while the chain grows.
LEMMA SourceGrows ==
  ASSUME NEW o \in Object, NEW in, NEW a \in Int, NEW b \in Int, a <= b, SourceRight(o, in, a)
  PROVE  SourceRight(o, in, b)
<1>1. Spendable(o, in) /\ in.src \in Ids(o)
  BY DEF SourceRight, Spendable
<1>2. o.txs[in.src].path # NoPath => o.txs[in.src].path.height \in Int
  BY <1>1, ShapeFacts, SpvAssumption DEF Heights
<1> QED BY <1>1, <1>2, SpvAssumption DEF SourceRight

\* Min of the community modules, of two numbers.
LEMMA MinIs ==
  ASSUME NEW a \in Int, NEW b \in Int, NEW x \in Int
  PROVE  x <= Min({a, b}) <=> x <= a /\ x <= b
<1>1. Min({a, b}) = CHOOSE y \in {a, b} : \A z \in {a, b} : y <= z
  BY DEF Min
<1>2. \E y \in {a, b} : \A z \in {a, b} : y <= z
  OBVIOUS
<1>3. Min({a, b}) \in {a, b} /\ Min({a, b}) <= a /\ Min({a, b}) <= b
  BY <1>1, <1>2
<1> QED BY <1>3

\* So does a transaction.
LEMMA ValidGrows ==
  ASSUME NEW o \in Object, NEW t \in Ids(o), NEW finality, NEW a \in Int, NEW b \in Int, a <= b,
         Valid(o, o.txs[t], a, finality)
  PROVE  Valid(o, o.txs[t], b, finality)
<1> DEFINE tx == o.txs[t]
<1>1. \A i \in DOMAIN tx.inputs : SourceRight(o, tx.inputs[i], b)
  BY SourceGrows DEF Valid
<1>2. LockTimeThreshold - 1 \in Int /\ tx.lock \in Int
  BY ShapeFacts, SpvAssumption
<1>3. tx.lock <= Min({a, LockTimeThreshold - 1}) => tx.lock <= Min({b, LockTimeThreshold - 1})
  BY <1>2, MinIs
<1> HIDE DEF tx
<1>4. Valid(o, tx, a, finality) => Valid(o, tx, b, finality)
  BY <1>1, <1>3 DEF Valid
<1> QED BY <1>4 DEF tx

-----------------------------------------------------------------------------
(* The transactions a verdict is about *)

\* With a transaction without a path, its sources.
Closed(o, S) == S \in SUBSET Ids(o) /\ \A t \in S : o.txs[t].path = NoPath => Sources(o, t) \subseteq S

\* What is judged holds the tips and is closed, and is in every such set.
LEMMA JudgedFacts ==
  ASSUME NEW o
  PROVE  /\ Tips(o) \subseteq Judged(o, Tips(o)) /\ Closed(o, Judged(o, Tips(o)))
         /\ \A S : Closed(o, S) /\ Tips(o) \subseteq S => Judged(o, Tips(o)) \subseteq S
<1>1. Tips(o) \subseteq Ids(o) /\ \A t : Sources(o, t) \subseteq Ids(o)
  BY DEF Tips, Sources
<1>2. \A S : Closed(o, S) <=> /\ S \in SUBSET Ids(o)
                              /\ \A t \in S : o.txs[t].path = NoPath => Sources(o, t) \subseteq S
  BY DEF Closed
<1> QED BY <1>1, <1>2 DEF Judged

\* The parts of a transaction's rules that the walk finds out one by one.
PassedTx(o, cf, branches, top, t) ==
  IF o.txs[t].path = NoPath
  THEN Valid(o, o.txs[t], top, cf.finality) /\ (cf.skip \/ ScriptsRight(o, o.txs[t]))
  ELSE OnSomeBranch(branches, o.txs[t].path)

\* A transaction that passed with all it rests on.
Sound(o, cf, branches, top, t) ==
  \E S : Closed(o, S) /\ t \in S /\ \A u \in S : PassedTx(o, cf, branches, top, u)

\* A transaction below which every path is proven.
Proved(o, mined, t) ==
  \E S : Closed(o, S) /\ t \in S /\ \A u \in S : o.txs[u].path # NoPath => u \in mined

\* What is sound stays sound while the chain grows.
LEMMA SoundGrows ==
  ASSUME NEW o \in Object, NEW cf, NEW branches, NEW more, branches \subseteq more,
         NEW a \in Int, NEW b \in Int, a <= b, NEW t, Sound(o, cf, branches, a, t)
  PROVE  Sound(o, cf, more, b, t)
<1>1. PICK S : Closed(o, S) /\ t \in S /\ \A u \in S : PassedTx(o, cf, branches, a, u)
  BY DEF Sound
<1>2. ASSUME NEW u \in S PROVE PassedTx(o, cf, more, b, u)
  <2>1. u \in Ids(o) /\ PassedTx(o, cf, branches, a, u)
    BY <1>1 DEF Closed
  <2> QED BY <2>1, ValidGrows DEF PassedTx, OnSomeBranch
<1> QED BY <1>1, <1>2 DEF Sound

\* All that is judged has passed once the tips are sound.
LEMMA SoundJudged ==
  ASSUME NEW o \in Object, NEW cf, NEW branches, NEW top,
         \A t \in Tips(o) : Sound(o, cf, branches, top, t)
  PROVE  \A t \in Judged(o, Tips(o)) : PassedTx(o, cf, branches, top, t)
<1> DEFINE All == {t \in Ids(o) : Sound(o, cf, branches, top, t)}
<1>1. Closed(o, All)
  <2>1. ASSUME NEW t \in All, o.txs[t].path = NoPath, NEW u \in Sources(o, t) PROVE u \in All
    <3>1. PICK S : Closed(o, S) /\ t \in S /\ \A w \in S : PassedTx(o, cf, branches, top, w)
      BY DEF Sound
    <3>2. u \in S /\ u \in Ids(o)
      BY <2>1, <3>1 DEF Closed
    <3> QED BY <3>1, <3>2 DEF Sound
  <2> QED BY <2>1 DEF Closed
<1>2. Tips(o) \subseteq All
  BY DEF Tips
<1>3. Judged(o, Tips(o)) \subseteq All
  <2> HIDE DEF All
  <2> QED BY <1>1, <1>2, JudgedFacts
<1> QED BY <1>3 DEF Sound

\* A source of a transaction that is proved and has no path is proved.
LEMMA ProvedSource ==
  ASSUME NEW o, NEW mined, NEW t, Proved(o, mined, t)
  PROVE  /\ t \in Ids(o) /\ (o.txs[t].path # NoPath => t \in mined)
         /\ o.txs[t].path = NoPath => \A u \in Sources(o, t) : Proved(o, mined, u)
BY DEF Proved, Closed

\* What is proved stays proved.
LEMMA ProvedGrows ==
  ASSUME NEW o, NEW mined, NEW more, mined \subseteq more, NEW t, Proved(o, mined, t)
  PROVE  Proved(o, more, t)
BY DEF Proved

\* A fault of the object, as Faulty tells it.
FaultAt(o, cf, branches, tip) ==
  \/ ~o.parses \/ Ids(o) = {}
  \/ \E t \in Judged(o, Tips(o)) :
       /\ o.txs[t].path # NoPath
       /\ \/ o.txs[t].path.root = NoRoot
          \/ \E b \in branches : RootOf[b][o.txs[t].path.height] # o.txs[t].path.root
  \/ \E t \in Judged(o, Tips(o)) :
       /\ o.txs[t].path = NoPath
       /\ ~Valid(o, o.txs[t], tip, cf.finality) \/ (~cf.skip /\ ~ScriptsRight(o, o.txs[t]))

\* FaultAt is Faulty of the state.
LEMMA FaultyIs ==
  ASSUME NEW tip
  PROVE  Faulty(tip) <=> FaultAt(obj, conf, hist.branches, tip)
BY Zenon DEF Faulty, FaultAt, Unproven, Body

-----------------------------------------------------------------------------
(* The rules that are looked at before an input's script *)

\* What checkTx finds in a transaction before it asks for the tip is a fault at
\* any tip.
LEMMA StructureFaulty ==
  ASSUME NEW o \in Object, NEW t \in Ids(o), StructureFault(o.txs[t]), NEW tip, NEW finality
  PROVE  ~Valid(o, o.txs[t], tip, finality)
<1> DEFINE tx == o.txs[t]
<1> SUFFICES ASSUME Valid(o, tx, tip, finality) PROVE FALSE
  OBVIOUS
<1>1. /\ tx.inputs \in Seq(Range(tx.inputs)) /\ tx.outputs \in Seq(Range(tx.outputs))
      /\ Len(tx.inputs) \in Nat /\ DOMAIN tx.inputs = 1..Len(tx.inputs)
      /\ \A i \in DOMAIN tx.outputs : tx.outputs[i].sats \in Nat
  BY ShapeFacts, Zenon
<1> HIDE DEF tx
<1>2. \A i \in DOMAIN tx.inputs : Spendable(o, tx.inputs[i])
  BY DEF Valid, SourceRight
<1>3. \A i \in DOMAIN tx.inputs : tx.inputs[i].src # NoTx /\ Spent(o, tx.inputs[i]).sats \in Nat
  BY <1>2, SpentFacts
<1>4. ~IsCoinbase(tx)
  BY <1>1, <1>3 DEF IsCoinbase, NullOutpoint
<1>5. OutTotal(tx) # Overflow
  <2> DEFINE spends == Total(SpentValues(o, tx.inputs))
  <2>1. spends \in Nat
    <3>1. spends = SumOf(SpentValues(o, tx.inputs), DOMAIN tx.inputs)
      BY DEF Total, SumOf, SpentValues
    <3>2. \A i \in DOMAIN tx.inputs : SpentValues(o, tx.inputs)[i] \in Nat
      BY <1>3 DEF SpentValues
    <3>3. IsFiniteSet(DOMAIN tx.inputs)
      BY <1>1, FS_Interval
    <3> QED BY <3>1, <3>2, <3>3, SumNat
  <2>2. Total(Values(tx.outputs)) <= spends /\ spends <= MaxSats
    BY DEF Valid, AmountsRight
  <2>3. Total(Values(tx.outputs)) \in Nat
    BY <1>1, OutTotalIs
  <2> HIDE DEF spends
  <2>4. Total(Values(tx.outputs)) <= MaxSats
    BY <2>1, <2>2, <2>3, SpvAssumption
  <2>5. OutTotal(tx) = Total(Values(tx.outputs))
    BY <1>1, <2>4, OutTotalIs
  <2> QED BY <2>3, <2>5 DEF Overflow
<1>6. tx.inputs # <<>> /\ tx.outputs # <<>> /\ \A i \in DOMAIN tx.outputs : ~tx.outputs[i].p2sh
  BY DEF Valid
<1>7. ~\E i, j \in DOMAIN tx.inputs :
         i < j /\ tx.inputs[i].src = tx.inputs[j].src /\ tx.inputs[i].vout = tx.inputs[j].vout
  BY <1>1, DistinctIs, Zenon DEF Valid
<1>8. \A i \in DOMAIN tx.inputs : ~NullOutpoint(tx.inputs[i])
  BY <1>3 DEF NullOutpoint
<1>9. StructureFault(tx)
  BY Zenon DEF tx
<1> QED BY <1>4, <1>5, <1>6, <1>7, <1>8, <1>9 DEF StructureFault

\* A transaction through which no fault is found is valid at any tip from the
\* one it was looked at.
LEMMA NoFaultValid ==
  ASSUME NEW o \in Object, NEW t \in Ids(o), ~StructureFault(o.txs[t]), NEW tip \in Nat, NEW finality,
         \A i \in DOMAIN o.txs[t].inputs : SourceRight(o, o.txs[t].inputs[i], tip),
         AmountsRight(o, o.txs[t]), ~o.txs[t].confiscation,
         \/ finality = "ignore"
         \/ o.txs[t].lock = 0
         \/ o.txs[t].lock <= tip /\ o.txs[t].lock < LockTimeThreshold
         \/ \A i \in DOMAIN o.txs[t].inputs : o.txs[t].inputs[i].final
  PROVE  Valid(o, o.txs[t], tip, finality)
<1>1. o.txs[t].inputs \in Seq(Range(o.txs[t].inputs)) /\ o.txs[t].lock \in Nat
  BY ShapeFacts, Zenon
<1>2. ~\E i, j \in DOMAIN o.txs[t].inputs :
         /\ i < j
         /\ o.txs[t].inputs[i].src = o.txs[t].inputs[j].src /\ o.txs[t].inputs[i].vout = o.txs[t].inputs[j].vout
  BY Zenon DEF StructureFault
<1>3. Cardinality({<<o.txs[t].inputs[i].src, o.txs[t].inputs[i].vout>> : i \in DOMAIN o.txs[t].inputs})
        = Len(o.txs[t].inputs)
  BY <1>1, <1>2, DistinctIs
<1>4. /\ o.txs[t].inputs # <<>> /\ o.txs[t].outputs # <<>>
      /\ \A i \in DOMAIN o.txs[t].outputs : ~o.txs[t].outputs[i].p2sh
  BY DEF StructureFault
<1>5. \/ finality = "ignore"
      \/ o.txs[t].lock <= Min({tip, LockTimeThreshold - 1})
      \/ \A i \in DOMAIN o.txs[t].inputs : o.txs[t].inputs[i].final
  <2>1. LockTimeThreshold - 1 \in Nat
    BY SpvAssumption
  <2>2. o.txs[t].lock = 0 \/ (o.txs[t].lock <= tip /\ o.txs[t].lock < LockTimeThreshold)
          => o.txs[t].lock <= tip /\ o.txs[t].lock <= LockTimeThreshold - 1
    BY <1>1, <2>1, SpvAssumption
  <2> QED BY <1>1, <2>1, <2>2, MinIs
<1> QED BY <1>3, <1>4, <1>5 DEF Valid

-----------------------------------------------------------------------------
(* The inductive invariant *)

SoundNow(t) == Sound(obj, conf, hist.branches, chain.top, t)
PassedNow(t) == PassedTx(obj, conf, hist.branches, chain.top, t)
ProvedNow(t) == Proved(obj, v.mined, t)
Subject == Judged(obj, Tips(obj))

\* The tips at which a fault must be one, given the tip that was asked for.
TipsFor(n) == IF n = NoTip THEN Heights ELSE {n}
FaultFor(o, cf, branches, n) == \A tip \in TipsFor(n) : FaultAt(o, cf, branches, tip)
FaultFound == FaultFor(obj, conf, hist.branches, v.tip)

Walks == {"check", "final", "inputs", "scripts"}
Errs == {"none", "structure", "script", "merkle", "tracker"}

Env ==
  /\ obj \in Object /\ conf \in Conf
  /\ chain \in [branch : Branch, top : Heights, learned : Heights] /\ chain.learned <= chain.top
  /\ hist \in [branches : SUBSET Branch, start : Heights, absent : BOOLEAN]
  /\ chain.branch \in hist.branches /\ expired \in BOOLEAN
  /\ hist.absent => conf.tracker = "client"

RunType ==
  /\ v \in [pc : {"parse", "tips", "prove", "askTip", "classify", "settle", "done"} \cup Walks,
            tx : Ids(obj) \cup {NoTx}, todo : SUBSET Ids(obj), seen : SUBSET Ids(obj),
            tried : SUBSET Ids(obj), mined : SUBSET Ids(obj), tip : Int, vin : Nat, total : Int,
            scripts : Nat, failed : BOOLEAN, notYet : BOOLEAN, err : Errs]
  /\ v.tip = NoTip \/ v.tip \in 0..chain.top

\* What is taken for mined is on a chain the tracker followed.
MinedOK == \A t \in v.mined : obj.txs[t].path # NoPath /\ OnSomeBranch(hist.branches, obj.txs[t].path)

\* The tips tried before the current one are sound.  The walk that proves the
\* paths reaches what it reaches from the current tip.
Walking ==
  /\ v.pc \notin {"parse", "settle", "done"} => obj.parses /\ Ids(obj) # {}
  /\ v.pc = "parse" => v.tried = {}
  /\ v.pc = "tips" => \A t \in v.tried : SoundNow(t)
  /\ v.pc = "prove" =>
       \E t0 \in v.seen \cap Tips(obj) :
         /\ \A u \in v.seen : u = t0 \/ \E w \in v.seen : u \in Sources(obj, w)
         /\ \A t \in v.tried : t = t0 \/ SoundNow(t)
  /\ v.pc \in Walks =>
       \E t0 \in v.seen \cup v.todo : \A t \in v.tried : t = t0 \/ SoundNow(t)

\* The first walk: what it is through with is proven, or its sources are reached.
Proving ==
  v.pc = "prove" =>
    /\ v.todo \subseteq v.seen /\ v.seen \subseteq Subject
    /\ \A u \in v.seen \ v.todo : IF obj.txs[u].path = NoPath THEN Sources(obj, u) \subseteq v.seen
                                                             ELSE u \in v.mined

\* The second walk: what it is through with has passed, and its sources are
\* reached; what is left has every path below it proven.
Checking ==
  v.pc \in Walks =>
    /\ v.todo \subseteq Subject
    /\ \A u \in v.todo : ProvedNow(u)
    /\ \A u \in v.seen : /\ PassedNow(u)
                         /\ obj.txs[u].path = NoPath => Sources(obj, u) \subseteq v.seen \cup v.todo

FinalRight(o, cf, t, tip) ==
  /\ ~o.txs[t].confiscation
  /\ \/ cf.finality = "ignore" \/ o.txs[t].lock = 0
     \/ o.txs[t].lock <= tip /\ o.txs[t].lock < LockTimeThreshold
     \/ \A i \in DOMAIN o.txs[t].inputs : o.txs[t].inputs[i].final

\* The first n inputs of a transaction.
SourcesDone(o, t, n, tip) == \A i \in 1..n : SourceRight(o, o.txs[t].inputs[i], tip)
TotalDone(o, t, n) == SumOf(SpentValues(o, o.txs[t].inputs), 1..n)
ScriptsDone(o, t, n) == \A i \in 1..n : ScriptRight(o, o.txs[t].inputs[i])

\* A transaction in the middle of checkTx.
AtTx ==
  /\ v.pc \in {"final", "inputs", "scripts"} =>
       v.tx \in v.todo \ v.mined /\ ~StructureFault(obj.txs[v.tx])
  /\ v.pc \in {"inputs", "scripts"} =>
       /\ FinalRight(obj, conf, v.tx, v.tip)
       /\ v.vin \in 1..(Len(obj.txs[v.tx].inputs) + 1)
  /\ v.pc = "inputs" =>
       /\ SourcesDone(obj, v.tx, v.vin - 1, v.tip)
       /\ v.total = TotalDone(obj, v.tx, v.vin - 1) /\ v.total \in 0..MaxSats
  /\ v.pc = "scripts" =>
       /\ ~conf.skip /\ SourcesDone(obj, v.tx, Len(obj.txs[v.tx].inputs), v.tip)
       /\ AmountsRight(obj, obj.txs[v.tx]) /\ ScriptsDone(obj, v.tx, v.vin - 1)

\* A chain the tracker followed does not have the path's root.
OffBranch(o, branches, t) == \E b \in branches : RootOf[b][o.txs[t].path.height] # o.txs[t].path.root

\* Between the two questions about a path.
AskOK ==
  v.pc = "askTip" =>
    /\ v.tx \in Subject /\ obj.txs[v.tx].path # NoPath
    /\ hist.absent \/ OffBranch(obj, hist.branches, v.tx)

\* What a check that failed has found.
Found ==
  v.pc = "classify" =>
    /\ v.err # "none" /\ (v.err = "tracker" => v.failed)
    /\ v.err \in {"structure", "script"} => expired \/ FaultFound
    /\ v.err = "merkle" => v.notYet \/ hist.absent \/ FaultFound

\* What a verdict says.
Verdicts ==
  /\ v.pc \notin {"settle", "done"} => verdict.result = "none"
  /\ verdict.result \in {"none", "ok", "refused", "error"}
  /\ verdict.result = "ok" => obj.parses /\ Ids(obj) # {} /\ \A t \in Tips(obj) : SoundNow(t)
  /\ verdict.result = "refused" => \/ verdict.reason = "merkle" /\ hist.absent
                                  \/ FaultFor(obj, conf, hist.branches, verdict.tip)

\* What the feed does with it.
Sends ==
  /\ sent \in [to : {"none", "engine", "dropped"}, marker : {NoMarker, Marker(conf.key, obj)},
               engine : {"none", "ok", "refused", "failed"},
               mismatch : {"none", "bridge_ok_engine_refused", "bridge_refused_engine_ok"}]
  /\ v.pc # "done" => sent.to = "none"
  /\ sent.to = "none" => sent.marker = NoMarker /\ sent.engine = "none"
  /\ sent.engine = "none" => sent.mismatch = "none"
  /\ sent.to # "none" => conf.mode # "library"
  /\ sent.marker # NoMarker => conf.mode = "enforce" /\ verdict.result = "ok"
  /\ sent.to = "dropped" => conf.mode = "enforce" /\ verdict.result = "refused" /\ sent.marker = NoMarker
  /\ sent.mismatch = "bridge_ok_engine_refused" => verdict.result = "ok" /\ sent.engine = "refused"
  /\ sent.mismatch = "bridge_refused_engine_ok" => verdict.result = "refused" /\ sent.engine = "ok"

Inv1 == Env /\ RunType /\ MinedOK
Inv2 == Walking /\ Proving /\ Checking /\ AtTx /\ AskOK /\ Found
IInv == Inv1 /\ Inv2 /\ Verdicts /\ Sends

-----------------------------------------------------------------------------
(* What every step leaves alone *)

\* The object and the configuration stay; the chain and what is known of it grow.
Grows ==
  /\ obj' = obj /\ conf' = conf /\ Env'
  /\ chain.top <= chain'.top /\ hist.branches \subseteq hist'.branches
  /\ (expired => expired') /\ (hist.absent => hist'.absent)

\* A root is never the word that there is none: only the client hears that.
LEMMA StoreKnows ==
  ASSUME NEW t \in Ids(obj), obj.txs[t].path # NoPath, obj \in Object, hist.branches \subseteq Branch,
         NEW answer \in RootAnswers(obj.txs[t].path.height)
  PROVE  /\ answer = NotHeld => conf.tracker = "client"
         /\ answer # Fails /\ answer # NotHeld =>
              \E b \in hist.branches : answer = RootOf[b][obj.txs[t].path.height]
<1>1. obj.txs[t].path.height \in Heights
  BY ShapeFacts
<1>2. \A b \in hist.branches : RootOf[b][obj.txs[t].path.height] \in Nat
  BY <1>1, SpvAssumption
<1> QED BY <1>2 DEF RootAnswers, TrackerRoots, NotHeld, Fails

\* Every step is such a step.
LEMMA GrowsStep ==
  ASSUME Env, [Next]_vars
  PROVE  Grows
<1>1. /\ obj \in Object /\ conf \in Conf
      /\ chain \in [branch : Branch, top : Heights, learned : Heights] /\ chain.learned <= chain.top
      /\ hist \in [branches : SUBSET Branch, start : Heights, absent : BOOLEAN]
      /\ chain.branch \in hist.branches /\ expired \in BOOLEAN /\ (hist.absent => conf.tracker = "client")
      /\ Heights = 0..MaxHeight /\ MaxHeight \in Nat /\ StartHeight \in Nat
  BY SpvAssumption DEF Env, Heights
<1>2. ASSUME Extend PROVE Grows
  <2>1. PICK b \in Branch : /\ chain' = [chain EXCEPT !.branch = b, !.top = @ + 1]
                            /\ hist' = [hist EXCEPT !.branches = @ \cup {b}]
    BY <1>2 DEF Extend
  <2>2. chain.top < MaxHeight /\ obj' = obj /\ conf' = conf /\ expired' = expired
    BY <1>2 DEF Extend
  <2>4. /\ hist'.branches = hist.branches \cup {b} /\ hist'.absent = hist.absent
        /\ hist' \in [branches : SUBSET Branch, start : Heights, absent : BOOLEAN]
    BY <1>1, <2>1
  <2>5. /\ chain'.branch = b /\ chain'.top = chain.top + 1 /\ chain'.learned = chain.learned
        /\ chain' \in [branch : Branch, top : Heights, learned : Heights]
    <3>1. chain.top \in 0..MaxHeight
      BY <1>1
    <3>2. chain.top + 1 \in Heights
      BY <1>1, <2>2, <3>1
    <3> QED BY <1>1, <2>1, <3>2
  <2>6. (hist.absent => hist'.absent) /\ (hist'.absent => conf.tracker = "client")
    BY <1>1, <2>4, Zenon
  <2> QED BY <1>1, <2>2, <2>4, <2>5, <2>6 DEF Grows, Env
<1>3. ASSUME Learn PROVE Grows
  <2>1. PICK h \in (StartHeight + 1)..chain.top : h > chain.learned /\ chain' = [chain EXCEPT !.learned = h]
    BY <1>3 DEF Learn
  <2>2. hist' = hist /\ obj' = obj /\ conf' = conf /\ expired' = expired
    BY <1>3 DEF Learn
  <2>5. /\ chain'.branch = chain.branch /\ chain'.top = chain.top /\ chain'.learned = h
        /\ chain' \in [branch : Branch, top : Heights, learned : Heights]
    <3>1. chain.top \in 0..MaxHeight
      BY <1>1
    <3>2. h \in Heights
      BY <1>1, <2>1, <3>1
    <3> QED BY <1>1, <2>1, <3>2
  <2> QED BY <1>1, <2>1, <2>2, <2>5 DEF Grows, Env
<1>4. ASSUME obj' = obj, conf' = conf, chain' = chain, expired' = expired \/ expired' = TRUE, hist' = hist
      PROVE  Grows
  <2>1. expired' \in BOOLEAN /\ (expired => expired')
    BY <1>1, <1>4, Zenon
  <2>2. chain.top <= chain'.top
    BY <1>1, <1>4
  <2> QED BY <1>1, <1>4, <2>1, <2>2 DEF Grows, Env
<1>6. ASSUME NEW t \in Ids(obj), ProveRoot(t) PROVE Grows
  <2>1. PICK answer \in RootAnswers(obj.txs[t].path.height) : hist' = [hist EXCEPT !.absent = @ \/ answer = NotHeld]
    BY <1>6 DEF ProveRoot, Body
  <2>2. obj' = obj /\ conf' = conf /\ chain' = chain /\ expired' = expired /\ obj.txs[t].path # NoPath
    BY <1>6 DEF ProveRoot, Body
  <2>3. answer = NotHeld => conf.tracker = "client"
    BY <1>1, <2>2, StoreKnows
  <2>4. (hist.absent \/ answer = NotHeld) \in BOOLEAN
    BY <1>1
  <2>5. /\ hist'.branches = hist.branches /\ hist'.absent = (hist.absent \/ answer = NotHeld)
        /\ hist' \in [branches : SUBSET Branch, start : Heights, absent : BOOLEAN]
    BY <1>1, <2>1, <2>4
  <2>6. (hist.absent => hist'.absent) /\ (hist'.absent => conf.tracker = "client")
    BY <1>1, <2>3, <2>5, Zenon
  <2>7. chain.top <= chain'.top
    BY <1>1, <2>2
  <2> QED BY <1>1, <2>2, <2>5, <2>6, <2>7 DEF Grows, Env
<1>8. ASSUME Verify, ~\E t \in Ids(obj) : ProveRoot(t)
      PROVE  obj' = obj /\ conf' = conf /\ chain' = chain /\ expired' = expired /\ hist' = hist
  BY <1>8 DEF Verify, Walk, ParseRefused, Parse, AllPassed, NextTip, ProveLinks, ProveBroken, AskTip, CheckMined,
       CheckStructure, Proven, ChainTip, CheckFinal, CheckInput, CheckAmounts, RunScript, ScriptCut,
       ScriptsPassed, TipChecked, Classify, Step, Fail, End
<1>9. ASSUME Settle \/ EngineAnswers \/ Expire \/ UNCHANGED vars PROVE Grows
  BY <1>4, <1>9 DEF Settle, EngineAnswers, Expire, vars
<1> QED BY <1>2, <1>3, <1>4, <1>6, <1>8, <1>9 DEF Next

\* So what is sound, what passed and what is a fault stays so.
LEMMA GrowsKeeps ==
  ASSUME Env, Grows
  PROVE  /\ \A t : SoundNow(t) => SoundNow(t)'
         /\ \A t \in Ids(obj) : PassedNow(t) => PassedNow(t)'
         /\ \A n : FaultFor(obj, conf, hist.branches, n) => FaultFor(obj, conf, hist'.branches, n)
         /\ \A t : OffBranch(obj, hist.branches, t) => OffBranch(obj, hist'.branches, t)
<1>1. chain.top \in Int /\ chain'.top \in Int /\ chain.top <= chain'.top /\ obj \in Object
  BY SpvAssumption DEF Env, Grows, Heights
<1>2. obj' = obj /\ conf' = conf /\ hist.branches \subseteq hist'.branches
  BY DEF Grows
<1>3. ASSUME NEW t, SoundNow(t) PROVE SoundNow(t)'
  BY <1>1, <1>2, <1>3, SoundGrows DEF SoundNow
<1>4. ASSUME NEW t \in Ids(obj), PassedNow(t) PROVE PassedNow(t)'
  BY <1>1, <1>2, <1>4, ValidGrows DEF PassedNow, PassedTx, OnSomeBranch
<1>5. ASSUME NEW tip, FaultAt(obj, conf, hist.branches, tip) PROVE FaultAt(obj, conf, hist'.branches, tip)
  BY <1>2, <1>5 DEF FaultAt
<1>6. \A t : OffBranch(obj, hist.branches, t) => OffBranch(obj, hist'.branches, t)
  BY <1>2 DEF OffBranch
<1>7. \A n : FaultFor(obj, conf, hist.branches, n) => FaultFor(obj, conf, hist'.branches, n)
  BY <1>5 DEF FaultFor
<1> QED BY <1>3, <1>4, <1>6, <1>7

\* The verdict's and the feed's part, in a step that touches neither.
LEMMA QuietVerdict ==
  ASSUME IInv, Grows, verdict' = verdict, sent' = sent, v'.pc = "done" <=> v.pc = "done",
         v'.pc \in {"settle", "done"} <=> v.pc \in {"settle", "done"}
  PROVE  Verdicts' /\ Sends'
<1>1. obj' = obj /\ conf' = conf /\ (hist.absent => hist'.absent)
  BY DEF Grows
<1>2. /\ \A t : SoundNow(t) => SoundNow(t)'
      /\ \A n : FaultFor(obj, conf, hist.branches, n) => FaultFor(obj, conf, hist'.branches, n)
  BY GrowsKeeps DEF IInv, Inv1
<1>3. Verdicts'
  BY <1>1, <1>2 DEF IInv, Verdicts
<1>4. Sends'
  BY <1>1 DEF IInv, Sends, Marker
<1> QED BY <1>3, <1>4

\* The chain moves, or the deadline passes.
LEMMA OutsideStep ==
  ASSUME IInv, Grows, Extend \/ Learn \/ Expire \/ UNCHANGED vars
  PROVE  IInv'
<1>1. v' = v /\ verdict' = verdict /\ sent' = sent /\ obj' = obj /\ conf' = conf
  BY DEF Extend, Learn, Expire, vars
<1>2. Verdicts' /\ Sends'
  BY <1>1, QuietVerdict
<1>3. /\ \A t : SoundNow(t) => SoundNow(t)'
      /\ \A t \in Ids(obj) : PassedNow(t) => PassedNow(t)'
      /\ \A n : FaultFor(obj, conf, hist.branches, n) => FaultFor(obj, conf, hist'.branches, n)
      /\ \A t : OffBranch(obj, hist.branches, t) => OffBranch(obj, hist'.branches, t)
  BY GrowsKeeps DEF IInv, Inv1
<1>4. /\ Env' /\ chain.top \in Int /\ chain'.top \in Int /\ chain.top <= chain'.top
      /\ hist.branches \subseteq hist'.branches /\ (expired => expired') /\ (hist.absent => hist'.absent)
  BY SpvAssumption DEF Grows, IInv, Inv1, Env, Heights
<1>5. RunType' /\ MinedOK'
  <2>1. RunType'
    BY <1>1, <1>4 DEF IInv, Inv1, RunType
  <2>2. MinedOK'
    BY <1>1, <1>4 DEF IInv, Inv1, MinedOK, OnSomeBranch
  <2> QED BY <2>1, <2>2
<1>6. Walking'
  BY <1>1, <1>3 DEF IInv, Inv2, Walking
<1>7. Proving'
  BY <1>1 DEF IInv, Inv2, Proving, Subject
<1>8. Checking'
  <2>1. v.seen \subseteq Ids(obj)
    BY DEF IInv, Inv1, RunType
  <2>2. \A u : ProvedNow(u)' <=> ProvedNow(u)
    BY <1>1 DEF ProvedNow
  <2> QED BY <1>1, <1>3, <2>1, <2>2 DEF IInv, Inv2, Checking, Subject
<1>9. AtTx'
  BY <1>1 DEF IInv, Inv2, AtTx
<1>10. AskOK'
  BY <1>1, <1>3, <1>4 DEF IInv, Inv2, AskOK, Subject
<1>11. Found'
  BY <1>1, <1>3, <1>4 DEF IInv, Inv2, Found, FaultFound
<1> QED BY <1>2, <1>4, <1>5, <1>6, <1>7, <1>8, <1>9, <1>10, <1>11 DEF IInv, Inv1, Inv2

\* A check fails: what it found is what counts.
LEMMA FailStep ==
  ASSUME IInv, Grows, RunType', v.pc \notin {"parse", "settle", "done"}, v'.pc = "classify",
         v'.mined = v.mined, verdict' = verdict, sent' = sent,
         v'.err # "none", v'.err = "tracker" => v'.failed,
         v'.err \in {"structure", "script"} => expired' \/ FaultFound',
         v'.err = "merkle" => v'.notYet \/ hist'.absent \/ FaultFound'
  PROVE  IInv'
<1>1. obj' = obj /\ Env' /\ hist.branches \subseteq hist'.branches
  BY DEF Grows
<1>2. Verdicts' /\ Sends'
  BY QuietVerdict
<1>3. MinedOK'
  BY <1>1 DEF IInv, Inv1, MinedOK, OnSomeBranch
<1>4. Walking'
  BY <1>1 DEF IInv, Inv2, Walking, Walks
<1>5. Proving' /\ Checking' /\ AtTx' /\ AskOK'
  BY DEF Proving, Checking, AtTx, AskOK, Walks
<1>6. Found'
  BY DEF Found
<1> QED BY <1>1, <1>2, <1>3, <1>4, <1>5, <1>6 DEF IInv, Inv1, Inv2

\* A verdict is given.
LEMMA EndStep ==
  ASSUME IInv, Grows, NEW result \in {"ok", "refused", "error"}, NEW reason, End(result, reason),
         v.pc \notin {"settle", "done"},
         result = "ok" => obj.parses /\ Ids(obj) # {} /\ \A t \in Tips(obj) : SoundNow(t),
         result = "refused" => (reason = "merkle" /\ hist.absent) \/ FaultFound
  PROVE  IInv'
<1>1. /\ obj' = obj /\ conf' = conf /\ chain' = chain /\ expired' = expired /\ sent' = sent /\ hist' = hist
      /\ v' = [NewRun EXCEPT !.pc = "settle"] /\ verdict'.result = result /\ verdict'.tip = v.tip
      /\ verdict'.reason = reason
  BY DEF End, VerdictIs
<1>2. v'.pc = "settle" /\ RunType' /\ v'.mined = {}
  <2>1. v' = [pc |-> "settle", tx |-> NoTx, todo |-> {}, seen |-> {}, tried |-> {}, mined |-> {},
              tip |-> NoTip, vin |-> 0, total |-> 0, scripts |-> 0,
              failed |-> FALSE, notYet |-> FALSE, err |-> "none"]
    BY <1>1 DEF NewRun
  <2>2. NoTip \in Int
    BY DEF NoTip
  <2> QED BY <2>1, <2>2 DEF RunType, Errs
<1>3. Env' /\ MinedOK'
  BY <1>1, <1>2 DEF Grows, MinedOK
<1>4. Walking' /\ Proving' /\ Checking' /\ AtTx' /\ AskOK' /\ Found'
  BY <1>2 DEF Walking, Proving, Checking, AtTx, AskOK, Found, Walks
<1>5. Verdicts'
  <2>1. \A t : SoundNow(t)' <=> SoundNow(t)
    BY <1>1 DEF SoundNow
  <2> QED BY <1>1, <1>2, <2>1 DEF Verdicts, FaultFound
<1>6. Sends'
  <2>1. verdict.result = "none" /\ v.pc # "done"
    BY DEF IInv, Verdicts
  <2>2. sent.to = "none" /\ sent.marker = NoMarker /\ sent.engine = "none" /\ sent.mismatch = "none"
    BY <2>1 DEF IInv, Sends
  <2> QED BY <1>1, <1>2, <2>2 DEF IInv, Sends, Marker
<1> QED BY <1>2, <1>3, <1>4, <1>5, <1>6 DEF IInv, Inv1, Inv2

-----------------------------------------------------------------------------
(* The steps of the first walk *)

\* A step that changes nothing but the verification.
LEMMA SameFacts ==
  ASSUME NEW w, Step(w)
  PROVE  /\ v' = w /\ obj' = obj /\ conf' = conf /\ chain' = chain /\ expired' = expired
         /\ verdict' = verdict /\ sent' = sent /\ hist' = hist
         /\ \A t : (SoundNow(t)' <=> SoundNow(t)) /\ (PassedNow(t)' <=> PassedNow(t))
         /\ Subject' = Subject
BY DEF Step, SoundNow, PassedNow, Subject

\* The verdict's part needs no thought while the verification goes on.
LEMMA QuietStep ==
  ASSUME IInv, Grows, verdict' = verdict, sent' = sent,
         v.pc \notin {"settle", "done"}, v'.pc \notin {"settle", "done"},
         RunType', MinedOK', Inv2'
  PROVE  IInv'
<1>1. Verdicts' /\ Sends'
  BY QuietVerdict
<1> QED BY <1>1 DEF Grows, IInv, Inv1

\* The type of the verification, field by field.
LEMMA RunFields ==
  ASSUME IInv
  PROVE  /\ v.tx \in Ids(obj) \cup {NoTx} /\ v.todo \subseteq Ids(obj) /\ v.seen \subseteq Ids(obj)
         /\ v.tried \subseteq Ids(obj) /\ v.mined \subseteq Ids(obj) /\ v.tip \in Int /\ v.vin \in Nat
         /\ v.total \in Int /\ v.scripts \in Nat /\ (v.tip = NoTip \/ v.tip \in 0..chain.top)
         /\ obj \in Object /\ conf \in Conf /\ chain.top \in Nat /\ chain.top \in Heights
         /\ chain.learned \in Nat /\ chain.learned <= chain.top /\ chain.branch \in Branch
         /\ chain.branch \in hist.branches /\ \A t : Sources(obj, t) \subseteq Ids(obj)
         /\ Subject \subseteq Ids(obj) /\ Tips(obj) \subseteq Subject
         /\ \A t \in Subject : obj.txs[t].path = NoPath => Sources(obj, t) \subseteq Subject
<1>1. Heights = 0..MaxHeight /\ MaxHeight \in Nat
  BY SpvAssumption DEF Heights
<1>2. /\ chain.top \in Heights /\ chain.learned \in Heights /\ chain.learned <= chain.top
      /\ chain.branch \in Branch /\ chain.branch \in hist.branches /\ obj \in Object /\ conf \in Conf
  BY DEF IInv, Inv1, Env
<1>3. chain.top \in Nat /\ chain.learned \in Nat
  BY <1>1, <1>2
<1>4. /\ v.tx \in Ids(obj) \cup {NoTx} /\ v.todo \subseteq Ids(obj) /\ v.seen \subseteq Ids(obj)
      /\ v.tried \subseteq Ids(obj) /\ v.mined \subseteq Ids(obj) /\ v.tip \in Int /\ v.vin \in Nat
      /\ v.total \in Int /\ v.scripts \in Nat /\ (v.tip = NoTip \/ v.tip \in 0..chain.top)
  BY DEF IInv, Inv1, RunType
<1>5. \A t : Sources(obj, t) \subseteq Ids(obj)
  BY DEF Sources
<1>6. /\ Subject \subseteq Ids(obj) /\ Tips(obj) \subseteq Subject
      /\ \A t \in Subject : obj.txs[t].path = NoPath => Sources(obj, t) \subseteq Subject
  BY JudgedFacts DEF Subject, Closed
<1> QED BY <1>2, <1>3, <1>4, <1>5, <1>6

\* verify: the object parses.
LEMMA ParseStep ==
  ASSUME IInv, Grows, Parse
  PROVE  IInv'
<1>1. Step([v EXCEPT !.pc = "tips"]) /\ v.pc = "parse" /\ obj.parses /\ Ids(obj) # {}
  BY DEF Parse
<1>2. /\ v' = [v EXCEPT !.pc = "tips"] /\ obj' = obj /\ chain' = chain
      /\ verdict' = verdict /\ sent' = sent /\ hist' = hist
  BY <1>1, SameFacts
<1>3. v'.pc = "tips" /\ v'.tried = {} /\ v'.mined = v.mined /\ RunType'
  BY <1>1, <1>2 DEF IInv, Inv1, Inv2, RunType, Walking
<1>4. MinedOK'
  BY <1>2, <1>3 DEF IInv, Inv1, MinedOK
<1>5. Inv2'
  BY <1>1, <1>2, <1>3 DEF Inv2, Walking, Proving, Checking, AtTx, AskOK, Found, Walks
<1> QED BY <1>1, <1>2, <1>3, <1>4, <1>5, QuietStep

\* graph.check: another tip.
LEMMA NextTipStep ==
  ASSUME IInv, Grows, NEW t \in Ids(obj), NextTip(t)
  PROVE  IInv'
<1> DEFINE w == [v EXCEPT !.pc = "prove", !.tried = @ \cup {t}, !.todo = {t}, !.seen = {t}]
<1>1. Step(w) /\ v.pc = "tips" /\ t \in Tips(obj)
  BY DEF NextTip
<1>2. /\ v' = w /\ obj' = obj /\ chain' = chain /\ verdict' = verdict /\ sent' = sent /\ hist' = hist
      /\ Subject' = Subject /\ \A u : SoundNow(u)' <=> SoundNow(u)
  BY <1>1, SameFacts
<1>3. /\ v'.pc = "prove" /\ v'.tried = v.tried \cup {t} /\ v'.todo = {t} /\ v'.seen = {t}
      /\ v'.mined = v.mined /\ RunType'
  BY <1>1, <1>2 DEF IInv, Inv1, RunType
<1>4. MinedOK'
  BY <1>2, <1>3 DEF IInv, Inv1, MinedOK
<1>5. Walking'
  BY <1>1, <1>2, <1>3 DEF IInv, Inv2, Walking, Walks
<1>6. Proving'
  BY <1>1, <1>2, <1>3, RunFields DEF Proving
<1>7. Checking' /\ AtTx' /\ AskOK' /\ Found'
  BY <1>3 DEF Checking, AtTx, AskOK, Found, Walks
<1> QED BY <1>1, <1>2, <1>3, <1>4, <1>5, <1>6, <1>7, QuietStep DEF Inv2

\* proveMined: a transaction without a path.
LEMMA ProveLinksStep ==
  ASSUME IInv, Grows, NEW t \in Ids(obj), ProveLinks(t)
  PROVE  IInv'
<1> DEFINE new == Sources(obj, t) \ v.seen
           w == [v EXCEPT !.todo = (@ \ {t}) \cup new, !.seen = @ \cup new]
<1>1. Step(w) /\ v.pc = "prove" /\ t \in v.todo /\ obj.txs[t].path = NoPath
  BY DEF ProveLinks, Body
<1>2. /\ v' = w /\ obj' = obj /\ chain' = chain /\ verdict' = verdict /\ sent' = sent /\ hist' = hist
      /\ Subject' = Subject /\ \A u : SoundNow(u)' <=> SoundNow(u)
  BY <1>1, SameFacts
<1>3. new \subseteq Ids(obj)
  BY RunFields
<1> HIDE DEF new
<1>4. /\ v'.pc = "prove" /\ v'.tried = v.tried /\ v'.todo = (v.todo \ {t}) \cup new
      /\ v'.seen = v.seen \cup new /\ v'.mined = v.mined /\ RunType'
  BY <1>1, <1>2, <1>3 DEF IInv, Inv1, RunType
<1>5. MinedOK'
  BY <1>2, <1>4 DEF IInv, Inv1, MinedOK
<1>6. /\ v.todo \subseteq v.seen /\ v.seen \subseteq Subject
      /\ \A u \in v.seen \ v.todo : IF obj.txs[u].path = NoPath THEN Sources(obj, u) \subseteq v.seen
                                                               ELSE u \in v.mined
  BY <1>1 DEF IInv, Inv2, Proving
<1>7. Walking'
  <2>1. PICK t0 \in v.seen \cap Tips(obj) :
               /\ \A u \in v.seen : u = t0 \/ \E x \in v.seen : u \in Sources(obj, x)
               /\ \A u \in v.tried : u = t0 \/ SoundNow(u)
    BY <1>1 DEF IInv, Inv2, Walking
  <2>2. \A u \in v'.seen : u = t0 \/ \E x \in v'.seen : u \in Sources(obj, x)
    BY <1>1, <1>4, <1>6, <2>1 DEF new
  <2>3. obj.parses /\ Ids(obj) # {}
    BY <1>1 DEF IInv, Inv2, Walking
  <2> QED BY <1>2, <1>4, <2>1, <2>2, <2>3 DEF Walking, Walks
<1>8. Proving'
  <2>1. v'.todo \subseteq v'.seen
    BY <1>4, <1>6
  <2>2. v'.seen \subseteq Subject
    BY <1>1, <1>4, <1>6, RunFields DEF new
  <2>3. ASSUME NEW u \in v'.seen \ v'.todo
        PROVE  IF obj.txs[u].path = NoPath THEN Sources(obj, u) \subseteq v'.seen ELSE u \in v'.mined
    <3>1. CASE u = t
      BY <1>1, <1>4, <3>1 DEF new
    <3>2. CASE u # t
      BY <1>4, <1>6, <2>3, <3>2
    <3> QED BY <3>1, <3>2
  <2> QED BY <1>2, <2>1, <2>2, <2>3 DEF Proving
<1>9. Checking' /\ AtTx' /\ AskOK' /\ Found'
  BY <1>4 DEF Checking, AtTx, AskOK, Found, Walks
<1> QED BY <1>1, <1>2, <1>4, <1>5, <1>7, <1>8, <1>9, QuietStep DEF Inv2

\* A path on which the object fails, whatever the tip.
LEMMA PathFault ==
  ASSUME NEW o, NEW cf, NEW branches, NEW n, NEW t \in Judged(o, Tips(o)), o.txs[t].path # NoPath,
         o.txs[t].path.root = NoRoot \/ OffBranch(o, branches, t)
  PROVE  FaultFor(o, cf, branches, n)
BY DEF FaultFor, FaultAt, OffBranch

\* proveMined: a path that computes no root.
LEMMA ProveBrokenStep ==
  ASSUME IInv, Grows, NEW t \in Ids(obj), ProveBroken(t)
  PROVE  IInv'
<1> DEFINE w == [v EXCEPT !.pc = "classify", !.err = "structure"]
<1>1. Step(w) /\ v.pc = "prove" /\ t \in v.todo /\ obj.txs[t].path # NoPath /\ obj.txs[t].path.root = NoRoot
  BY DEF ProveBroken, Fail, Body
<1>2. /\ v' = w /\ obj' = obj /\ conf' = conf /\ chain' = chain /\ verdict' = verdict /\ sent' = sent /\ hist' = hist
  BY <1>1, SameFacts
<1>3. /\ v'.pc = "classify" /\ v'.err = "structure" /\ v'.mined = v.mined /\ v'.tip = v.tip /\ RunType'
  BY <1>1, <1>2 DEF IInv, Inv1, RunType, Errs
<1>4. t \in Judged(obj, Tips(obj))
  BY <1>1 DEF IInv, Inv2, Proving, Subject
<1>5. FaultFound'
  BY <1>1, <1>2, <1>3, <1>4, PathFault DEF FaultFound
<1> QED BY <1>1, <1>2, <1>3, <1>5, FailStep

\* proveMined: the tracker is asked for the root.
LEMMA ProveRootStep ==
  ASSUME IInv, Grows, NEW t \in Ids(obj), ProveRoot(t)
  PROVE  IInv'
<1> DEFINE path == obj.txs[t].path
<1>1. v.pc = "prove" /\ t \in v.todo /\ path # NoPath /\ path.root # NoRoot
  BY DEF ProveRoot, Body
<1>2. PICK answer \in RootAnswers(path.height) :
        /\ v' = CASE answer = Fails -> [v EXCEPT !.failed = TRUE, !.pc = "classify", !.err = "tracker"]
                  [] answer = path.root -> [v EXCEPT !.todo = @ \ {t}, !.mined = @ \cup {t}]
                  [] OTHER -> [v EXCEPT !.pc = "askTip", !.tx = t]
        /\ hist' = [hist EXCEPT !.absent = @ \/ answer = NotHeld]
  BY DEF ProveRoot, Body
<1>3. obj' = obj /\ conf' = conf /\ chain' = chain /\ expired' = expired /\ verdict' = verdict /\ sent' = sent
  BY DEF ProveRoot
<1>4. path.height \in Heights /\ path.root \in Nat /\ path.height \in Int
  BY <1>1, ShapeFacts, RunFields, SpvAssumption DEF Heights
<1>5. answer # Fails /\ answer # NotHeld => \E b \in hist.branches : answer = RootOf[b][path.height]
  BY <1>1, <1>2, RunFields, StoreKnows DEF IInv, Inv1, Env
<1>6. /\ v.todo \subseteq v.seen /\ v.seen \subseteq Subject
      /\ \A u \in v.seen \ v.todo : IF obj.txs[u].path = NoPath THEN Sources(obj, u) \subseteq v.seen
                                                               ELSE u \in v.mined
  BY <1>1 DEF IInv, Inv2, Proving
<1>7. Subject' = Subject /\ obj.parses /\ Ids(obj) # {}
  BY <1>1, <1>3 DEF Subject, IInv, Inv2, Walking
<1>8. hist.branches \subseteq hist'.branches /\ \A u : SoundNow(u) => SoundNow(u)'
  BY GrowsKeeps DEF Grows, IInv, Inv1
<1>9. CASE answer = Fails
  <2>1. v' = [v EXCEPT !.failed = TRUE, !.pc = "classify", !.err = "tracker"]
    BY <1>2, <1>4, <1>9 DEF Fails
  <2>2. /\ v'.pc = "classify" /\ v'.err = "tracker" /\ v'.failed /\ v'.mined = v.mined /\ RunType'
    BY <1>3, <2>1 DEF IInv, Inv1, RunType, Errs
  <2> QED BY <1>1, <1>3, <2>2, FailStep
<1>10. CASE answer # Fails /\ answer = path.root
  <2>1. v' = [v EXCEPT !.todo = @ \ {t}, !.mined = @ \cup {t}]
    BY <1>2, <1>10
  <2>2. /\ v'.pc = "prove" /\ v'.tried = v.tried /\ v'.todo = v.todo \ {t} /\ v'.seen = v.seen
        /\ v'.mined = v.mined \cup {t} /\ RunType'
    BY <1>1, <1>3, <2>1 DEF IInv, Inv1, RunType
  <2>3. answer # NotHeld
    BY <1>4, <1>10 DEF NotHeld
  <2>4. OnSomeBranch(hist.branches, path)
    BY <1>5, <1>10, <2>3 DEF OnSomeBranch
  <2>5. MinedOK'
    <3> HIDE DEF path
    <3>1. ASSUME NEW u \in v'.mined PROVE obj.txs[u].path # NoPath /\ OnSomeBranch(hist.branches, obj.txs[u].path)
      BY <1>1, <2>2, <2>4 DEF IInv, Inv1, MinedOK, path
    <3>2. ASSUME NEW u \in v'.mined PROVE OnSomeBranch(hist'.branches, obj.txs[u].path)
      BY <3>1, <1>8 DEF OnSomeBranch
    <3> QED BY <1>3, <3>1, <3>2 DEF MinedOK
  <2>6. Walking'
    <3>1. PICK t0 \in v.seen \cap Tips(obj) :
                 /\ \A u \in v.seen : u = t0 \/ \E x \in v.seen : u \in Sources(obj, x)
                 /\ \A u \in v.tried : u = t0 \/ SoundNow(u)
      BY <1>1 DEF IInv, Inv2, Walking
    <3> QED BY <1>3, <1>7, <1>8, <2>2, <3>1 DEF Walking, Walks
  <2>7. Proving'
    <3>1. ASSUME NEW u \in v'.seen \ v'.todo
          PROVE  IF obj.txs[u].path = NoPath THEN Sources(obj, u) \subseteq v'.seen ELSE u \in v'.mined
      <4>1. CASE u = t
        BY <1>1, <2>2, <4>1
      <4>2. CASE u # t
        BY <1>6, <2>2, <3>1, <4>2
      <4> QED BY <4>1, <4>2
    <3> QED BY <1>3, <1>6, <1>7, <2>2, <3>1 DEF Proving
  <2>8. Checking' /\ AtTx' /\ AskOK' /\ Found'
    BY <2>2 DEF Checking, AtTx, AskOK, Found, Walks
  <2> QED BY <1>1, <1>3, <2>2, <2>5, <2>6, <2>7, <2>8, QuietStep DEF Inv2
<1>11. CASE answer # Fails /\ answer # path.root
  <2>1. v' = [v EXCEPT !.pc = "askTip", !.tx = t]
    BY <1>2, <1>11
  <2>2. /\ v'.pc = "askTip" /\ v'.tx = t /\ v'.tried = v.tried /\ v'.mined = v.mined /\ RunType'
    BY <1>1, <1>3, <2>1 DEF IInv, Inv1, RunType
  <2>3. MinedOK'
    BY <1>3, <1>8, <2>2 DEF IInv, Inv1, MinedOK, OnSomeBranch
  <2>4. hist'.absent \/ OffBranch(obj, hist'.branches, t)
    <3>1. CASE answer = NotHeld
      <4>1. (hist.absent \/ answer = NotHeld) = TRUE
        BY <3>1
      <4>2. hist'.absent = TRUE
        BY <1>2, <4>1 DEF IInv, Inv1, Env
      <4> QED BY <4>2
    <3>2. CASE answer # NotHeld
      BY <1>5, <1>8, <1>11, <3>2 DEF OffBranch
    <3> QED BY <3>1, <3>2
  <2>5. AskOK'
    BY <1>1, <1>3, <1>6, <1>7, <2>2, <2>4 DEF AskOK
  <2>6. Walking' /\ Proving' /\ Checking' /\ AtTx' /\ Found'
    BY <1>3, <1>7, <2>2 DEF Walking, Proving, Checking, AtTx, Found, Walks
  <2> QED BY <1>1, <1>3, <2>2, <2>3, <2>5, <2>6, QuietStep DEF Inv2
<1> QED BY <1>9, <1>10, <1>11

\* watchTracker: the second question about a path.
LEMMA AskTipStep ==
  ASSUME IInv, Grows, AskTip
  PROVE  IInv'
<1> DEFINE path == obj.txs[v.tx].path
<1>1. v.pc = "askTip"
  BY DEF AskTip
<1>2. PICK answer \in HeightAnswers :
        v' = [v EXCEPT !.pc = "classify", !.err = "merkle", !.notYet = answer # Fails /\ path.height > answer]
  BY DEF AskTip, Body
<1>3. /\ obj' = obj /\ conf' = conf /\ chain' = chain /\ expired' = expired /\ verdict' = verdict /\ sent' = sent
      /\ hist' = hist
  BY DEF AskTip
<1>4. v.tx \in Subject /\ path # NoPath /\ (hist.absent \/ OffBranch(obj, hist.branches, v.tx))
  BY <1>1 DEF IInv, Inv2, AskOK
<1>5. (answer # Fails /\ path.height > answer) \in BOOLEAN
  OBVIOUS
<1>6. v'.pc = "classify" /\ v'.err = "merkle" /\ v'.mined = v.mined /\ v'.tip = v.tip /\ RunType'
  BY <1>2, <1>3, <1>5 DEF IInv, Inv1, RunType, Errs
<1>7. ASSUME OffBranch(obj, hist.branches, v.tx) PROVE FaultFor(obj, conf, hist.branches, v.tip)
  BY <1>4, <1>7, PathFault DEF Subject
<1>8. hist'.absent \/ FaultFound'
  BY <1>3, <1>4, <1>6, <1>7, Zenon DEF FaultFound
<1> HIDE DEF path
<1> QED BY <1>1, <1>3, <1>6, <1>8, FailStep

\* proveMined ends: every path below the tip is proven.
LEMMA ProvenStep ==
  ASSUME IInv, Grows, Proven
  PROVE  IInv'
<1>1. v.pc = "prove" /\ v.todo = {}
  BY DEF Proven
<1>2. PICK t \in v.seen : /\ \A u \in v.seen : t \notin Sources(obj, u)
                          /\ Step([v EXCEPT !.pc = "check", !.todo = {t}, !.seen = {}])
  BY DEF Proven
<1> DEFINE w == [v EXCEPT !.pc = "check", !.todo = {t}, !.seen = {}]
<1>3. /\ v' = w /\ obj' = obj /\ chain' = chain /\ verdict' = verdict /\ sent' = sent /\ hist' = hist
      /\ Subject' = Subject /\ \A u : SoundNow(u)' <=> SoundNow(u)
  BY <1>2, SameFacts
<1>4. t \in Ids(obj)
  BY RunFields
<1>5. /\ v'.pc = "check" /\ v'.tried = v.tried /\ v'.todo = {t} /\ v'.seen = {}
      /\ v'.mined = v.mined /\ RunType'
  BY <1>1, <1>3, <1>4 DEF IInv, Inv1, RunType, Walks
<1>6. MinedOK'
  BY <1>3, <1>5 DEF IInv, Inv1, MinedOK
<1>7. /\ v.seen \subseteq Subject /\ obj.parses /\ Ids(obj) # {}
      /\ \A u \in v.seen : IF obj.txs[u].path = NoPath THEN Sources(obj, u) \subseteq v.seen ELSE u \in v.mined
  BY <1>1 DEF IInv, Inv2, Proving, Walking
<1>8. Walking'
  <2>1. PICK t0 \in v.seen \cap Tips(obj) :
               /\ \A u \in v.seen : u = t0 \/ \E x \in v.seen : u \in Sources(obj, x)
               /\ \A u \in v.tried : u = t0 \/ SoundNow(u)
    BY <1>1 DEF IInv, Inv2, Walking
  <2>2. t0 = t
    BY <1>2, <2>1
  <2> QED BY <1>3, <1>5, <1>7, <2>1, <2>2 DEF Walking, Walks
<1>9. Checking'
  <2>1. Closed(obj, v.seen)
    BY <1>7, RunFields DEF Closed
  <2>2. \A u \in v.seen : obj.txs[u].path # NoPath => u \in v.mined
    BY <1>7
  <2>3. Proved(obj, v.mined, t)
    BY <2>1, <2>2 DEF Proved
  <2> QED BY <1>3, <1>5, <1>7, <2>3 DEF Checking, ProvedNow
<1>10. Proving' /\ AtTx' /\ AskOK' /\ Found'
  BY <1>5 DEF Proving, AtTx, AskOK, Found
<1> QED BY <1>1, <1>3, <1>5, <1>6, <1>8, <1>9, <1>10, QuietStep DEF Inv2

-----------------------------------------------------------------------------
(* The steps of the second walk *)

\* A transaction left to check: it is judged, and has a path exactly if it is
\* taken for mined.  So it is with its sources if it has none.
LEMMA TodoFacts ==
  ASSUME IInv, v.pc \in Walks, NEW t \in v.todo
  PROVE  /\ t \in Subject /\ t \in Ids(obj) /\ (obj.txs[t].path # NoPath <=> t \in v.mined)
         /\ t \notin v.mined =>
              \A u \in Sources(obj, t) : ProvedNow(u) /\ (obj.txs[u].path # NoPath <=> u \in v.mined)
<1>1. t \in Subject /\ Proved(obj, v.mined, t)
  BY DEF IInv, Inv2, Checking, ProvedNow
<1>2. \A u : Proved(obj, v.mined, u) => (obj.txs[u].path # NoPath <=> u \in v.mined)
  BY ProvedSource DEF IInv, Inv1, MinedOK
<1>3. obj.txs[t].path = NoPath => \A u \in Sources(obj, t) : Proved(obj, v.mined, u)
  BY <1>1, ProvedSource
<1> QED BY <1>1, <1>2, <1>3, RunFields DEF ProvedNow

\* A transaction that breaks the rules is a fault.
LEMMA TxFault ==
  ASSUME NEW o, NEW cf, NEW branches, NEW n, NEW t \in Judged(o, Tips(o)), o.txs[t].path = NoPath,
         \A tip \in TipsFor(n) :
           ~Valid(o, o.txs[t], tip, cf.finality) \/ (~cf.skip /\ ~ScriptsRight(o, o.txs[t]))
  PROVE  FaultFor(o, cf, branches, n)
BY DEF FaultFor, FaultAt

\* A check of the second walk fails, with a transaction that breaks the rules.
LEMMA RuleFails ==
  ASSUME IInv, Grows, v.pc \in Walks, NEW t \in v.todo \ v.mined, NEW w, Fail(w, v'.err), v'.err \in {"structure", "script"},
         w = v \/ w = [v EXCEPT !.scripts = @ + 1],
         \A tip \in TipsFor(v.tip) :
           ~Valid(obj, obj.txs[t], tip, conf.finality) \/ (~conf.skip /\ ~ScriptsRight(obj, obj.txs[t]))
  PROVE  IInv'
<1> DEFINE e == v'.err
<1>1. Step([w EXCEPT !.pc = "classify", !.err = e])
  BY DEF Fail
<1> HIDE DEF e
<1>2. /\ v' = [w EXCEPT !.pc = "classify", !.err = e] /\ obj' = obj /\ conf' = conf /\ chain' = chain
      /\ expired' = expired /\ verdict' = verdict /\ sent' = sent /\ hist' = hist
  BY <1>1, SameFacts
<1>3. e \in {"structure", "script"}
  BY DEF e
<1>4. /\ v'.pc = "classify" /\ v'.err = e /\ v'.mined = v.mined /\ v'.tip = v.tip /\ RunType'
  <2>1. CASE w = v
    BY <1>2, <1>3, <2>1 DEF IInv, Inv1, RunType, Errs
  <2>2. CASE w = [v EXCEPT !.scripts = @ + 1]
    <3>1. v' = [v EXCEPT !.scripts = v.scripts + 1, !.pc = "classify", !.err = e] /\ v.scripts + 1 \in Nat
      BY <1>2, <2>2, RunFields DEF IInv, Inv1, RunType
    <3> QED BY <1>2, <1>3, <3>1 DEF IInv, Inv1, RunType, Errs
  <2> QED BY <2>1, <2>2
<1>5. t \in Subject /\ obj.txs[t].path = NoPath
  BY TodoFacts
<1>6. FaultFor(obj, conf, hist.branches, v.tip)
  BY <1>5, TxFault DEF Subject
<1>7. FaultFound'
  BY <1>2, <1>4, <1>6 DEF FaultFound
<1>8. v.pc \notin {"parse", "settle", "done"}
  BY DEF Walks
<1> QED BY <1>2, <1>3, <1>4, <1>7, <1>8, FailStep

\* checkTx: a transaction that is mined.
LEMMA CheckMinedStep ==
  ASSUME IInv, Grows, NEW t \in Ids(obj), CheckMined(t)
  PROVE  IInv'
<1> DEFINE w == [v EXCEPT !.todo = @ \ {t}, !.seen = @ \cup {t}]
<1>1. Step(w) /\ v.pc = "check" /\ t \in v.todo /\ t \in v.mined
  BY DEF CheckMined
<1>2. /\ v' = w /\ obj' = obj /\ chain' = chain /\ verdict' = verdict /\ sent' = sent /\ hist' = hist
      /\ Subject' = Subject /\ \A u : (SoundNow(u)' <=> SoundNow(u)) /\ (PassedNow(u)' <=> PassedNow(u))
  BY <1>1, SameFacts
<1>3. /\ v'.pc = "check" /\ v'.tried = v.tried /\ v'.todo = v.todo \ {t} /\ v'.seen = v.seen \cup {t}
      /\ v'.mined = v.mined /\ RunType'
  BY <1>1, <1>2 DEF IInv, Inv1, RunType
<1>4. MinedOK'
  BY <1>2, <1>3 DEF IInv, Inv1, MinedOK
<1>5. Walking'
  <2>1. v'.seen \cup v'.todo = v.seen \cup v.todo
    BY <1>1, <1>3
  <2> QED BY <1>1, <1>2, <1>3, <2>1 DEF IInv, Inv2, Walking, Walks
<1>6. Checking'
  <2>1. PassedNow(t) /\ obj.txs[t].path # NoPath
    BY <1>1 DEF IInv, Inv1, MinedOK, PassedNow, PassedTx
  <2>2. \A u : ProvedNow(u)' <=> ProvedNow(u)
    BY <1>2, <1>3 DEF ProvedNow
  <2>3. v.pc \in Walks
    BY <1>1 DEF Walks
  <2>4. /\ v.todo \subseteq Subject /\ \A u \in v.todo : ProvedNow(u)
        /\ \A u \in v.seen : /\ PassedNow(u)
                             /\ obj.txs[u].path = NoPath => Sources(obj, u) \subseteq v.seen \cup v.todo
    BY <2>3 DEF IInv, Inv2, Checking
  <2>5. v'.seen \cup v'.todo = v.seen \cup v.todo
    BY <1>1, <1>3
  <2> QED BY <1>2, <1>3, <2>1, <2>2, <2>4, <2>5 DEF Checking
<1>7. Proving' /\ AtTx' /\ AskOK' /\ Found'
  BY <1>3 DEF Proving, AtTx, AskOK, Found
<1> QED BY <1>1, <1>2, <1>3, <1>4, <1>5, <1>6, <1>7, QuietStep DEF Inv2

\* The walk's part of the invariant, in a step that stays at a transaction.
LEMMA StayStep ==
  ASSUME IInv, Grows, NEW w, Step(w), v.pc \in Walks, v'.pc \in Walks, RunType', AtTx',
         v'.tried = v.tried, v'.todo = v.todo, v'.seen = v.seen, v'.mined = v.mined
  PROVE  IInv'
<1>1. /\ obj' = obj /\ chain' = chain /\ verdict' = verdict /\ sent' = sent /\ hist' = hist
      /\ Subject' = Subject /\ \A u : (SoundNow(u)' <=> SoundNow(u)) /\ (PassedNow(u)' <=> PassedNow(u))
  BY SameFacts
<1>2. MinedOK'
  BY <1>1 DEF IInv, Inv1, MinedOK
<1>3. Walking'
  BY <1>1 DEF IInv, Inv2, Walking, Walks
<1>4. Checking'
  <2>1. \A u : ProvedNow(u)' <=> ProvedNow(u)
    BY <1>1 DEF ProvedNow
  <2> QED BY <1>1, <2>1 DEF IInv, Inv2, Checking
<1>5. Proving' /\ AskOK' /\ Found'
  BY DEF Proving, AskOK, Found, Walks
<1>6. v.pc \notin {"settle", "done"} /\ v'.pc \notin {"settle", "done"}
  BY DEF Walks
<1> QED BY <1>1, <1>2, <1>3, <1>4, <1>5, <1>6, QuietStep DEF Inv2

\* checkTx: what is looked at before the tracker is asked.
LEMMA CheckStructureStep ==
  ASSUME IInv, Grows, NEW t \in Ids(obj), CheckStructure(t)
  PROVE  IInv'
<1>1. v.pc = "check" /\ t \in v.todo \ v.mined /\ v.pc \in Walks
  BY DEF CheckStructure, Walks
<1>2. CASE StructureFault(obj.txs[t])
  <2>1. Fail(v, "structure")
    BY <1>2 DEF CheckStructure, Body
  <2>2. v'.err = "structure"
    BY <2>1 DEF Fail, Step, IInv, Inv1, RunType
  <2>3. \A tip : ~Valid(obj, obj.txs[t], tip, conf.finality)
    BY <1>2, StructureFaulty, RunFields
  <2> QED BY <1>1, <2>1, <2>2, <2>3, RuleFails
<1>3. CASE ~StructureFault(obj.txs[t])
  <2> DEFINE w == [v EXCEPT !.pc = "final", !.tx = t]
  <2>1. Step(w)
    BY <1>3 DEF CheckStructure, Body
  <2>2. v' = w /\ obj' = obj /\ chain' = chain
    BY <2>1, SameFacts
  <2>3. /\ v'.pc = "final" /\ v'.tx = t /\ v'.tried = v.tried /\ v'.todo = v.todo /\ v'.seen = v.seen
        /\ v'.mined = v.mined /\ RunType'
    BY <1>1, <2>2 DEF IInv, Inv1, RunType, Walks
  <2>4. AtTx'
    BY <1>1, <1>3, <2>2, <2>3 DEF AtTx
  <2>5. v'.pc \in Walks
    BY <2>3 DEF Walks
  <2> HIDE DEF w
  <2> QED BY <1>1, <2>1, <2>3, <2>4, <2>5, StayStep
<1> QED BY <1>2, <1>3

\* chainTip: the tip is asked for.
LEMMA ChainTipStep ==
  ASSUME IInv, Grows, ChainTip
  PROVE  IInv'
<1>1. v.tip = NoTip /\ v.pc \in {"final", "inputs"} /\ v.pc \in Walks
  BY DEF ChainTip, FinalNeedsTip, InputNeedsTip, Walks
<1>2. PICK answer \in HeightAnswers :
        IF answer = Fails THEN Fail([v EXCEPT !.failed = TRUE], "tracker") ELSE Step([v EXCEPT !.tip = answer])
  BY DEF ChainTip
<1>3. CASE answer = Fails
  <2> DEFINE w == [[v EXCEPT !.failed = TRUE] EXCEPT !.pc = "classify", !.err = "tracker"]
  <2>1. Step(w)
    BY <1>2, <1>3 DEF Fail
  <2>2. v' = w /\ obj' = obj /\ chain' = chain /\ verdict' = verdict /\ sent' = sent
    BY <2>1, SameFacts
  <2>3. /\ v'.pc = "classify" /\ v'.err = "tracker" /\ v'.failed /\ v'.mined = v.mined /\ RunType'
    BY <2>2 DEF IInv, Inv1, RunType, Errs
  <2> QED BY <1>1, <2>2, <2>3, FailStep
<1>4. CASE answer # Fails
  <2> DEFINE w == [v EXCEPT !.tip = answer]
  <2>1. Step(w)
    BY <1>2, <1>4
  <2>2. v' = w /\ obj' = obj /\ conf' = conf /\ chain' = chain
    BY <2>1, SameFacts
  <2>3. answer \in 0..chain.top /\ answer \in Int
    BY <1>2, <1>4, RunFields DEF HeightAnswers
  <2>4. /\ v'.pc = v.pc /\ v'.tx = v.tx /\ v'.tried = v.tried /\ v'.todo = v.todo /\ v'.seen = v.seen
        /\ v'.mined = v.mined /\ v'.vin = v.vin /\ v'.total = v.total /\ v'.tip = answer /\ RunType'
    BY <2>2, <2>3 DEF IInv, Inv1, RunType
  <2>5. v.tip \in Int /\ v.tip <= answer
    BY <1>1, <2>3 DEF NoTip
  <2>6. /\ v.tx \in v.todo \ v.mined /\ ~StructureFault(obj.txs[v.tx]) /\ v.tx \in Ids(obj)
    BY <1>1, RunFields DEF IInv, Inv2, AtTx
  <2>7. ASSUME v.pc = "inputs" PROVE AtTx'
    <3>1. /\ FinalRight(obj, conf, v.tx, v.tip) /\ v.vin \in 1..(Len(obj.txs[v.tx].inputs) + 1)
          /\ SourcesDone(obj, v.tx, v.vin - 1, v.tip)
          /\ v.total = TotalDone(obj, v.tx, v.vin - 1) /\ v.total \in 0..MaxSats
      BY <2>7 DEF IInv, Inv2, AtTx
    <3>2. obj.txs[v.tx].lock \in Nat
      BY <2>6, ShapeFacts, RunFields
    <3>3. FinalRight(obj, conf, v.tx, answer)
      BY <2>3, <2>5, <3>1, <3>2 DEF FinalRight
    <3>4. SourcesDone(obj, v.tx, v.vin - 1, answer)
      BY <2>3, <2>5, <3>1, SourceGrows, RunFields DEF SourcesDone
    <3>5. v'.pc = "inputs"
      BY <2>4, <2>7
    <3> HIDE DEF w
    <3> QED BY <2>2, <2>4, <2>6, <3>1, <3>3, <3>4, <3>5 DEF AtTx
  <2>8. ASSUME v.pc = "final" PROVE AtTx'
    <3>1. v'.pc = "final"
      BY <2>4, <2>8
    <3> HIDE DEF w
    <3> QED BY <2>2, <2>4, <2>6, <3>1 DEF AtTx
  <2> HIDE DEF w
  <2>9. AtTx' /\ v'.pc \in Walks
    BY <1>1, <2>4, <2>7, <2>8
  <2> QED BY <1>1, <2>1, <2>4, <2>9, StayStep
<1> QED BY <1>3, <1>4

\* What is known of the transaction that is checked.
LEMMA AtTxFacts ==
  ASSUME IInv, v.pc \in {"final", "inputs", "scripts"}
  PROVE  /\ v.pc \in Walks /\ v.tx \in v.todo \ v.mined /\ v.tx \in Subject /\ v.tx \in Ids(obj)
         /\ obj.txs[v.tx].path = NoPath /\ ~StructureFault(obj.txs[v.tx])
         /\ obj.txs[v.tx].inputs \in Seq(Range(obj.txs[v.tx].inputs))
         /\ Len(obj.txs[v.tx].inputs) \in Nat /\ DOMAIN obj.txs[v.tx].inputs = 1..Len(obj.txs[v.tx].inputs)
         /\ obj.txs[v.tx].lock \in Nat
<1>1. v.pc \in Walks /\ v.tx \in v.todo \ v.mined /\ ~StructureFault(obj.txs[v.tx])
  BY DEF IInv, Inv2, AtTx, Walks
<1>2. v.tx \in Subject /\ v.tx \in Ids(obj) /\ obj.txs[v.tx].path = NoPath
  BY <1>1, TodoFacts
<1> QED BY <1>1, <1>2, ShapeFacts, RunFields

\* checkTx: the locks, and a confiscation.
LEMMA CheckFinalStep ==
  ASSUME IInv, Grows, CheckFinal
  PROVE  IInv'
<1> DEFINE tx == obj.txs[v.tx]
           bad == \/ Locked(tx) /\ (~FinalNeedsTip \/ tx.lock > v.tip)
                  \/ tx.confiscation
<1>1. v.pc = "final" /\ (FinalNeedsTip => v.tip # NoTip)
  BY DEF CheckFinal
<1>2. /\ v.pc \in Walks /\ v.tx \in v.todo \ v.mined /\ v.tx \in Ids(obj) /\ tx.lock \in Nat
      /\ ~StructureFault(tx)
  BY <1>1, AtTxFacts
<1>3. FinalNeedsTip <=> Locked(tx) /\ tx.lock < LockTimeThreshold
  BY <1>1 DEF FinalNeedsTip, Body
<1>4. CASE bad
  <2>1. Fail(v, "structure")
    BY <1>4 DEF CheckFinal, Body
  <2>2. v'.err = "structure"
    BY <2>1 DEF Fail, Step, IInv, Inv1, RunType
  <2>3. ASSUME NEW tip \in TipsFor(v.tip) PROVE ~Valid(obj, tx, tip, conf.finality)
    <3>1. tip \in Int /\ (v.tip # NoTip => tip = v.tip)
      BY RunFields, SpvAssumption DEF TipsFor, Heights
    <3>2. CASE tx.confiscation
      BY <3>2 DEF Valid
    <3>3. CASE Locked(tx) /\ (~FinalNeedsTip \/ tx.lock > v.tip)
      <4>1. ~(tx.lock <= tip /\ tx.lock < LockTimeThreshold)
        BY <1>1, <1>2, <1>3, <3>1, <3>3, RunFields, SpvAssumption
      <4>2. ~(tx.lock <= Min({tip, LockTimeThreshold - 1}))
        BY <1>2, <3>1, <4>1, MinIs, SpvAssumption
      <4>3. conf.finality = "require" /\ \E i \in DOMAIN tx.inputs : ~tx.inputs[i].final
        BY <3>3 DEF Locked
      <4> HIDE DEF tx
      <4> QED BY <4>2, <4>3 DEF Valid
    <3> QED BY <1>4, <3>2, <3>3
  <2> QED BY <1>2, <2>1, <2>2, <2>3, RuleFails
<1>5. CASE ~bad
  <2> DEFINE w == [v EXCEPT !.pc = "inputs", !.vin = 1, !.total = 0]
  <2>1. Step(w)
    BY <1>5 DEF CheckFinal, Body
  <2>2. v' = w /\ obj' = obj /\ conf' = conf /\ chain' = chain
    BY <2>1, SameFacts
  <2>3. /\ v'.pc = "inputs" /\ v'.tx = v.tx /\ v'.tried = v.tried /\ v'.todo = v.todo /\ v'.seen = v.seen
        /\ v'.mined = v.mined /\ v'.vin = 1 /\ v'.total = 0 /\ v'.tip = v.tip /\ RunType'
    <3> HIDE DEF bad, tx
    <3>1. 1 \in Nat /\ 0 \in Int /\ "inputs" \in Walks
      BY DEF Walks
    <3> QED BY <1>1, <2>2, <3>1 DEF IInv, Inv1, RunType
  <2>4. FinalRight(obj, conf, v.tx, v.tip)
    <3>1. conf.finality \in {"ignore", "require"}
      BY RunFields DEF Conf
    <3>2. ~Locked(tx) \/ (tx.lock <= v.tip /\ tx.lock < LockTimeThreshold)
      BY <1>2, <1>3, <1>5, RunFields
    <3>3. ~tx.confiscation
      BY <1>5
    <3> HIDE DEF bad
    <3> QED BY <3>1, <3>2, <3>3 DEF FinalRight, Locked
  <2>5. 1..(1 - 1) = {}
    OBVIOUS
  <2>6. SourcesDone(obj, v.tx, 1 - 1, v.tip) /\ TotalDone(obj, v.tx, 1 - 1) = 0
    BY <2>5, SumEmpty DEF SourcesDone, TotalDone
  <2>7. 1 \in 1..(Len(obj.txs[v.tx].inputs) + 1) /\ 0 \in 0..MaxSats
    BY <1>1, AtTxFacts, SpvAssumption
  <2>8. AtTx' /\ v'.pc \in Walks
    <3> HIDE DEF w, bad
    <3> QED BY <1>2, <2>2, <2>3, <2>4, <2>6, <2>7 DEF AtTx, Walks
  <2> HIDE DEF w
  <2> QED BY <1>2, <2>1, <2>3, <2>8, StayStep
<1> QED BY <1>4, <1>5

\* The two ways to say how deep a block is.
LEMMA DepthIs ==
  ASSUME NEW tip \in Int, NEW h \in Int, NEW m \in Nat
  PROVE  tip + 1 - h >= m <=> h + m <= tip + 1
OBVIOUS

\* The input that is looked at, with the tip if it is needed.
AtInput(in) ==
  /\ v.pc = "inputs" /\ v.vin \in DOMAIN obj.txs[v.tx].inputs /\ (InputNeedsTip => v.tip # NoTip)
  /\ in = obj.txs[v.tx].inputs[v.vin]

\* An input at checkTx: the maturities it is held to are those it must have.
LEMMA MaturityIs ==
  ASSUME IInv, NEW in, AtInput(in), Spendable(obj, in)
  PROVE  /\ (\A m \in Maturities(in) : DeepEnough(in.src, m)) => SourceRight(obj, in, v.tip)
         /\ (\E m \in Maturities(in) : ~DeepEnough(in.src, m)) =>
              \A tip \in TipsFor(v.tip) : ~SourceRight(obj, in, tip)
<1> DEFINE src == obj.txs[in.src]
<1>1. v.pc \in Walks /\ v.tx \in v.todo \ v.mined
  BY AtTxFacts, Zenon DEF AtInput
<1>2. in.src \in Ids(obj) /\ in.src \in Sources(obj, v.tx)
  BY Zenon DEF AtInput, Spendable, Sources
<1>3. src.path # NoPath <=> in.src \in v.mined
  BY <1>1, <1>2, TodoFacts
<1>4. src.path # NoPath => src.path.height \in Int
  <2>1. src.path # NoPath => src.path.height \in Heights
    BY <1>2, ShapeFacts, RunFields
  <2>2. Heights \subseteq Int
    BY SpvAssumption DEF Heights
  <2> QED BY <2>1, <2>2
<1>5. \A m : DeepEnough(in.src, m) <=> in.src \in v.mined /\ v.tip + 1 - src.path.height >= m
  BY DEF DeepEnough, Body
<1>6. /\ IsCoinbase(src) => CoinbaseMaturity \in Maturities(in)
      /\ src.confiscation => ConfiscationMaturity \in Maturities(in)
      /\ \A m \in Maturities(in) : \/ m = CoinbaseMaturity /\ IsCoinbase(src)
                                   \/ m = ConfiscationMaturity /\ src.confiscation
  BY <1>2 DEF Maturities, Body
<1>7. CoinbaseMaturity \in Nat /\ ConfiscationMaturity \in Nat /\ v.tip \in Int
  BY RunFields, SpvAssumption
<1>8. Maturities(in) # {} /\ in.src \in v.mined => v.tip # NoTip
  BY DEF AtInput, InputNeedsTip, Body
<1> DEFINE h == src.path.height
<1>9. src.path # NoPath => h \in Int
  BY <1>4
<1>10. \A m : DeepEnough(in.src, m) <=> src.path # NoPath /\ v.tip + 1 - h >= m
  BY <1>3, <1>5
<1> HIDE DEF h
<1>11. ASSUME \A m \in Maturities(in) : DeepEnough(in.src, m) PROVE SourceRight(obj, in, v.tip)
  <2>1. ASSUME IsCoinbase(src) PROVE src.path # NoPath /\ h + CoinbaseMaturity <= v.tip + 1
    <3>1. src.path # NoPath /\ v.tip + 1 - h >= CoinbaseMaturity
      BY <1>6, <1>11, <1>10, <2>1
    <3>2. h \in Int
      BY <1>9, <3>1
    <3> QED BY <1>7, <3>1, <3>2, DepthIs
  <2>2. ASSUME src.confiscation PROVE src.path # NoPath /\ h + ConfiscationMaturity <= v.tip + 1
    <3>1. src.path # NoPath /\ v.tip + 1 - h >= ConfiscationMaturity
      BY <1>6, <1>11, <1>10, <2>2
    <3>2. h \in Int
      BY <1>9, <3>1
    <3> QED BY <1>7, <3>1, <3>2, DepthIs
  <2> QED BY <2>1, <2>2 DEF SourceRight, h
<1>12. ASSUME NEW m \in Maturities(in), ~DeepEnough(in.src, m), NEW tip \in TipsFor(v.tip)
       PROVE  ~SourceRight(obj, in, tip)
  <2>1. in.src \in v.mined => tip = v.tip
    BY <1>8 DEF TipsFor
  <2>2. m \in Nat
    BY <1>6, <1>7
  <2>3. ~(src.path # NoPath /\ h + m <= tip + 1)
    <3>1. ~(src.path # NoPath /\ v.tip + 1 - h >= m)
      BY <1>12, <1>10
    <3>2. src.path # NoPath => tip = v.tip
      BY <1>3, <2>1
    <3>3. CASE src.path # NoPath
      <4>1. h \in Int /\ tip = v.tip /\ ~(v.tip + 1 - h >= m)
        BY <1>9, <3>1, <3>2, <3>3
      <4> QED BY <1>7, <2>2, <4>1, DepthIs
    <3> QED BY <3>3
  <2> QED BY <1>6, <2>3 DEF SourceRight, h
<1> QED BY <1>11, <1>12

\* A sum the verifier refuses is one that no right amounts have.
LEMMA SumRefused ==
  ASSUME NEW o \in Object, NEW t \in Ids(o), NEW n \in DOMAIN o.txs[t].inputs, NEW tip, NEW finality,
         AddSats(TotalDone(o, t, n - 1), Spent(o, o.txs[t].inputs[n]).sats) = Overflow,
         TotalDone(o, t, n - 1) \in 0..MaxSats
  PROVE  ~Valid(o, o.txs[t], tip, finality)
<1> DEFINE ins == o.txs[t].inputs
           f == SpentValues(o, ins)
           S == DOMAIN ins
<1> SUFFICES ASSUME Valid(o, o.txs[t], tip, finality) PROVE FALSE
  OBVIOUS
<1>1. ins \in Seq(Range(ins)) /\ Len(ins) \in Nat /\ S = 1..Len(ins)
  BY ShapeFacts, Zenon
<1>2. \A i \in S : Spendable(o, ins[i])
  BY Zenon DEF Valid, SourceRight
<1>3. \A i \in S : f[i] = Spent(o, ins[i]).sats /\ f[i] \in Nat
  BY <1>2, SpentFacts DEF SpentValues
<1>4. Total(f) <= MaxSats
  BY DEF Valid, AmountsRight
<1>5. Total(f) = SumOf(f, S)
  BY DEF Total, SumOf, SpentValues
<1> HIDE DEF f
<1>6. /\ 1..n = (1..(n - 1)) \cup {n} /\ n \notin 1..(n - 1) /\ 1..(n - 1) \subseteq S /\ 1..n \subseteq S
      /\ IsFiniteSet(S) /\ IsFiniteSet(1..(n - 1)) /\ n \in Nat
  <2>1. n \in 1..Len(ins) /\ n \in Nat /\ Len(ins) \in Nat
    BY <1>1
  <2> HIDE DEF ins
  <2>2. 1..n = (1..(n - 1)) \cup {n} /\ n \notin 1..(n - 1)
    BY <2>1
  <2>3. 1..(n - 1) \subseteq 1..Len(ins) /\ 1..n \subseteq 1..Len(ins)
    BY <2>1
  <2>4. IsFiniteSet(1..Len(ins)) /\ IsFiniteSet(1..(n - 1))
    BY <2>1, FS_Interval
  <2> QED BY <1>1, <2>1, <2>2, <2>3, <2>4
<1>7. SumOf(f, 1..n) = SumOf(f, 1..(n - 1)) + f[n]
  BY <1>3, <1>6, SumAdd
<1>8. SumOf(f, 1..n) <= SumOf(f, S)
  BY <1>3, <1>6, SumSubset
<1>9. SumOf(f, S) \in Nat
  BY <1>3, <1>6, SumNat
<1>10. SumOf(f, 1..(n - 1)) = TotalDone(o, t, n - 1)
  BY DEF f, TotalDone
<1>11. f[n] = Spent(o, ins[n]).sats /\ f[n] \in Nat
  BY <1>3
<1>12. TotalDone(o, t, n - 1) + f[n] > MaxSats
  BY <1>10, <1>11, SpvAssumption DEF AddSats, Overflow
<1> QED BY <1>4, <1>5, <1>7, <1>8, <1>9, <1>10, <1>11, <1>12, SpvAssumption

\* A sum that addSats does not refuse.
LEMMA AddSatsIs ==
  ASSUME NEW total \in 0..MaxSats, NEW n \in Nat, AddSats(total, n) # Overflow
  PROVE  AddSats(total, n) = total + n /\ total + n \in 0..MaxSats
BY SpvAssumption DEF AddSats, Overflow

\* One more of the first numbers.
LEMMA OneMore ==
  ASSUME NEW n \in Nat \ {0}
  PROVE  1..n = (1..(n - 1)) \cup {n} /\ n \notin 1..(n - 1) /\ IsFiniteSet(1..(n - 1))
BY FS_Interval

\* Past the last input.
LEMMA PastEnd ==
  ASSUME NEW n \in Nat, NEW k \in 1..(n + 1), k > n
  PROVE  k - 1 = n
OBVIOUS

\* checkTx: an input.
LEMMA CheckInputStep ==
  ASSUME IInv, Grows, CheckInput
  PROVE  IInv'
<1> DEFINE ins == obj.txs[v.tx].inputs
           in == ins[v.vin]
           sum == AddSats(v.total, Spent(obj, in).sats)
           bad == \/ ~Spendable(obj, in)
                  \/ \E m \in Maturities(in) : ~DeepEnough(in.src, m)
                  \/ sum = Overflow
<1>1. v.pc = "inputs" /\ v.vin \in DOMAIN ins /\ (InputNeedsTip => v.tip # NoTip)
  BY Zenon DEF CheckInput, Body
<1>2. IF bad THEN Fail(v, "structure") ELSE Step([v EXCEPT !.vin = @ + 1, !.total = sum])
  BY Zenon DEF CheckInput, Body
<1>3. /\ v.pc \in Walks /\ v.tx \in v.todo \ v.mined /\ v.tx \in Ids(obj) /\ obj \in Object
      /\ Len(ins) \in Nat /\ DOMAIN ins = 1..Len(ins) /\ ~StructureFault(obj.txs[v.tx])
  BY <1>1, AtTxFacts, RunFields
<1>4. /\ FinalRight(obj, conf, v.tx, v.tip) /\ SourcesDone(obj, v.tx, v.vin - 1, v.tip)
      /\ v.total = TotalDone(obj, v.tx, v.vin - 1) /\ v.total \in 0..MaxSats
  BY <1>1 DEF IInv, Inv2, AtTx
<1>5. CASE bad
  <2>1. Fail(v, "structure")
    <3> HIDE DEF bad
    <3> QED BY <1>2, <1>5, Zenon
  <2>2. v'.err = "structure"
    BY <2>1 DEF Fail, Step, IInv, Inv1, RunType
  <2>3. ASSUME NEW tip \in TipsFor(v.tip) PROVE ~Valid(obj, obj.txs[v.tx], tip, conf.finality)
    <3>1. ASSUME ~SourceRight(obj, in, tip) PROVE ~Valid(obj, obj.txs[v.tx], tip, conf.finality)
      BY <1>1, <3>1, Zenon DEF Valid
    <3>2. CASE ~Spendable(obj, in)
      BY <3>1, <3>2, Zenon DEF SourceRight
    <3>3. CASE Spendable(obj, in) /\ \E m \in Maturities(in) : ~DeepEnough(in.src, m)
      BY <1>1, <3>1, <3>3, MaturityIs DEF AtInput
    <3>4. CASE sum = Overflow
      BY <1>1, <1>3, <1>4, <3>4, SumRefused, Zenon
    <3> QED BY <1>5, <3>2, <3>3, <3>4, Zenon
  <2> HIDE DEF bad
  <2> QED BY <1>3, <2>1, <2>2, <2>3, RuleFails
<1>6. CASE ~bad
  <2> DEFINE w == [v EXCEPT !.vin = v.vin + 1, !.total = sum]
  <2>1. Step(w)
    BY <1>2, <1>6, Zenon
  <2>2. Spendable(obj, in) /\ SourceRight(obj, in, v.tip)
    BY <1>1, <1>6, MaturityIs, Zenon DEF AtInput
  <2>3. Spent(obj, in).sats \in Nat
    BY <1>3, <2>2, SpentFacts
  <2>4. sum = v.total + Spent(obj, in).sats /\ sum \in 0..MaxSats
    <3>1. AddSats(v.total, Spent(obj, in).sats) # Overflow
      BY <1>6
    <3> QED BY <1>4, <2>3, <3>1, AddSatsIs
  <2>5. v.vin \in Nat /\ v.vin \in 1..Len(ins)
    BY <1>1, <1>3
  <2> HIDE DEF bad, sum, in
  <2>6. v' = w /\ obj' = obj /\ conf' = conf /\ chain' = chain
    BY <2>1, SameFacts
  <2>7. v.vin + 1 \in Nat /\ sum \in Int
    BY <2>4, <2>5
  <2>8. /\ v'.pc = "inputs" /\ v'.tx = v.tx /\ v'.tried = v.tried /\ v'.todo = v.todo /\ v'.seen = v.seen
        /\ v'.mined = v.mined /\ v'.vin = v.vin + 1 /\ v'.total = sum /\ v'.tip = v.tip /\ RunType'
    BY <1>1, <2>6, <2>7 DEF IInv, Inv1, RunType
  <2>9. SourcesDone(obj, v.tx, v.vin, v.tip)
    <3>1. \A i \in 1..v.vin : i \in 1..(v.vin - 1) \/ i = v.vin
      BY <2>5
    <3> QED BY <1>4, <2>2, <3>1 DEF SourcesDone, in
  <2>10. TotalDone(obj, v.tx, v.vin) = sum
    <3> DEFINE f == SpentValues(obj, ins)
               S == 1..(v.vin - 1)
    <3>1. \A i \in 1..v.vin : i \in DOMAIN ins /\ Spendable(obj, ins[i])
      <4>1. \A i \in 1..v.vin : i \in 1..Len(ins)
        BY <1>3, <2>5
      <4> QED BY <1>3, <2>9, <4>1, Zenon DEF SourcesDone, SourceRight
    <3>2. \A i \in 1..v.vin : f[i] = Spent(obj, ins[i]).sats /\ f[i] \in Nat
      BY <1>3, <3>1, SpentFacts DEF SpentValues
    <3>3. 1..v.vin = S \cup {v.vin} /\ v.vin \notin S /\ IsFiniteSet(S)
      <4>1. v.vin \in Nat \ {0}
        BY <2>5
      <4> QED BY <4>1, OneMore
    <3> HIDE DEF f, S
    <3>4. SumOf(f, S \cup {v.vin}) = SumOf(f, S) + f[v.vin]
      BY <3>2, <3>3, SumAdd
    <3>5. SumOf(f, S) = v.total /\ TotalDone(obj, v.tx, v.vin) = SumOf(f, 1..v.vin)
      BY <1>4 DEF TotalDone, f, S
    <3>6. f[v.vin] = Spent(obj, in).sats
      BY <3>2, <3>3 DEF in
    <3> QED BY <2>4, <3>3, <3>4, <3>5, <3>6, Zenon
  <2>11. v.vin + 1 \in 1..(Len(ins) + 1) /\ (v.vin + 1) - 1 = v.vin
    BY <1>3, <2>5
  <2>12. AtTx' /\ v'.pc \in Walks
    <3> HIDE DEF w
    <3> QED BY <1>3, <1>4, <2>4, <2>6, <2>8, <2>9, <2>10, <2>11 DEF AtTx, Walks
  <2> HIDE DEF w
  <2> QED BY <1>3, <2>1, <2>8, <2>12, StayStep
<1> QED BY <1>5, <1>6

\* A transaction is through: it has passed, and its sources come next.
LEMMA CheckedStep ==
  ASSUME IInv, Grows, Step(Checked), v.pc \in {"inputs", "scripts"},
         SourcesDone(obj, v.tx, Len(obj.txs[v.tx].inputs), v.tip), AmountsRight(obj, obj.txs[v.tx]),
         conf.skip \/ ScriptsRight(obj, obj.txs[v.tx])
  PROVE  IInv'
<1> DEFINE t == v.tx
           new == Sources(obj, t) \ (v.seen \cup {t})
<1>1. /\ v.pc \in Walks /\ t \in v.todo \ v.mined /\ t \in Subject /\ t \in Ids(obj)
      /\ obj.txs[t].path = NoPath /\ ~StructureFault(obj.txs[t])
      /\ DOMAIN obj.txs[t].inputs = 1..Len(obj.txs[t].inputs) /\ obj.txs[t].lock \in Nat
  BY AtTxFacts
<1>2. FinalRight(obj, conf, t, v.tip)
  BY DEF IInv, Inv2, AtTx
<1>3. v.tip \in Int /\ chain.top \in Nat /\ chain.top \in Int /\ v.tip <= chain.top /\ obj \in Object
  BY RunFields DEF NoTip
<1>4. \A i \in DOMAIN obj.txs[t].inputs : SourceRight(obj, obj.txs[t].inputs[i], chain.top)
  BY <1>1, <1>3, SourceGrows, Zenon DEF SourcesDone
<1>5. PassedNow(t)
  <2>1. FinalRight(obj, conf, t, chain.top)
    <3>1. obj.txs[t].lock <= v.tip => obj.txs[t].lock <= chain.top
      BY <1>1, <1>3
    <3> QED BY <1>2, <3>1, Zenon DEF FinalRight
  <2>2. Valid(obj, obj.txs[t], chain.top, conf.finality)
    BY <1>1, <1>3, <1>4, <2>1, NoFaultValid DEF FinalRight
  <2> QED BY <1>1, <2>2 DEF PassedNow, PassedTx
<1>6. new \subseteq Ids(obj) /\ new \subseteq Subject /\ \A u \in new : ProvedNow(u)
  BY <1>1, TodoFacts, RunFields
<1>7. /\ v' = Checked /\ obj' = obj /\ chain' = chain /\ verdict' = verdict /\ sent' = sent /\ hist' = hist
      /\ Subject' = Subject /\ \A u : (SoundNow(u)' <=> SoundNow(u)) /\ (PassedNow(u)' <=> PassedNow(u))
  BY SameFacts
<1>8. v' = [v EXCEPT !.pc = "check", !.tx = NoTx, !.vin = 0, !.total = 0, !.seen = v.seen \cup {t},
                     !.todo = (v.todo \ {t}) \cup new]
  BY <1>7 DEF Checked, IInv, Inv1, RunType
<1> HIDE DEF new
<1>9. /\ v'.pc = "check" /\ v'.tried = v.tried /\ v'.todo = (v.todo \ {t}) \cup new
      /\ v'.seen = v.seen \cup {t} /\ v'.mined = v.mined /\ RunType'
  <2>1. /\ (v.todo \ {t}) \cup new \in SUBSET Ids(obj) /\ v.seen \cup {t} \in SUBSET Ids(obj)
        /\ "check" \in Walks /\ 0 \in Nat /\ 0 \in Int /\ NoTx \in Ids(obj) \cup {NoTx}
    BY <1>1, <1>6, RunFields DEF Walks
  <2> DEFINE todo == (v.todo \ {t}) \cup new
             seen == v.seen \cup {t}
  <2> HIDE DEF t, todo, seen
  <2>2. todo \in SUBSET Ids(obj) /\ seen \in SUBSET Ids(obj)
    BY <2>1 DEF todo, seen
  <2>3. v' = [v EXCEPT !.pc = "check", !.tx = NoTx, !.vin = 0, !.total = 0, !.seen = seen, !.todo = todo]
    BY <1>8 DEF todo, seen
  <2>4. /\ v'.pc = "check" /\ v'.tried = v.tried /\ v'.todo = todo /\ v'.seen = seen /\ v'.mined = v.mined
        /\ v'.tip = v.tip
    BY <2>3 DEF IInv, Inv1, RunType
  <2>5. v' \in [pc : {"parse", "tips", "prove", "askTip", "classify", "settle", "done"} \cup Walks,
               tx : Ids(obj) \cup {NoTx}, todo : SUBSET Ids(obj), seen : SUBSET Ids(obj),
               tried : SUBSET Ids(obj), mined : SUBSET Ids(obj), tip : Int, vin : Nat, total : Int,
               scripts : Nat, failed : BOOLEAN, notYet : BOOLEAN, err : Errs]
    BY <2>1, <2>2, <2>3 DEF IInv, Inv1, RunType
  <2>6. RunType'
    BY <1>7, <2>4, <2>5 DEF IInv, Inv1, RunType
  <2> QED BY <2>4, <2>6 DEF todo, seen
<1>10. MinedOK'
  BY <1>7, <1>9 DEF IInv, Inv1, MinedOK
<1>11. v.seen \cup v.todo \subseteq v'.seen \cup v'.todo /\ Sources(obj, t) \subseteq v'.seen \cup v'.todo
  BY <1>9 DEF new
<1>12. Walking'
  <2>1. PICK t0 \in v.seen \cup v.todo : \A u \in v.tried : u = t0 \/ SoundNow(u)
    BY <1>1 DEF IInv, Inv2, Walking
  <2>2. obj.parses /\ Ids(obj) # {}
    BY <1>1 DEF IInv, Inv2, Walking, Walks
  <2> QED BY <1>7, <1>9, <1>11, <2>1, <2>2 DEF Walking, Walks
<1>13. Checking'
  <2>1. \A u : ProvedNow(u)' <=> ProvedNow(u)
    BY <1>7, <1>9 DEF ProvedNow
  <2>2. /\ v.todo \subseteq Subject /\ \A u \in v.todo : ProvedNow(u)
        /\ \A u \in v.seen : /\ PassedNow(u)
                             /\ obj.txs[u].path = NoPath => Sources(obj, u) \subseteq v.seen \cup v.todo
    BY <1>1 DEF IInv, Inv2, Checking
  <2>3. \A u \in v'.todo : u \in Subject /\ ProvedNow(u)
    BY <1>6, <1>9, <2>2
  <2>4. \A u \in v'.seen : /\ PassedNow(u)
                           /\ obj.txs[u].path = NoPath => Sources(obj, u) \subseteq v'.seen \cup v'.todo
    BY <1>5, <1>9, <1>11, <2>2
  <2> QED BY <1>7, <2>1, <2>3, <2>4 DEF Checking
<1>14. Proving' /\ AtTx' /\ AskOK' /\ Found'
  BY <1>9 DEF Proving, AtTx, AskOK, Found
<1>15. v.pc \notin {"settle", "done"}
  OBVIOUS
<1> QED BY <1>7, <1>9, <1>10, <1>12, <1>13, <1>14, <1>15, QuietStep DEF Inv2

\* checkTx: the amounts.
LEMMA CheckAmountsStep ==
  ASSUME IInv, Grows, CheckAmounts
  PROVE  IInv'
<1> DEFINE tx == obj.txs[v.tx]
           spends == Total(SpentValues(obj, tx.inputs))
<1>1. v.pc = "inputs" /\ v.vin > Len(tx.inputs)
  BY DEF CheckAmounts, Body
<1>2. IF OutTotal(tx) > v.total THEN Fail(v, "structure")
      ELSE IF conf.skip THEN Step(Checked)
      ELSE Step([v EXCEPT !.pc = "scripts", !.vin = 1])
  BY DEF CheckAmounts, Body
<1>3. /\ v.pc \in Walks /\ v.tx \in v.todo \ v.mined /\ v.tx \in Ids(obj) /\ obj \in Object
      /\ Len(tx.inputs) \in Nat /\ DOMAIN tx.inputs = 1..Len(tx.inputs) /\ ~StructureFault(tx)
  BY <1>1, AtTxFacts, RunFields
<1>4. /\ FinalRight(obj, conf, v.tx, v.tip) /\ SourcesDone(obj, v.tx, v.vin - 1, v.tip)
      /\ v.total = TotalDone(obj, v.tx, v.vin - 1) /\ v.total \in 0..MaxSats
      /\ v.vin \in 1..(Len(tx.inputs) + 1)
  BY <1>1 DEF IInv, Inv2, AtTx
<1>5. v.vin - 1 = Len(tx.inputs)
  BY <1>1, <1>3, <1>4, PastEnd, Zenon
<1>6. v.total = spends
  BY <1>3, <1>4, <1>5, Zenon DEF Total, SumOf, SpentValues, TotalDone
<1>7. OutTotal(tx) = Total(Values(tx.outputs)) /\ OutTotal(tx) \in Nat
  <2>1. OutTotal(tx) # Overflow
    BY <1>3, Zenon DEF StructureFault
  <2>2. /\ tx.outputs \in Seq(Range(tx.outputs)) /\ \A i \in DOMAIN tx.outputs : tx.outputs[i].sats \in Nat
    BY <1>3, ShapeFacts
  <2> QED BY <2>1, <2>2, OutTotalIs, Zenon
<1>8. AmountsRight(obj, tx) <=> ~(OutTotal(tx) > v.total)
  BY <1>4, <1>6, <1>7, SpvAssumption DEF AmountsRight
<1>9. CASE OutTotal(tx) > v.total
  <2>1. Fail(v, "structure")
    BY <1>2, <1>9
  <2>2. v'.err = "structure"
    BY <2>1 DEF Fail, Step, IInv, Inv1, RunType
  <2>3. \A tip : ~Valid(obj, tx, tip, conf.finality)
    BY <1>8, <1>9 DEF Valid
  <2> QED BY <1>3, <2>1, <2>2, <2>3, RuleFails
<1>10. CASE ~(OutTotal(tx) > v.total) /\ conf.skip
  BY <1>1, <1>2, <1>4, <1>5, <1>8, <1>10, CheckedStep
<1>11. CASE ~(OutTotal(tx) > v.total) /\ ~conf.skip
  <2> DEFINE w == [v EXCEPT !.pc = "scripts", !.vin = 1]
  <2>1. Step(w)
    BY <1>2, <1>11
  <2>2. v' = w /\ obj' = obj /\ conf' = conf /\ chain' = chain
    BY <2>1, SameFacts
  <2>3. "scripts" \in Walks /\ 1 \in Nat
    BY DEF Walks
  <2>4. /\ v'.pc = "scripts" /\ v'.tx = v.tx /\ v'.tried = v.tried /\ v'.todo = v.todo /\ v'.seen = v.seen
        /\ v'.mined = v.mined /\ v'.vin = 1 /\ v'.tip = v.tip /\ RunType'
    <3> HIDE DEF tx
    <3> QED BY <2>2, <2>3 DEF IInv, Inv1, RunType
  <2>5. ScriptsDone(obj, v.tx, 1 - 1)
    <3>1. 1..(1 - 1) = {}
      OBVIOUS
    <3> QED BY <3>1 DEF ScriptsDone
  <2>6. 1 \in 1..(Len(tx.inputs) + 1)
    BY <1>3
  <2>7. AmountsRight(obj, tx) /\ SourcesDone(obj, v.tx, Len(tx.inputs), v.tip) /\ ~conf.skip
    BY <1>4, <1>5, <1>8, <1>11
  <2>8. AtTx'
    <3> HIDE DEF w
    <3> QED BY <1>3, <1>4, <2>2, <2>4, <2>5, <2>6, <2>7 DEF AtTx
  <2> HIDE DEF w
  <2> QED BY <1>3, <2>1, <2>3, <2>4, <2>8, StayStep
<1> QED BY <1>9, <1>10, <1>11

\* The input whose script is run.
AtScript(in) ==
  v.pc = "scripts" /\ v.vin \in DOMAIN obj.txs[v.tx].inputs /\ in = obj.txs[v.tx].inputs[v.vin]

\* The interpreter passes an input exactly if its script is right.
LEMMA PassesIs ==
  ASSUME IInv, NEW in, AtScript(in)
  PROVE  Passes(in) <=> ScriptRight(obj, in)
<1> DEFINE src == obj.txs[in.src]
           mined == in.src \in v.mined
           coin == IF mined THEN src.path.height ELSE Unmined
           old == Genesis # 0 /\ Spent(obj, in).p2sh /\ ~(IsCoinbase(src) /\ mined)
<1>1. v.pc \in Walks /\ v.tx \in v.todo \ v.mined /\ DOMAIN obj.txs[v.tx].inputs = 1..Len(obj.txs[v.tx].inputs)
  BY AtTxFacts DEF AtScript
<1>2. SourcesDone(obj, v.tx, Len(obj.txs[v.tx].inputs), v.tip)
  BY Zenon DEF AtScript, IInv, Inv2, AtTx
<1>3. in.src \in Ids(obj) /\ in.src \in Sources(obj, v.tx)
  BY <1>1, <1>2, Zenon DEF AtScript, SourcesDone, SourceRight, Spendable, Sources
<1>4. src.path # NoPath <=> mined
  BY <1>1, <1>3, TodoFacts
<1>5. mined => src.path.height \in Nat
  <2>1. mined => src.path.height \in Heights
    BY <1>3, <1>4, ShapeFacts, RunFields
  <2>2. Heights \subseteq Nat
    BY SpvAssumption DEF Heights
  <2> QED BY <2>1, <2>2
<1>6. CoinHeight(in) = IF old /\ coin >= Genesis THEN Genesis - 1 ELSE coin
  BY DEF CoinHeight, Body
<1> HIDE DEF mined
<1>7. ScriptRight(obj, in) <=>
        \/ in.script = "ok"
        \/ /\ in.script = "old" /\ Genesis > 0
           /\ \/ mined /\ src.path.height < Genesis
              \/ Spent(obj, in).p2sh /\ ~(IsCoinbase(src) /\ mined)
  BY <1>4 DEF ScriptRight
<1>8. Genesis \in Nat /\ Genesis <= Unmined /\ Unmined \in Nat /\ MaxHeight \in Nat
  BY SpvAssumption DEF Unmined
<1>9. CoinHeight(in) < Genesis <=> Genesis > 0 /\ ((mined /\ src.path.height < Genesis) \/ old)
  <2>1. old => Genesis > 0
    BY <1>8
  <2> HIDE DEF old
  <2>2. CASE mined
    <3>1. coin = src.path.height /\ coin \in Nat
      BY <1>5, <2>2
    <3> HIDE DEF coin, src
    <3>2. CASE old
      BY <1>6, <1>8, <2>1, <2>2, <3>1, <3>2
    <3>3. CASE ~old
      <4>1. CoinHeight(in) = coin
        BY <1>6, <3>3
      <4>2. coin < Genesis => Genesis > 0
        BY <1>8, <3>1
      <4> QED BY <2>2, <3>1, <3>3, <4>1, <4>2
    <3> QED BY <3>2, <3>3
  <2>3. CASE ~mined
    <3>1. coin = Unmined
      BY <2>3
    <3> HIDE DEF coin
    <3> QED BY <1>6, <1>8, <2>1, <2>3, <3>1
  <2> QED BY <2>2, <2>3
<1>10. Genesis > 0 <=> Genesis # 0
  BY <1>8
<1> QED BY <1>7, <1>9, <1>10 DEF Passes

\* checkTx: a script is run.
LEMMA RunScriptStep ==
  ASSUME IInv, Grows, RunScript
  PROVE  IInv'
<1> DEFINE ins == obj.txs[v.tx].inputs
           in == ins[v.vin]
           x == [v EXCEPT !.scripts = @ + 1]
<1>1. v.pc = "scripts" /\ v.vin \in DOMAIN ins
  BY DEF RunScript, Body
<1>2. IF Passes(in) THEN Step([x EXCEPT !.vin = @ + 1]) ELSE Fail(x, "script")
  BY DEF RunScript, Body
<1>3. /\ v.pc \in Walks /\ v.tx \in v.todo \ v.mined /\ Len(ins) \in Nat /\ DOMAIN ins = 1..Len(ins)
      /\ ~StructureFault(obj.txs[v.tx])
  BY <1>1, AtTxFacts
<1>4. Passes(in) <=> ScriptRight(obj, in)
  BY <1>1, PassesIs DEF AtScript
<1>5. /\ ~conf.skip /\ FinalRight(obj, conf, v.tx, v.tip) /\ SourcesDone(obj, v.tx, Len(ins), v.tip)
      /\ AmountsRight(obj, obj.txs[v.tx]) /\ ScriptsDone(obj, v.tx, v.vin - 1)
  BY <1>1 DEF IInv, Inv2, AtTx
<1>6. CASE ~Passes(in)
  <2>1. Fail(x, "script")
    BY <1>2, <1>6
  <2>2. v'.err = "script"
    BY <2>1 DEF Fail, Step, IInv, Inv1, RunType
  <2>3. ~ScriptsRight(obj, obj.txs[v.tx])
    BY <1>1, <1>4, <1>6 DEF ScriptsRight
  <2> QED BY <1>3, <1>5, <2>1, <2>2, <2>3, RuleFails
<1>7. CASE Passes(in)
  <2> DEFINE w == [x EXCEPT !.vin = @ + 1]
  <2>1. Step(w)
    BY <1>2, <1>7
  <2>2. v' = w /\ obj' = obj /\ conf' = conf /\ chain' = chain
    BY <2>1, SameFacts
  <2>3. v.vin \in Nat /\ v.scripts \in Nat /\ v.vin \in 1..Len(ins)
    BY <1>1, <1>3, RunFields
  <2>4. v' = [v EXCEPT !.scripts = v.scripts + 1, !.vin = v.vin + 1] /\ v.scripts + 1 \in Nat /\ v.vin + 1 \in Nat
    BY <2>2, <2>3 DEF IInv, Inv1, RunType
  <2> HIDE DEF w, x, in
  <2>5. /\ v'.pc = "scripts" /\ v'.tx = v.tx /\ v'.tried = v.tried /\ v'.todo = v.todo /\ v'.seen = v.seen
        /\ v'.mined = v.mined /\ v'.vin = v.vin + 1 /\ v'.tip = v.tip /\ RunType'
    BY <1>1, <2>2, <2>4 DEF IInv, Inv1, RunType
  <2>6. ScriptsDone(obj, v.tx, v.vin)
    <3>1. \A i \in 1..v.vin : i \in 1..(v.vin - 1) \/ i = v.vin
      BY <2>3
    <3> QED BY <1>4, <1>5, <1>7, <3>1 DEF ScriptsDone, in
  <2>7. v.vin + 1 \in 1..(Len(ins) + 1) /\ (v.vin + 1) - 1 = v.vin
    BY <1>3, <2>3
  <2>8. AtTx' /\ v'.pc \in Walks
    BY <1>3, <1>5, <2>2, <2>5, <2>6, <2>7 DEF AtTx, Walks
  <2> QED BY <1>3, <2>1, <2>5, <2>8, StayStep
<1> QED BY <1>6, <1>7

\* checkTx: the context ends while a script runs.
LEMMA ScriptCutStep ==
  ASSUME IInv, Grows, ScriptCut
  PROVE  IInv'
<1> DEFINE w == [[v EXCEPT !.scripts = @ + 1] EXCEPT !.pc = "classify", !.err = "script"]
<1>1. Step(w) /\ v.pc = "scripts" /\ expired
  BY DEF ScriptCut, Fail
<1>2. v' = w /\ obj' = obj /\ chain' = chain /\ expired' = expired /\ verdict' = verdict /\ sent' = sent
  BY <1>1, SameFacts
<1>3. v' = [v EXCEPT !.scripts = v.scripts + 1, !.pc = "classify", !.err = "script"] /\ v.scripts + 1 \in Nat
  BY <1>2, RunFields DEF IInv, Inv1, RunType
<1>4. v'.pc = "classify" /\ v'.err = "script" /\ v'.mined = v.mined /\ RunType'
  BY <1>2, <1>3 DEF IInv, Inv1, RunType, Errs
<1>5. expired'
  BY <1>1, <1>2
<1> QED BY <1>1, <1>2, <1>4, <1>5, FailStep

\* checkTx: every script has passed.
LEMMA ScriptsPassedStep ==
  ASSUME IInv, Grows, ScriptsPassed
  PROVE  IInv'
<1>1. v.pc = "scripts" /\ v.vin > Len(obj.txs[v.tx].inputs) /\ Step(Checked)
  BY DEF ScriptsPassed, Body
<1>2. Len(obj.txs[v.tx].inputs) \in Nat /\ DOMAIN obj.txs[v.tx].inputs = 1..Len(obj.txs[v.tx].inputs)
  BY <1>1, AtTxFacts
<1>3. /\ SourcesDone(obj, v.tx, Len(obj.txs[v.tx].inputs), v.tip) /\ AmountsRight(obj, obj.txs[v.tx])
      /\ ScriptsDone(obj, v.tx, v.vin - 1) /\ v.vin \in 1..(Len(obj.txs[v.tx].inputs) + 1)
  BY <1>1 DEF IInv, Inv2, AtTx
<1>4. v.vin - 1 = Len(obj.txs[v.tx].inputs)
  BY <1>1, <1>2, <1>3, PastEnd, Zenon
<1>5. ScriptsRight(obj, obj.txs[v.tx])
  BY <1>2, <1>3, <1>4 DEF ScriptsDone, ScriptsRight
<1> QED BY <1>1, <1>3, <1>5, CheckedStep

\* checkTx ends: the tip is sound.
LEMMA TipCheckedStep ==
  ASSUME IInv, Grows, TipChecked
  PROVE  IInv'
<1> DEFINE w == [v EXCEPT !.pc = "tips", !.seen = {}]
<1>1. Step(w) /\ v.pc = "check" /\ v.todo = {}
  BY DEF TipChecked
<1>2. /\ v' = w /\ obj' = obj /\ chain' = chain /\ verdict' = verdict /\ sent' = sent /\ hist' = hist
      /\ \A u : SoundNow(u)' <=> SoundNow(u)
  BY <1>1, SameFacts
<1>3. v'.pc = "tips" /\ v'.tried = v.tried /\ v'.mined = v.mined /\ RunType'
  BY <1>1, <1>2 DEF IInv, Inv1, RunType
<1>4. MinedOK'
  BY <1>2, <1>3 DEF IInv, Inv1, MinedOK
<1>5. v.pc \in Walks
  BY <1>1 DEF Walks
<1>6. \A u \in v.seen : PassedNow(u) /\ (obj.txs[u].path = NoPath => Sources(obj, u) \subseteq v.seen)
  BY <1>1, <1>5 DEF IInv, Inv2, Checking
<1>7. Closed(obj, v.seen)
  BY <1>6, RunFields DEF Closed
<1>8. \A u \in v.seen : SoundNow(u)
  BY <1>6, <1>7 DEF SoundNow, Sound, PassedNow
<1>9. \A u \in v.tried : SoundNow(u)
  BY <1>1, <1>5, <1>8 DEF IInv, Inv2, Walking
<1>10. obj.parses /\ Ids(obj) # {}
  BY <1>1 DEF IInv, Inv2, Walking
<1>11. Inv2'
  BY <1>2, <1>3, <1>9, <1>10 DEF Inv2, Walking, Proving, Checking, AtTx, AskOK, Found, Walks
<1> QED BY <1>1, <1>2, <1>3, <1>4, <1>11, QuietStep

-----------------------------------------------------------------------------
(* The verdict, and the feed *)

\* An object that does not parse, or that holds no transaction.
LEMMA ParseRefusedStep ==
  ASSUME IInv, Grows, ParseRefused
  PROVE  IInv'
<1>1. v.pc = "parse" /\ End("refused", "parse") /\ (~obj.parses \/ Ids(obj) = {})
  BY DEF ParseRefused
<1>2. FaultFound
  BY <1>1 DEF FaultFound, FaultFor, FaultAt
<1> QED BY <1>1, <1>2, EndStep

\* Every tip is sound.
LEMMA AllPassedStep ==
  ASSUME IInv, Grows, AllPassed
  PROVE  IInv'
<1>1. v.pc = "tips" /\ End("ok", "none") /\ Tips(obj) \subseteq v.tried
  BY DEF AllPassed
<1>2. obj.parses /\ Ids(obj) # {} /\ \A t \in Tips(obj) : SoundNow(t)
  BY <1>1 DEF IInv, Inv2, Walking
<1> QED BY <1>1, <1>2, EndStep

\* classify: a refusal has found a fault.
LEMMA ClassifyStep ==
  ASSUME IInv, Grows, Classify
  PROVE  IInv'
<1> DEFINE result == IF Reason \in {"deadline", "tracker", "not_yet"} THEN "error" ELSE "refused"
<1>1. v.pc = "classify" /\ End(result, Reason)
  BY DEF Classify
<1>2. /\ v.err # "none" /\ (v.err = "tracker" => v.failed)
      /\ v.err \in {"structure", "script"} => expired \/ FaultFound
      /\ v.err = "merkle" => v.notYet \/ hist.absent \/ FaultFound
  BY <1>1 DEF IInv, Inv2, Found
<1>3. v.err \in Errs
  BY DEF IInv, Inv1, RunType
<1>4. result = "refused" => ~expired /\ ~v.failed /\ ~v.notYet /\ Reason = v.err
  <2>1. CASE expired
    BY <2>1 DEF Reason
  <2>2. CASE ~expired /\ v.failed
    BY <2>2 DEF Reason
  <2>3. CASE ~expired /\ ~v.failed /\ v.notYet
    BY <2>3 DEF Reason
  <2>4. CASE ~expired /\ ~v.failed /\ ~v.notYet
    BY <2>4 DEF Reason
  <2> QED BY <2>1, <2>2, <2>3, <2>4
<1>5. result \in {"ok", "refused", "error"} /\ result # "ok"
  OBVIOUS
<1> HIDE DEF result
<1>6. result = "refused" => (Reason = "merkle" /\ hist.absent) \/ FaultFound
  BY <1>2, <1>3, <1>4 DEF Errs
<1> QED BY <1>1, <1>5, <1>6, EndStep

\* The verification is over: nothing of the walks is left to keep.
LEMMA OverStep ==
  ASSUME IInv, Grows, v' = v \/ v' = [v EXCEPT !.pc = "done"], v.pc \in {"settle", "done"}, obj' = obj, chain' = chain
  PROVE  Inv1' /\ Inv2' /\ v'.pc \in {"settle", "done"}
<1>1. v'.pc \in {"settle", "done"} /\ v'.mined = v.mined /\ v'.tip = v.tip /\ RunType'
  BY DEF IInv, Inv1, RunType
<1>2. MinedOK'
  BY <1>1 DEF Grows, IInv, Inv1, MinedOK, OnSomeBranch
<1>3. Inv2'
  BY <1>1 DEF Inv2, Walking, Proving, Checking, AtTx, AskOK, Found, Walks
<1> QED BY <1>1, <1>2, <1>3 DEF Grows, Inv1

\* process: the object is dropped or submitted.
LEMMA SettleStep ==
  ASSUME IInv, Grows, Settle
  PROVE  IInv'
<1>1. /\ v.pc = "settle" /\ v' = [v EXCEPT !.pc = "done"] /\ obj' = obj /\ conf' = conf /\ chain' = chain
      /\ verdict' = verdict /\ hist' = hist
  BY DEF Settle
<1>2. Inv1' /\ Inv2' /\ v'.pc \in {"settle", "done"}
  BY <1>1, OverStep
<1>3. Verdicts'
  <2>1. \A t : SoundNow(t)' <=> SoundNow(t)
    BY <1>1 DEF SoundNow
  <2> QED BY <1>1, <1>2, <2>1 DEF IInv, Verdicts
<1>4. v'.pc = "done"
  BY <1>1 DEF IInv, Inv1, RunType
<1>5. /\ sent.to = "none" /\ sent.marker = NoMarker /\ sent.engine = "none" /\ sent.mismatch = "none"
      /\ sent \in [to : {"none", "engine", "dropped"}, marker : {NoMarker, Marker(conf.key, obj)},
                   engine : {"none", "ok", "refused", "failed"},
                   mismatch : {"none", "bridge_ok_engine_refused", "bridge_refused_engine_ok"}]
  BY <1>1 DEF IInv, Sends
<1>6. Sends'
  <2>1. CASE conf.mode = "library"
    <3>1. sent' = sent
      BY <2>1 DEF Settle
    <3> QED BY <1>1, <1>4, <1>5, <3>1 DEF Sends
  <2>2. CASE conf.mode # "library" /\ Drops
    <3>1. sent' = [sent EXCEPT !.to = "dropped"] /\ conf.mode = "enforce" /\ verdict.result = "refused"
      BY <2>2 DEF Settle, Drops
    <3> QED BY <1>1, <1>4, <1>5, <3>1 DEF Sends
  <2>3. CASE conf.mode # "library" /\ ~Drops
    <3> DEFINE marker == IF conf.mode = "enforce" /\ verdict.result = "ok" /\ conf.key # "short"
                         THEN Marker(conf.key, obj) ELSE NoMarker
    <3>1. sent' = [sent EXCEPT !.to = "engine", !.marker = marker]
      BY <2>3 DEF Settle
    <3>2. /\ marker \in {NoMarker, Marker(conf.key, obj)}
          /\ marker # NoMarker => conf.mode = "enforce" /\ verdict.result = "ok"
      OBVIOUS
    <3> HIDE DEF marker
    <3> QED BY <1>1, <1>4, <1>5, <2>3, <3>1, <3>2 DEF Sends
  <2> QED BY <2>1, <2>2, <2>3
<1> QED BY <1>2, <1>3, <1>6 DEF IInv

\* compare: the engine's answer.
LEMMA EngineAnswersStep ==
  ASSUME IInv, Grows, EngineAnswers
  PROVE  IInv'
<1>1. /\ v.pc = "done" /\ sent.to = "engine" /\ sent.engine = "none" /\ v' = v /\ obj' = obj /\ conf' = conf
      /\ chain' = chain /\ verdict' = verdict /\ hist' = hist
  BY DEF EngineAnswers
<1>2. PICK answer \in {"ok", "refused", "failed"} :
        sent' = [sent EXCEPT !.engine = answer,
                             !.mismatch = IF conf.mode = "shadow" THEN Mismatch(answer) ELSE "none"]
  BY DEF EngineAnswers
<1>3. Inv1' /\ Inv2' /\ v'.pc \in {"settle", "done"}
  BY <1>1, OverStep
<1>4. Verdicts'
  <2>1. \A t : SoundNow(t)' <=> SoundNow(t)
    BY <1>1 DEF SoundNow
  <2> QED BY <1>1, <1>3, <2>1 DEF IInv, Verdicts
<1>5. Sends'
  <2> DEFINE m == IF conf.mode = "shadow" THEN Mismatch(answer) ELSE "none"
  <2>1. \/ m = "none"
        \/ m = "bridge_ok_engine_refused" /\ verdict.result = "ok" /\ answer = "refused"
        \/ m = "bridge_refused_engine_ok" /\ verdict.result = "refused" /\ answer = "ok"
    BY DEF Mismatch
  <2> HIDE DEF m
  <2>2. sent' = [sent EXCEPT !.engine = answer, !.mismatch = m]
    BY <1>2 DEF m
  <2> QED BY <1>1, <2>1, <2>2 DEF IInv, Sends
<1> QED BY <1>3, <1>4, <1>5 DEF IInv

-----------------------------------------------------------------------------
(* The theorems *)

\* A verification begins with nothing known.
LEMMA InitIInv == Init => IInv
<1> SUFFICES ASSUME Init PROVE IInv
  OBVIOUS
<1>1. PICK b \in Branch, others \in SUBSET Branch :
         /\ chain = [branch |-> b, top |-> StartHeight, learned |-> 0]
         /\ hist = [branches |-> others \cup {b}, start |-> StartHeight, absent |-> FALSE]
  BY DEF Init
<1>2. /\ obj \in Object /\ conf \in Confs /\ expired = FALSE /\ v = NewRun /\ verdict = NoVerdict
      /\ sent = [to |-> "none", marker |-> NoMarker, engine |-> "none", mismatch |-> "none"]
  BY DEF Init
<1>3. Env
  <2>1. StartHeight \in Heights /\ 0 \in Heights /\ 0 <= StartHeight /\ conf \in Conf
    BY <1>2, SpvAssumption DEF Heights
  <2> QED BY <1>1, <1>2, <2>1 DEF Env
<1>4. v.pc = "parse" /\ v.mined = {} /\ v.tried = {} /\ v.tip = NoTip /\ RunType
  BY <1>2 DEF NewRun, RunType, Errs, NoTip
<1>5. MinedOK /\ Inv2
  BY <1>4 DEF MinedOK, Inv2, Walking, Proving, Checking, AtTx, AskOK, Found, Walks
<1>6. Verdicts
  BY <1>2, <1>4 DEF Verdicts, NoVerdict
<1>7. Sends
  BY <1>2 DEF Sends
<1> QED BY <1>3, <1>4, <1>5, <1>6, <1>7 DEF IInv, Inv1

\* Every step keeps the invariant.
LEMMA NextIInv == IInv /\ [Next]_vars => IInv'
<1> SUFFICES ASSUME IInv, [Next]_vars PROVE IInv'
  OBVIOUS
<1>1. Grows
  BY GrowsStep DEF IInv, Inv1
<1>2. CASE Extend \/ Learn \/ Expire \/ UNCHANGED vars
  BY <1>1, <1>2, OutsideStep
<1>3. CASE Settle
  BY <1>1, <1>3, SettleStep
<1>4. CASE EngineAnswers
  BY <1>1, <1>4, EngineAnswersStep
<1>5. CASE Verify
  <2>1. ASSUME NEW t \in Ids(obj), Walk(t) PROVE IInv'
    BY <1>1, <2>1, NextTipStep, ProveLinksStep, ProveBrokenStep, ProveRootStep, CheckMinedStep, CheckStructureStep
       DEF Walk
  <2>2. CASE ParseRefused \/ Parse \/ AllPassed \/ Classify
    BY <1>1, <2>2, ParseRefusedStep, ParseStep, AllPassedStep, ClassifyStep
  <2>3. CASE AskTip \/ Proven \/ ChainTip \/ CheckFinal \/ CheckInput \/ CheckAmounts
    BY <1>1, <2>3, AskTipStep, ProvenStep, ChainTipStep, CheckFinalStep, CheckInputStep, CheckAmountsStep
  <2>4. CASE RunScript \/ ScriptCut \/ ScriptsPassed \/ TipChecked
    BY <1>1, <2>4, RunScriptStep, ScriptCutStep, ScriptsPassedStep, TipCheckedStep
  <2> QED BY <1>5, <2>1, <2>2, <2>3, <2>4 DEF Verify
<1> QED BY <1>2, <1>3, <1>4, <1>5 DEF Next

\* The invariant holds throughout.
LEMMA Invariance == Spec => []IInv
BY InitIInv, NextIInv, PTL DEF Spec

\* A pass means that all that is judged has passed, at the tip of today.
LEMMA PassMeans ==
  ASSUME IInv, verdict.result = "ok"
  PROVE  /\ obj.parses /\ Ids(obj) # {}
         /\ \A t \in Judged(obj, Tips(obj)) : PassedTx(obj, conf, hist.branches, chain.top, t)
<1>1. obj.parses /\ Ids(obj) # {} /\ \A t \in Tips(obj) : Sound(obj, conf, hist.branches, chain.top, t)
  BY DEF IInv, Verdicts, SoundNow
<1> QED BY <1>1, SoundJudged, RunFields

\* The ancestors of some transactions hold the sources of these and of their own.
LEMMA BelowClosed ==
  ASSUME NEW o, NEW T, T \subseteq Ids(o)
  PROVE  Below(o, T) \subseteq Ids(o) /\ \A u \in T \cup Below(o, T) : Sources(o, u) \subseteq Below(o, T)
<1>1. ASSUME NEW u \in T \cup Below(o, T), NEW t \in Sources(o, u), NEW S \in SUBSET Ids(o),
             \A x \in T \cup S : Sources(o, x) \subseteq S
      PROVE  t \in S
  <2>1. u \in T \cup S
    BY <1>1 DEF Below
  <2> QED BY <1>1, <2>1
<1>2. \A u : Sources(o, u) \subseteq Ids(o)
  BY DEF Sources
<1> QED BY <1>1, <1>2 DEF Below

\* Some last one of any transactions is spent by no other of them.
LEMMA LastOne ==
  ASSUME NEW o \in Object, NEW S \in SUBSET Ids(o), S # {}
  PROVE  \E t \in S : \A u \in S : t \notin Sources(o, u)
<1>1. Ordered(o)
  BY SpvAssumption
<1>2. PICK t \in S : \A u \in S : \A i \in DOMAIN o.txs[u].inputs : o.txs[u].inputs[i].src # t
  BY <1>1 DEF Ordered, Ids
<1> QED BY <1>2 DEF Sources

\* All that is not judged lies below a proven transaction that is.
LEMMA Covered ==
  ASSUME NEW o \in Object
  PROVE  \A t \in Ids(o) : \/ t \in Judged(o, Tips(o))
                           \/ t \in Below(o, {u \in Judged(o, Tips(o)) : o.txs[u].path # NoPath})
<1>1. PICK J : J = Judged(o, Tips(o))
  OBVIOUS
<1>2. PICK P : P = {u \in J : o.txs[u].path # NoPath}
  OBVIOUS
<1>3. PICK W : W = Below(o, P)
  OBVIOUS
<1>4. Tips(o) \subseteq J /\ J \subseteq Ids(o) /\ \A t \in J : o.txs[t].path = NoPath => Sources(o, t) \subseteq J
  BY <1>1, JudgedFacts DEF Closed
<1>5. W \subseteq Ids(o) /\ \A u \in P \cup W : Sources(o, u) \subseteq W
  BY <1>2, <1>3, <1>4, BelowClosed
<1>6. PICK B : B = {t \in Ids(o) : t \notin J /\ t \notin W}
  OBVIOUS
<1>7. ASSUME B # {} PROVE FALSE
  <2>1. PICK t \in B : \A u \in B : t \notin Sources(o, u)
    BY <1>6, <1>7, LastOne
  <2>2. PICK u \in Ids(o) : t \in Sources(o, u)
    BY <1>4, <1>6, <2>1 DEF Tips
  <2>3. u \in J \/ u \in W
    BY <1>6, <2>1, <2>2
  <2> QED BY <1>2, <1>4, <1>5, <1>6, <2>2, <2>3
<1> QED BY <1>1, <1>2, <1>3, <1>6, <1>7

\* Every transaction of an object that passed is good, or an ancestor of a mined one.
LEMMA PassCovers ==
  ASSUME IInv, verdict.result = "ok", NEW t \in Ids(obj), t \notin Buried(obj, hist.branches)
  PROVE  PassedTx(obj, conf, hist.branches, chain.top, t)
<1> DEFINE P == {u \in Judged(obj, Tips(obj)) : obj.txs[u].path # NoPath}
           Q == {u \in Ids(obj) : obj.txs[u].path # NoPath /\ OnSomeBranch(hist.branches, obj.txs[u].path)}
<1>1. obj \in Object
  BY RunFields
<1>2. \A u \in Judged(obj, Tips(obj)) : PassedTx(obj, conf, hist.branches, chain.top, u) /\ u \in Ids(obj)
  BY PassMeans, JudgedFacts DEF Closed
<1>3. P \subseteq Q
  BY <1>2 DEF PassedTx
<1> HIDE DEF P, Q
<1>4. Below(obj, P) \subseteq Below(obj, Q)
  BY <1>3 DEF Below
<1>5. t \notin Below(obj, Q)
  BY DEF Buried, Q
<1>6. t \in Judged(obj, Tips(obj))
  BY <1>1, <1>4, <1>5, Covered DEF P
<1> QED BY <1>2, <1>6

\* What verify passes keeps the rules: of every transaction that is no ancestor
\* of a mined one, the path is on a chain the tracker answers from, or it is
\* valid at the tip of today, whatever the chain did between the calls.
THEOREM OKVerifiedHolds == Spec => []OKVerified
<1>1. ASSUME IInv PROVE OKVerified
  <2> SUFFICES ASSUME verdict.result = "ok"
               PROVE  /\ obj.parses /\ Ids(obj) # {}
                      /\ \A t \in Ids(obj) \ Buried(obj, hist.branches) : GoodTx(t, chain.top)
    BY DEF OKVerified
  <2>1. obj.parses /\ Ids(obj) # {}
    BY <1>1, PassMeans
  <2>2. ASSUME NEW t \in Ids(obj), t \notin Buried(obj, hist.branches) PROVE GoodTx(t, chain.top)
    <3>1. PassedTx(obj, conf, hist.branches, chain.top, t)
      BY <1>1, <2>2, PassCovers
    <3> QED BY <3>1 DEF PassedTx, GoodTx, Body
  <2> QED BY <2>1, <2>2
<1> QED BY <1>1, Invariance, PTL

\* What verify refuses has a fault at the tip the verification saw, or at every
\* tip if it saw none; a failing tracker, a deadline or a header still to come
\* is never taken for one.  Only the client's 404 is.
THEOREM RefusedJustifiedHolds == Spec => []RefusedJustified
<1>1. ASSUME IInv PROVE RefusedJustified
  <2> SUFFICES ASSUME verdict.result = "refused",
                      ~(conf.tracker = "client" /\ verdict.reason = "merkle" /\ hist.absent),
                      NEW tip \in (IF verdict.tip = NoTip THEN Heights ELSE {verdict.tip})
               PROVE  Faulty(tip)
    BY DEF RefusedJustified
  <2>1. FaultFor(obj, conf, hist.branches, verdict.tip)
    BY <1>1 DEF IInv, Inv1, Env, Verdicts
  <2>2. FaultAt(obj, conf, hist.branches, tip)
    BY <2>1 DEF FaultFor, TipsFor
  <2> QED BY <2>2, FaultyIs
<1> QED BY <1>1, Invariance, PTL

\* The marker that process puts on an object waives the scripts of the whole of
\* it: they are right of every transaction without a path that is no ancestor of
\* a mined one.  And what the engine is not shown has a fault.
THEOREM TrustEarnedHolds == Spec => []TrustEarned
<1>1. ASSUME IInv PROVE TrustEarned
  <2>1. ASSUME CheckMarker(conf.key, obj, sent.marker), NEW t \in Ids(obj) \ Buried(obj, hist.branches),
               Body(t).path = NoPath
        PROVE  ScriptsRight(obj, Body(t))
    <3>1. sent.marker # NoMarker
      BY <2>1 DEF CheckMarker, Marker, NoMarker
    <3>2. conf.mode = "enforce" /\ verdict.result = "ok"
      BY <1>1, <3>1 DEF IInv, Sends
    <3>3. ~conf.skip
      BY <1>1, <3>2, RunFields DEF Conf
    <3>4. PassedTx(obj, conf, hist.branches, chain.top, t)
      BY <1>1, <3>2, PassCovers
    <3> QED BY <2>1, <3>3, <3>4 DEF PassedTx, Body
  <2>2. ASSUME sent.to = "dropped"
        PROVE  Faulty(IF verdict.tip = NoTip THEN chain.top ELSE verdict.tip)
    <3>1. conf.mode = "enforce" /\ verdict.result = "refused"
      BY <1>1, <2>2 DEF IInv, Sends
    <3>2. conf.tracker # "client"
      BY <1>1, <3>1, RunFields DEF Conf
    <3>3. FaultFor(obj, conf, hist.branches, verdict.tip)
      BY <1>1, <3>1, <3>2 DEF IInv, Inv1, Env, Verdicts
    <3>4. chain.top \in Heights
      BY <1>1 DEF IInv, Inv1, Env
    <3>5. FaultAt(obj, conf, hist.branches, IF verdict.tip = NoTip THEN chain.top ELSE verdict.tip)
      BY <3>3, <3>4 DEF FaultFor, TipsFor
    <3> QED BY <3>5, FaultyIs
  <2> QED BY <2>1, <2>2 DEF TrustEarned
<1> QED BY <1>1, Invariance, PTL

-----------------------------------------------------------------------------
(* The depth *)

\* One turn of the recursion of Depth, and the function it defines.
DepthTurn(o, f, t) == Max({0} \cup {f[p] + 1 : p \in Sources(o, t)})
DepthFn(o) == CHOOSE f : f = [t \in Ids(o) |-> DepthTurn(o, f, t)]

\* Depth is the greatest value of that function.
LEMMA DepthIsGreatest ==
  ASSUME NEW o
  PROVE  Depth(o) = Max({0} \cup {DepthFn(o)[t] : t \in Ids(o)})
BY DEF Depth, DepthFn, DepthTurn

\* Max of the community modules, of zero and finitely many naturals.
LEMMA MaxIs ==
  ASSUME NEW f, NEW S, IsFiniteSet(S), \A x \in S : f[x] \in Nat
  PROVE  /\ Max({0} \cup {f[x] : x \in S}) \in Nat
         /\ \A x \in S : f[x] <= Max({0} \cup {f[x2] : x2 \in S})
         /\ \/ Max({0} \cup {f[x] : x \in S}) = 0
            \/ \E x \in S : Max({0} \cup {f[x2] : x2 \in S}) = f[x]
<1>0. PICK M : M = {0} \cup {f[x] : x \in S}
  OBVIOUS
<1>1. \E m \in M : \A y \in M : m >= y
  <2>1. CASE S = {}
    BY <1>0, <2>1
  <2>2. CASE S # {}
    <3>1. PICK x \in S : \A y \in S : f[y] <= f[x]
      BY <2>2, GreatestValue
    <3>2. f[x] \in M /\ \A y \in M : f[x] >= y
      BY <1>0, <3>1
    <3> QED BY <3>2
  <2> QED BY <2>1, <2>2
<1>2. Max(M) \in M /\ \A y \in M : Max(M) >= y
  BY <1>1 DEF Max
<1>3. M \subseteq Nat /\ \A x \in S : f[x] \in M
  BY <1>0
<1>4. Max(M) \in Nat /\ \A x \in S : f[x] <= Max(M)
  BY <1>2, <1>3
<1>5. Max(M) = 0 \/ \E x \in S : Max(M) = f[x]
  BY <1>0, <1>2
<1> QED BY <1>0, <1>4, <1>5

\* What the assumption says of the order of an object's transactions.
LEMMA OrderFacts ==
  ASSUME NEW o \in Object
  PROVE  /\ IsFiniteSet(Ids(o)) /\ \A t : Sources(o, t) \subseteq Ids(o)
         /\ \A S \in SUBSET Ids(o) : S # {} => \E t \in S : \A p \in Sources(o, t) : p \notin S
<1>1. Ordered(o)
  BY SpvAssumption
<1>2. IsFiniteSet(Ids(o)) /\ \A t : Sources(o, t) \subseteq Ids(o)
  BY <1>1 DEF Ordered, Ids, Sources
<1>3. ASSUME NEW S \in SUBSET Ids(o), S # {} PROVE \E t \in S : \A p \in Sources(o, t) : p \notin S
  <2>1. PICK t \in S : \A i \in DOMAIN o.txs[t].inputs : o.txs[t].inputs[i].src \notin S
    BY <1>1, <1>3 DEF Ordered, Ids
  <2>2. \A p \in Sources(o, t) : p \notin S
    BY <2>1 DEF Sources
  <2> QED BY <2>2
<1> QED BY <1>2, <1>3

\* The part of the object for which the recursion has a solution.
Solved(o, S) ==
  /\ S \in SUBSET Ids(o) /\ \A t \in S : Sources(o, t) \subseteq S
  /\ \E g : g = [t \in S |-> DepthTurn(o, g, t)]

\* One transaction more, whose sources are solved.
LEMMA SolvedMore ==
  ASSUME NEW o, NEW S, Solved(o, S), NEW t \in Ids(o) \ S, Sources(o, t) \subseteq S
  PROVE  Solved(o, S \cup {t})
<1>1. PICK g : g = [u \in S |-> DepthTurn(o, g, u)]
  BY DEF Solved
<1>2. S \in SUBSET Ids(o) /\ \A u \in S : Sources(o, u) \subseteq S
  BY DEF Solved
<1>3. PICK h : h = [u \in S \cup {t} |-> IF u \in S THEN g[u] ELSE DepthTurn(o, g, u)]
  OBVIOUS
<1>4. \A u \in S : h[u] = g[u] /\ g[u] = DepthTurn(o, g, u)
  BY <1>1, <1>3
<1>5. \A u \in S \cup {t} : Sources(o, u) \subseteq S
  BY <1>2
<1>6. ASSUME NEW u \in S \cup {t} PROVE DepthTurn(o, h, u) = DepthTurn(o, g, u)
  <2>1. {h[p] + 1 : p \in Sources(o, u)} = {g[p] + 1 : p \in Sources(o, u)}
    BY <1>4, <1>5
  <2> QED BY <2>1 DEF DepthTurn
<1>7. h[t] = DepthTurn(o, g, t)
  BY <1>3
<1>8. \A u \in S \cup {t} : h[u] = DepthTurn(o, h, u)
  BY <1>4, <1>6, <1>7
<1>9. h = [u \in S \cup {t} |-> DepthTurn(o, h, u)]
  BY <1>3, <1>8
<1> QED BY <1>2, <1>5, <1>9 DEF Solved

\* So the whole object has one: a part that is as great as can be is all of it.
LEMMA DepthExists ==
  ASSUME NEW o \in Object
  PROVE  \E f : f = [t \in Ids(o) |-> DepthTurn(o, f, t)]
<1>1. PICK B : B = {S \in SUBSET Ids(o) : Solved(o, S)}
  OBVIOUS
<1>2. IsFiniteSet(Ids(o)) /\ IsFiniteSet(B)
  BY <1>1, OrderFacts, FS_SUBSET, FS_Subset
<1>3. Solved(o, {})
  <2>1. [t \in {} |-> 0] = [t \in {} |-> DepthTurn(o, [u \in {} |-> 0], t)]
    OBVIOUS
  <2> QED BY <2>1 DEF Solved
<1>4. PICK size : size = [S \in B |-> Cardinality(S)]
  OBVIOUS
<1>5. \A S \in B : size[S] = Cardinality(S) /\ IsFiniteSet(S) /\ Cardinality(S) \in Nat
  BY <1>1, <1>2, <1>4, FS_Subset, FS_CardinalityType
<1>6. PICK S \in B : \A U \in B : size[U] <= size[S]
  <2>1. B # {} /\ \A U \in B : size[U] \in Nat
    BY <1>1, <1>3, <1>5
  <2> QED BY <1>2, <2>1, GreatestValue
<1>7. S = Ids(o)
  <2>1. SUFFICES ASSUME Ids(o) \ S # {} PROVE FALSE
    BY <1>1, <1>6
  <2>2. PICK t \in Ids(o) \ S : \A p \in Sources(o, t) : p \notin Ids(o) \ S
    BY <2>1, OrderFacts
  <2>3. Solved(o, S \cup {t}) /\ S \cup {t} \in B
    BY <1>1, <1>6, <2>2, OrderFacts, SolvedMore
  <2>4. Cardinality(S \cup {t}) = Cardinality(S) + 1
    BY <1>5, <2>2, FS_AddElement
  <2> QED BY <1>5, <1>6, <2>3, <2>4
<1> QED BY <1>1, <1>6, <1>7 DEF Solved

\* The depth of a transaction is a natural, one more than the greatest of its
\* sources'.
LEMMA DepthSteps ==
  ASSUME NEW o \in Object, NEW t \in Ids(o)
  PROVE  /\ DepthFn(o)[t] \in Nat
         /\ \A p \in Sources(o, t) : DepthFn(o)[p] \in Nat /\ DepthFn(o)[p] + 1 <= DepthFn(o)[t]
         /\ DepthFn(o)[t] = 0 \/ \E p \in Sources(o, t) : DepthFn(o)[t] = DepthFn(o)[p] + 1
<1>1. PICK d : d = DepthFn(o)
  OBVIOUS
<1>2. \A u \in Ids(o) : d[u] = DepthTurn(o, d, u)
  <2>1. d = [u \in Ids(o) |-> DepthTurn(o, d, u)]
    BY <1>1, DepthExists DEF DepthFn
  <2> QED BY <2>1
<1>3. IsFiniteSet(Ids(o)) /\ \A u : Sources(o, u) \subseteq Ids(o)
  BY OrderFacts
<1>4. ASSUME NEW u \in Ids(o), \A p \in Sources(o, u) : d[p] \in Nat
      PROVE  /\ d[u] \in Nat /\ \A p \in Sources(o, u) : d[p] + 1 <= d[u]
             /\ d[u] = 0 \/ \E p \in Sources(o, u) : d[u] = d[p] + 1
  <2>1. PICK g : g = [p \in Sources(o, u) |-> d[p] + 1]
    OBVIOUS
  <2>2. \A p \in Sources(o, u) : g[p] = d[p] + 1 /\ g[p] \in Nat
    BY <1>4, <2>1
  <2>3. IsFiniteSet(Sources(o, u))
    BY <1>3, FS_Subset
  <2>4. {d[p] + 1 : p \in Sources(o, u)} = {g[p] : p \in Sources(o, u)}
    BY <2>2
  <2>5. d[u] = Max({0} \cup {g[p] : p \in Sources(o, u)})
    BY <1>2, <2>4 DEF DepthTurn
  <2>6. PICK m : m = Max({0} \cup {g[p] : p \in Sources(o, u)})
    OBVIOUS
  <2>7. /\ m \in Nat /\ \A p \in Sources(o, u) : g[p] <= m
        /\ m = 0 \/ \E p \in Sources(o, u) : m = g[p]
    <3>1. \A p \in Sources(o, u) : g[p] \in Nat
      BY <2>2
    <3> QED BY <2>3, <2>6, <3>1, MaxIs
  <2>8. d[u] = m
    BY <2>5, <2>6
  <2> QED BY <2>2, <2>7, <2>8
<1>5. \A u \in Ids(o) : d[u] \in Nat
  <2>1. PICK Bad : Bad = {u \in Ids(o) : d[u] \notin Nat}
    OBVIOUS
  <2>2. SUFFICES ASSUME Bad # {} PROVE FALSE
    BY <2>1
  <2>3. PICK u \in Bad : \A p \in Sources(o, u) : p \notin Bad
    BY <2>1, <2>2, OrderFacts
  <2>4. u \in Ids(o) /\ d[u] \notin Nat /\ \A p \in Sources(o, u) : d[p] \in Nat
    BY <1>3, <2>1, <2>3
  <2> QED BY <1>4, <2>4
<1>6. \A p \in Sources(o, t) : d[p] \in Nat
  BY <1>3, <1>5
<1> QED BY <1>1, <1>4, <1>5, <1>6

\* A chain of n parents that begins at t.
ChainFrom(o, c, n, t) ==
  c \in [0..n -> Ids(o)] /\ c[0] = t /\ \A i \in 1..n : c[i] \in Sources(o, c[i - 1])

LEMMA ChainOfIs ==
  ASSUME NEW o, NEW n \in Nat
  PROVE  ChainOf(o, n) <=> \E t \in Ids(o) : \E c : ChainFrom(o, c, n, t)
<1>1. 0 \in 0..n
  OBVIOUS
<1> QED BY <1>1 DEF ChainOf, ChainFrom

\* No chain from a transaction is longer than its depth.
LEMMA ChainBound ==
  ASSUME NEW o \in Object, NEW n \in Nat, NEW t \in Ids(o), NEW c, ChainFrom(o, c, n, t)
  PROVE  n <= DepthFn(o)[t]
<1> DEFINE Good == {m \in Nat : \A u \in Ids(o) : \A e : ChainFrom(o, e, m, u) => m <= DepthFn(o)[u]}
<1>1. 0 \in Good
  BY DepthSteps
<1>2. ASSUME NEW m \in Good PROVE m + 1 \in Good
  <2>1. ASSUME NEW u \in Ids(o), NEW e, ChainFrom(o, e, m + 1, u) PROVE m + 1 <= DepthFn(o)[u]
    <3>1. PICK k : k = [i \in 0..m |-> e[i + 1]]
      OBVIOUS
    <3>2. /\ m \in Nat /\ e \in [0..(m + 1) -> Ids(o)] /\ e[0] = u
          /\ \A i \in 1..(m + 1) : e[i] \in Sources(o, e[i - 1])
      BY <2>1 DEF ChainFrom
    <3>3. e[1] \in Sources(o, u) /\ e[1] \in Ids(o)
      <4>1. 1 \in 1..(m + 1) /\ 1 \in 0..(m + 1) /\ 1 - 1 = 0
        BY <3>2
      <4> QED BY <3>2, <4>1
    <3>4. ASSUME NEW i \in 1..m PROVE k[i] \in Sources(o, k[i - 1])
      <4>1. i + 1 \in 1..(m + 1) /\ i \in 0..m /\ i - 1 \in 0..m /\ (i + 1) - 1 = i /\ (i - 1) + 1 = i
        BY <3>2
      <4>2. e[i + 1] \in Sources(o, e[i])
        BY <3>2, <4>1
      <4> QED BY <3>1, <4>1, <4>2
    <3>5. \A i \in 0..m : k[i] = e[i + 1] /\ i + 1 \in 0..(m + 1)
      BY <3>1, <3>2
    <3>6. 0 \in 0..m /\ k[0] = e[1]
      BY <3>2, <3>5
    <3>7. ChainFrom(o, k, m, e[1])
      BY <3>1, <3>2, <3>4, <3>5, <3>6 DEF ChainFrom
    <3>8. m <= DepthFn(o)[e[1]]
      BY <1>2, <3>3, <3>7
    <3>9. DepthFn(o)[e[1]] + 1 <= DepthFn(o)[u] /\ DepthFn(o)[e[1]] \in Nat /\ DepthFn(o)[u] \in Nat
      BY <3>3, DepthSteps
    <3> QED BY <3>2, <3>8, <3>9
  <2>2. m + 1 \in Nat
    BY <1>2
  <2> QED BY <2>1, <2>2
<1>3. n \in Good
  <2> Good \in SUBSET Nat
    OBVIOUS
  <2> HIDE DEF Good
  <2> QED BY <1>1, <1>2, NaturalSetInduction
<1> QED BY <1>3

\* And there is one of that length.
LEMMA ChainReached ==
  ASSUME NEW o \in Object, NEW t \in Ids(o)
  PROVE  \E c : ChainFrom(o, c, DepthFn(o)[t], t)
<1> DEFINE Good == {m \in Nat : \A u \in Ids(o) : DepthFn(o)[u] = m => \E c : ChainFrom(o, c, m, u)}
<1>1. 0 \in Good
  <2>1. ASSUME NEW u \in Ids(o) PROVE ChainFrom(o, [i \in 0..0 |-> u], 0, u)
    BY DEF ChainFrom
  <2> QED BY <2>1
<1>2. ASSUME NEW m \in Good PROVE m + 1 \in Good
  <2>0. m \in Nat /\ m + 1 \in Nat
    BY <1>2
  <2>1. ASSUME NEW u \in Ids(o), DepthFn(o)[u] = m + 1 PROVE \E c : ChainFrom(o, c, m + 1, u)
    <3>1. PICK p \in Sources(o, u) : DepthFn(o)[u] = DepthFn(o)[p] + 1 /\ DepthFn(o)[p] \in Nat
      BY <2>0, <2>1, DepthSteps
    <3>2. p \in Ids(o) /\ DepthFn(o)[p] = m
      BY <2>0, <2>1, <3>1, OrderFacts
    <3>3. PICK e : ChainFrom(o, e, m, p)
      BY <1>2, <3>2
    <3>4. e \in [0..m -> Ids(o)] /\ e[0] = p /\ \A i \in 1..m : e[i] \in Sources(o, e[i - 1])
      BY <3>3 DEF ChainFrom
    <3>5. PICK k : k = [i \in 0..(m + 1) |-> IF i = 0 THEN u ELSE e[i - 1]]
      OBVIOUS
    <3>6. k[0] = u /\ \A i \in 1..(m + 1) : k[i] = e[i - 1] /\ i - 1 \in 0..m
      BY <2>0, <3>5
    <3>7. k \in [0..(m + 1) -> Ids(o)]
      BY <2>0, <3>4, <3>5
    <3>8. ASSUME NEW i \in 1..(m + 1) PROVE k[i] \in Sources(o, k[i - 1])
      <4>1. CASE i = 1
        BY <3>1, <3>4, <3>6, <4>1
      <4>2. CASE i # 1
        <5>1. i - 1 \in 1..m /\ i - 1 \in 1..(m + 1)
          BY <2>0, <4>2
        <5>2. e[i - 1] \in Sources(o, e[(i - 1) - 1])
          BY <3>4, <5>1
        <5> QED BY <3>6, <5>1, <5>2
      <4> QED BY <4>1, <4>2
    <3>9. ChainFrom(o, k, m + 1, u)
      BY <3>6, <3>7, <3>8 DEF ChainFrom
    <3> QED BY <3>9
  <2> QED BY <2>0, <2>1
<1>3. DepthFn(o)[t] \in Good
  <2>1. DepthFn(o)[t] \in Nat
    BY DepthSteps
  <2> Good \in SUBSET Nat
    OBVIOUS
  <2> HIDE DEF Good
  <2> QED BY <1>1, <1>2, <2>1, NaturalSetInduction
<1> QED BY <1>3

\* Depth is the length of the longest chain of parents.
LEMMA DepthIsLongest ==
  ASSUME NEW o \in Object
  PROVE  IF Ids(o) = {} THEN Depth(o) = 0 ELSE ChainOf(o, Depth(o)) /\ ~ChainOf(o, Depth(o) + 1)
<1>1. PICK d : d = DepthFn(o)
  OBVIOUS
<1>2. IsFiniteSet(Ids(o)) /\ \A t \in Ids(o) : d[t] \in Nat
  BY <1>1, OrderFacts, DepthSteps
<1>3. /\ Depth(o) \in Nat /\ \A t \in Ids(o) : d[t] <= Depth(o)
      /\ Depth(o) = 0 \/ \E t \in Ids(o) : Depth(o) = d[t]
  BY <1>1, <1>2, DepthIsGreatest, MaxIs
<1>4. CASE Ids(o) = {}
  BY <1>3, <1>4
<1>5. CASE Ids(o) # {}
  <2>1. PICK t \in Ids(o) : Depth(o) = d[t]
    <3>1. CASE Depth(o) = 0
      <4>1. PICK t \in Ids(o) : TRUE
        BY <1>5
      <4>2. d[t] = 0
        BY <1>2, <1>3, <3>1, <4>1
      <4> QED BY <3>1, <4>2
    <3> QED BY <1>3, <3>1
  <2>2. ChainOf(o, Depth(o))
    BY <1>1, <1>3, <2>1, ChainReached, ChainOfIs
  <2>3. ~ChainOf(o, Depth(o) + 1)
    <3>1. SUFFICES ASSUME ChainOf(o, Depth(o) + 1) PROVE FALSE
      OBVIOUS
    <3>2. Depth(o) + 1 \in Nat
      BY <1>3
    <3>3. PICK u \in Ids(o) : \E c : ChainFrom(o, c, Depth(o) + 1, u)
      BY <3>1, <3>2, ChainOfIs
    <3>4. Depth(o) + 1 <= DepthFn(o)[u]
      BY <3>2, <3>3, ChainBound
    <3>5. Depth(o) + 1 <= d[u] /\ d[u] <= Depth(o) /\ d[u] \in Nat
      BY <1>1, <1>2, <1>3, <3>4
    <3> QED BY <1>3, <3>5
  <2> QED BY <1>5, <2>2, <2>3
<1> QED BY <1>4, <1>5

-----------------------------------------------------------------------------
(* The scripts a verdict counts *)

\* The inputs of each transaction, those of a set without a path, and the
\* scripts below each tip.
Inputs(o) == [t \in Ids(o) |-> Len(o.txs[t].inputs)]
NoProof(o, S) == {t \in S : o.txs[t].path = NoPath}
TipWork(o) == [tip \in Tips(o) |-> ScriptsBelow(o, tip)]

\* The inputs of the transaction under check whose scripts have run.
Ran(w) == IF w.pc = "scripts" THEN w.vin - 1 ELSE 0

\* The scripts of the tips before the current one, and of what the second walk
\* is through with below it.
Before(o, w, cur) == SumOf(TipWork(o), w.tried \ {cur}) + SumOf(Inputs(o), NoProof(o, w.seen))

\* The first walk has reached what it has from the current tip.
Reaching(o, w, cur) ==
  /\ cur \in w.seen /\ \A u \in w.seen : u = cur \/ \E x \in w.seen : u \in Sources(o, x)
  /\ w.scripts = SumOf(TipWork(o), w.tried \ {cur})

\* The second walk is through with a transaction or has it before it, and not
\* both, and none that the current tip is not judged by.
Counting(o, w, cur) ==
  /\ cur \in w.seen \cup w.todo /\ w.seen \cup w.todo \subseteq Judged(o, {cur})
  /\ w.seen \cap w.todo = {}
  /\ w.scripts = Before(o, w, cur) + Ran(w)

Work(o, w) ==
  /\ w.pc = "parse" => w.scripts = 0 /\ w.tried = {}
  /\ w.pc = "tips" => w.scripts = SumOf(TipWork(o), w.tried)
  /\ w.pc = "prove" => \E cur \in w.tried : Reaching(o, w, cur)
  /\ w.pc \in Walks => \E cur \in w.tried : Counting(o, w, cur)

\* The counters of a verdict.
Counters ==
  /\ v.pc \in {"settle", "done"} => verdict.depth = IF obj.parses THEN Depth(obj) ELSE 0
  /\ verdict.result = "ok" /\ ~conf.skip => verdict.scripts = SumOf(TipWork(obj), Tips(obj))

Worked == v.tried \subseteq Tips(obj) /\ (~conf.skip => Work(obj, v))
WorkInv == Worked /\ Counters

\* The verification goes on: no verdict is given.
Goes == verdict' = verdict /\ v'.pc \notin {"settle", "done"}

-----------------------------------------------------------------------------

\* What a set of transactions is judged by.
LEMMA JudgedOf ==
  ASSUME NEW o, NEW T \in SUBSET Ids(o)
  PROVE  /\ T \subseteq Judged(o, T) /\ Closed(o, Judged(o, T))
         /\ \A S : Closed(o, S) /\ T \subseteq S => Judged(o, T) \subseteq S
<1>1. \A t : Sources(o, t) \subseteq Ids(o)
  BY DEF Sources
<1>2. \A S : Closed(o, S) <=> /\ S \in SUBSET Ids(o)
                              /\ \A t \in S : o.txs[t].path = NoPath => Sources(o, t) \subseteq S
  BY DEF Closed
<1> QED BY <1>1, <1>2 DEF Judged

\* The sums are of finitely many naturals.
LEMMA WorkSums ==
  ASSUME NEW o \in Object
  PROVE  /\ \A S \in SUBSET Ids(o) : IsFiniteSet(S) /\ SumOf(Inputs(o), S) \in Nat
         /\ \A t \in Ids(o) : Inputs(o)[t] = Len(o.txs[t].inputs) /\ Inputs(o)[t] \in Nat
         /\ \A S \in SUBSET Tips(o) : SumOf(TipWork(o), S) \in Nat
         /\ \A tip \in Tips(o) : /\ TipWork(o)[tip] = SumOf(Inputs(o), NoProof(o, Judged(o, {tip})))
                                 /\ TipWork(o)[tip] \in Nat
         /\ Tips(o) \subseteq Ids(o)
<1>1. \A S \in SUBSET Ids(o) : IsFiniteSet(S)
  BY OrderFacts, FS_Subset
<1>2. \A t \in Ids(o) : Inputs(o)[t] = Len(o.txs[t].inputs) /\ Inputs(o)[t] \in Nat
  BY ShapeFacts DEF Inputs
<1>3. \A S \in SUBSET Ids(o) : SumOf(Inputs(o), S) \in Nat
  BY <1>1, <1>2, SumNat
<1>4. Tips(o) \subseteq Ids(o)
  BY DEF Tips
<1>5. ASSUME NEW tip \in Tips(o)
      PROVE  /\ TipWork(o)[tip] = SumOf(Inputs(o), NoProof(o, Judged(o, {tip})))
             /\ TipWork(o)[tip] \in Nat
  <2>1. PICK U : U = Unproven(o, {tip})
    OBVIOUS
  <2>2. U = NoProof(o, Judged(o, {tip})) /\ U \subseteq Ids(o)
    BY <2>1 DEF Unproven, NoProof, Judged
  <2>3. PICK f : f = [t \in U |-> Len(o.txs[t].inputs)]
    OBVIOUS
  <2>4. TipWork(o)[tip] = Total(f)
    BY <2>1, <2>3 DEF TipWork, ScriptsBelow
  <2>5. Total(f) = SumOf(f, U)
    BY <2>3 DEF Total, SumOf
  <2>6. \A t \in U : f[t] = Inputs(o)[t]
    BY <1>2, <2>2, <2>3
  <2>7. SumOf(f, U) = SumOf(Inputs(o), U)
    BY <1>1, <2>2, <2>6, SumAgrees
  <2> QED BY <1>3, <2>2, <2>4, <2>5, <2>7
<1>6. \A S \in SUBSET Tips(o) : SumOf(TipWork(o), S) \in Nat
  BY <1>1, <1>4, <1>5, SumNat
<1> QED BY <1>1, <1>2, <1>3, <1>4, <1>5, <1>6

\* One tip more.
LEMMA TipAdded ==
  ASSUME NEW o \in Object, NEW tried \in SUBSET Tips(o), NEW cur \in tried
  PROVE  SumOf(TipWork(o), tried) = SumOf(TipWork(o), tried \ {cur}) + TipWork(o)[cur]
<1>1. IsFiniteSet(tried) /\ \A t \in tried : TipWork(o)[t] \in Nat
  BY WorkSums
<1> QED BY <1>1, SumRemove

\* One transaction more: one without a path adds its inputs.
LEMMA SeenAdded ==
  ASSUME NEW o \in Object, NEW seen \in SUBSET Ids(o), NEW t \in Ids(o) \ seen
  PROVE  SumOf(Inputs(o), NoProof(o, seen \cup {t}))
           = SumOf(Inputs(o), NoProof(o, seen))
               + (IF o.txs[t].path = NoPath THEN Len(o.txs[t].inputs) ELSE 0)
<1>1. NoProof(o, seen) \in SUBSET Ids(o) /\ t \notin NoProof(o, seen)
  BY DEF NoProof
<1>2. /\ IsFiniteSet(NoProof(o, seen)) /\ SumOf(Inputs(o), NoProof(o, seen)) \in Nat
      /\ Inputs(o)[t] = Len(o.txs[t].inputs) /\ Inputs(o)[t] \in Nat
      /\ \A u \in NoProof(o, seen) : Inputs(o)[u] \in Nat
  BY <1>1, WorkSums
<1>3. CASE o.txs[t].path = NoPath
  <2>1. NoProof(o, seen \cup {t}) = NoProof(o, seen) \cup {t}
    BY <1>3 DEF NoProof
  <2>2. SumOf(Inputs(o), NoProof(o, seen) \cup {t}) = SumOf(Inputs(o), NoProof(o, seen)) + Inputs(o)[t]
    BY <1>1, <1>2, SumAdd
  <2> QED BY <1>2, <1>3, <2>1, <2>2
<1>4. CASE o.txs[t].path # NoPath
  <2>1. NoProof(o, seen \cup {t}) = NoProof(o, seen)
    BY <1>4 DEF NoProof
  <2> QED BY <1>2, <1>4, <2>1
<1> QED BY <1>3, <1>4

\* What the sum before a transaction is.
LEMMA BeforeType ==
  ASSUME NEW o \in Object, NEW w, w.tried \subseteq Tips(o), w.seen \subseteq Ids(o), NEW cur
  PROVE  Before(o, w, cur) \in Nat
<1>1. w.tried \ {cur} \in SUBSET Tips(o) /\ NoProof(o, w.seen) \in SUBSET Ids(o)
  BY DEF NoProof
<1>2. SumOf(TipWork(o), w.tried \ {cur}) \in Nat /\ SumOf(Inputs(o), NoProof(o, w.seen)) \in Nat
  BY <1>1, WorkSums
<1> QED BY <1>2 DEF Before

\* A step that stays at a transaction counts the scripts it runs.
LEMMA StayWork ==
  ASSUME IInv, Worked, ~conf.skip, NEW w, v.pc \in Walks, w.pc \in Walks,
         w.tried = v.tried, w.seen = v.seen, w.todo = v.todo, NEW k \in Nat,
         w.scripts = v.scripts + k, Ran(w) = Ran(v) + k, Ran(v) \in Nat
  PROVE  Work(obj, w)
<1>1. PICK cur \in v.tried : Counting(obj, v, cur)
  BY DEF Worked, Work
<1>2. Before(obj, w, cur) = Before(obj, v, cur) /\ Before(obj, v, cur) \in Nat
  <2>1. obj \in Object /\ v.seen \subseteq Ids(obj) /\ v.tried \subseteq Tips(obj)
    BY RunFields DEF Worked
  <2> QED BY <2>1, BeforeType DEF Before
<1>3. v.scripts = Before(obj, v, cur) + Ran(v)
  BY <1>1 DEF Counting
<1>4. w.scripts = Before(obj, w, cur) + Ran(w)
  BY <1>2, <1>3
<1>5. Counting(obj, w, cur)
  BY <1>1, <1>4 DEF Counting
<1> QED BY <1>5 DEF Work, Walks

\* A check that fails leaves nothing to count.
LEMMA FailWork ==
  ASSUME IInv, Worked, NEW w, NEW err, Fail(w, err),
         w = v \/ w = [v EXCEPT !.failed = TRUE] \/ w = [v EXCEPT !.scripts = @ + 1]
  PROVE  Worked' /\ Goes
<1>1. v' = [w EXCEPT !.pc = "classify", !.err = err] /\ obj' = obj /\ conf' = conf /\ verdict' = verdict
  BY DEF Fail, Step
<1>2. v'.pc = "classify" /\ v'.tried = v.tried
  BY <1>1 DEF IInv, Inv1, RunType
<1> QED BY <1>1, <1>2 DEF Worked, Goes, Work, Walks

\* verify: the object parses, and no script has run.
LEMMA ParseWork ==
  ASSUME IInv, Worked, Parse
  PROVE  Worked' /\ Goes
<1>1. v' = [v EXCEPT !.pc = "tips"] /\ obj' = obj /\ conf' = conf /\ verdict' = verdict /\ v.pc = "parse"
  BY DEF Parse, Step
<1>2. v'.pc = "tips" /\ v'.tried = v.tried /\ v'.scripts = v.scripts
  BY <1>1 DEF IInv, Inv1, RunType
<1>3. ~conf.skip => v.scripts = 0 /\ v.tried = {}
  BY <1>1 DEF Worked, Work
<1>4. SumOf(TipWork(obj), {}) = 0
  BY SumEmpty
<1> QED BY <1>1, <1>2, <1>3, <1>4 DEF Worked, Goes, Work, Walks

\* graph.check: another tip.
LEMMA NextTipWork ==
  ASSUME IInv, Worked, NEW t \in Ids(obj), NextTip(t)
  PROVE  Worked' /\ Goes
<1>1. /\ v' = [v EXCEPT !.pc = "prove", !.tried = @ \cup {t}, !.todo = {t}, !.seen = {t}]
      /\ obj' = obj /\ conf' = conf /\ verdict' = verdict /\ v.pc = "tips" /\ t \in Tips(obj) \ v.tried
  BY DEF NextTip, Step
<1>2. v'.pc = "prove" /\ v'.tried = v.tried \cup {t} /\ v'.seen = {t} /\ v'.scripts = v.scripts
  BY <1>1 DEF IInv, Inv1, RunType
<1>3. ~conf.skip => Reaching(obj, v', t)
  <2>1. v'.tried \ {t} = v.tried
    BY <1>1, <1>2
  <2> QED BY <1>1, <1>2, <2>1 DEF Reaching, Worked, Work
<1> QED BY <1>1, <1>2, <1>3 DEF Worked, Goes, Work, Walks

\* proveMined: the sources of a transaction without a path.
LEMMA ProveLinksWork ==
  ASSUME IInv, Worked, NEW t \in Ids(obj), ProveLinks(t)
  PROVE  Worked' /\ Goes
<1>0. PICK new : new = Sources(obj, t) \ v.seen
  OBVIOUS
<1>1. /\ v' = [v EXCEPT !.todo = (@ \ {t}) \cup new, !.seen = @ \cup new]
      /\ obj' = obj /\ conf' = conf /\ verdict' = verdict /\ v.pc = "prove" /\ t \in v.todo
  BY <1>0 DEF ProveLinks, Step
<1>2. v'.pc = "prove" /\ v'.tried = v.tried /\ v'.seen = v.seen \cup new /\ v'.scripts = v.scripts
  BY <1>1 DEF IInv, Inv1, RunType
<1>3. t \in v.seen
  BY <1>1 DEF IInv, Inv2, Proving
<1>4. ASSUME NEW cur, Reaching(obj, v, cur) PROVE Reaching(obj, v', cur)
  BY <1>0, <1>2, <1>3, <1>4 DEF Reaching
<1> QED BY <1>1, <1>2, <1>4 DEF Worked, Goes, Work, Walks

\* proveMined: a path, and the question that follows one that is not there.
LEMMA ProveRootWork ==
  ASSUME IInv, Worked, NEW t \in Ids(obj), ProveRoot(t)
  PROVE  Worked' /\ Goes
<1>1. obj' = obj /\ conf' = conf /\ verdict' = verdict /\ v.pc = "prove"
  BY DEF ProveRoot
<1>2. \/ v' = [v EXCEPT !.failed = TRUE, !.pc = "classify", !.err = "tracker"]
      \/ v' = [v EXCEPT !.todo = @ \ {t}, !.mined = @ \cup {t}]
      \/ v' = [v EXCEPT !.pc = "askTip", !.tx = t]
  BY DEF ProveRoot
<1>3. CASE v' = [v EXCEPT !.todo = @ \ {t}, !.mined = @ \cup {t}]
  <2>1. v'.pc = "prove" /\ v'.tried = v.tried /\ v'.seen = v.seen /\ v'.scripts = v.scripts
    BY <1>1, <1>3 DEF IInv, Inv1, RunType
  <2>2. \A cur : Reaching(obj, v, cur) => Reaching(obj, v', cur)
    BY <2>1 DEF Reaching
  <2> QED BY <1>1, <2>1, <2>2 DEF Worked, Goes, Work, Walks
<1>4. CASE ~(v' = [v EXCEPT !.todo = @ \ {t}, !.mined = @ \cup {t}])
  <2>1. v'.pc \in {"classify", "askTip"} /\ v'.tried = v.tried
    BY <1>2, <1>4 DEF IInv, Inv1, RunType
  <2> QED BY <1>1, <2>1 DEF Worked, Goes, Work, Walks
<1> QED BY <1>3, <1>4

\* watchTracker asks for the tip, and a check has failed.
LEMMA AskTipWork ==
  ASSUME IInv, Worked, AskTip
  PROVE  Worked' /\ Goes
<1>1. PICK answer : v' = [v EXCEPT !.pc = "classify", !.err = "merkle",
                                   !.notYet = answer # Fails /\ Body(v.tx).path.height > answer]
  BY DEF AskTip
<1>2. v'.pc = "classify" /\ v'.tried = v.tried /\ obj' = obj /\ conf' = conf /\ verdict' = verdict
  BY <1>1 DEF AskTip, IInv, Inv1, RunType
<1> QED BY <1>2 DEF Worked, Goes, Work, Walks

\* The second walk begins at the current tip.
LEMMA ProvenWork ==
  ASSUME IInv, Worked, Proven
  PROVE  Worked' /\ Goes
<1>1. PICK t \in v.seen : /\ \A u \in v.seen : t \notin Sources(obj, u)
                          /\ Step([v EXCEPT !.pc = "check", !.todo = {t}, !.seen = {}])
  BY DEF Proven
<1>2. /\ v' = [v EXCEPT !.pc = "check", !.todo = {t}, !.seen = {}]
      /\ obj' = obj /\ conf' = conf /\ verdict' = verdict /\ v.pc = "prove"
  BY <1>1 DEF Proven, Step
<1>3. /\ v'.pc = "check" /\ v'.tried = v.tried /\ v'.todo = {t} /\ v'.seen = {}
      /\ v'.scripts = v.scripts /\ t \in Ids(obj) /\ obj \in Object
  BY <1>2, RunFields DEF IInv, Inv1, RunType
<1>4. ASSUME ~conf.skip PROVE t \in v.tried /\ Counting(obj, v', t)
  <2>1. PICK cur \in v.tried : Reaching(obj, v, cur)
    BY <1>2, <1>4 DEF Worked, Work
  <2>2. cur = t /\ v.scripts = SumOf(TipWork(obj), v.tried \ {t})
    BY <1>1, <2>1 DEF Reaching
  <2>3. {t} \subseteq Judged(obj, {t})
    BY <1>3, JudgedOf
  <2>4. NoProof(obj, {}) = {} /\ SumOf(Inputs(obj), {}) = 0
    BY SumEmpty DEF NoProof
  <2>5. SumOf(TipWork(obj), v.tried \ {t}) \in Nat
    BY <1>3, WorkSums DEF Worked
  <2>6. v'.scripts = Before(obj, v', t) + Ran(v')
    BY <1>3, <2>2, <2>4, <2>5 DEF Before, Ran
  <2> QED BY <1>3, <2>1, <2>2, <2>3, <2>6 DEF Counting
<1> QED BY <1>2, <1>3, <1>4 DEF Worked, Goes, Work, Walks

\* checkTx: a transaction that is mined has no script to run.
LEMMA CheckMinedWork ==
  ASSUME IInv, Worked, NEW t \in Ids(obj), CheckMined(t)
  PROVE  Worked' /\ Goes
<1>1. /\ v' = [v EXCEPT !.todo = @ \ {t}, !.seen = @ \cup {t}]
      /\ obj' = obj /\ conf' = conf /\ verdict' = verdict /\ v.pc = "check" /\ t \in v.todo /\ t \in v.mined
  BY DEF CheckMined, Step
<1>2. /\ v'.pc = "check" /\ v'.tried = v.tried /\ v'.todo = v.todo \ {t} /\ v'.seen = v.seen \cup {t}
      /\ v'.scripts = v.scripts /\ obj \in Object /\ v.seen \in SUBSET Ids(obj)
  BY <1>1, RunFields DEF IInv, Inv1, RunType
<1>3. obj.txs[t].path # NoPath
  BY <1>1 DEF IInv, Inv1, MinedOK
<1>4. NoProof(obj, v'.seen) = NoProof(obj, v.seen)
  BY <1>2, <1>3 DEF NoProof
<1>5. ASSUME NEW cur, Counting(obj, v, cur) PROVE Counting(obj, v', cur)
  <2>1. Before(obj, v', cur) = Before(obj, v, cur) /\ Ran(v') = Ran(v)
    BY <1>1, <1>2, <1>4 DEF Before, Ran
  <2>2. v'.scripts = Before(obj, v', cur) + Ran(v')
    BY <1>2, <1>5, <2>1 DEF Counting
  <2>3. v'.seen \cup v'.todo = v.seen \cup v.todo /\ v'.seen \cap v'.todo = {}
    BY <1>1, <1>2, <1>5 DEF Counting
  <2> QED BY <1>5, <2>2, <2>3 DEF Counting
<1>6. "check" \in Walks
  BY DEF Walks
<1> QED BY <1>1, <1>2, <1>5, <1>6 DEF Worked, Goes, Work

\* The steps that stay at a transaction and run no script.
LEMMA QuietWork ==
  ASSUME IInv, Worked, NEW w, Step(w), v.pc \in Walks \ {"scripts"}, w.pc \in Walks, Ran(w) = 0,
         w.tried = v.tried, w.seen = v.seen, w.todo = v.todo, w.scripts = v.scripts
  PROVE  Worked' /\ Goes
<1>1. v' = w /\ obj' = obj /\ conf' = conf /\ verdict' = verdict
  BY DEF Step
<1>2. Ran(v) = 0 /\ v.scripts \in Nat
  BY RunFields DEF Ran
<1>3. ~conf.skip => Work(obj, w)
  BY <1>2, StayWork
<1> QED BY <1>1, <1>3 DEF Worked, Goes, Walks

LEMMA CheckStructureWork ==
  ASSUME IInv, Worked, NEW t \in Ids(obj), CheckStructure(t)
  PROVE  Worked' /\ Goes
<1>1. CASE Fail(v, "structure")
  BY <1>1, FailWork
<1>2. CASE ~Fail(v, "structure")
  <2>1. PICK w : w = [v EXCEPT !.pc = "final", !.tx = t]
    OBVIOUS
  <2>2. Step(w) /\ v.pc = "check"
    BY <1>2, <2>1 DEF CheckStructure
  <2>3. w.pc = "final" /\ w.tried = v.tried /\ w.seen = v.seen /\ w.todo = v.todo /\ w.scripts = v.scripts
    BY <2>1 DEF IInv, Inv1, RunType
  <2>4. v.pc \in Walks \ {"scripts"} /\ w.pc \in Walks /\ Ran(w) = 0
    BY <2>2, <2>3 DEF Walks, Ran
  <2> QED BY <2>2, <2>3, <2>4, QuietWork
<1> QED BY <1>1, <1>2

LEMMA ChainTipWork ==
  ASSUME IInv, Worked, ChainTip
  PROVE  Worked' /\ Goes
<1>1. v.pc \in {"final", "inputs"}
  BY DEF ChainTip, FinalNeedsTip, InputNeedsTip
<1>2. PICK answer : IF answer = Fails THEN Fail([v EXCEPT !.failed = TRUE], "tracker")
                                      ELSE Step([v EXCEPT !.tip = answer])
  BY DEF ChainTip
<1>3. CASE answer = Fails
  BY <1>2, <1>3, FailWork
<1>4. CASE answer # Fails
  <2>1. PICK w : w = [v EXCEPT !.tip = answer]
    OBVIOUS
  <2>2. Step(w)
    BY <1>2, <1>4, <2>1
  <2>3. w.pc = v.pc /\ w.tried = v.tried /\ w.seen = v.seen /\ w.todo = v.todo /\ w.scripts = v.scripts
    BY <2>1 DEF IInv, Inv1, RunType
  <2>4. v.pc \in Walks \ {"scripts"} /\ w.pc \in Walks /\ Ran(w) = 0
    BY <1>1, <2>3 DEF Walks, Ran
  <2> QED BY <2>2, <2>3, <2>4, QuietWork
<1> QED BY <1>3, <1>4

LEMMA CheckFinalWork ==
  ASSUME IInv, Worked, CheckFinal
  PROVE  Worked' /\ Goes
<1>1. CASE Fail(v, "structure")
  BY <1>1, FailWork
<1>2. CASE ~Fail(v, "structure")
  <2>1. PICK w : w = [v EXCEPT !.pc = "inputs", !.vin = 1, !.total = 0]
    OBVIOUS
  <2>2. Step(w) /\ v.pc = "final"
    BY <1>2, <2>1 DEF CheckFinal
  <2>3. w.pc = "inputs" /\ w.tried = v.tried /\ w.seen = v.seen /\ w.todo = v.todo /\ w.scripts = v.scripts
    BY <2>1 DEF IInv, Inv1, RunType
  <2>4. v.pc \in Walks \ {"scripts"} /\ w.pc \in Walks /\ Ran(w) = 0
    BY <2>2, <2>3 DEF Walks, Ran
  <2> QED BY <2>2, <2>3, <2>4, QuietWork
<1> QED BY <1>1, <1>2

LEMMA CheckInputWork ==
  ASSUME IInv, Worked, CheckInput
  PROVE  Worked' /\ Goes
<1>1. CASE Fail(v, "structure")
  BY <1>1, FailWork
<1>2. CASE ~Fail(v, "structure")
  <2>1. PICK sum : sum = AddSats(v.total, Spent(obj, Body(v.tx).inputs[v.vin]).sats)
    OBVIOUS
  <2>2. PICK w : w = [v EXCEPT !.vin = @ + 1, !.total = sum]
    OBVIOUS
  <2>3. Step(w) /\ v.pc = "inputs"
    BY <1>2, <2>1, <2>2 DEF CheckInput
  <2>4. w.pc = "inputs" /\ w.tried = v.tried /\ w.seen = v.seen /\ w.todo = v.todo /\ w.scripts = v.scripts
    BY <2>2, <2>3 DEF IInv, Inv1, RunType
  <2>5. v.pc \in Walks \ {"scripts"} /\ w.pc \in Walks /\ Ran(w) = 0
    BY <2>3, <2>4 DEF Walks, Ran
  <2> QED BY <2>3, <2>4, <2>5, QuietWork
<1> QED BY <1>1, <1>2

\* checkTx: the amounts, and the scripts come next or are skipped.
LEMMA CheckAmountsWork ==
  ASSUME IInv, Worked, CheckAmounts
  PROVE  Worked' /\ Goes
<1>0. v.pc = "inputs"
  BY DEF CheckAmounts
<1>1. CASE Fail(v, "structure")
  BY <1>1, FailWork
<1>2. CASE ~Fail(v, "structure") /\ conf.skip
  <2>1. v' = Checked /\ obj' = obj /\ conf' = conf /\ verdict' = verdict
    BY <1>2 DEF CheckAmounts, Step
  <2>2. v'.tried = v.tried /\ v'.pc = "check"
    BY <2>1 DEF Checked, IInv, Inv1, RunType
  <2> QED BY <1>2, <2>1, <2>2 DEF Worked, Goes
<1>3. CASE ~Fail(v, "structure") /\ ~conf.skip
  <2>1. PICK w : w = [v EXCEPT !.pc = "scripts", !.vin = 1]
    OBVIOUS
  <2>2. Step(w)
    BY <1>3, <2>1 DEF CheckAmounts
  <2>3. /\ w.pc = "scripts" /\ w.vin = 1 /\ w.tried = v.tried /\ w.seen = v.seen /\ w.todo = v.todo
        /\ w.scripts = v.scripts
    BY <2>1 DEF IInv, Inv1, RunType
  <2>4. v.pc \in Walks \ {"scripts"} /\ w.pc \in Walks /\ Ran(w) = 0
    BY <1>0, <2>3 DEF Walks, Ran
  <2> QED BY <2>2, <2>3, <2>4, QuietWork
<1> QED BY <1>1, <1>2, <1>3

\* checkTx: a script is run and counted.
LEMMA RunScriptWork ==
  ASSUME IInv, Worked, RunScript
  PROVE  Worked' /\ Goes
<1>1. CASE Fail([v EXCEPT !.scripts = @ + 1], "script")
  BY <1>1, FailWork
<1>2. CASE ~Fail([v EXCEPT !.scripts = @ + 1], "script")
  <2>1. PICK w : w = [[v EXCEPT !.scripts = @ + 1] EXCEPT !.vin = @ + 1]
    OBVIOUS
  <2>2. Step(w) /\ v.pc = "scripts"
    BY <1>2, <2>1 DEF RunScript
  <2>3. /\ w.pc = "scripts" /\ w.vin = v.vin + 1 /\ w.tried = v.tried /\ w.seen = v.seen /\ w.todo = v.todo
        /\ w.scripts = v.scripts + 1 /\ v.scripts \in Nat
    BY <2>1, <2>2 DEF IInv, Inv1, RunType
  <2>4. v.vin \in 1..(Len(obj.txs[v.tx].inputs) + 1) /\ Len(obj.txs[v.tx].inputs) \in Nat
    BY <2>2, AtTxFacts DEF IInv, Inv2, AtTx
  <2>5. v.pc \in Walks /\ w.pc \in Walks /\ Ran(v) \in Nat /\ Ran(w) = Ran(v) + 1
    <3>1. v.vin \in Nat /\ v.vin >= 1
      BY <2>4
    <3> QED BY <2>2, <2>3, <3>1 DEF Walks, Ran
  <2>6. ~conf.skip => Work(obj, w)
    BY <2>3, <2>5, StayWork
  <2>7. v' = w /\ obj' = obj /\ conf' = conf /\ verdict' = verdict
    BY <2>2 DEF Step
  <2> QED BY <2>3, <2>6, <2>7 DEF Worked, Goes
<1> QED BY <1>1, <1>2

\* checkTx: the scripts of a transaction have all run, and its sources come next.
LEMMA ScriptsPassedWork ==
  ASSUME IInv, Worked, ScriptsPassed
  PROVE  Worked' /\ Goes
<1>0. PICK t : t = v.tx
  OBVIOUS
<1>1. v.pc = "scripts" /\ v.vin > Len(obj.txs[t].inputs) /\ v' = Checked /\ obj' = obj /\ conf' = conf /\ verdict' = verdict
  BY <1>0 DEF ScriptsPassed, Body, Step
<1>2. PICK new : new = Sources(obj, t) \ (v.seen \cup {t})
  OBVIOUS
<1>3. /\ v'.pc = "check" /\ v'.tried = v.tried /\ v'.seen = v.seen \cup {t}
      /\ v'.todo = (v.todo \ {t}) \cup new /\ v'.scripts = v.scripts
  BY <1>0, <1>1, <1>2 DEF Checked, IInv, Inv1, RunType
<1>4. /\ t \in v.todo /\ t \in Ids(obj) /\ obj.txs[t].path = NoPath /\ Len(obj.txs[t].inputs) \in Nat
      /\ v.vin \in 1..(Len(obj.txs[t].inputs) + 1)
  BY <1>0, <1>1, AtTxFacts DEF IInv, Inv2, AtTx
<1>5. v.vin - 1 = Len(obj.txs[t].inputs)
  BY <1>1, <1>4, PastEnd, Zenon
<1>6. obj \in Object /\ v.seen \in SUBSET Ids(obj) /\ v.tried \subseteq Tips(obj) /\ Tips(obj) \subseteq Ids(obj)
  BY RunFields DEF Worked, Tips
<1>7. ASSUME NEW cur \in v.tried, Counting(obj, v, cur) PROVE Counting(obj, v', cur)
  <2>1. /\ cur \in v.seen \cup v.todo /\ v.seen \cup v.todo \subseteq Judged(obj, {cur})
        /\ v.seen \cap v.todo = {} /\ v.scripts = Before(obj, v, cur) + Ran(v)
    BY <1>7 DEF Counting
  <2>2. new \subseteq Judged(obj, {cur})
    <3>1. Closed(obj, Judged(obj, {cur})) /\ t \in Judged(obj, {cur})
      BY <1>4, <1>6, <2>1, JudgedOf
    <3> QED BY <1>2, <1>4, <3>1 DEF Closed
  <2>3. /\ cur \in v'.seen \cup v'.todo /\ v'.seen \cup v'.todo \subseteq Judged(obj, {cur})
        /\ v'.seen \cap v'.todo = {}
    BY <1>2, <1>3, <1>4, <2>1, <2>2
  <2>4. SumOf(Inputs(obj), NoProof(obj, v.seen \cup {t}))
          = SumOf(Inputs(obj), NoProof(obj, v.seen)) + Len(obj.txs[t].inputs)
    BY <1>4, <1>6, <2>1, SeenAdded
  <2>5. /\ SumOf(TipWork(obj), v.tried \ {cur}) \in Nat
        /\ SumOf(Inputs(obj), NoProof(obj, v.seen)) \in Nat
    <3>1. NoProof(obj, v.seen) \in SUBSET Ids(obj) /\ v.tried \ {cur} \in SUBSET Tips(obj)
      BY <1>6 DEF NoProof
    <3> QED BY <1>6, <3>1, WorkSums
  <2>6. Ran(v) = Len(obj.txs[t].inputs) /\ Ran(v') = 0
    BY <1>1, <1>3, <1>5 DEF Ran
  <2>7. v'.scripts = Before(obj, v', cur) + Ran(v')
    BY <1>3, <1>4, <2>1, <2>4, <2>5, <2>6 DEF Before
  <2> QED BY <2>3, <2>7 DEF Counting
<1>8. "check" \in Walks /\ "scripts" \in Walks
  BY DEF Walks
<1> QED BY <1>1, <1>3, <1>7, <1>8 DEF Worked, Goes, Work

\* checkTx ends: the walk is through with all the tip is judged by.
LEMMA TipCheckedWork ==
  ASSUME IInv, Worked, TipChecked
  PROVE  Worked' /\ Goes
<1>1. /\ v' = [v EXCEPT !.pc = "tips", !.seen = {}] /\ obj' = obj /\ conf' = conf /\ verdict' = verdict
      /\ v.pc = "check" /\ v.todo = {} /\ v.pc \in Walks
  BY DEF TipChecked, Step, Walks
<1>2. v'.pc = "tips" /\ v'.tried = v.tried /\ v'.scripts = v.scripts
  BY <1>1 DEF IInv, Inv1, RunType
<1>3. obj \in Object /\ v.seen \in SUBSET Ids(obj) /\ v.tried \in SUBSET Tips(obj) /\ Tips(obj) \subseteq Ids(obj)
  BY RunFields DEF Worked, Tips
<1>4. ASSUME ~conf.skip PROVE v.scripts = SumOf(TipWork(obj), v.tried)
  <2>1. PICK cur \in v.tried : Counting(obj, v, cur)
    BY <1>1, <1>4 DEF Worked, Work
  <2>2. /\ cur \in v.seen /\ v.seen \subseteq Judged(obj, {cur})
        /\ v.scripts = Before(obj, v, cur) + Ran(v) /\ Ran(v) = 0
    BY <1>1, <2>1 DEF Counting, Ran
  <2>3. Closed(obj, v.seen)
    BY <1>1, <1>3 DEF IInv, Inv2, Checking, Closed
  <2>4. v.seen = Judged(obj, {cur})
    BY <1>3, <2>2, <2>3, JudgedOf
  <2>5. TipWork(obj)[cur] = SumOf(Inputs(obj), NoProof(obj, v.seen)) /\ TipWork(obj)[cur] \in Nat
    BY <1>3, <2>4, WorkSums
  <2>6. SumOf(TipWork(obj), v.tried) = SumOf(TipWork(obj), v.tried \ {cur}) + TipWork(obj)[cur]
    BY <1>3, TipAdded
  <2>7. SumOf(TipWork(obj), v.tried \ {cur}) \in Nat
    BY <1>3, WorkSums
  <2> QED BY <2>2, <2>5, <2>6, <2>7 DEF Before
<1> QED BY <1>1, <1>2, <1>4 DEF Worked, Goes, Work, Walks

\* Every step of the walks keeps the count.
LEMMA WalkWork ==
  ASSUME IInv, Worked,
         \/ Parse \/ (\E t \in Ids(obj) : Walk(t)) \/ AskTip \/ Proven \/ ChainTip \/ CheckFinal
         \/ CheckInput \/ CheckAmounts \/ RunScript \/ ScriptCut \/ ScriptsPassed \/ TipChecked
  PROVE  Worked' /\ Goes
<1>1. ASSUME NEW t \in Ids(obj), Walk(t) PROVE Worked' /\ Goes
  <2>1. CASE ProveBroken(t)
    BY <2>1, FailWork DEF ProveBroken
  <2> QED
    BY <1>1, <2>1, NextTipWork, ProveLinksWork, ProveRootWork, CheckMinedWork, CheckStructureWork DEF Walk
<1>2. CASE Parse \/ AskTip \/ Proven \/ ChainTip \/ CheckFinal
  BY <1>2, ParseWork, AskTipWork, ProvenWork, ChainTipWork, CheckFinalWork
<1>3. CASE ScriptCut
  BY <1>3, FailWork DEF ScriptCut
<1>4. CASE CheckInput \/ CheckAmounts \/ RunScript \/ ScriptsPassed \/ TipChecked
  BY <1>4, CheckInputWork, CheckAmountsWork, RunScriptWork, ScriptsPassedWork, TipCheckedWork
<1> QED BY <1>1, <1>2, <1>3, <1>4

\* A verdict takes over the counters.
LEMMA EndWork ==
  ASSUME IInv, Worked, NEW result, NEW reason, End(result, reason),
         result = "ok" => v.pc = "tips" /\ Tips(obj) \subseteq v.tried
  PROVE  WorkInv'
<1>1. /\ obj' = obj /\ conf' = conf /\ v' = [NewRun EXCEPT !.pc = "settle"]
      /\ verdict'.result = result /\ verdict'.scripts = v.scripts
      /\ verdict'.depth = IF obj.parses THEN Depth(obj) ELSE 0
  BY DEF End, VerdictIs
<1>2. v'.pc = "settle" /\ v'.tried = {}
  BY <1>1 DEF NewRun
<1>3. result = "ok" /\ ~conf.skip => v.scripts = SumOf(TipWork(obj), Tips(obj))
  <2>1. result = "ok" => v.tried = Tips(obj)
    BY DEF Worked
  <2> QED BY <2>1 DEF Worked, Work
<1>4. Worked'
  BY <1>1, <1>2 DEF Worked, Work, Walks
<1>5. Counters'
  BY <1>1, <1>2, <1>3 DEF Counters
<1> QED BY <1>4, <1>5 DEF WorkInv

\* Every step keeps the invariant.
LEMMA WorkStep ==
  ASSUME IInv, IInv', WorkInv, [Next]_vars
  PROVE  WorkInv'
<1>0. Worked /\ obj' = obj /\ conf' = conf
  BY GrowsStep DEF WorkInv, IInv, Inv1, Grows
<1>1. CASE v' = v /\ verdict' = verdict
  BY <1>0, <1>1 DEF WorkInv, Worked, Counters
<1>2. CASE Extend \/ Learn \/ Expire \/ EngineAnswers \/ UNCHANGED vars
  <2>1. v' = v /\ verdict' = verdict
    BY <1>2, Zenon DEF Extend, Learn, Expire, EngineAnswers, vars
  <2> QED BY <1>1, <2>1
<1>3. CASE Settle
  <2>1. v.pc = "settle" /\ v' = [v EXCEPT !.pc = "done"] /\ verdict' = verdict
    BY <1>3 DEF Settle
  <2>2. v'.pc = "done" /\ v'.tried = v.tried
    BY <2>1 DEF IInv, Inv1, RunType
  <2> QED BY <1>0, <2>1, <2>2 DEF WorkInv, Worked, Work, Counters, Walks
<1>4. CASE ParseRefused \/ AllPassed \/ Classify
  <2>1. CASE ParseRefused
    BY <1>0, <2>1, EndWork DEF ParseRefused
  <2>2. CASE AllPassed
    BY <1>0, <2>2, EndWork DEF AllPassed
  <2>3. CASE Classify
    <3>1. PICK result : result = IF Reason \in {"deadline", "tracker", "not_yet"} THEN "error" ELSE "refused"
      OBVIOUS
    <3>2. End(result, Reason) /\ result # "ok"
      BY <2>3, <3>1 DEF Classify
    <3> QED BY <1>0, <3>2, EndWork
  <2> QED BY <1>4, <2>1, <2>2, <2>3
<1>5. CASE \/ Parse \/ (\E t \in Ids(obj) : Walk(t)) \/ AskTip \/ Proven \/ ChainTip \/ CheckFinal
           \/ CheckInput \/ CheckAmounts \/ RunScript \/ ScriptCut \/ ScriptsPassed \/ TipChecked
  <2>1. Worked' /\ verdict' = verdict /\ v'.pc \notin {"settle", "done"}
    BY <1>0, <1>5, WalkWork DEF Goes
  <2> QED BY <1>0, <2>1 DEF WorkInv, Counters
<1> QED BY <1>2, <1>3, <1>4, <1>5 DEF Next, Verify

\* It holds at the start, and throughout.
LEMMA WorkInvariance == Spec => [](IInv /\ WorkInv)
<1>1. Init => IInv /\ WorkInv
  <2> SUFFICES ASSUME Init PROVE WorkInv
    BY InitIInv
  <2>1. v = NewRun /\ verdict = NoVerdict
    BY DEF Init
  <2>2. v.pc = "parse" /\ v.tried = {} /\ v.scripts = 0 /\ verdict.result = "none"
    BY <2>1 DEF NewRun, NoVerdict
  <2> QED BY <2>2 DEF WorkInv, Worked, Work, Counters, Walks
<1>2. (IInv /\ WorkInv) /\ [Next]_vars => (IInv /\ WorkInv)'
  BY NextIInv, WorkStep
<1> QED BY <1>1, <1>2, PTL DEF Spec

\* What a verdict reports is what was done: its depth is the longest chain of
\* parents in the object, as work counts it, and a pass ran every script of the
\* transactions below each tip once, whatever the order of the walks.
THEOREM WorkReportedHolds == Spec => []WorkReported
<1>1. ASSUME IInv, WorkInv PROVE WorkReported
  <2>1. obj \in Object
    BY <1>1, RunFields
  <2>2. ASSUME v.pc \in {"settle", "done"}, obj.parses
        PROVE  IF Ids(obj) = {} THEN verdict.depth = 0
               ELSE ChainOf(obj, verdict.depth) /\ ~ChainOf(obj, verdict.depth + 1)
    <3>1. verdict.depth = Depth(obj)
      BY <1>1, <2>2 DEF WorkInv, Counters
    <3> QED BY <2>1, <3>1, DepthIsLongest
  <2>3. SumOf(TipWork(obj), Tips(obj)) = Total([tip \in Tips(obj) |-> ScriptsBelow(obj, tip)])
    BY DEF TipWork, Total, SumOf
  <2> QED BY <1>1, <2>2, <2>3 DEF WorkReported, WorkInv, Counters
<1> QED BY <1>1, WorkInvariance, PTL

=============================================================================
