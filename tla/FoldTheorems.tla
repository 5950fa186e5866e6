---------------------------- MODULE FoldTheorems ----------------------------
(***************************************************************************)
(* Lemmas for proofs about the folds and the recursive functions of the    *)
(* other modules, none of which names an operator as a parameter: a set    *)
(* stands where an induction rule has a predicate, and a function where it *)
(* has a step.                                                             *)
(*                                                                         *)
(* FoldLeft(op, base, q) is iter[Indices(Len(q))] for an iter defined by   *)
(*     iter[s] == IF s = {} THEN base                                      *)
(*                ELSE op(iter[s \ {Max(s)}], q[Max(s)])                   *)
(* Nothing is known of iter until some function is shown to satisfy the    *)
(* equation.  FoldLeftExists gives one, for an op that stays in a set;     *)
(* IndicesUpTo then unrolls iter[Indices(k)] along the sequence.           *)
(***************************************************************************)
EXTENDS SequencesExt, FiniteSetTheorems, SequenceTheorems, TLAPS

-----------------------------------------------------------------------------
(* Numbers                                                                 *)

LEMMA LeastNumber ==
    ASSUME NEW T \in SUBSET Nat, T # {}
    PROVE  \E n \in T : \A m \in T : n <= m
<1> DEFINE Upto == {1 .. n : n \in T}
<1>1. Upto \subseteq FiniteSubsetsOf(Nat) /\ Upto # {}
  <2>1. ASSUME NEW n \in T PROVE 1 .. n \in FiniteSubsetsOf(Nat)
    <3>1. IsFiniteSet(1 .. n)
      BY FS_Interval
    <3>2. 1 .. n \in SUBSET Nat
      OBVIOUS
    <3> QED
      BY <3>1, <3>2 DEF FiniteSubsetsOf
  <2> QED
    BY <2>1
<1>2. \E S \in Upto : \A R \in Upto : <<R, S>> \notin StrictSubsetOrdering(Nat)
  <2> HIDE DEF Upto
  <2> QED
    BY <1>1, WFMin, FS_StrictSubsetOrderingWellFounded
<1>3. PICK n \in T : \A m \in T : <<1 .. m, 1 .. n>> \notin StrictSubsetOrdering(Nat)
  BY <1>2
<1>4. \A m \in T : ~(1 .. m \subseteq 1 .. n /\ 1 .. m # 1 .. n)
  <2> TAKE m \in T
  <2>1. <<1 .. m, 1 .. n>> \in (SUBSET Nat) \X (SUBSET Nat)
    OBVIOUS
  <2> QED
    BY <1>3, <2>1 DEF StrictSubsetOrdering
<1>5. ASSUME NEW m \in T, m < n PROVE FALSE
  <2>1. 1 .. m \subseteq 1 .. n /\ n \in 1 .. n /\ n \notin 1 .. m
    BY <1>5
  <2> QED
    BY <1>4, <2>1
<1> QED
  BY <1>5

LEMMA LargestNumber ==
    ASSUME NEW n \in Nat, NEW T \in SUBSET (1 .. n), T # {}
    PROVE  \E x \in T : \A y \in T : x >= y
<1> DEFINE Below == {n - x : x \in T}
<1>1. Below \in SUBSET Nat /\ Below # {}
  <2>1. \A x \in T : x \in 1 .. n
    OBVIOUS
  <2>2. \A x \in T : n - x \in Nat
    BY <2>1
  <2> QED
    BY <2>2
<1>2. PICK d \in Below : \A e \in Below : d <= e
  <2> HIDE DEF Below
  <2> QED
    BY <1>1, LeastNumber
<1>3. PICK x \in T : d = n - x
  BY <1>2
<1>4. ASSUME NEW y \in T PROVE x >= y
  <2>1. x \in 1 .. n /\ y \in 1 .. n
    OBVIOUS
  <2>2. n - x <= n - y
    BY <1>2, <1>3
  <2> QED
    BY <2>1, <2>2
<1> QED
  BY <1>4

LEMMA MaxOfNumbers ==
    ASSUME NEW n \in Nat, NEW T \in SUBSET (1 .. n), T # {}
    PROVE  Max(T) \in T /\ \A y \in T : Max(T) >= y
BY LargestNumber DEF Max

\* Induction over the numbers, and over those up to n.
LEMMA NumbersInduction ==
    ASSUME NEW S, 0 \in S, \A n \in Nat : n \in S => n + 1 \in S
    PROVE  Nat \subseteq S
<1> DEFINE T == Nat \ S
<1> SUFFICES ASSUME T # {} PROVE FALSE
  OBVIOUS
<1>1. PICK n \in T : \A m \in T : n <= m
  BY LeastNumber
<1>2. n - 1 \in Nat /\ n - 1 \notin T
  BY <1>1
<1> QED
  BY <1>2

LEMMA UpToInduction ==
    ASSUME NEW n \in Nat, NEW S,
           0 \in S, \A k \in 1 .. n : k - 1 \in S => k \in S
    PROVE  0 .. n \subseteq S
<1> DEFINE T == {k \in Nat : k <= n => k \in S}
<1>1. 0 \in T
  OBVIOUS
<1>2. ASSUME NEW k \in Nat, k \in T PROVE k + 1 \in T
  <2> SUFFICES ASSUME k + 1 <= n PROVE k + 1 \in S
    OBVIOUS
  <2>1. k + 1 \in 1 .. n /\ (k + 1) - 1 \in S
    BY <1>2
  <2> QED
    BY <2>1
<1>3. Nat \subseteq T
  <2> HIDE DEF T
  <2> QED
    BY <1>1, <1>2, NumbersInduction
<1> QED
  BY <1>3

-----------------------------------------------------------------------------
(* A sequence of values, each made of the one before it                    *)

Iterates(f, n, first, step) ==
    f[0] = first /\ \A k \in 0 .. (n - 1) : f[k + 1] = step[k][f[k]]

IsIteration(f, S, first, step) ==
    /\ f \in [Nat -> S] /\ f[0] = first
    /\ \A n \in Nat : f[n + 1] = step[n][f[n]]

LEMMA IterationExists ==
    ASSUME NEW S, NEW first \in S, NEW step \in [Nat -> [S -> S]]
    PROVE  \E f : IsIteration(f, S, first, step)
<1> DEFINE Partial(n) == {f \in [0 .. n -> S] : Iterates(f, n, first, step)}
           Reached == {n \in Nat : \E f : f \in Partial(n)}
<1>1. 0 \in Reached
  <2>1. [k \in 0 .. 0 |-> first] \in Partial(0)
    BY DEF Iterates
  <2> QED
    BY <2>1
<1>2. ASSUME NEW n \in Nat, n \in Reached PROVE n + 1 \in Reached
  <2>1. PICK f : f \in Partial(n)
    BY <1>2
  <2> DEFINE g == [k \in 0 .. (n + 1) |->
                      IF k = n + 1 THEN step[n][f[n]] ELSE f[k]]
  <2>2. f[n] \in S /\ step[n][f[n]] \in S
    BY <2>1
  <2>3. g \in [0 .. (n + 1) -> S]
    BY <2>1, <2>2
  <2>4. Iterates(g, n + 1, first, step)
    <3>1. g[0] = first
      BY <2>1 DEF Iterates
    <3>2. ASSUME NEW k \in 0 .. n PROVE g[k + 1] = step[k][g[k]]
      <4>1. CASE k = n
        <5>1. g[n + 1] = step[n][f[n]] /\ g[n] = f[n]
          OBVIOUS
        <5> QED
          BY <4>1, <5>1
      <4>2. CASE k # n
        <5>1. k \in 0 .. (n - 1) /\ g[k + 1] = f[k + 1] /\ g[k] = f[k]
          BY <4>2
        <5> QED
          BY <5>1, <2>1 DEF Iterates
      <4> QED
        BY <4>1, <4>2
    <3> HIDE DEF g
    <3>3. (n + 1) - 1 = n
      OBVIOUS
    <3> QED
      BY <3>1, <3>2, <3>3 DEF Iterates
  <2> QED
    BY <2>3, <2>4
<1>3. Nat \subseteq Reached
  <2> HIDE DEF Reached
  <2> QED
    BY <1>1, <1>2, NumbersInduction
<1> DEFINE G(n) == CHOOSE f : f \in Partial(n)
<1>4. \A n \in Nat : G(n) \in Partial(n)
  BY <1>3
<1>5. ASSUME NEW n \in Nat PROVE G(n + 1)[n] = G(n)[n]
  <2> DEFINE Same == {k \in Nat : k <= n => G(n + 1)[k] = G(n)[k]}
  <2> HIDE DEF G
  <2>1. G(n) \in Partial(n) /\ G(n + 1) \in Partial(n + 1)
    BY <1>4
  <2>2. 0 \in Same
    BY <2>1 DEF Iterates
  <2>3. ASSUME NEW k \in Nat, k \in Same PROVE k + 1 \in Same
    <3> SUFFICES ASSUME k + 1 <= n PROVE G(n + 1)[k + 1] = G(n)[k + 1]
      OBVIOUS
    <3>1. k \in 0 .. (n - 1) /\ k \in 0 .. ((n + 1) - 1)
      OBVIOUS
    <3>2. G(n + 1)[k] = G(n)[k]
      BY <2>3
    <3>3. G(n)[k + 1] = step[k][G(n)[k]]
      BY <2>1, <3>1 DEF Iterates
    <3>4. G(n + 1)[k + 1] = step[k][G(n + 1)[k]]
      BY <2>1, <3>1 DEF Iterates
    <3> QED
      BY <3>2, <3>3, <3>4
  <2>4. Nat \subseteq Same
    <3> HIDE DEF Same
    <3> QED
      BY <2>2, <2>3, NumbersInduction
  <2> QED
    BY <2>4
<1> DEFINE f == [n \in Nat |-> G(n)[n]]
<1> HIDE DEF G
<1>6. f \in [Nat -> S]
  BY <1>4
<1>7. f[0] = first
  BY <1>4 DEF Iterates
<1>8. ASSUME NEW n \in Nat PROVE f[n + 1] = step[n][f[n]]
  <2>1. G(n + 1) \in Partial(n + 1)
    BY <1>4
  <2>2. G(n + 1)[n + 1] = step[n][G(n + 1)[n]]
    BY <2>1 DEF Iterates
  <2> QED
    BY <2>2, <1>5
<1> QED
  BY <1>6, <1>7, <1>8 DEF IsIteration

-----------------------------------------------------------------------------
(* Folds                                                                   *)

\* iter takes a set to what one of its elements, the one that pick names,
\* makes of the value of the others.
IsFold(iter, D, S, base, step, pick) ==
    /\ iter \in [SUBSET D -> S]
    /\ iter = [s \in SUBSET D |->
                 IF s = {} THEN base ELSE step[pick[s]][iter[s \ {pick[s]}]]]

\* The value of a set of n elements is defined before that of a larger one.
LEMMA FoldExists ==
    ASSUME NEW D, IsFiniteSet(D), NEW S, NEW base \in S,
           NEW step \in [D -> [S -> S]],
           NEW pick, \A s \in SUBSET D : s # {} => pick[s] \in s
    PROVE  \E iter : IsFold(iter, D, S, base, step, pick)
<1> DEFINE start == [s \in SUBSET D |-> base]
           next == [k \in Nat |-> [G \in [SUBSET D -> S] |->
                      [s \in SUBSET D |->
                         IF s = {} THEN base
                         ELSE step[pick[s]][G[s \ {pick[s]}]]]]]
<1>1. start \in [SUBSET D -> S]
  OBVIOUS
<1>2. next \in [Nat -> [[SUBSET D -> S] -> [SUBSET D -> S]]]
  <2> SUFFICES ASSUME NEW F \in [SUBSET D -> S], NEW s \in SUBSET D, s # {}
               PROVE  step[pick[s]][F[s \ {pick[s]}]] \in S
    OBVIOUS
  <2>1. pick[s] \in D /\ F[s \ {pick[s]}] \in S
    OBVIOUS
  <2> QED
    BY <2>1
<1>3. PICK F : IsIteration(F, [SUBSET D -> S], start, next)
  <2> DEFINE Values == [SUBSET D -> S]
  <2> HIDE DEF start, next
  <2>1. start \in Values /\ next \in [Nat -> [Values -> Values]]
    BY <1>1, <1>2
  <2> SUFFICES \E F : IsIteration(F, Values, start, next)
    OBVIOUS
  <2> HIDE DEF Values
  <2> QED
    BY <2>1, IterationExists
<1>4. /\ F \in [Nat -> [SUBSET D -> S]] /\ F[0] = start
      /\ \A k \in Nat : F[k + 1] = next[k][F[k]]
  BY <1>3 DEF IsIteration
<1>5. ASSUME NEW s \in SUBSET D
      PROVE  /\ Cardinality(s) \in Nat
             /\ s # {} => Cardinality(s) = Cardinality(s \ {pick[s]}) + 1
  <2>1. IsFiniteSet(s)
    BY FS_Subset
  <2>2. Cardinality(s) \in Nat
    BY <2>1, FS_CardinalityType
  <2>3. ASSUME s # {}
        PROVE  Cardinality(s) = Cardinality(s \ {pick[s]}) + 1
    <3>1. pick[s] \in s
      BY <2>3
    <3>2. Cardinality(s \ {pick[s]}) = Cardinality(s) - 1
      BY <2>1, <3>1, FS_RemoveElement
    <3> QED
      BY <2>2, <3>2
  <2> QED
    BY <2>2, <2>3
<1> DEFINE iter == [s \in SUBSET D |-> F[Cardinality(s)][s]]
           equation == [s \in SUBSET D |->
                          IF s = {} THEN base
                          ELSE step[pick[s]][iter[s \ {pick[s]}]]]
<1>6. iter \in [SUBSET D -> S]
  <2>1. ASSUME NEW s \in SUBSET D PROVE F[Cardinality(s)][s] \in S
    <3>1. F[Cardinality(s)] \in [SUBSET D -> S]
      BY <1>4, <1>5
    <3> QED
      BY <3>1
  <2> QED
    BY <2>1
<1>7. iter[{}] = base
  <2>1. Cardinality({}) = 0
    BY FS_EmptySet
  <2> QED
    BY <2>1, <1>4
<1>8. ASSUME NEW s \in SUBSET D, s # {}
      PROVE  iter[s] = step[pick[s]][iter[s \ {pick[s]}]]
  <2> DEFINE rest == s \ {pick[s]}
             size == Cardinality(rest)
  <2>1. rest \in SUBSET D /\ size \in Nat
    BY <1>5
  <2>2. F[size + 1] = next[size][F[size]] /\ F[size] \in [SUBSET D -> S]
    BY <2>1, <1>4
  <2>3. F[size + 1][s] = step[pick[s]][F[size][rest]]
    BY <2>1, <2>2, <1>8
  <2>4. Cardinality(s) = size + 1
    BY <1>5, <1>8
  <2> QED
    BY <2>1, <2>3, <2>4
<1>9. iter = equation
  <2>1. \A s \in SUBSET D : iter[s] = equation[s]
    BY <1>7, <1>8
  <2>2. DOMAIN iter = SUBSET D /\ DOMAIN equation = SUBSET D
    OBVIOUS
  <2> QED
    BY <2>1, <2>2
<1> QED
  BY <1>6, <1>9 DEF IsFold

\* The values of a fold whose steps stay in a set.
LEMMA FoldStays ==
    ASSUME NEW D, IsFiniteSet(D), NEW S, NEW iter, NEW pick,
           iter[{}] \in S,
           \A s \in SUBSET D : s # {} => pick[s] \in s,
           \A s \in SUBSET D :
               s # {} /\ iter[s \ {pick[s]}] \in S => iter[s] \in S
    PROVE  \A s \in SUBSET D : iter[s] \in S
<1> SUFFICES ASSUME \E s \in SUBSET D : iter[s] \notin S
             PROVE  FALSE
  OBVIOUS
<1> DEFINE T == {Cardinality(s) : s \in {x \in SUBSET D : iter[x] \notin S}}
<1>1. ASSUME NEW s \in SUBSET D
      PROVE  IsFiniteSet(s) /\ Cardinality(s) \in Nat
  BY FS_Subset, FS_CardinalityType
<1>2. T \in SUBSET Nat /\ T # {}
  BY <1>1
<1>3. PICK n \in T : \A m \in T : n <= m
  <2> HIDE DEF T
  <2> QED
    BY <1>2, LeastNumber
<1>4. PICK s \in SUBSET D : iter[s] \notin S /\ n = Cardinality(s)
  BY <1>3
<1>5. s # {} /\ pick[s] \in s /\ iter[s \ {pick[s]}] \notin S
  BY <1>4
<1>6. Cardinality(s \ {pick[s]}) = Cardinality(s) - 1
  BY <1>1, <1>5, FS_RemoveElement
<1>7. Cardinality(s \ {pick[s]}) \in T
  BY <1>4, <1>5
<1>8. Cardinality(s) \in Nat
  BY <1>1
<1> HIDE DEF T
<1> QED
  BY <1>3, <1>4, <1>6, <1>7, <1>8

\* The case of FoldLeft: the indices of a sequence, the last one first.
Indices(n) == 1 .. n

IsFoldLeft(iter, n, S, base, step) ==
    /\ iter \in [SUBSET Indices(n) -> S]
    /\ iter = [s \in SUBSET Indices(n) |->
                 IF s = {} THEN base ELSE step[Max(s)][iter[s \ {Max(s)}]]]

LEMMA FoldLeftExists ==
    ASSUME NEW n \in Nat, NEW S, NEW base \in S,
           NEW step \in [Indices(n) -> [S -> S]]
    PROVE  \E iter : IsFoldLeft(iter, n, S, base, step)
<1> DEFINE D == Indices(n)
           pick == [s \in SUBSET D |-> Max(s)]
<1>1. IsFiniteSet(D)
  BY FS_Interval DEF Indices
<1>2. \A s \in SUBSET D : s # {} => pick[s] \in s
  BY MaxOfNumbers DEF Indices
<1>3. PICK iter : IsFold(iter, D, S, base, step, pick)
  <2> step \in [D -> [S -> S]]
    OBVIOUS
  <2> HIDE DEF D, pick
  <2> QED
    BY <1>1, <1>2, FoldExists
<1>4. iter = [s \in SUBSET D |->
                IF s = {} THEN base ELSE step[Max(s)][iter[s \ {Max(s)}]]]
  BY <1>3 DEF IsFold
<1> QED
  BY <1>3, <1>4 DEF IsFold, IsFoldLeft

LEMMA IndicesOfSeq ==
    ASSUME NEW E, NEW q \in Seq(E)
    PROVE  /\ Len(q) \in Nat /\ DOMAIN q = Indices(Len(q))
           /\ \A i \in Indices(Len(q)) : q[i] \in E
BY ElementOfSeq, LenProperties DEF Indices

LEMMA MaxOfIndices ==
    ASSUME NEW n \in Nat, NEW s \in SUBSET Indices(n), s # {}
    PROVE  Max(s) \in s
BY MaxOfNumbers DEF Indices

\* What turns the equation of iter into a step from index k - 1 to index k.
LEMMA IndicesUpTo ==
    ASSUME NEW n \in Nat
    PROVE  /\ Indices(0) = {}
           /\ \A k \in Indices(n) :
                  /\ Indices(k) \in SUBSET Indices(n) /\ Indices(k) # {}
                  /\ Max(Indices(k)) = k
                  /\ Indices(k) \ {k} = Indices(k - 1)
<1>1. ASSUME NEW k \in 1 .. n PROVE Max(1 .. k) = k
  <2>1. 1 .. k \in SUBSET (1 .. n) /\ k \in 1 .. k
    OBVIOUS
  <2>2. Max(1 .. k) \in 1 .. k /\ Max(1 .. k) >= k
    BY <2>1, MaxOfNumbers
  <2> QED
    BY <2>2
<1> QED
  BY <1>1 DEF Indices

\* What holds of the empty set of indices, and goes from those up to k - 1 to
\* those up to k, holds of all.
LEMMA IndicesInduction ==
    ASSUME NEW n \in Nat, NEW T,
           {} \in T,
           \A k \in Indices(n) : Indices(k - 1) \in T => Indices(k) \in T
    PROVE  Indices(n) \in T
<1> DEFINE K == {k \in 0 .. n : Indices(k) \in T}
<1>1. 0 \in K
  <2>1. Indices(0) = {} /\ 0 \in 0 .. n
    BY IndicesUpTo
  <2> QED
    BY <2>1
<1>2. \A k \in 1 .. n : k - 1 \in K => k \in K
  BY DEF Indices
<1>3. 0 .. n \subseteq K
  <2> HIDE DEF K
  <2> QED
    BY <1>1, <1>2, UpToInduction
<1> QED
  BY <1>3

\* The values of a fold that stays in a set.
LEMMA FoldLeftStays ==
    ASSUME NEW n \in Nat, NEW S, NEW iter,
           iter[{}] \in S,
           \A s \in SUBSET Indices(n) :
               s # {} /\ iter[s \ {Max(s)}] \in S => iter[s] \in S
    PROVE  \A k \in 0 .. n : iter[Indices(k)] \in S
<1> DEFINE K == {k \in 0 .. n : iter[Indices(k)] \in S}
<1>1. 0 \in K
  <2>1. Indices(0) = {} /\ 0 \in 0 .. n
    BY IndicesUpTo
  <2> QED
    BY <2>1
<1>2. ASSUME NEW k \in 1 .. n, k - 1 \in K PROVE k \in K
  <2>1. k \in Indices(n) /\ k \in 0 .. n
    BY DEF Indices
  <2> QED
    BY <1>2, <2>1, IndicesUpTo
<1>3. 0 .. n \subseteq K
  <2> HIDE DEF K
  <2> QED
    BY <1>1, <1>2, UpToInduction
<1> QED
  BY <1>3
=============================================================================
